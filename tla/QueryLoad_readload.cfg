SPECIFICATION Spec
CONSTANTS
  MaxFaults = 1
  WaitMax = 3
  Duration = 4
  QueryMax = 0
INVARIANTS
  ReadLoadKept
