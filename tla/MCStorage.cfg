SPECIFICATION Spec
CONSTANTS
  p1 = p1
  p2 = p2
  None = None
  Process <- TwoProcesses
  OldRows <- OldDatabases
  Entries <- NewExperiments
  MaxFaults = 2
  MaxStarts = 4
  MaxRows = 4
INVARIANTS
  TypeOK
  ReadyIsMigrated
  CleanStart
PROPERTIES
  TableSpec
