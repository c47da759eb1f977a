SPECIFICATION Spec
CONSTANTS
  Batch <- ReloadBatch
  MaxFaults = 0
  MaxRestarts = 0
INVARIANTS
  PureLoad
