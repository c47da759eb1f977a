SPECIFICATION Spec
CONSTANTS
  Batch <- MetricsBatch
  MaxFaults = 2
  MaxRestarts = 0
INVARIANTS
  TypeOK
  RowFaithful
  OneGeneration
  FailureIsolation
  ExitTellsRows
