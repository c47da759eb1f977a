SPECIFICATION Spec
CONSTANTS
  Batch <- RerunBatch
  MaxFaults = 3
  MaxRestarts = 2
INVARIANTS
  RowFaithful
  FailureIsolation
