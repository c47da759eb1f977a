SPECIFICATION Spec
CONSTANTS
  Batch <- LogsBatch
  MaxFaults = 1
  MaxRestarts = 1
INVARIANTS
  LogRowsPure
  LoadStopped
  NothingNewAfterSignal
PROPERTIES
  LedgerSpec
  BatchEnds
