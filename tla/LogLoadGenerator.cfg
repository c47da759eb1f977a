SPECIFICATION Spec
CONSTANTS
  Loads = {1, 5, 9}
  Parts = 2
  Cap = 3
  Second = 4
  Pause = 1
  Timeout = 6
  MaxRounds = 2
INVARIANTS
  TypeOK
  RateNotExceeded
  StoredNearSent
  KeepsUp
