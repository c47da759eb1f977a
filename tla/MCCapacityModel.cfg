SPECIFICATION Spec
CONSTANTS
  Rows <- MCRows
  Instrument = "vm"
  Loads = {0, 1, 2, 3, 4, 5}
  Horizons <- MCHorizons
  Unit = 1536
  MaxRows = 4
INVARIANTS
  EstimateIsReference
  GrowthIsBounded
  OnlyNeighboursMatter
  HoldoutIsForecast
