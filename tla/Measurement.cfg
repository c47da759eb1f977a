SPECIFICATION Spec
CONSTANTS
  Usages = {1, 2}
  None = None
  CollectEvery = 1
  ScrapeEvery = 2
  Step = 2
  Duration = 8
  Warmup = 3
  Timeout = 2
  CloseMax = 0
  MaxFaults = 1
INVARIANTS
  TypeOK
  SustainedPeakSeen
  FigureIsRecent
  WindowClean
PROPERTIES
  CollectEnds
