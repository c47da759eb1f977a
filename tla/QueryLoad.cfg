SPECIFICATION Spec
CONSTANTS
  MaxFaults = 3
  WaitMax = 3
  Duration = 4
  QueryMax = 2
INVARIANTS
  TypeOK
  TunnelClosedOnce
  NilMeansFullLoad
PROPERTIES
  SignalEndsLoad
  NoGoroutineLeak
  ReturnsIfReady
