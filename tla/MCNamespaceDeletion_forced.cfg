SPECIFICATION Spec
CONSTANTS
  ForceAfter = 2
  Deadline = 5
  Stuck <- StuckKinds
  MaxFaults = 2
PROPERTIES
  ForcedOnlyWhenStuck
