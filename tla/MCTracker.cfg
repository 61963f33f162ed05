SPECIFICATION Spec
CONSTANTS
  Eps = 5
  MaxGap = 90
  Trips = {1, 2}
  Places = {0, 5, 10, 60}
  Steps = {60}
  Threshold = 2
  MaxSamples = 6
  None = None
  Faults = {}
CHECK_DEADLOCK FALSE
INVARIANTS
  TypeOK
  NoEarlyPause
  PauseMarked
  GapsOnlyInPauses
