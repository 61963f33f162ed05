SPECIFICATION Spec
CONSTANTS
  Eps = 5
  MaxGap = 90
  Trips = {1, 2}
  Places = {0, 5, 60}
  Steps = {0, 60}
  Threshold = 2
  MaxSamples = 4
  None = None
  Faults = {"db"}
  Years <- MCYears
CHECK_DEADLOCK FALSE
INVARIANTS
  TripsAddUp
  IntervalsAddUp
  DatesRight
