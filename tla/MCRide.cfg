SPECIFICATION Spec
CONSTANTS
  Eps = 1
  Nodes <- MCNodes
  At <- MCAt
  Adj <- MCAdj
  Speeds = {2, 3}
  Drives = {2, 5}
  Pauses = {2, 7, 10}
  Ticks = {1}
  MaxSteps = 5
  None = None
  Period = 3
  Threshold = 2
INVARIANTS
  RideTypeOK
  LongPausesSeen
PROPERTIES
  NoJumps
  DrivesAndPauses
