SPECIFICATION Spec
CONSTANTS
  Users = {u1, u2}
  Tokens = {1, 2}
  Trips = {1, 2}
  None = None
  Faults = {"db", "lost"}
  MaxQueue = 2
CHECK_DEADLOCK FALSE
INVARIANTS
  TypeOK
  KnownIsOpen
PROPERTIES
  KeepsReporting
  LivesOfTrips
