SPECIFICATION Spec
CONSTANTS
  Users = {u1, u2}
  Conns = {c1, c2}
  Tokens = {t1, t2}
  TripIds = {i1}
  None = None
  Faults = {"send", "db", "crash"}
INVARIANT TrackedTripsOpen
PROPERTIES
  OwnerActs
  LeavingEnds
  ImplementsSessions
