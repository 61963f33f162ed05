SPECIFICATION Spec
CONSTANTS
  Users = {u1, u2}
  Conns = {c1, c2}
  Tokens = {t1, t2}
  TripIds = {i1, i2}
  None = None
  Faults = {"send", "crash"}
INVARIANTS
  TypeOK
  LookupStands
  NothingLeftOpen
PROPERTY NoNewOrphan
