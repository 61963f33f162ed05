SPECIFICATION Spec
CONSTANTS
  Users = {u1, u2}
  Conns = {c1}
  Tokens = {t1, t2}
  None = None
  Faults = {}
  Cap = 2
  MaxBroadcasts = 4
INVARIANTS
  TypeOK
  CatchesUp
PROPERTIES
  Delivered
  OperatorGoesOn
