SPECIFICATION Spec
CONSTANTS
  Users = {u1, u2}
  Conns = {c1, c2}
  Tokens = {t1, t2, t3}
  None = None
  Faults = {"send", "crash"}
INVARIANTS
  TypeOK
  SingleSession
  SessionOwned
  TokenBound
  SinkRoute
  NoGhostStatus
PROPERTIES
  NeverEvicted
  CleanBreak
  AccountFreed
  ExclusiveAccounts
