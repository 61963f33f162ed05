SPECIFICATION Spec
CONSTANTS
  Users = {u1, u2}
  Tokens = {1, 2, 3}
  None = None
  MaxQueue = 4
CHECK_DEADLOCK FALSE
INVARIANTS
  TypeOK
  ResumeAnswersFirst
PROPERTY LogoutReturns
