SPECIFICATION Spec
CONSTANTS
  u1 = u1  u2 = u2  p1 = p1  p2 = p2  t1 = t1
  c1 = c1  call = call
  Ids = {u1, u2}
  Clients = {c1}
  MaxTurns = 1
  Events = {"concurrent"}
  Error = Error
  None = None
  Kind <- MCKind
  Call <- MCCall
PROPERTIES AnswersReachTheirRequest
CHECK_DEADLOCK FALSE
