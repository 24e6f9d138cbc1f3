SPECIFICATION FairSpec
CONSTANTS
  u1 = u1  u2 = u2  p1 = p1  p2 = p2  t1 = t1
  c1 = c1  call = call
  Ids = {p1, p2, t1}
  Clients = {c1}
  MaxTurns = 2
  Events = {"concurrent", "late"}
  Error = Error
  None = None
  Kind <- MCKind
  Call <- MCCall
INVARIANTS QueuesLeadToPending OneServedPerKind PendingIsOfThisSend
PROPERTIES AcceptedAnswersStay OrderlyAnswersMatch HandlersReturn
CHECK_DEADLOCK FALSE
