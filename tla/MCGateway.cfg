SPECIFICATION FairSpec
CONSTANTS
  Reqs = {r1, r2}
  Conts = {c1}
  Keys = {k1}
  Idle = 1
  Events = {"expire", "attachments", "deleteFails", "late", "forget", "crash"}
  None = None
INVARIANTS IInv LossesAreKnown HooksFollowLeases
PROPERTIES SilentStreamsEnd StoppedRequestsEnd
