SPECIFICATION Spec
CONSTANTS
  Reqs = {r1}
  Conts = {}
  Keys = {k1}
  Idle = 0
  Events = {"attachments"}
  None = None
INVARIANTS ReusedSessionIsWhole
