SPECIFICATION StreamSpec
CONSTANTS
  MaxEvents = 2
  Options <- MCOptions
INVARIANTS ReasoningIsMirrored
CHECK_DEADLOCK FALSE
