SPECIFICATION StreamFairSpec
CONSTANTS
  MaxEvents = 3
  Options <- MCOptions
INVARIANTS SuccessIsWhole StreamIsWhole LateFramesAreOfOneEvent
PROPERTIES FailureEndsStream IdleEndsStream
CHECK_DEADLOCK FALSE
