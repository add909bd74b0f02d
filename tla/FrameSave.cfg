\* Four frames; the stream may end or fail at any time.
SPECIFICATION Spec
CONSTANTS
  Frames = 4
INVARIANTS
  IInv
  UploadsFollowPushes
  StopLeavesAtMostOne
  AttemptsAreSettled
  OnlyLastVanishes
PROPERTIES
  MainReturns
  PushedIsSettled
\* The process ends.
CHECK_DEADLOCK FALSE
