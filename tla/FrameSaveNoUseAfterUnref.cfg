SPECIFICATION Spec
CONSTANTS
  Frames = 2
INVARIANTS
  NoUseAfterUnref
CHECK_DEADLOCK FALSE
