SPECIFICATION Spec
CONSTANTS
  Frames = 2
INVARIANTS
  StopWaitsForUploads
CHECK_DEADLOCK FALSE
