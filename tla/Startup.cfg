\* Every build, every configuration, and up to three elements that cannot be made.
SPECIFICATION Spec
CONSTANTS
  MaxMissing = 3
INVARIANTS
  IInv
  FailureLeavesNothingRunning
  RunningIsWhole
  FilterAsConfigured
  ReadyBeforePlaying
  HandsOver
\* main returns, or waits in its loop.
CHECK_DEADLOCK FALSE
