CONSTANTS
  Interval <- WorkerIntervals
  Block = 30
  Grace = 1
  Answer = 60
  LastSecond = 700
SPECIFICATION Spec
INVARIANT ExpiryRuns
CHECK_DEADLOCK FALSE
