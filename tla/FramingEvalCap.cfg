SPECIFICATION ModelSpec
CONSTANTS
  Options <- MCOptions
  RetryMax = 1
  Checks <- MCChecks
  Batch = 2
  Far = 3
INVARIANT AbortsAtCap
CHECK_DEADLOCK FALSE
