SPECIFICATION Spec
CONSTANTS
  MaxFaults = 1
  MaxRuns = 1
INVARIANT NeverLeftDown
CHECK_DEADLOCK FALSE
