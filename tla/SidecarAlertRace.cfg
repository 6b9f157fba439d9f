SPECIFICATION Spec
CONSTANTS
  Containers = {web}
  OneShots = {}
  Crashing = {web}
  Checks = {check}
  Acks = {up}
  OneshotMax = 1
  Overlap = TRUE
  MaxChanges = 2
  MaxFaults = 0
INVARIANT KnownDeployQuiet
CHECK_DEADLOCK FALSE
