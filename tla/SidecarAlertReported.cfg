SPECIFICATION FairSpec
CONSTANTS
  Containers = {web}
  OneShots = {}
  Crashing = {web}
  Checks = {check, check2}
  Acks = {up}
  OneshotMax = 1
  Overlap = TRUE
  MaxChanges = 2
  MaxFaults = 1
INVARIANT NothingSwallowed
PROPERTY ChangesReported
CHECK_DEADLOCK FALSE
