SPECIFICATION AlertSpec
CONSTANTS
  Containers = {web, verify}
  OneShots = {verify}
  Crashing = {web}
  Checks = {check}
  Acks = {up}
  OneshotMax = 1
  Overlap = FALSE
  MaxChanges = 2
  MaxFaults = 1
  RemoteRuns = {check, ack}
  RemoteAcks = {ack}
  Threshold = 2
  RemoteFaults = 2
INVARIANTS KnownDeployQuiet OneNoticePerTurn
PROPERTY TurnsTold
CHECK_DEADLOCK FALSE
