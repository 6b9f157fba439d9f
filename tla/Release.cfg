SPECIFICATION ReleaseSpec
CONSTANTS
  ShellWord = 262144
  Table <- MCTable
  Pairs = {"rust-source-jobs", "rust-project-source-work"}
  Required = {"rust-auth"}
  SourceJobs = "rust-source-jobs"
  SourceWork = "rust-project-source-work"
  Accounts = {ada, bob}
  Root = root
  Cap = 1
  MaxJobs = 1
  Readings <- MCReadings
INVARIANTS
  NothingStranded
  OneAnswerer
  RollbackAssembles
  StartsOnceMade
  ChatOneWriter
  ChatFollowed
  Verified
  NoOldJobMissed
  UnknownIsBusy
  MarkerTrue
  MarkerRead
  OneOwner
  RollbackStarts
  PortsValid
CHECK_DEADLOCK FALSE
