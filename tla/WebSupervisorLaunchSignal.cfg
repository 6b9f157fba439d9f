SPECIFICATION FairSpec
CONSTANTS
  ShellWord = 262144
  Pairs <- MCPairs
  SourceJobs <- MCSourceJobs
  SourceWork <- MCSourceWork
  Required <- MCRequired
  Images <- MCImagesPaired
  Starts = {s1}
  MaxSignals = 1
  SignalPhases <- Launches
INVARIANT FrontStopsFirst
CHECK_DEADLOCK FALSE
