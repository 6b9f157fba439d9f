SPECIFICATION FairSpec
CONSTANTS
  ShellWord = 262144
  Pairs <- MCPairs
  SourceJobs <- MCSourceJobs
  SourceWork <- MCSourceWork
  Required <- MCRequired
  Images <- MCImagesPaired
  Starts = {s1, s2}
  MaxSignals = 1
  SignalPhases <- Steady
INVARIANTS FrontStopsFirst JoinedAtExit
PROPERTY EitherEndsBoth
CHECK_DEADLOCK FALSE
