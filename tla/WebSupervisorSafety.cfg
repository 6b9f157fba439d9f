SPECIFICATION Spec
CONSTANTS
  ShellWord = 262144
  Pairs <- MCPairs
  SourceJobs <- MCSourceJobs
  SourceWork <- MCSourceWork
  Required <- MCRequired
  Images <- MCImages
  Starts = {s1, s2}
  MaxSignals = 2
  SignalPhases <- Every
INVARIANTS TypeOK SingleWriter
PROPERTY PairSpec
CHECK_DEADLOCK FALSE
SYMMETRY Symmetry
