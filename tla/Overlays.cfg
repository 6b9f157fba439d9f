SPECIFICATION OverlaySpec
CONSTANTS
  MaxFaults = 3
  MaxRuns = 3
  MaxReleases = 3
  Overlap = FALSE
INVARIANTS
  DiaryRunning
  DiaryRolledBack
  DiaryNamed
  OneRelease
PROPERTY NoStrayCandidate
CHECK_DEADLOCK FALSE
