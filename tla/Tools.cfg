SPECIFICATION ToolsSpec
CONSTANTS
  Options <- MCOptions
  RetryMax = 1
  Checks <- MCChecks
  Batch = 2
  Far = 3
  Objects = {config, snapshot, chunk}
  Config = config
  Snapshots = {snapshot}
  MirrorRuns = {nightly, byhand}
  MaxDelete = 1
  MaxChanges = 2
  Targets = {"web", "core"}
  First = "web"
  Follows <- MCFollows
  Cuts = {cut}
  Publishers = {one, other}
  TrailerKept = FALSE
  MaxCommits = 2
INVARIANTS
  OnlyApproved
  OnPlan
  ReportComplete
  KilledFairly
  SameModelPasses
  PassMeansParity
  PruneFollowsRetention
  OkMeansCopied
PROPERTIES EvalEnds HumanWorkKept
CHECK_DEADLOCK FALSE
