SPECIFICATION FairSpec
CONSTANTS
  t1 = t1
  r1 = r1
  r2 = r2
  a = a
  b = b
  c = c
  None = None
  Create = Create
  Post = Post
  Web = Web
  Tasks = {t1}
  Runs = {r1}
  TaskOf <- TaskOfOne
  Ops = {a, b, c}
  KindOf <- MergePrFix
  KeepOps = {}
  PasteRuns = {r1}
  PrRuns = {r1}
  LossRuns = {}
  BootOverlap = FALSE
  MaxCrashes = 1
PROPERTIES
  OpsAnswered
  CleanupEnds
CHECK_DEADLOCK FALSE
