SPECIFICATION Spec
CONSTANTS
  t1 = t1
  r1 = r1
  r2 = r2
  a = a
  b = b
  c = c
  None = None
  Create = Create
  Post = Post
  Web = Web
  Tasks = {t1}
  Runs = {r1, r2}
  TaskOf <- TaskOfTwo
  Ops = {a, b}
  KindOf <- PrMerges
  KeepOps = {b}
  PasteRuns = {}
  PrRuns = {r1}
  LossRuns = {r1}
  BootOverlap = FALSE
  MaxCrashes = 1
INVARIANTS
  SingleWinner
  MergedIsMerged
CHECK_DEADLOCK FALSE
