SPECIFICATION Spec
CONSTANTS
  t1 = t1
  r1 = r1
  r2 = r2
  a = a
  b = b
  c = c
  None = None
  Create = Create
  Post = Post
  Web = Web
  Tasks = {t1}
  Runs = {r1, r2}
  TaskOf <- TaskOfTwo
  Ops = {a, b}
  KindOf <- TwoMerges
  KeepOps = {}
  PasteRuns = {}
  PrRuns = {}
  LossRuns = {}
  BootOverlap = TRUE
  MaxCrashes = 1
SYMMETRY RunSymmetry
INVARIANTS
  TypeOK
  ClaimExact
  
  NoStrandedRun
CHECK_DEADLOCK FALSE
