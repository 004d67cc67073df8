----------------------------- MODULE MCTaskRuns -----------------------------
(* Instances of TaskRuns for TLC: one task fanned out to a few runs and a few  *)
(* operation ids, whose methods the configurations choose.                     *)
EXTENDS TaskRuns, TLC

CONSTANTS t1, r1, r2, a, b, c

OneTask(runs) == [r \in runs |-> t1]

TaskOfTwo   == OneTask({r1, r2})
TaskOfOne   == OneTask({r1})

\* methods of the operation ids
TwoMerges     == a :> "merge.local" @@ b :> "merge.local"
MergeDiscard  == a :> "merge.local" @@ b :> "discard"
PrMerges      == a :> "pr.merge" @@ b :> "merge.local"
MergePrFix    == a :> "merge.local" @@ b :> "pr.create" @@ c :> "fix"
MergeDiscardReopen == MergeDiscard @@ c :> "reopen"

RunSymmetry == Permutations({r1, r2})
=============================================================================
