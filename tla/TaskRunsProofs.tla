--------------------------- MODULE TaskRunsProofs ---------------------------
(***************************************************************************)
(* Type correctness of TaskRuns, its merges, its ops and its passing       *)
(* states, for every set of tasks, runs and operations, every bound on     *)
(* crashes, and, but for the ops, both settings of BootOverlap.            *)
(*                                                                         *)
(* TypeOK is cut into the types of nine groups of variables.  A lemma      *)
(* about each helper of the handlers (Goto, SetRun, EndOp, FinishMerge,    *)
(* PipelineEnd ...) says that it keeps the variables it writes in their    *)
(* types.  TypeStep then goes through the actions: what the action leaves  *)
(* alone is one step, each group it writes another.                        *)
(***************************************************************************)
EXTENDS TaskRuns, FiniteSetTheorems, TLAPS

TaskTyped ==
  /\ taskState \in [Tasks -> {"open", "merged", "closed"}]
  /\ winner \in [Tasks -> Runs \cup {None}]

StatesTyped == runState \in [Runs -> RunStates]

OpsTyped ==
  /\ pc \in [Bodies -> Pcs]
  /\ runOp \in [Runs -> OpRecs \cup {NoOp}]
  /\ outcome \in [Ops \X Runs -> {"new", "running", "ok", "error"}]

RecordTyped ==
  /\ based \subseteq Runs
  /\ seenPr \in [Runs -> {"none", "open", "merged"}]
  /\ deleted \subseteq Tasks

WorldTyped ==
  /\ wt \subseteq Runs
  /\ landed \subseteq Runs
  /\ pr \in [Runs -> {"none", "open", "merged"}]
  /\ agent \in [Runs -> {"gone", "unknown", "idle", "working"}]

PostTyped ==
  /\ postLeft \in [Runs -> SUBSET Runs]
  /\ postAt \in [Runs -> Runs \cup {None}]

LockTyped  == lock \in Holders \cup {None} /\ claimed \subseteq Tasks
TimerTyped == turnEval \subseteq Runs /\ poll \subseteq Runs

ProcessTyped ==
  /\ phase \in {"up", "down", "boot"}
  /\ rec \subseteq Runs
  /\ recAt \in Runs \cup {None}
  /\ crashes \in 0..MaxCrashes

-----------------------------------------------------------------------------
(* The helpers *)

\* Every place a body can be at is a place of Pcs (the set behind the type of pc).
LEMMA PlacesInPcs ==
  {"status", "mwait", "merge", "finish", "view", "ghmerge", "after",
   "idle", "git", "check", "dwait", "remove", "removed", "fix", "reopen", "wtwait",
   "add", "added", "prep", "prepared", "starting", "ready", "deliver", "resume",
   "keep", "others", "owait", "oremove", "oremoved"} \subseteq Pcs
  BY DEF Pcs, MergePcs

\* The run states the handlers write are the states of the record's state field.
LEMMA StatesInRunStates ==
  {"creating", "launching", "running", "review_ready", "merging", "merged", "failed",
   "discarded"} \subseteq RunStates
  BY DEF RunStates

\* An operation on a run, and a pipeline of a run, is a body and may hold the
\* repository lock; so may the creation of a task (withRepoLock).
LEMMA InBodies ==
  /\ \A o \in Ops \cup {Create, Post}, r \in Runs : <<o, r>> \in Bodies /\ <<o, r>> \in Holders
  /\ \A t \in Tasks : <<Create, t>> \in Holders
  BY DEF Bodies, Holders

\* The task of a run is a task, its other runs are runs.
LEMMA OthersType ==
  ASSUME NEW r \in Runs
  PROVE  Task(r) \in Tasks /\ OtherRuns(r) \in SUBSET Runs
  BY RunsAssumption DEF Task, OtherRuns, RunsOf

\* The op records that the handlers write (beginOp, finishMerge, postMerge).
LEMMA OpRecsType ==
  /\ \A o \in Ops : [id |-> o, kind |-> KindOf[o]] \in OpRecs
  /\ \A o \in Ops \cup {Web} : [id |-> o, kind |-> "cleanup"] \in OpRecs
  /\ [id |-> Post, kind |-> "discard"] \in OpRecs
<1>1. Kinds \cup {"cleanup", "discard"} \subseteq OpKinds
  BY DEF OpKinds, Kinds
<1>2. \A o \in Ops : KindOf[o] \in Kinds
  BY RunsAssumption
<1> QED BY <1>1, <1>2 DEF OpRecs

\* A body that moves on to another await leaves pc well typed (Goto).
LEMMA GotoType ==
  ASSUME TypeOK, NEW b \in Bodies, NEW place \in Pcs, Goto(b, place)
  PROVE  pc' \in [Bodies -> Pcs]
  BY DEF TypeOK, Goto

\* Writing a run's state leaves the run states well typed (SetRun).
LEMMA SetRunType ==
  ASSUME TypeOK, NEW r \in Runs, NEW s \in RunStates, SetRun(r, s)
  PROVE  StatesTyped'
  BY DEF TypeOK, SetRun, StatesTyped

\* beginOp leaves the bodies, the op records and the outcomes well typed.
LEMMA BeginOpType ==
  ASSUME TypeOK, NEW o \in Ops, NEW r \in Runs, BeginOp(o, r)
  PROVE  OpsTyped'
<1>1. FirstPc(o) \in Pcs
  BY RunsAssumption, PlacesInPcs DEF FirstPc, IsMerge, IsDiscard, Kinds
<1>2. pc' \in [Bodies -> Pcs]
  BY <1>1, GotoType, InBodies DEF BeginOp
<1>3. runOp' \in [Runs -> OpRecs \cup {NoOp}]
  BY OpRecsType DEF BeginOp, TypeOK
<1>4. outcome' \in [Ops \X Runs -> {"new", "running", "ok", "error"}]
  BY DEF BeginOp, TypeOK
<1> QED BY <1>2, <1>3, <1>4 DEF OpsTyped

\* endOp leaves the bodies, the op records and the outcomes well typed.
LEMMA EndOpType ==
  ASSUME TypeOK, NEW o \in Ops, NEW r \in Runs, NEW out \in {"ok", "error"}, EndOp(o, r, out)
  PROVE  OpsTyped'
<1>1. Goto(<<o, r>>, "idle")
  BY DEF EndOp
<1>2. pc' \in [Bodies -> Pcs]
  BY <1>1, GotoType, PlacesInPcs, InBodies
<1>3. runOp' \in [Runs -> OpRecs \cup {NoOp}]
  BY DEF EndOp, TypeOK
<1>4. outcome' \in [Ops \X Runs -> {"new", "running", "ok", "error"}]
  BY DEF EndOp, TypeOK
<1> QED BY <1>2, <1>3, <1>4 DEF OpsTyped

\* Taking a run out of merging leaves the run states well typed.
LEMMA UnmergingType ==
  ASSUME TypeOK, NEW r \in Runs, Unmerging(r)
  PROVE  StatesTyped'
  BY DEF TypeOK, Unmerging, StatesTyped, RunStates

\* The error path of a merge leaves what it writes well typed (rpcMergeLocal's
\* catch and its release of the claim).
LEMMA FailMergeType ==
  ASSUME TypeOK, NEW o \in Ops, NEW r \in Runs, FailMerge(o, r)
  PROVE  OpsTyped' /\ StatesTyped' /\ claimed' \subseteq Tasks
<1>1. EndOp(o, r, "error") /\ Unmerging(r) /\ claimed' \subseteq claimed
  BY DEF FailMerge
<1> QED BY <1>1, EndOpType, UnmergingType DEF TypeOK

\* finishMerge leaves run, task, winner, op and the list of other runs well typed.
LEMMA FinishMergeType ==
  ASSUME TypeOK, NEW id \in Ops \cup {Web}, NEW r \in Runs, NEW others \in SUBSET Runs,
         FinishMerge(id, r, others)
  PROVE  /\ TaskTyped' /\ StatesTyped'
         /\ runOp' \in [Runs -> OpRecs \cup {NoOp}]
         /\ postLeft' \in [Runs -> SUBSET Runs]
<1>1. StatesTyped'
  BY SetRunType, StatesInRunStates DEF FinishMerge
<1>2. TaskTyped'
  BY OthersType DEF FinishMerge, TypeOK, TaskTyped
<1>3. runOp' \in [Runs -> OpRecs \cup {NoOp}]
  BY OpRecsType DEF FinishMerge, TypeOK
<1>4. postLeft' \in [Runs -> SUBSET Runs]
  BY DEF FinishMerge, TypeOK
<1> QED BY <1>1, <1>2, <1>3, <1>4

\* So does finishMerge with the end of the merge body that called it.
LEMMA FinishClientMergeType ==
  ASSUME TypeOK, NEW o \in Ops, NEW r \in Runs, FinishClientMerge(o, r)
  PROVE  /\ TaskTyped' /\ StatesTyped' /\ OpsTyped'
         /\ postLeft' \in [Runs -> SUBSET Runs]
         /\ claimed' \subseteq Tasks
<1>1. PICK others \in SUBSET Runs : FinishMerge(o, r, others)
  BY OthersType DEF FinishClientMerge
<1>2. pc' \in [Bodies -> Pcs]
  BY InBodies, PlacesInPcs DEF FinishClientMerge, TypeOK
<1>3. outcome' \in [Ops \X Runs -> {"new", "running", "ok", "error"}]
  BY DEF FinishClientMerge, TypeOK
<1>4. claimed' \subseteq Tasks
  BY DEF FinishClientMerge, TypeOK
<1> QED BY <1>1, <1>2, <1>3, <1>4, FinishMergeType DEF OpsTyped

\* discardOne and maybeCloseTask leave the run and task states well typed.
LEMMA DiscardedType ==
  ASSUME TypeOK, NEW r \in Runs, Discarded(r)
  PROVE  StatesTyped' /\ taskState' \in [Tasks -> {"open", "merged", "closed"}]
  BY OthersType, SetRunType, StatesInRunStates DEF Discarded, TypeOK

\* The end of a launch pipeline leaves bodies, ops and outcomes well typed.
LEMMA PipelineEndType ==
  ASSUME TypeOK, NEW o \in Ops \cup {Create}, NEW r \in Runs, NEW out \in {"ok", "error"},
         PipelineEnd(o, r, out)
  PROVE  OpsTyped'
<1>1. CASE o = Create
  <2>1. Goto(<<o, r>>, "idle") /\ UNCHANGED <<runOp, outcome>>
    BY <1>1 DEF PipelineEnd
  <2>2. pc' \in [Bodies -> Pcs]
    BY <2>1, GotoType, PlacesInPcs, InBodies
  <2> QED BY <2>1, <2>2 DEF OpsTyped, TypeOK
<1>2. CASE o # Create
  BY <1>2, EndOpType DEF PipelineEnd
<1> QED BY <1>1, <1>2

\* So does the end of postMerge's discard of another run.
LEMMA PostReleaseType ==
  ASSUME TypeOK, NEW r \in Runs, NEW q, PostRelease(r, q)
  PROVE  /\ pc' \in [Bodies -> Pcs]
         /\ runOp' \in [Runs -> OpRecs \cup {NoOp}]
         /\ postAt' \in [Runs -> Runs \cup {None}]
<1>1. pc' \in [Bodies -> Pcs]
  BY GotoType, PlacesInPcs, InBodies DEF PostRelease
<1>2. runOp' \in [Runs -> OpRecs \cup {NoOp}]
  BY DEF PostRelease, TypeOK
<1>3. postAt' \in [Runs -> Runs \cup {None}]
  BY DEF PostRelease, TypeOK
<1> QED BY <1>1, <1>2, <1>3

-----------------------------------------------------------------------------
(* The actions *)

\* No step of any handler, of the agent, of a crash or of reconcile breaks a type.
LEMMA TypeStep ==
  ASSUME TypeOK, [Next]_vars
  PROVE  TypeOK'
<1> USE InBodies, OthersType, PlacesInPcs, StatesInRunStates
    DEF records, taskRec, opRec, world, posting, locks, timers, volatile, process
<1>1. ASSUME NEW o \in Ops, NEW r \in Runs, RequestOp(o, r) PROVE TypeOK'
  <2>1. UNCHANGED <<taskRec, runState, based, seenPr, world, posting, locks, timers, process>>
    BY <1>1 DEF RequestOp
  <2>2. OpsTyped'
    BY <1>1, BeginOpType DEF RequestOp, TypeOK, OpsTyped
  <2> QED BY <2>1, <2>2 DEF TypeOK, TaskTyped, StatesTyped, OpsTyped, RecordTyped, WorldTyped, PostTyped, LockTyped, TimerTyped, ProcessTyped
<1>2. ASSUME NEW o \in Ops, NEW r \in Runs, RequestMerge(o, r) PROVE TypeOK'
  <2>1. UNCHANGED <<taskRec, runState, based, seenPr, world, posting, lock, timers, process>>
    BY <1>2 DEF RequestMerge
  <2>2. OpsTyped'
    BY <1>2, BeginOpType DEF RequestMerge, TypeOK, OpsTyped
  <2>3. LockTyped'
    BY <1>2 DEF RequestMerge, TypeOK, LockTyped
  <2> QED BY <2>1, <2>2, <2>3 DEF TypeOK, TaskTyped, StatesTyped, OpsTyped, RecordTyped, WorldTyped, PostTyped, LockTyped, TimerTyped, ProcessTyped
<1>3. ASSUME NEW o \in Ops, NEW r \in Runs, RefuseMerge(o, r) PROVE TypeOK'
  <2>1. UNCHANGED <<taskRec, runState, runOp, based, seenPr, world, volatile, process>>
    BY <1>3 DEF RefuseMerge
  <2>2. OpsTyped'
    BY <1>3 DEF RefuseMerge, TypeOK, OpsTyped
  <2> QED BY <2>1, <2>2 DEF TypeOK, TaskTyped, StatesTyped, OpsTyped, RecordTyped, WorldTyped, PostTyped, LockTyped, TimerTyped, ProcessTyped
<1>4. ASSUME NEW o \in Ops, NEW t \in Tasks, DiscardAll(o, t) PROVE TypeOK'
  <2>1. UNCHANGED <<taskRec, runState, based, seenPr, world, posting, locks, timers, process>>
    BY <1>4 DEF DiscardAll
  <2>2. OpsTyped'
    <3>1. runOp' \in [Runs -> OpRecs \cup {NoOp}]
      BY <1>4, OpRecsType DEF DiscardAll, TypeOK
    <3>2. outcome' \in [Ops \X Runs -> {"new", "running", "ok", "error"}]
      BY <1>4 DEF DiscardAll, TypeOK
    <3>3. pc' \in [Bodies -> Pcs]
      BY <1>4 DEF DiscardAll, TypeOK
    <3> QED BY <3>1, <3>2, <3>3 DEF OpsTyped
  <2> QED BY <2>1, <2>2 DEF TypeOK, TaskTyped, StatesTyped, OpsTyped, RecordTyped, WorldTyped, PostTyped, LockTyped, TimerTyped, ProcessTyped
<1>5. ASSUME NEW t \in Tasks, DeleteTask(t) PROVE TypeOK'
  <2>1. UNCHANGED <<runState, opRec, taskState, winner, based, seenPr, world, volatile, process>>
    BY <1>5 DEF DeleteTask
  <2>2. RecordTyped'
    BY <1>5 DEF DeleteTask, TypeOK, RecordTyped
  <2> QED BY <2>1, <2>2 DEF TypeOK, TaskTyped, StatesTyped, OpsTyped, RecordTyped, WorldTyped, PostTyped, LockTyped, TimerTyped, ProcessTyped
<1>6. ASSUME NEW r \in Runs, PrStatus(r) PROVE TypeOK'
  <2>1. UNCHANGED <<records, world, pc, posting, locks, turnEval, process>>
    BY <1>6 DEF PrStatus
  <2>2. TimerTyped'
    BY <1>6 DEF PrStatus, TypeOK, TimerTyped
  <2> QED BY <2>1, <2>2 DEF TypeOK, TaskTyped, StatesTyped, OpsTyped, RecordTyped, WorldTyped, PostTyped, LockTyped, TimerTyped, ProcessTyped
<1>7. ASSUME NEW r \in Runs, PromptDelivered(r) PROVE TypeOK'
  <2>1. UNCHANGED <<taskRec, opRec, based, seenPr, world, volatile, process>>
    BY <1>7 DEF PromptDelivered
  <2>2. StatesTyped'
    BY <1>7, SetRunType DEF PromptDelivered, TypeOK, StatesTyped
  <2> QED BY <2>1, <2>2 DEF TypeOK, TaskTyped, StatesTyped, OpsTyped, RecordTyped, WorldTyped, PostTyped, LockTyped, TimerTyped, ProcessTyped
<1>8. ASSUME NEW o \in Ops, NEW r \in Runs, EndGit(o, r) PROVE TypeOK'
  <2>1. UNCHANGED <<taskRec, runState, based, wt, landed, agent, posting, locks, timers, process>>
    BY <1>8 DEF EndGit
  <2>2. OpsTyped'
    BY <1>8, EndOpType DEF EndGit, TypeOK, OpsTyped
  <2>3. RecordTyped'
    <3>1. pr' \in {pr, PrOpened(r)}
      BY <1>8 DEF EndGit
    <3>2. pr' \in [Runs -> {"none", "open", "merged"}]
      BY <3>1 DEF PrOpened, TypeOK
    <3>3. seenPr' \in {seenPr, [seenPr EXCEPT ![r] = pr'[r]]} /\ UNCHANGED <<based, deleted>>
      BY <1>8 DEF EndGit
    <3> QED BY <3>2, <3>3 DEF TypeOK, RecordTyped
  <2>4. WorldTyped'
    <3>1. pr' \in {pr, PrOpened(r)} /\ UNCHANGED <<wt, landed, agent>>
      BY <1>8 DEF EndGit
    <3> QED BY <3>1 DEF PrOpened, TypeOK, WorldTyped
  <2> QED BY <2>1, <2>2, <2>3, <2>4 DEF TypeOK, TaskTyped, StatesTyped, OpsTyped, RecordTyped, WorldTyped, PostTyped, LockTyped, TimerTyped, ProcessTyped
<1>9. ASSUME NEW o \in Ops, NEW r \in Runs, MergeStatus(o, r) PROVE TypeOK'
  <2>1. UNCHANGED <<taskRec, based, seenPr, world, posting, lock, timers, process>>
    BY <1>9 DEF MergeStatus
  <2>2. StatesTyped'
    BY <1>9, SetRunType, FailMergeType DEF MergeStatus, TypeOK, StatesTyped
  <2>3. OpsTyped'
    BY <1>9, GotoType, FailMergeType DEF MergeStatus, TypeOK, OpsTyped
  <2>4. LockTyped'
    BY <1>9, FailMergeType DEF MergeStatus, TypeOK, LockTyped
  <2> QED BY <2>1, <2>2, <2>3, <2>4 DEF TypeOK, TaskTyped, StatesTyped, OpsTyped, RecordTyped, WorldTyped, PostTyped, LockTyped, TimerTyped, ProcessTyped
<1>10. ASSUME NEW o \in Ops, NEW r \in Runs, MergeLock(o, r) PROVE TypeOK'
  <2>1. UNCHANGED <<taskRec, based, seenPr, world, posting, timers, process>>
    BY <1>10 DEF MergeLock
  <2>2. StatesTyped'
    BY <1>10, FailMergeType DEF MergeLock, TypeOK, StatesTyped
  <2>3. OpsTyped'
    BY <1>10, GotoType, FailMergeType DEF MergeLock, TypeOK, OpsTyped
  <2>4. LockTyped'
    BY <1>10, FailMergeType DEF MergeLock, TypeOK, LockTyped
  <2> QED BY <2>1, <2>2, <2>3, <2>4 DEF TypeOK, TaskTyped, StatesTyped, OpsTyped, RecordTyped, WorldTyped, PostTyped, LockTyped, TimerTyped, ProcessTyped
<1>11. ASSUME NEW o \in Ops, NEW r \in Runs, MergeGit(o, r) PROVE TypeOK'
  <2>1. UNCHANGED <<taskRec, based, seenPr, wt, pr, agent, posting, timers, process>>
    BY <1>11 DEF MergeGit
  <2>2. StatesTyped'
    BY <1>11, FailMergeType DEF MergeGit, TypeOK, StatesTyped
  <2>3. OpsTyped'
    BY <1>11, GotoType, FailMergeType DEF MergeGit, TypeOK, OpsTyped
  <2>4. WorldTyped'
    BY <1>11 DEF MergeGit, TypeOK, WorldTyped
  <2>5. LockTyped'
    BY <1>11, FailMergeType DEF MergeGit, TypeOK, LockTyped
  <2> QED BY <2>1, <2>2, <2>3, <2>4, <2>5 DEF TypeOK, TaskTyped, StatesTyped, OpsTyped, RecordTyped, WorldTyped, PostTyped, LockTyped, TimerTyped, ProcessTyped
<1>12. ASSUME NEW o \in Ops, NEW r \in Runs, MergeFinish(o, r) PROVE TypeOK'
  <2>1. UNCHANGED <<deleted, based, seenPr, world, postAt, lock, timers, process>>
    BY <1>12 DEF MergeFinish
  <2>2. TaskTyped'
    BY <1>12, FinishClientMergeType DEF MergeFinish, TypeOK, TaskTyped
  <2>3. StatesTyped'
    BY <1>12, FinishClientMergeType DEF MergeFinish, TypeOK, StatesTyped
  <2>4. OpsTyped'
    BY <1>12, FinishClientMergeType DEF MergeFinish, TypeOK, OpsTyped
  <2>5. PostTyped'
    BY <1>12, FinishClientMergeType DEF MergeFinish, TypeOK, PostTyped
  <2>6. LockTyped'
    BY <1>12, FinishClientMergeType DEF MergeFinish, TypeOK, LockTyped
  <2> QED BY <2>1, <2>2, <2>3, <2>4, <2>5, <2>6 DEF TypeOK, TaskTyped, StatesTyped, OpsTyped, RecordTyped, WorldTyped, PostTyped, LockTyped, TimerTyped, ProcessTyped
<1>13. ASSUME NEW o \in Ops, NEW r \in Runs, PrMergeView(o, r) PROVE TypeOK'
  <2>1. UNCHANGED <<taskRec, based, world, posting, lock, timers, process>>
    BY <1>13 DEF PrMergeView
  <2>2. StatesTyped'
    BY <1>13, FailMergeType DEF PrMergeView, TypeOK, StatesTyped
  <2>3. OpsTyped'
    BY <1>13, GotoType, FailMergeType DEF PrMergeView, TypeOK, OpsTyped
  <2>4. RecordTyped'
    BY <1>13 DEF PrMergeView, TypeOK, RecordTyped
  <2>5. LockTyped'
    BY <1>13, FailMergeType DEF PrMergeView, TypeOK, LockTyped
  <2> QED BY <2>1, <2>2, <2>3, <2>4, <2>5 DEF TypeOK, TaskTyped, StatesTyped, OpsTyped, RecordTyped, WorldTyped, PostTyped, LockTyped, TimerTyped, ProcessTyped
<1>14. ASSUME NEW o \in Ops, NEW r \in Runs, PrMergeGh(o, r) PROVE TypeOK'
  <2>1. UNCHANGED <<taskRec, based, seenPr, wt, landed, agent, posting, lock, timers, process>>
    BY <1>14 DEF PrMergeGh
  <2>2. StatesTyped'
    BY <1>14, FailMergeType DEF PrMergeGh, TypeOK, StatesTyped
  <2>3. OpsTyped'
    BY <1>14, GotoType, FailMergeType DEF PrMergeGh, TypeOK, OpsTyped
  <2>4. WorldTyped'
    BY <1>14 DEF PrMergeGh, TypeOK, WorldTyped
  <2>5. LockTyped'
    BY <1>14, FailMergeType DEF PrMergeGh, TypeOK, LockTyped
  <2> QED BY <2>1, <2>2, <2>3, <2>4, <2>5 DEF TypeOK, TaskTyped, StatesTyped, OpsTyped, RecordTyped, WorldTyped, PostTyped, LockTyped, TimerTyped, ProcessTyped
<1>15. ASSUME NEW o \in Ops, NEW r \in Runs, PrMergeAfter(o, r) PROVE TypeOK'
  <2>1. UNCHANGED <<deleted, based, world, postAt, lock, timers, process>>
    BY <1>15 DEF PrMergeAfter
  <2>2. TaskTyped'
    BY <1>15, FinishClientMergeType DEF PrMergeAfter, TypeOK, TaskTyped
  <2>3. StatesTyped'
    BY <1>15, FailMergeType, FinishClientMergeType, UnmergingType DEF PrMergeAfter, TypeOK, StatesTyped
  <2>4. OpsTyped'
    BY <1>15, EndOpType, FailMergeType, FinishClientMergeType DEF PrMergeAfter, TypeOK, OpsTyped
  <2>5. RecordTyped'
    BY <1>15 DEF PrMergeAfter, TypeOK, RecordTyped
  <2>6. PostTyped'
    BY <1>15, FinishClientMergeType DEF PrMergeAfter, TypeOK, PostTyped
  <2>7. LockTyped'
    BY <1>15, FailMergeType, FinishClientMergeType DEF PrMergeAfter, TypeOK, LockTyped
  <2> QED BY <2>1, <2>2, <2>3, <2>4, <2>5, <2>6, <2>7 DEF TypeOK, TaskTyped, StatesTyped, OpsTyped, RecordTyped, WorldTyped, PostTyped, LockTyped, TimerTyped, ProcessTyped
<1>16. ASSUME NEW r \in Runs, GithubMerges(r) PROVE TypeOK'
  <2>1. UNCHANGED <<records, wt, landed, agent, volatile, process>>
    BY <1>16 DEF GithubMerges
  <2>2. WorldTyped'
    BY <1>16 DEF GithubMerges, TypeOK, WorldTyped
  <2> QED BY <2>1, <2>2 DEF TypeOK, TaskTyped, StatesTyped, OpsTyped, RecordTyped, WorldTyped, PostTyped, LockTyped, TimerTyped, ProcessTyped
<1>17. ASSUME NEW r \in Runs, PollStart(r) PROVE TypeOK'
  <2>1. UNCHANGED <<records, world, pc, posting, locks, turnEval, process>>
    BY <1>17 DEF PollStart
  <2>2. TimerTyped'
    BY <1>17 DEF PollStart, TypeOK, TimerTyped
  <2> QED BY <2>1, <2>2 DEF TypeOK, TaskTyped, StatesTyped, OpsTyped, RecordTyped, WorldTyped, PostTyped, LockTyped, TimerTyped, ProcessTyped
<1>18. ASSUME NEW r \in Runs, ApplyPrView(r) PROVE TypeOK'
  <2>1. UNCHANGED <<deleted, outcome, based, world, postAt, locks, turnEval, process>>
    BY <1>18 DEF ApplyPrView
  <2>2. TaskTyped'
    BY <1>18, FinishMergeType DEF ApplyPrView, TypeOK, TaskTyped
  <2>3. StatesTyped'
    BY <1>18, FinishMergeType DEF ApplyPrView, TypeOK, StatesTyped
  <2>4. OpsTyped'
    <3>1. runOp' \in [Runs -> OpRecs \cup {NoOp}]
      BY <1>18, FinishMergeType DEF ApplyPrView, TypeOK
    <3>2. pc' \in [Bodies -> Pcs]
      BY <1>18, GotoType DEF ApplyPrView, TypeOK
    <3> QED BY <2>1, <3>1, <3>2 DEF TypeOK, OpsTyped
  <2>5. RecordTyped'
    BY <1>18 DEF ApplyPrView, TypeOK, RecordTyped
  <2>6. PostTyped'
    BY <1>18, FinishMergeType DEF ApplyPrView, TypeOK, PostTyped
  <2>7. TimerTyped'
    BY <1>18 DEF ApplyPrView, TypeOK, TimerTyped
  <2> QED BY <2>1, <2>2, <2>3, <2>4, <2>5, <2>6, <2>7 DEF TypeOK, TaskTyped, StatesTyped, OpsTyped, RecordTyped, WorldTyped, PostTyped, LockTyped, TimerTyped, ProcessTyped
<1>19. ASSUME NEW o \in Ops, NEW r \in Runs, DiscardCheck(o, r) PROVE TypeOK'
  <2>1. UNCHANGED <<taskRec, runState, based, seenPr, wt, landed, pr, posting, locks, timers, process>>
    BY <1>19 DEF DiscardCheck
  <2>2. OpsTyped'
    BY <1>19, GotoType, EndOpType DEF DiscardCheck, TypeOK, OpsTyped
  <2>3. WorldTyped'
    BY <1>19 DEF DiscardCheck, TypeOK, WorldTyped
  <2> QED BY <2>1, <2>2, <2>3 DEF TypeOK, TaskTyped, StatesTyped, OpsTyped, RecordTyped, WorldTyped, PostTyped, LockTyped, TimerTyped, ProcessTyped
<1>20. ASSUME NEW o \in Ops \cup {Post}, NEW r \in Runs, RemoveLock(o, r) PROVE TypeOK'
  <2>1. UNCHANGED <<records, world, posting, claimed, timers, process>>
    BY <1>20 DEF RemoveLock
  <2>2. OpsTyped'
    BY <1>20, GotoType DEF RemoveLock, TypeOK, OpsTyped
  <2>3. LockTyped'
    BY <1>20 DEF RemoveLock, TypeOK, LockTyped
  <2> QED BY <2>1, <2>2, <2>3 DEF TypeOK, TaskTyped, StatesTyped, OpsTyped, RecordTyped, WorldTyped, PostTyped, LockTyped, TimerTyped, ProcessTyped
<1>21. ASSUME NEW o \in Ops, NEW r \in Runs, DiscardRemove(o, r) PROVE TypeOK'
  <2>1. UNCHANGED <<taskRec, runState, based, seenPr, landed, pr, agent, posting, claimed, timers, process>>
    BY <1>21 DEF DiscardRemove
  <2>2. OpsTyped'
    BY <1>21, GotoType, EndOpType DEF DiscardRemove, TypeOK, OpsTyped
  <2>3. WorldTyped'
    BY <1>21 DEF DiscardRemove, TypeOK, WorldTyped
  <2>4. LockTyped'
    BY <1>21 DEF DiscardRemove, TypeOK, LockTyped
  <2> QED BY <2>1, <2>2, <2>3, <2>4 DEF TypeOK, TaskTyped, StatesTyped, OpsTyped, RecordTyped, WorldTyped, PostTyped, LockTyped, TimerTyped, ProcessTyped
<1>22. ASSUME NEW o \in Ops, NEW r \in Runs, DiscardDone(o, r) PROVE TypeOK'
  <2>1. UNCHANGED <<winner, deleted, based, seenPr, world, posting, locks, timers, process>>
    BY <1>22 DEF DiscardDone
  <2>2. TaskTyped'
    BY <1>22, DiscardedType DEF DiscardDone, TypeOK, TaskTyped
  <2>3. StatesTyped'
    BY <1>22, DiscardedType DEF DiscardDone, TypeOK, StatesTyped
  <2>4. OpsTyped'
    BY <1>22, EndOpType DEF DiscardDone, TypeOK, OpsTyped
  <2> QED BY <2>1, <2>2, <2>3, <2>4 DEF TypeOK, TaskTyped, StatesTyped, OpsTyped, RecordTyped, WorldTyped, PostTyped, LockTyped, TimerTyped, ProcessTyped
<1>23. ASSUME NEW r \in Runs, PostKeep(r) PROVE TypeOK'
  <2>1. UNCHANGED <<records, world, posting, locks, timers, process>>
    BY <1>23 DEF PostKeep
  <2>2. OpsTyped'
    BY <1>23, GotoType DEF PostKeep, TypeOK, OpsTyped
  <2> QED BY <2>1, <2>2 DEF TypeOK, TaskTyped, StatesTyped, OpsTyped, RecordTyped, WorldTyped, PostTyped, LockTyped, TimerTyped, ProcessTyped
<1>24. ASSUME NEW r \in Runs, PostCheck(r) PROVE TypeOK'
  <2>1. UNCHANGED <<records, wt, landed, pr, posting, locks, timers, process>>
    BY <1>24 DEF PostCheck
  <2>2. OpsTyped'
    BY <1>24, GotoType DEF PostCheck, TypeOK, OpsTyped
  <2>3. WorldTyped'
    BY <1>24 DEF PostCheck, TypeOK, WorldTyped
  <2> QED BY <2>1, <2>2, <2>3 DEF TypeOK, TaskTyped, StatesTyped, OpsTyped, RecordTyped, WorldTyped, PostTyped, LockTyped, TimerTyped, ProcessTyped
<1>25. ASSUME NEW r \in Runs, PostRemove(r) PROVE TypeOK'
  <2>1. UNCHANGED <<records, landed, pr, agent, posting, claimed, timers, process>>
    BY <1>25 DEF PostRemove
  <2>2. OpsTyped'
    BY <1>25, GotoType DEF PostRemove, TypeOK, OpsTyped
  <2>3. WorldTyped'
    BY <1>25 DEF PostRemove, TypeOK, WorldTyped
  <2>4. LockTyped'
    BY <1>25 DEF PostRemove, TypeOK, LockTyped
  <2> QED BY <2>1, <2>2, <2>3, <2>4 DEF TypeOK, TaskTyped, StatesTyped, OpsTyped, RecordTyped, WorldTyped, PostTyped, LockTyped, TimerTyped, ProcessTyped
<1>26. ASSUME NEW r \in Runs, NEW q \in Runs, PostSkip(r, q) PROVE TypeOK'
  <2>1. UNCHANGED <<records, world, pc, postAt, locks, timers, process>>
    BY <1>26 DEF PostSkip
  <2>2. PostTyped'
    BY <1>26 DEF PostSkip, TypeOK, PostTyped
  <2> QED BY <2>1, <2>2 DEF TypeOK, TaskTyped, StatesTyped, OpsTyped, RecordTyped, WorldTyped, PostTyped, LockTyped, TimerTyped, ProcessTyped
<1>27. ASSUME NEW r \in Runs, NEW q \in Runs, PostDiscard(r, q) PROVE TypeOK'
  <2>1. UNCHANGED <<taskRec, runState, outcome, based, seenPr, wt, landed, pr, locks, timers, process>>
    BY <1>27 DEF PostDiscard
  <2>2. OpsTyped'
    <3>1. runOp' \in [Runs -> OpRecs \cup {NoOp}]
      BY <1>27, OpRecsType DEF PostDiscard, TypeOK
    <3>2. pc' \in [Bodies -> Pcs]
      BY <1>27, GotoType DEF PostDiscard
    <3> QED BY <2>1, <3>1, <3>2 DEF TypeOK, OpsTyped
  <2>3. WorldTyped'
    BY <1>27 DEF PostDiscard, TypeOK, WorldTyped
  <2>4. PostTyped'
    BY <1>27 DEF PostDiscard, TypeOK, PostTyped
  <2> QED BY <2>1, <2>2, <2>3, <2>4 DEF TypeOK, TaskTyped, StatesTyped, OpsTyped, RecordTyped, WorldTyped, PostTyped, LockTyped, TimerTyped, ProcessTyped
<1>28. ASSUME NEW r \in Runs, PostOtherLock(r) PROVE TypeOK'
  <2>1. UNCHANGED <<records, world, posting, claimed, timers, process>>
    BY <1>28 DEF PostOtherLock
  <2>2. OpsTyped'
    BY <1>28, GotoType DEF PostOtherLock, TypeOK, OpsTyped
  <2>3. LockTyped'
    BY <1>28 DEF PostOtherLock, TypeOK, LockTyped
  <2> QED BY <2>1, <2>2, <2>3 DEF TypeOK, TaskTyped, StatesTyped, OpsTyped, RecordTyped, WorldTyped, PostTyped, LockTyped, TimerTyped, ProcessTyped
<1>29. ASSUME NEW r \in Runs, PostOtherRemove(r) PROVE TypeOK'
  <2>1. UNCHANGED <<taskRec, runState, outcome, based, seenPr, landed, pr, agent, postLeft, claimed, timers, process>>
    BY <1>29 DEF PostOtherRemove
  <2>2. OpsTyped'
    BY <1>29, GotoType, PostReleaseType DEF PostOtherRemove, TypeOK, OpsTyped
  <2>3. WorldTyped'
    BY <1>29 DEF PostOtherRemove, TypeOK, WorldTyped
  <2>4. PostTyped'
    BY <1>29, PostReleaseType DEF PostOtherRemove, TypeOK, PostTyped
  <2>5. LockTyped'
    BY <1>29 DEF PostOtherRemove, TypeOK, LockTyped
  <2> QED BY <2>1, <2>2, <2>3, <2>4, <2>5 DEF TypeOK, TaskTyped, StatesTyped, OpsTyped, RecordTyped, WorldTyped, PostTyped, LockTyped, TimerTyped, ProcessTyped
<1>30. ASSUME NEW r \in Runs, PostOtherDone(r) PROVE TypeOK'
  <2>1. UNCHANGED <<winner, deleted, outcome, based, seenPr, world, postLeft, locks, timers, process>>
    BY <1>30 DEF PostOtherDone
  <2>2. TaskTyped'
    BY <1>30 DEF PostOtherDone, Discarded, TypeOK, TaskTyped
  <2>3. StatesTyped'
    BY <1>30 DEF PostOtherDone, Discarded, SetRun, TypeOK, StatesTyped
  <2>4. OpsTyped'
    BY <1>30, PostReleaseType DEF PostOtherDone, TypeOK, OpsTyped
  <2>5. PostTyped'
    BY <1>30, PostReleaseType DEF PostOtherDone, TypeOK, PostTyped
  <2> QED BY <2>1, <2>2, <2>3, <2>4, <2>5 DEF TypeOK, TaskTyped, StatesTyped, OpsTyped, RecordTyped, WorldTyped, PostTyped, LockTyped, TimerTyped, ProcessTyped
<1>31. ASSUME NEW r \in Runs, PostEnd(r) PROVE TypeOK'
  <2>1. UNCHANGED <<taskRec, runState, outcome, based, seenPr, world, posting, locks, timers, process>>
    BY <1>31 DEF PostEnd
  <2>2. OpsTyped'
    BY <1>31, GotoType DEF PostEnd, TypeOK, OpsTyped
  <2> QED BY <2>1, <2>2 DEF TypeOK, TaskTyped, StatesTyped, OpsTyped, RecordTyped, WorldTyped, PostTyped, LockTyped, TimerTyped, ProcessTyped
<1>32. ASSUME NEW o \in Ops, NEW r \in Runs, FixStart(o, r) PROVE TypeOK'
  <2>1. UNCHANGED <<records, world, posting, locks, timers, process>>
    BY <1>32 DEF FixStart
  <2>2. OpsTyped'
    BY <1>32, GotoType DEF FixStart, TypeOK, OpsTyped
  <2> QED BY <2>1, <2>2 DEF TypeOK, TaskTyped, StatesTyped, OpsTyped, RecordTyped, WorldTyped, PostTyped, LockTyped, TimerTyped, ProcessTyped
<1>33. ASSUME NEW o \in Ops, NEW r \in Runs, Reopen(o, r) PROVE TypeOK'
  <2>1. UNCHANGED <<taskRec, based, seenPr, world, posting, locks, timers, process>>
    BY <1>33 DEF Reopen
  <2>2. StatesTyped'
    BY <1>33, SetRunType DEF Reopen, TypeOK, StatesTyped
  <2>3. OpsTyped'
    BY <1>33, GotoType, EndOpType DEF Reopen, TypeOK, OpsTyped
  <2> QED BY <2>1, <2>2, <2>3 DEF TypeOK, TaskTyped, StatesTyped, OpsTyped, RecordTyped, WorldTyped, PostTyped, LockTyped, TimerTyped, ProcessTyped
<1>34. ASSUME NEW t \in Tasks, CreateLock(t) PROVE TypeOK'
  <2>1. UNCHANGED <<records, world, posting, claimed, timers, process>>
    BY <1>34 DEF CreateLock
  <2>2. OpsTyped'
    BY <1>34 DEF CreateLock, TypeOK, OpsTyped
  <2>3. LockTyped'
    BY <1>34 DEF CreateLock, TypeOK, LockTyped
  <2> QED BY <2>1, <2>2, <2>3 DEF TypeOK, TaskTyped, StatesTyped, OpsTyped, RecordTyped, WorldTyped, PostTyped, LockTyped, TimerTyped, ProcessTyped
<1>35. ASSUME NEW o \in Ops, NEW r \in Runs, ReopenLock(o, r) PROVE TypeOK'
  <2>1. UNCHANGED <<records, world, posting, claimed, timers, process>>
    BY <1>35 DEF ReopenLock
  <2>2. OpsTyped'
    BY <1>35, GotoType DEF ReopenLock, TypeOK, OpsTyped
  <2>3. LockTyped'
    BY <1>35 DEF ReopenLock, TypeOK, LockTyped
  <2> QED BY <2>1, <2>2, <2>3 DEF TypeOK, TaskTyped, StatesTyped, OpsTyped, RecordTyped, WorldTyped, PostTyped, LockTyped, TimerTyped, ProcessTyped
<1>36. ASSUME NEW r \in Runs, AddWorktree(r) PROVE TypeOK'
  <2>1. UNCHANGED <<taskRec, opRec, seenPr, landed, pr, agent, posting, locks, timers, process>>
    BY <1>36 DEF AddWorktree
  <2>2. StatesTyped'
    BY <1>36, SetRunType DEF AddWorktree, TypeOK, StatesTyped
  <2>3. OpsTyped'
    BY <1>36, GotoType DEF AddWorktree, TypeOK, OpsTyped
  <2>4. RecordTyped'
    BY <1>36 DEF AddWorktree, TypeOK, RecordTyped
  <2>5. WorldTyped'
    BY <1>36 DEF AddWorktree, TypeOK, WorldTyped
  <2> QED BY <2>1, <2>2, <2>3, <2>4, <2>5 DEF TypeOK, TaskTyped, StatesTyped, OpsTyped, RecordTyped, WorldTyped, PostTyped, LockTyped, TimerTyped, ProcessTyped
<1>37. ASSUME NEW t \in Tasks, CreateUnlock(t) PROVE TypeOK'
  <2>1. UNCHANGED <<records, world, posting, claimed, timers, process>>
    BY <1>37 DEF CreateUnlock
  <2>2. OpsTyped'
    BY <1>37 DEF CreateUnlock, TypeOK, OpsTyped
  <2>3. LockTyped'
    BY <1>37 DEF CreateUnlock, TypeOK, LockTyped
  <2> QED BY <2>1, <2>2, <2>3 DEF TypeOK, TaskTyped, StatesTyped, OpsTyped, RecordTyped, WorldTyped, PostTyped, LockTyped, TimerTyped, ProcessTyped
<1>38. ASSUME NEW o \in Ops, NEW r \in Runs, ReopenAdd(o, r) PROVE TypeOK'
  <2>1. UNCHANGED <<taskRec, seenPr, landed, pr, agent, posting, claimed, timers, process>>
    BY <1>38 DEF ReopenAdd
  <2>2. StatesTyped'
    BY <1>38, SetRunType DEF ReopenAdd, TypeOK, StatesTyped
  <2>3. OpsTyped'
    BY <1>38, GotoType, EndOpType DEF ReopenAdd, TypeOK, OpsTyped
  <2>4. RecordTyped'
    BY <1>38 DEF ReopenAdd, TypeOK, RecordTyped
  <2>5. WorldTyped'
    BY <1>38 DEF ReopenAdd, TypeOK, WorldTyped
  <2>6. LockTyped'
    BY <1>38 DEF ReopenAdd, TypeOK, LockTyped
  <2> QED BY <2>1, <2>2, <2>3, <2>4, <2>5, <2>6 DEF TypeOK, TaskTyped, StatesTyped, OpsTyped, RecordTyped, WorldTyped, PostTyped, LockTyped, TimerTyped, ProcessTyped
<1>39. ASSUME NEW o \in Ops \cup {Create}, NEW r \in Runs, PrepareRun(o, r) PROVE TypeOK'
  <2>1. UNCHANGED <<taskRec, based, seenPr, wt, landed, pr, posting, locks, timers, process>>
    BY <1>39 DEF PrepareRun
  <2>2. StatesTyped'
    BY <1>39, SetRunType DEF PrepareRun, TypeOK, StatesTyped
  <2>3. OpsTyped'
    BY <1>39, GotoType, PipelineEndType DEF PrepareRun, TypeOK, OpsTyped
  <2>4. WorldTyped'
    BY <1>39 DEF PrepareRun, TypeOK, WorldTyped
  <2> QED BY <2>1, <2>2, <2>3, <2>4 DEF TypeOK, TaskTyped, StatesTyped, OpsTyped, RecordTyped, WorldTyped, PostTyped, LockTyped, TimerTyped, ProcessTyped
<1>40. ASSUME NEW t \in Tasks, LaunchAll(t) PROVE TypeOK'
  <2>1. UNCHANGED <<taskRec, opRec, based, seenPr, world, posting, locks, timers, process>>
    BY <1>40 DEF LaunchAll
  <2>2. StatesTyped'
    BY <1>40 DEF LaunchAll, TypeOK, StatesTyped
  <2>3. OpsTyped'
    BY <1>40 DEF LaunchAll, TypeOK, OpsTyped
  <2> QED BY <2>1, <2>2, <2>3 DEF TypeOK, TaskTyped, StatesTyped, OpsTyped, RecordTyped, WorldTyped, PostTyped, LockTyped, TimerTyped, ProcessTyped
<1>41. ASSUME NEW o \in Ops \cup {Create}, NEW r \in Runs, Launched(o, r) PROVE TypeOK'
  <2>1. UNCHANGED <<taskRec, based, seenPr, world, posting, locks, timers, process>>
    BY <1>41 DEF Launched
  <2>2. StatesTyped'
    BY <1>41, SetRunType DEF Launched, TypeOK, StatesTyped
  <2>3. OpsTyped'
    BY <1>41, GotoType, PipelineEndType DEF Launched, TypeOK, OpsTyped
  <2> QED BY <2>1, <2>2, <2>3 DEF TypeOK, TaskTyped, StatesTyped, OpsTyped, RecordTyped, WorldTyped, PostTyped, LockTyped, TimerTyped, ProcessTyped
<1>42. ASSUME NEW o \in Ops \cup {Create}, NEW r \in Runs, AgentReady(o, r) PROVE TypeOK'
  <2>1. UNCHANGED <<taskRec, runState, based, seenPr, world, posting, locks, timers, process>>
    BY <1>42 DEF AgentReady
  <2>2. OpsTyped'
    BY <1>42, GotoType, PipelineEndType DEF AgentReady, TypeOK, OpsTyped
  <2> QED BY <2>1, <2>2 DEF TypeOK, TaskTyped, StatesTyped, OpsTyped, RecordTyped, WorldTyped, PostTyped, LockTyped, TimerTyped, ProcessTyped
<1>43. ASSUME NEW o \in Ops \cup {Create}, NEW r \in Runs, DeliverPrompt(o, r) PROVE TypeOK'
  <2>1. UNCHANGED <<taskRec, based, seenPr, world, posting, locks, timers, process>>
    BY <1>43 DEF DeliverPrompt
  <2>2. StatesTyped'
    BY <1>43, SetRunType DEF DeliverPrompt, TypeOK, StatesTyped
  <2>3. OpsTyped'
    BY <1>43, PipelineEndType DEF DeliverPrompt, TypeOK, OpsTyped
  <2> QED BY <2>1, <2>2, <2>3 DEF TypeOK, TaskTyped, StatesTyped, OpsTyped, RecordTyped, WorldTyped, PostTyped, LockTyped, TimerTyped, ProcessTyped
<1>44. ASSUME NEW r \in Runs, AgentWorking(r) PROVE TypeOK'
  <2>1. UNCHANGED <<taskRec, opRec, based, seenPr, wt, landed, pr, volatile, process>>
    BY <1>44 DEF AgentWorking
  <2>2. StatesTyped'
    BY <1>44, SetRunType DEF AgentWorking, TypeOK, StatesTyped
  <2>3. WorldTyped'
    BY <1>44 DEF AgentWorking, TypeOK, WorldTyped
  <2> QED BY <2>1, <2>2, <2>3 DEF TypeOK, TaskTyped, StatesTyped, OpsTyped, RecordTyped, WorldTyped, PostTyped, LockTyped, TimerTyped, ProcessTyped
<1>45. ASSUME NEW r \in Runs, AgentStops(r) PROVE TypeOK'
  <2>1. UNCHANGED <<records, wt, landed, pr, pc, posting, locks, poll, process>>
    BY <1>45 DEF AgentStops
  <2>2. WorldTyped'
    BY <1>45 DEF AgentStops, TypeOK, WorldTyped
  <2>3. TimerTyped'
    BY <1>45 DEF AgentStops, TypeOK, TimerTyped
  <2> QED BY <2>1, <2>2, <2>3 DEF TypeOK, TaskTyped, StatesTyped, OpsTyped, RecordTyped, WorldTyped, PostTyped, LockTyped, TimerTyped, ProcessTyped
<1>46. ASSUME NEW r \in Runs, EvaluateTurn(r) PROVE TypeOK'
  <2>1. UNCHANGED <<taskRec, opRec, based, seenPr, world, pc, posting, locks, poll, process>>
    BY <1>46 DEF EvaluateTurn
  <2>2. StatesTyped'
    BY <1>46, SetRunType DEF EvaluateTurn, TypeOK, StatesTyped
  <2>3. TimerTyped'
    BY <1>46 DEF EvaluateTurn, TypeOK, TimerTyped
  <2> QED BY <2>1, <2>2, <2>3 DEF TypeOK, TaskTyped, StatesTyped, OpsTyped, RecordTyped, WorldTyped, PostTyped, LockTyped, TimerTyped, ProcessTyped
<1>47. ASSUME NEW r \in Runs, AgentOpensPr(r) PROVE TypeOK'
  <2>1. UNCHANGED <<records, wt, landed, agent, volatile, process>>
    BY <1>47 DEF AgentOpensPr
  <2>2. WorldTyped'
    BY <1>47 DEF AgentOpensPr, TypeOK, WorldTyped
  <2> QED BY <2>1, <2>2 DEF TypeOK, TaskTyped, StatesTyped, OpsTyped, RecordTyped, WorldTyped, PostTyped, LockTyped, TimerTyped, ProcessTyped
<1>48. ASSUME NEW r \in Runs, WorktreeLost(r) PROVE TypeOK'
  <2>1. UNCHANGED <<records, landed, pr, agent, volatile, process>>
    BY <1>48 DEF WorktreeLost
  <2>2. WorldTyped'
    BY <1>48 DEF WorktreeLost, TypeOK, WorldTyped
  <2> QED BY <2>1, <2>2 DEF TypeOK, TaskTyped, StatesTyped, OpsTyped, RecordTyped, WorldTyped, PostTyped, LockTyped, TimerTyped, ProcessTyped
<1>49. CASE Crash
  <2>1. UNCHANGED <<records, wt, landed, pr>>
    BY <1>49 DEF Crash
  <2>2. OpsTyped'
    BY <1>49 DEF Crash, TypeOK, OpsTyped
  <2>3. WorldTyped'
    BY <1>49 DEF Crash, TypeOK, WorldTyped
  <2>4. PostTyped'
    BY <1>49 DEF Crash, TypeOK, PostTyped
  <2>5. LockTyped'
    BY <1>49 DEF Crash, TypeOK, LockTyped
  <2>6. TimerTyped'
    BY <1>49 DEF Crash, TypeOK, TimerTyped
  <2>7. ProcessTyped'
    BY <1>49, RunsAssumption DEF Crash, TypeOK, ProcessTyped
  <2> QED BY <2>1, <2>2, <2>3, <2>4, <2>5, <2>6, <2>7 DEF TypeOK, TaskTyped, StatesTyped, OpsTyped, RecordTyped, WorldTyped, PostTyped, LockTyped, TimerTyped, ProcessTyped
<1>50. CASE Restart
  <2>1. UNCHANGED <<records, world, volatile, crashes>>
    BY <1>50 DEF Restart
  <2>2. ProcessTyped'
    BY <1>50 DEF Restart, TypeOK, ProcessTyped
  <2> QED BY <2>1, <2>2 DEF TypeOK, TaskTyped, StatesTyped, OpsTyped, RecordTyped, WorldTyped, PostTyped, LockTyped, TimerTyped, ProcessTyped
<1>51. ASSUME NEW r \in Runs, ReconcileOp(r) PROVE TypeOK'
  <2>1. UNCHANGED <<taskRec, based, seenPr, world, postAt, locks, timers, phase, crashes>>
    BY <1>51 DEF ReconcileOp
  <2>2. StatesTyped'
    BY <1>51, UnmergingType DEF ReconcileOp, TypeOK, StatesTyped
  <2>3. OpsTyped'
    <3>1. CASE Interrupt(r) /\ UNCHANGED pc
      <4>1. outcome' \in [Ops \X Runs -> {"new", "running", "ok", "error"}]
        BY <3>1 DEF Interrupt, TypeOK
      <4>2. runOp' \in [Runs -> OpRecs \cup {NoOp}]
        BY <3>1 DEF Interrupt, TypeOK
      <4> QED BY <3>1, <4>1, <4>2 DEF TypeOK, OpsTyped
    <3>2. CASE UNCHANGED <<runOp, outcome>>
      <4>1. CASE Goto(<<Post, r>>, "keep")
        BY <4>1, <3>2, GotoType DEF TypeOK, OpsTyped
      <4>2. CASE pc' = pc
        BY <4>2, <3>2 DEF TypeOK, OpsTyped
      <4> QED BY <1>51, <4>1, <4>2 DEF ReconcileOp
    <3> QED BY <1>51, <3>1, <3>2 DEF ReconcileOp
  <2>4. PostTyped'
    BY <1>51 DEF ReconcileOp, TypeOK, PostTyped
  <2>5. ProcessTyped'
    BY <1>51 DEF ReconcileOp, TypeOK, ProcessTyped
  <2> QED BY <2>1, <2>2, <2>3, <2>4, <2>5 DEF TypeOK, TaskTyped, StatesTyped, OpsTyped, RecordTyped, WorldTyped, PostTyped, LockTyped, TimerTyped, ProcessTyped
<1>52. ASSUME NEW r \in Runs, ReconcileState(r) PROVE TypeOK'
  <2>1. UNCHANGED <<taskRec, opRec, based, seenPr, landed, pr, agent, posting, locks, timers, phase, rec, crashes>>
    BY <1>52 DEF ReconcileState
  <2>2. StatesTyped'
    BY <1>52, SetRunType DEF ReconcileState, TypeOK, StatesTyped
  <2>3. OpsTyped'
    BY <1>52, GotoType DEF ReconcileState, TypeOK, OpsTyped
  <2>4. WorldTyped'
    BY <1>52 DEF ReconcileState, TypeOK, WorldTyped
  <2>5. ProcessTyped'
    BY <1>52 DEF ReconcileState, TypeOK, ProcessTyped
  <2> QED BY <2>1, <2>2, <2>3, <2>4, <2>5 DEF TypeOK, TaskTyped, StatesTyped, OpsTyped, RecordTyped, WorldTyped, PostTyped, LockTyped, TimerTyped, ProcessTyped
<1>53. CASE BootDone
  <2>1. UNCHANGED <<records, world, posting, locks, timers, rec, recAt, crashes>>
    BY <1>53 DEF BootDone
  <2>2. OpsTyped'
    BY <1>53 DEF BootDone, TypeOK, OpsTyped
  <2>3. ProcessTyped'
    BY <1>53 DEF BootDone, TypeOK, ProcessTyped
  <2> QED BY <2>1, <2>2, <2>3 DEF TypeOK, TaskTyped, StatesTyped, OpsTyped, RecordTyped, WorldTyped, PostTyped, LockTyped, TimerTyped, ProcessTyped
<1>54. CASE UNCHANGED vars
  BY <1>54 DEF vars, TypeOK
<1> QED
  BY <1>1, <1>2, <1>3, <1>4, <1>5, <1>6, <1>7, <1>8, <1>9, <1>10, <1>11, <1>12, <1>13,
     <1>14, <1>15, <1>16, <1>17, <1>18, <1>19, <1>20, <1>21, <1>22, <1>23, <1>24, <1>25,
     <1>26, <1>27, <1>28, <1>29, <1>30, <1>31, <1>32, <1>33, <1>34, <1>35, <1>36, <1>37,
     <1>38, <1>39, <1>40, <1>41, <1>42, <1>43, <1>44, <1>45, <1>46, <1>47, <1>48, <1>49,
     <1>50, <1>51, <1>52, <1>53, <1>54
  DEF Next, Request, OpStep, MergeStep, DiscardStep, PipelineStep, CreateStep, PostStep, Boot,
      Agent, World, RunsOf

\* Whatever requests arrive, however bodies interleave and whenever the daemon dies,
\* every variable keeps its type: only the eight run states are ever recorded, and
\* winner, op and lock only name runs, ops and bodies that exist.
THEOREM TypeCorrect == Spec => []TypeOK
<1>1. Init => TypeOK
  BY RunsAssumption, IdAssumption
  DEF Init, TypeOK, Bodies, Holders, Pcs, MergePcs, RunStates, OpRecs, NoOp
<1>2. TypeOK /\ [Next]_vars => TypeOK'
  BY TypeStep
<1> QED
  BY <1>1, <1>2, PTL DEF Spec

-----------------------------------------------------------------------------
(***************************************************************************)
(* Merges of a task: the claim is held by exactly the one merge body of    *)
(* the task (ClaimExact), a run recorded as merged is merged               *)
(* (MergedIsMerged), and only a death between git merge and finishMerge    *)
(* lets another run land (LandedBounded).                                  *)
(*                                                                         *)
(* Most of the steps have nothing to do with a merge.  MergeMoves sorts    *)
(* every step of TaskRuns into one of seven moves - a merge claims, works, *)
(* gives up or wins, the web wins, the daemon dies, or the step goes on    *)
(* beside all of that - and the invariant MergeInv is proved of the moves. *)
(***************************************************************************)

Merging(o, r) == pc[<<o, r>>] \in MergePcs

Finishing(t) == \E o \in Ops, r \in RunsOf(t) : pc[<<o, r>>] = "finish"

(* The inductive invariant *)

\* A merge body holds the claim of its task, and nobody has won the task.
ClaimsHeld ==
  \A o \in Ops, r \in Runs : Merging(o, r) =>
    /\ IsMerge(o) /\ Task(r) \in claimed
    /\ taskState[Task(r)] # "merged" /\ winner[Task(r)] = None

\* A task has one merge body at a time.
OneMerge ==
  \A o, p \in Ops, r, q \in Runs :
    Merging(o, r) /\ Merging(p, q) /\ Task(r) = Task(q) => o = p /\ r = q

\* A claim belongs to a merge body.
ClaimsUsed == \A t \in claimed : \E o \in Ops, r \in RunsOf(t) : Merging(o, r)

\* A body about to record its merge has landed its branch.
FinishLanded == \A o \in Ops, r \in Runs : pc[<<o, r>>] = "finish" => r \in landed

\* What landed is the winner's branch, or that of the body about to record it,
\* or it landed before a death of the daemon.
LandedCount ==
  \A t \in Tasks :
    /\ IsFiniteSet(landed \cap RunsOf(t))
    /\ Cardinality(landed \cap RunsOf(t)) <=
         crashes + (IF Finishing(t) \/ taskState[t] = "merged" THEN 1 ELSE 0)

MergeInv ==
  ClaimsHeld /\ OneMerge /\ ClaimsUsed /\ FinishLanded /\ LandedCount /\ MergedIsMerged

-----------------------------------------------------------------------------
(* The moves *)

\* The merge body at work on run r for o, if any, stays where it is.
SamePlace(o, r) == Merging(o, r) \/ Merging(o, r)' => pc'[<<o, r>>] = pc[<<o, r>>]

SamePlaces == \A o \in Ops, r \in Runs : SamePlace(o, r)

OthersStay(o, r) ==
  \A p \in Ops, q \in Runs : <<p, q>> # <<o, r>> => SamePlace(p, q)

\* Nothing is won, and a task that is merged stays merged.
NothingWon ==
  /\ UNCHANGED <<winner, crashes>>
  /\ \A t \in Tasks : taskState'[t] = "merged" <=> taskState[t] = "merged"
  /\ \A r \in Runs : runState'[r] = "merged" => runState[r] = "merged"
  /\ \A r \in Runs : pr[r] = "merged" => pr'[r] = "merged"

Won(r) ==
  /\ runState' = [runState EXCEPT ![r] = "merged"]
  /\ taskState' = [taskState EXCEPT ![Task(r)] = "merged"]
  /\ winner' = [winner EXCEPT ![Task(r)] = r]
  /\ UNCHANGED <<landed, pr, crashes>>

Beside == SamePlaces /\ NothingWon /\ UNCHANGED <<claimed, landed>>

Claims(o, r) ==
  /\ IsMerge(o) /\ StillOpen(Task(r)) /\ Task(r) \notin claimed
  /\ claimed' = claimed \cup {Task(r)}
  /\ pc'[<<o, r>>] = "status" /\ OthersStay(o, r)
  /\ NothingWon /\ UNCHANGED landed

Works(o, r) ==
  /\ Merging(o, r) /\ Merging(o, r)' /\ OthersStay(o, r)
  /\ pc[<<o, r>>] # "finish"
  /\ landed' = IF pc'[<<o, r>>] = "finish" THEN landed \cup {r} ELSE landed
  /\ NothingWon /\ UNCHANGED claimed

GivesUp(o, r) ==
  /\ Merging(o, r) /\ ~Merging(o, r)' /\ OthersStay(o, r)
  /\ pc[<<o, r>>] # "finish"
  /\ claimed' = claimed \ {Task(r)}
  /\ NothingWon /\ UNCHANGED landed

Wins(o, r) ==
  /\ Merging(o, r) /\ ~Merging(o, r)' /\ OthersStay(o, r)
  /\ pc[<<o, r>>] = "finish" \/ pr[r] = "merged"
  /\ claimed' = claimed \ {Task(r)}
  /\ Won(r)

WebWins(r) ==
  /\ pr[r] = "merged" /\ StillOpen(Task(r)) /\ Task(r) \notin claimed
  /\ SamePlaces
  /\ Won(r) /\ UNCHANGED claimed

Dies ==
  /\ pc' = [b \in Bodies |-> "idle"]
  /\ claimed' = {}
  /\ crashes' = crashes + 1
  /\ UNCHANGED <<taskState, winner, runState, landed, pr>>

MergeMove ==
  \/ Beside \/ Dies
  \/ \E o \in Ops, r \in Runs : Claims(o, r) \/ Works(o, r) \/ GivesUp(o, r) \/ Wins(o, r)
  \/ \E r \in Runs : WebWins(r)

-----------------------------------------------------------------------------
(* Every step is a move *)

\* The places of a body other than those of a merge.
LEMMA OtherPlaces ==
  /\ {"idle", "git", "check", "dwait", "remove", "removed", "fix", "reopen", "wtwait",
      "add", "added", "prep", "prepared", "starting", "ready", "deliver", "resume",
      "keep", "others", "owait", "oremove", "oremoved"} \cap MergePcs = {}
  /\ {"status", "mwait", "merge", "finish", "view", "ghmerge", "after"} = MergePcs
  BY DEF MergePcs

\* A body that goes from one place outside a merge to another stands beside the
\* merges (Goto).
LEMMA GotoBeside ==
  ASSUME TypeOK, NEW b \in Bodies, NEW place, place \notin MergePcs,
         pc[b] \notin MergePcs, Goto(b, place)
  PROVE  SamePlaces
  BY DEF TypeOK, Goto, SamePlaces, SamePlace, Merging, Bodies

\* So does the end of an op that is no merge (endOp).
LEMMA EndOpBeside ==
  ASSUME TypeOK, NEW o \in Ops, NEW r \in Runs, NEW out, EndOp(o, r, out),
         pc[<<o, r>>] \notin MergePcs
  PROVE  SamePlaces
<1>1. Goto(<<o, r>>, "idle")
  BY DEF EndOp
<1> QED BY <1>1, GotoBeside, InBodies, OtherPlaces

\* And the end of a launch pipeline.
LEMMA PipelineEndBeside ==
  ASSUME TypeOK, NEW o \in Ops \cup {Create}, NEW r \in Runs, NEW out, PipelineEnd(o, r, out),
         pc[<<o, r>>] \notin MergePcs
  PROVE  SamePlaces
<1>1. Goto(<<o, r>>, "idle")
  BY DEF PipelineEnd, EndOp
<1> QED BY <1>1, GotoBeside, InBodies, OtherPlaces

\* A body whose place is written leaves the other bodies where they are (Goto).
LEMMA GotoOthers ==
  ASSUME TypeOK, NEW o \in Ops, NEW r \in Runs, NEW place, Goto(<<o, r>>, place)
  PROVE  OthersStay(o, r) /\ pc'[<<o, r>>] = place
  BY InBodies DEF TypeOK, Goto, OthersStay, SamePlace, Merging, Bodies

\* Where bodies, records of tasks and pull requests are left alone and no run
\* becomes merged, the step goes on beside the merges.
LEMMA StatesBeside ==
  ASSUME NEW r \in Runs, NEW s \in RunStates, s # "merged", TypeOK,
         SetRun(r, s) \/ UNCHANGED runState
  PROVE  \A q \in Runs : runState'[q] = "merged" => runState[q] = "merged"
  BY DEF TypeOK, SetRun

\* Taking a run out of merging does not merge it.
LEMMA UnmergingBeside ==
  ASSUME NEW r \in Runs, TypeOK, Unmerging(r)
  PROVE  \A q \in Runs : runState'[q] = "merged" => runState[q] = "merged"
  BY DEF TypeOK, Unmerging

\* A discard may close the task; it merges neither run nor task.
LEMMA DiscardedBeside ==
  ASSUME NEW r, TypeOK, Discarded(r)
  PROVE  /\ \A t \in Tasks : taskState'[t] = "merged" <=> taskState[t] = "merged"
         /\ \A q \in Runs : runState'[q] = "merged" => runState[q] = "merged"
  BY DEF TypeOK, Discarded, SetRun

\* The error path of a merge: the body gives up.
LEMMA FailMergeGivesUp ==
  ASSUME NEW o \in Ops, NEW r \in Runs, TypeOK, FailMerge(o, r), Merging(o, r),
         pc[<<o, r>>] # "finish", UNCHANGED <<taskRec, landed, crashes>>,
         \A q \in Runs : pr[q] = "merged" => pr'[q] = "merged"
  PROVE  GivesUp(o, r)
<1>1. OthersStay(o, r) /\ pc'[<<o, r>>] = "idle"
  BY GotoOthers DEF FailMerge, EndOp
<1>2. NothingWon
  BY UnmergingBeside DEF NothingWon, FailMerge, taskRec
<1> QED BY <1>1, <1>2, OtherPlaces DEF GivesUp, Merging, FailMerge

\* A step of a merge that neither ends it nor lands its branch.
LEMMA GotoWorks ==
  ASSUME NEW o \in Ops, NEW r \in Runs, NEW place \in MergePcs, TypeOK,
         Goto(<<o, r>>, place), Merging(o, r), pc[<<o, r>>] # "finish",
         place # "finish", UNCHANGED <<taskRec, claimed, landed, crashes>>,
         \A q \in Runs : runState'[q] = "merged" => runState[q] = "merged",
         \A q \in Runs : pr[q] = "merged" => pr'[q] = "merged"
  PROVE  Works(o, r)
<1>1. OthersStay(o, r) /\ pc'[<<o, r>>] = place
  BY GotoOthers
<1>2. NothingWon
  BY DEF NothingWon, taskRec
<1> QED BY <1>1, <1>2 DEF Works, Merging

\* finishMerge and the end of its body: the run wins.
LEMMA FinishWins ==
  ASSUME NEW o \in Ops, NEW r \in Runs, TypeOK, FinishClientMerge(o, r), Merging(o, r),
         pc[<<o, r>>] = "finish" \/ pr[r] = "merged", UNCHANGED <<landed, pr, crashes>>
  PROVE  Wins(o, r)
<1>1. OthersStay(o, r) /\ pc'[<<o, r>>] = "idle"
  <2>1. pc' = [pc EXCEPT ![<<o, r>>] = "idle", ![<<Post, r>>] = "keep"] /\ Post \notin Ops
    BY IdAssumption DEF FinishClientMerge
  <2> QED BY <2>1, InBodies DEF TypeOK, OthersStay, SamePlace, Merging, Bodies
<1>2. Won(r)
  BY DEF Won, FinishClientMerge, FinishMerge, SetRun
<1> QED BY <1>1, <1>2, OtherPlaces DEF Wins, Merging, FinishClientMerge

\* Every step of the system is a move of a merge, or goes on beside them.
LEMMA MergeMoves ==
  ASSUME TypeOK, MergeInv, [Next]_vars
  PROVE  MergeMove
<1> USE DEF records, taskRec, opRec, world, posting, locks, timers, volatile, process
<1>1. ASSUME NEW o \in Ops, NEW r \in Runs, RequestOp(o, r) PROVE Beside
  <2>1. SamePlaces
    <3>1. ~Merging(o, r) /\ Goto(<<o, r>>, FirstPc(o))
      BY <1>1 DEF RequestOp, BeginOp, MergeInv, ClaimsHeld
    <3>2. FirstPc(o) \notin MergePcs
      BY <1>1, RunsAssumption, OtherPlaces DEF RequestOp, FirstPc, IsMerge, IsDiscard, Kinds
    <3> QED BY <3>1, <3>2, GotoBeside, InBodies DEF Merging
  <2>2. NothingWon /\ UNCHANGED <<claimed, landed>>
    BY <1>1 DEF RequestOp, NothingWon
  <2> QED BY <2>1, <2>2 DEF Beside
<1>2. ASSUME NEW o \in Ops, NEW r \in Runs, RefuseMerge(o, r) PROVE Beside
  <2>1. SamePlaces
    BY <1>2 DEF RefuseMerge, SamePlaces, SamePlace, Merging
  <2>2. NothingWon /\ UNCHANGED <<claimed, landed>>
    BY <1>2 DEF RefuseMerge, NothingWon
  <2> QED BY <2>1, <2>2 DEF Beside
<1>3. ASSUME NEW o \in Ops, NEW t \in Tasks, DiscardAll(o, t) PROVE Beside
  <2>1. SamePlaces
    <3>1. \A q \in Runs : ~Merging(o, q)
      BY <1>3 DEF DiscardAll, MergeInv, ClaimsHeld, IsMerge, IsDiscard
    <3> QED BY <1>3, <3>1, InBodies, OtherPlaces DEF DiscardAll, SamePlaces, SamePlace, Merging
  <2>2. NothingWon /\ UNCHANGED <<claimed, landed>>
    BY <1>3 DEF DiscardAll, NothingWon
  <2> QED BY <2>1, <2>2 DEF Beside
<1>4. ASSUME NEW t \in Tasks, DeleteTask(t) PROVE Beside
  <2>1. SamePlaces
    BY <1>4 DEF DeleteTask, SamePlaces, SamePlace, Merging
  <2>2. NothingWon /\ UNCHANGED <<claimed, landed>>
    BY <1>4 DEF DeleteTask, NothingWon
  <2> QED BY <2>1, <2>2 DEF Beside
<1>5. ASSUME NEW r \in Runs, PrStatus(r) PROVE Beside
  <2>1. SamePlaces
    BY <1>5 DEF PrStatus, SamePlaces, SamePlace, Merging
  <2>2. NothingWon /\ UNCHANGED <<claimed, landed>>
    BY <1>5 DEF PrStatus, NothingWon
  <2> QED BY <2>1, <2>2 DEF Beside
<1>6. ASSUME NEW r \in Runs, PromptDelivered(r) PROVE Beside
  <2>1. SamePlaces
    BY <1>6 DEF PromptDelivered, SamePlaces, SamePlace, Merging
  <2>2. NothingWon /\ UNCHANGED <<claimed, landed>>
    BY <1>6, StatesBeside, StatesInRunStates DEF PromptDelivered, NothingWon
  <2> QED BY <2>1, <2>2 DEF Beside
<1>7. ASSUME NEW o \in Ops, NEW r \in Runs, EndGit(o, r) PROVE Beside
  <2>1. SamePlaces
    BY <1>7, EndOpBeside, OtherPlaces DEF EndGit, At
  <2>2. NothingWon /\ UNCHANGED <<claimed, landed>>
    BY <1>7 DEF EndGit, PrOpened, TypeOK, NothingWon
  <2> QED BY <2>1, <2>2 DEF Beside
<1>8. ASSUME NEW o \in Ops, NEW r \in Runs, DiscardCheck(o, r) PROVE Beside
  <2>1. SamePlaces
    BY <1>8, EndOpBeside, GotoBeside, InBodies, OtherPlaces DEF DiscardCheck, At
  <2>2. NothingWon /\ UNCHANGED <<claimed, landed>>
    BY <1>8 DEF DiscardCheck, NothingWon
  <2> QED BY <2>1, <2>2 DEF Beside
<1>9. ASSUME NEW o \in Ops \cup {Post}, NEW r \in Runs, RemoveLock(o, r) PROVE Beside
  <2>1. SamePlaces
    BY <1>9, GotoBeside, InBodies, OtherPlaces DEF RemoveLock, At
  <2>2. NothingWon /\ UNCHANGED <<claimed, landed>>
    BY <1>9 DEF RemoveLock, NothingWon
  <2> QED BY <2>1, <2>2 DEF Beside
<1>10. ASSUME NEW o \in Ops, NEW r \in Runs, DiscardRemove(o, r) PROVE Beside
  <2>1. SamePlaces
    BY <1>10, EndOpBeside, GotoBeside, InBodies, OtherPlaces DEF DiscardRemove, At
  <2>2. NothingWon /\ UNCHANGED <<claimed, landed>>
    BY <1>10 DEF DiscardRemove, NothingWon
  <2> QED BY <2>1, <2>2 DEF Beside
<1>11. ASSUME NEW o \in Ops, NEW r \in Runs, DiscardDone(o, r) PROVE Beside
  <2>1. SamePlaces
    BY <1>11, EndOpBeside, OtherPlaces DEF DiscardDone, At
  <2>2. NothingWon /\ UNCHANGED <<claimed, landed>>
    BY <1>11, DiscardedBeside DEF DiscardDone, NothingWon
  <2> QED BY <2>1, <2>2 DEF Beside
<1>12. ASSUME NEW r \in Runs, PostKeep(r) PROVE Beside
  <2>1. SamePlaces
    BY <1>12, GotoBeside, InBodies, OtherPlaces DEF PostKeep, At
  <2>2. NothingWon /\ UNCHANGED <<claimed, landed>>
    BY <1>12 DEF PostKeep, NothingWon
  <2> QED BY <2>1, <2>2 DEF Beside
<1>13. ASSUME NEW r \in Runs, PostCheck(r) PROVE Beside
  <2>1. SamePlaces
    BY <1>13, GotoBeside, InBodies, OtherPlaces DEF PostCheck, At
  <2>2. NothingWon /\ UNCHANGED <<claimed, landed>>
    BY <1>13 DEF PostCheck, NothingWon
  <2> QED BY <2>1, <2>2 DEF Beside
<1>14. ASSUME NEW r \in Runs, PostRemove(r) PROVE Beside
  <2>1. SamePlaces
    BY <1>14, GotoBeside, InBodies, OtherPlaces DEF PostRemove, At
  <2>2. NothingWon /\ UNCHANGED <<claimed, landed>>
    BY <1>14 DEF PostRemove, NothingWon
  <2> QED BY <2>1, <2>2 DEF Beside
<1>15. ASSUME NEW r \in Runs, PostOtherLock(r) PROVE Beside
  <2>1. SamePlaces
    BY <1>15, GotoBeside, InBodies, OtherPlaces DEF PostOtherLock, At
  <2>2. NothingWon /\ UNCHANGED <<claimed, landed>>
    BY <1>15 DEF PostOtherLock, NothingWon
  <2> QED BY <2>1, <2>2 DEF Beside
<1>16. ASSUME NEW r \in Runs, NEW q \in Runs, PostSkip(r, q) PROVE Beside
  <2>1. SamePlaces
    BY <1>16 DEF PostSkip, SamePlaces, SamePlace, Merging
  <2>2. NothingWon /\ UNCHANGED <<claimed, landed>>
    BY <1>16 DEF PostSkip, NothingWon
  <2> QED BY <2>1, <2>2 DEF Beside
<1>17. ASSUME NEW r \in Runs, NEW q \in Runs, PostDiscard(r, q) PROVE Beside
  <2>1. SamePlaces
    BY <1>17, GotoBeside, InBodies, OtherPlaces DEF PostDiscard, At
  <2>2. NothingWon /\ UNCHANGED <<claimed, landed>>
    BY <1>17 DEF PostDiscard, NothingWon
  <2> QED BY <2>1, <2>2 DEF Beside
<1>18. ASSUME NEW r \in Runs, PostOtherRemove(r) PROVE Beside
  <2>1. SamePlaces
    BY <1>18, GotoBeside, InBodies, OtherPlaces DEF PostOtherRemove, PostRelease, At
  <2>2. NothingWon /\ UNCHANGED <<claimed, landed>>
    BY <1>18 DEF PostOtherRemove, NothingWon
  <2> QED BY <2>1, <2>2 DEF Beside
<1>19. ASSUME NEW r \in Runs, PostOtherDone(r) PROVE Beside
  <2>1. SamePlaces
    BY <1>19, GotoBeside, InBodies, OtherPlaces DEF PostOtherDone, PostRelease, At
  <2>2. NothingWon /\ UNCHANGED <<claimed, landed>>
    BY <1>19, DiscardedBeside DEF PostOtherDone, NothingWon
  <2> QED BY <2>1, <2>2 DEF Beside
<1>20. ASSUME NEW r \in Runs, PostEnd(r) PROVE Beside
  <2>1. SamePlaces
    BY <1>20, GotoBeside, InBodies, OtherPlaces DEF PostEnd, At
  <2>2. NothingWon /\ UNCHANGED <<claimed, landed>>
    BY <1>20 DEF PostEnd, NothingWon
  <2> QED BY <2>1, <2>2 DEF Beside
<1>21. ASSUME NEW o \in Ops, NEW r \in Runs, FixStart(o, r) PROVE Beside
  <2>1. SamePlaces
    BY <1>21, GotoBeside, InBodies, OtherPlaces DEF FixStart, At
  <2>2. NothingWon /\ UNCHANGED <<claimed, landed>>
    BY <1>21 DEF FixStart, NothingWon
  <2> QED BY <2>1, <2>2 DEF Beside
<1>22. ASSUME NEW o \in Ops, NEW r \in Runs, ReopenLock(o, r) PROVE Beside
  <2>1. SamePlaces
    BY <1>22, GotoBeside, InBodies, OtherPlaces DEF ReopenLock, At
  <2>2. NothingWon /\ UNCHANGED <<claimed, landed>>
    BY <1>22 DEF ReopenLock, NothingWon
  <2> QED BY <2>1, <2>2 DEF Beside
<1>23. ASSUME NEW o \in Ops, NEW r \in Runs, Reopen(o, r) PROVE Beside
  <2>1. SamePlaces
    BY <1>23, EndOpBeside, GotoBeside, InBodies, OtherPlaces DEF Reopen, At
  <2>2. NothingWon /\ UNCHANGED <<claimed, landed>>
    BY <1>23, StatesBeside, StatesInRunStates DEF Reopen, NothingWon
  <2> QED BY <2>1, <2>2 DEF Beside
<1>24. ASSUME NEW o \in Ops, NEW r \in Runs, ReopenAdd(o, r) PROVE Beside
  <2>1. SamePlaces
    BY <1>24, EndOpBeside, GotoBeside, InBodies, OtherPlaces DEF ReopenAdd, At
  <2>2. NothingWon /\ UNCHANGED <<claimed, landed>>
    BY <1>24, StatesBeside, StatesInRunStates DEF ReopenAdd, NothingWon
  <2> QED BY <2>1, <2>2 DEF Beside
<1>25. ASSUME NEW t \in Tasks, CreateLock(t) PROVE Beside
  <2>1. SamePlaces
    BY <1>25, IdAssumption DEF CreateLock, TypeOK, SamePlaces, SamePlace, Merging, Bodies
  <2>2. NothingWon /\ UNCHANGED <<claimed, landed>>
    BY <1>25 DEF CreateLock, NothingWon
  <2> QED BY <2>1, <2>2 DEF Beside
<1>26. ASSUME NEW t \in Tasks, CreateUnlock(t) PROVE Beside
  <2>1. SamePlaces
    BY <1>26, IdAssumption DEF CreateUnlock, TypeOK, SamePlaces, SamePlace, Merging, Bodies
  <2>2. NothingWon /\ UNCHANGED <<claimed, landed>>
    BY <1>26 DEF CreateUnlock, NothingWon
  <2> QED BY <2>1, <2>2 DEF Beside
<1>27. ASSUME NEW t \in Tasks, LaunchAll(t) PROVE Beside
  <2>1. SamePlaces
    BY <1>27, IdAssumption DEF LaunchAll, TypeOK, SamePlaces, SamePlace, Merging, Bodies
  <2>2. NothingWon /\ UNCHANGED <<claimed, landed>>
    BY <1>27 DEF LaunchAll, TypeOK, NothingWon
  <2> QED BY <2>1, <2>2 DEF Beside
<1>28. ASSUME NEW r \in Runs, AddWorktree(r) PROVE Beside
  <2>1. SamePlaces
    BY <1>28, GotoBeside, InBodies, OtherPlaces DEF AddWorktree, At
  <2>2. NothingWon /\ UNCHANGED <<claimed, landed>>
    BY <1>28, StatesBeside, StatesInRunStates DEF AddWorktree, NothingWon
  <2> QED BY <2>1, <2>2 DEF Beside
<1>29. ASSUME NEW o \in Ops \cup {Create}, NEW r \in Runs, PrepareRun(o, r) PROVE Beside
  <2>1. SamePlaces
    BY <1>29, PipelineEndBeside, GotoBeside, InBodies, OtherPlaces DEF PrepareRun, At
  <2>2. NothingWon /\ UNCHANGED <<claimed, landed>>
    BY <1>29, StatesBeside, StatesInRunStates DEF PrepareRun, NothingWon
  <2> QED BY <2>1, <2>2 DEF Beside
<1>30. ASSUME NEW o \in Ops \cup {Create}, NEW r \in Runs, Launched(o, r) PROVE Beside
  <2>1. SamePlaces
    BY <1>30, PipelineEndBeside, GotoBeside, InBodies, OtherPlaces DEF Launched, At
  <2>2. NothingWon /\ UNCHANGED <<claimed, landed>>
    BY <1>30, StatesBeside, StatesInRunStates DEF Launched, NothingWon
  <2> QED BY <2>1, <2>2 DEF Beside
<1>31. ASSUME NEW o \in Ops \cup {Create}, NEW r \in Runs, AgentReady(o, r) PROVE Beside
  <2>1. SamePlaces
    BY <1>31, PipelineEndBeside, GotoBeside, InBodies, OtherPlaces DEF AgentReady, At
  <2>2. NothingWon /\ UNCHANGED <<claimed, landed>>
    BY <1>31 DEF AgentReady, NothingWon
  <2> QED BY <2>1, <2>2 DEF Beside
<1>32. ASSUME NEW o \in Ops \cup {Create}, NEW r \in Runs, DeliverPrompt(o, r) PROVE Beside
  <2>1. SamePlaces
    BY <1>32, PipelineEndBeside, GotoBeside, InBodies, OtherPlaces DEF DeliverPrompt, At
  <2>2. NothingWon /\ UNCHANGED <<claimed, landed>>
    BY <1>32 DEF DeliverPrompt, SetRun, TypeOK, NothingWon
  <2> QED BY <2>1, <2>2 DEF Beside
<1>33. ASSUME NEW r \in Runs, AgentWorking(r) PROVE Beside
  <2>1. SamePlaces
    BY <1>33 DEF AgentWorking, SamePlaces, SamePlace, Merging
  <2>2. NothingWon /\ UNCHANGED <<claimed, landed>>
    BY <1>33, StatesBeside, StatesInRunStates DEF AgentWorking, NothingWon
  <2> QED BY <2>1, <2>2 DEF Beside
<1>34. ASSUME NEW r \in Runs, AgentStops(r) PROVE Beside
  <2>1. SamePlaces
    BY <1>34 DEF AgentStops, SamePlaces, SamePlace, Merging
  <2>2. NothingWon /\ UNCHANGED <<claimed, landed>>
    BY <1>34 DEF AgentStops, NothingWon
  <2> QED BY <2>1, <2>2 DEF Beside
<1>35. ASSUME NEW r \in Runs, EvaluateTurn(r) PROVE Beside
  <2>1. SamePlaces
    BY <1>35 DEF EvaluateTurn, SamePlaces, SamePlace, Merging
  <2>2. NothingWon /\ UNCHANGED <<claimed, landed>>
    BY <1>35, StatesBeside, StatesInRunStates DEF EvaluateTurn, NothingWon
  <2> QED BY <2>1, <2>2 DEF Beside
<1>36. ASSUME NEW r \in Runs, WorktreeLost(r) PROVE Beside
  <2>1. SamePlaces
    BY <1>36 DEF WorktreeLost, SamePlaces, SamePlace, Merging
  <2>2. NothingWon /\ UNCHANGED <<claimed, landed>>
    BY <1>36 DEF WorktreeLost, NothingWon
  <2> QED BY <2>1, <2>2 DEF Beside
<1>37. ASSUME NEW r \in Runs, AgentOpensPr(r) PROVE Beside
  <2>1. SamePlaces
    BY <1>37 DEF AgentOpensPr, SamePlaces, SamePlace, Merging
  <2>2. NothingWon /\ UNCHANGED <<claimed, landed>>
    BY <1>37 DEF AgentOpensPr, TypeOK, NothingWon
  <2> QED BY <2>1, <2>2 DEF Beside
<1>38. ASSUME NEW r \in Runs, GithubMerges(r) PROVE Beside
  <2>1. SamePlaces
    BY <1>38 DEF GithubMerges, SamePlaces, SamePlace, Merging
  <2>2. NothingWon /\ UNCHANGED <<claimed, landed>>
    BY <1>38 DEF GithubMerges, TypeOK, NothingWon
  <2> QED BY <2>1, <2>2 DEF Beside
<1>39. ASSUME NEW r \in Runs, PollStart(r) PROVE Beside
  <2>1. SamePlaces
    BY <1>39 DEF PollStart, SamePlaces, SamePlace, Merging
  <2>2. NothingWon /\ UNCHANGED <<claimed, landed>>
    BY <1>39 DEF PollStart, NothingWon
  <2> QED BY <2>1, <2>2 DEF Beside
<1>40. CASE Restart
  <2>1. SamePlaces
    BY <1>40 DEF Restart, SamePlaces, SamePlace, Merging
  <2>2. NothingWon /\ UNCHANGED <<claimed, landed>>
    BY <1>40 DEF Restart, NothingWon
  <2> QED BY <2>1, <2>2 DEF Beside, MergeMove
<1>41. ASSUME NEW r \in Runs, ReconcileOp(r) PROVE Beside
  <2>1. SamePlaces
    BY <1>41, GotoBeside, InBodies, OtherPlaces DEF ReconcileOp, SamePlaces, SamePlace, Merging
  <2>2. NothingWon /\ UNCHANGED <<claimed, landed>>
    BY <1>41, UnmergingBeside DEF ReconcileOp, NothingWon
  <2> QED BY <2>1, <2>2 DEF Beside
<1>42. ASSUME NEW r \in Runs, ReconcileState(r) PROVE Beside
  <2>1. SamePlaces
    BY <1>42, IdAssumption, InBodies DEF ReconcileState, Goto, TypeOK, SamePlaces, SamePlace, Merging
  <2>2. NothingWon /\ UNCHANGED <<claimed, landed>>
    BY <1>42, StatesBeside, StatesInRunStates DEF ReconcileState, NothingWon
  <2> QED BY <2>1, <2>2 DEF Beside
<1>43. CASE BootDone
  <2>1. SamePlaces
    BY <1>43, InBodies, OtherPlaces DEF BootDone, TypeOK, SamePlaces, SamePlace, Merging
  <2>2. NothingWon /\ UNCHANGED <<claimed, landed>>
    BY <1>43 DEF BootDone, NothingWon
  <2> QED BY <2>1, <2>2 DEF Beside, MergeMove
<1>44. ASSUME NEW o \in Ops, NEW r \in Runs, RequestMerge(o, r) PROVE MergeMove
  <2>1. FirstPc(o) = "status" /\ BeginOp(o, r)
    BY <1>44 DEF RequestMerge, FirstPc, IsMerge
  <2>2. OthersStay(o, r) /\ pc'[<<o, r>>] = "status"
    BY <2>1, GotoOthers DEF BeginOp
  <2>3. Claims(o, r)
    BY <1>44, <2>2 DEF RequestMerge, Claims, NothingWon
  <2> QED BY <2>3 DEF MergeMove
<1>45. ASSUME NEW o \in Ops, NEW r \in Runs, MergeStatus(o, r) PROVE MergeMove
  <2> DEFINE place == IF KindOf[o] = "merge.local" THEN "mwait" ELSE "view"
  <2>1. CASE FailMerge(o, r)
    BY <1>45, <2>1, FailMergeGivesUp, OtherPlaces DEF MergeStatus, At, Merging, MergeMove
  <2>2. CASE /\ SetRun(r, "merging") /\ Goto(<<o, r>>, place)
             /\ UNCHANGED <<runOp, outcome, claimed>>
    <3>1. \A q \in Runs : runState'[q] = "merged" => runState[q] = "merged"
      BY <2>2, StatesBeside, StatesInRunStates
    <3>2. place \in MergePcs /\ place # "finish"
      BY OtherPlaces
    <3>3. /\ Merging(o, r) /\ pc[<<o, r>>] # "finish"
          /\ UNCHANGED <<taskRec, claimed, landed, crashes, pr>>
      BY <1>45, <2>2, OtherPlaces DEF MergeStatus, At, Merging
    <3> HIDE DEF place
    <3>4. Works(o, r)
      BY <2>2, <3>1, <3>2, <3>3, GotoWorks
    <3> QED BY <3>4 DEF MergeMove
  <2> QED BY <1>45, <2>1, <2>2 DEF MergeStatus
<1>46. ASSUME NEW o \in Ops, NEW r \in Runs, MergeLock(o, r) PROVE MergeMove
  <2>1. CASE FailMerge(o, r)
    BY <1>46, <2>1, FailMergeGivesUp, OtherPlaces DEF MergeLock, At, Merging, MergeMove
  <2>2. CASE Goto(<<o, r>>, "merge") /\ UNCHANGED <<runState, runOp, outcome, claimed>>
    <3>1. Works(o, r)
      BY <1>46, <2>2, GotoWorks, OtherPlaces DEF MergeLock, At, Merging
    <3> QED BY <3>1 DEF MergeMove
  <2> QED BY <1>46, <2>1, <2>2 DEF MergeLock
<1>47. ASSUME NEW o \in Ops, NEW r \in Runs, MergeGit(o, r) PROVE MergeMove
  <2>1. CASE FailMerge(o, r) /\ UNCHANGED landed
    BY <1>47, <2>1, FailMergeGivesUp, OtherPlaces DEF MergeGit, At, Merging, MergeMove
  <2>2. CASE /\ landed' = landed \cup {r}
              /\ Goto(<<o, r>>, "finish")
              /\ UNCHANGED <<runState, runOp, outcome, claimed>>
    <3>1. OthersStay(o, r) /\ pc'[<<o, r>>] = "finish"
      BY <2>2, GotoOthers
    <3>2. Works(o, r)
      BY <1>47, <2>2, <3>1, OtherPlaces DEF MergeGit, At, Merging, Works, NothingWon
    <3> QED BY <3>2 DEF MergeMove
  <2> QED BY <1>47, <2>1, <2>2 DEF MergeGit
<1>48. ASSUME NEW o \in Ops, NEW r \in Runs, MergeFinish(o, r) PROVE MergeMove
  BY <1>48, FinishWins, OtherPlaces DEF MergeFinish, At, Merging, MergeMove
<1>49. ASSUME NEW o \in Ops, NEW r \in Runs, PrMergeView(o, r) PROVE MergeMove
  <2>1. CASE FailMerge(o, r)
    BY <1>49, <2>1, FailMergeGivesUp, OtherPlaces DEF PrMergeView, At, Merging, MergeMove
  <2>2. CASE /\ Goto(<<o, r>>, IF pr[r] = "merged" THEN "after" ELSE "ghmerge")
              /\ UNCHANGED <<runState, runOp, outcome, claimed>>
    <3>1. Works(o, r)
      BY <1>49, <2>2, GotoWorks, OtherPlaces DEF PrMergeView, At, Merging
    <3> QED BY <3>1 DEF MergeMove
  <2> QED BY <1>49, <2>1, <2>2 DEF PrMergeView
<1>50. ASSUME NEW o \in Ops, NEW r \in Runs, PrMergeGh(o, r) PROVE MergeMove
  <2>1. \A q \in Runs : pr[q] = "merged" => pr'[q] = "merged"
    BY <1>50 DEF PrMergeGh, TypeOK
  <2>2. CASE FailMerge(o, r)
    BY <1>50, <2>1, <2>2, FailMergeGivesUp, OtherPlaces DEF PrMergeGh, At, Merging, MergeMove
  <2>3. CASE Goto(<<o, r>>, "after") /\ UNCHANGED <<runState, runOp, outcome, claimed>>
    <3>1. Works(o, r)
      BY <1>50, <2>1, <2>3, GotoWorks, OtherPlaces DEF PrMergeGh, At, Merging
    <3> QED BY <3>1 DEF MergeMove
  <2> QED BY <1>50, <2>2, <2>3 DEF PrMergeGh
<1>51. ASSUME NEW o \in Ops, NEW r \in Runs, PrMergeAfter(o, r) PROVE MergeMove
  <2>1. CASE SeenMerged(r) /\ FinishClientMerge(o, r)
    BY <1>51, <2>1, FinishWins, OtherPlaces DEF PrMergeAfter, At, Merging, MergeMove, SeenMerged
  <2>2. CASE FailMerge(o, r) /\ UNCHANGED <<taskState, winner, postLeft>>
    BY <1>51, <2>2, FailMergeGivesUp, OtherPlaces DEF PrMergeAfter, At, Merging, MergeMove
  <2>3. CASE /\ EndOp(o, r, "ok") /\ Unmerging(r) /\ claimed' = claimed \ {Task(r)}
              /\ UNCHANGED <<taskState, winner, postLeft>>
    <3>1. OthersStay(o, r) /\ pc'[<<o, r>>] = "idle"
      BY <2>3, GotoOthers DEF EndOp
    <3>2. NothingWon /\ UNCHANGED landed
      BY <1>51, <2>3, UnmergingBeside DEF NothingWon, PrMergeAfter
    <3>3. GivesUp(o, r)
      BY <1>51, <2>3, <3>1, <3>2, OtherPlaces DEF PrMergeAfter, At, Merging, GivesUp
    <3> QED BY <3>3 DEF MergeMove
  <2> QED BY <1>51, <2>1, <2>2, <2>3 DEF PrMergeAfter
<1>52. ASSUME NEW r \in Runs, ApplyPrView(r) PROVE MergeMove
  <2>1. CASE WebCompletes(r) /\ FinishMerge(Web, r, OtherRuns(r)) /\ Goto(<<Post, r>>, "keep")
    <3>1. SamePlaces
      BY <2>1, IdAssumption, InBodies DEF Goto, TypeOK, SamePlaces, SamePlace, Merging, Bodies
    <3>2. WebWins(r)
      BY <1>52, <2>1, <3>1 DEF ApplyPrView, WebCompletes, WebWins, Won, FinishMerge, SetRun
    <3> QED BY <3>2 DEF MergeMove
  <2>2. CASE UNCHANGED <<runState, taskState, winner, runOp, pc, postLeft>>
    BY <1>52, <2>2 DEF ApplyPrView, MergeMove, Beside, NothingWon, SamePlaces, SamePlace, Merging
  <2> QED BY <1>52, <2>1, <2>2 DEF ApplyPrView
<1>53. CASE Crash
  BY <1>53 DEF Crash, Dies, MergeMove
<1>54. CASE UNCHANGED vars
  BY <1>54 DEF vars, MergeMove, Beside, NothingWon, SamePlaces, SamePlace, Merging
<1> QED
  BY <1>1, <1>2, <1>3, <1>4, <1>5, <1>6, <1>7, <1>8, <1>9, <1>10, <1>11, <1>12, <1>13,
     <1>14, <1>15, <1>16, <1>17, <1>18, <1>19, <1>20, <1>21, <1>22, <1>23, <1>24,
     <1>25, <1>26, <1>27, <1>28, <1>29, <1>30, <1>31, <1>32, <1>33, <1>34, <1>35,
     <1>36, <1>37, <1>38, <1>39, <1>40, <1>41, <1>42, <1>43, <1>44, <1>45, <1>46,
     <1>47, <1>48, <1>49, <1>50, <1>51, <1>52, <1>53, <1>54
  DEF Next, Request, OpStep, MergeStep, DiscardStep, PipelineStep, CreateStep, PostStep, Boot,
      Agent, World, RunsOf, MergeMove

-----------------------------------------------------------------------------
(* The moves keep the invariant *)

\* A merge body of the moved state is where it was, unless it is the one that moved.
LEMMA HeldKept ==
  ASSUME TypeOK, MergeInv, MergeMove
  PROVE  ClaimsHeld'
<1> USE OthersType DEF MergeInv, ClaimsHeld
<1>1. CASE Beside
  BY <1>1 DEF Beside, SamePlaces, SamePlace, NothingWon, Merging
<1>2. CASE Dies
  BY <1>2, InBodies, OtherPlaces DEF Dies, Merging
<1>3. ASSUME NEW o \in Ops, NEW r \in Runs, Claims(o, r) PROVE ClaimsHeld'
  <2>1. ASSUME NEW p \in Ops, NEW q \in Runs, Merging(p, q)', <<p, q>> # <<o, r>>
        PROVE  Merging(p, q)
    BY <1>3, <2>1 DEF Claims, OthersStay, SamePlace, Merging
  <2> QED BY <1>3, <2>1 DEF Claims, NothingWon, StillOpen
<1>4. ASSUME NEW o \in Ops, NEW r \in Runs, Works(o, r) PROVE ClaimsHeld'
  <2>1. ASSUME NEW p \in Ops, NEW q \in Runs, Merging(p, q)' PROVE Merging(p, q)
    BY <1>4, <2>1 DEF Works, OthersStay, SamePlace, Merging
  <2> QED BY <1>4, <2>1 DEF Works, NothingWon
<1>5. ASSUME NEW o \in Ops, NEW r \in Runs, GivesUp(o, r) PROVE ClaimsHeld'
  <2>1. ASSUME NEW p \in Ops, NEW q \in Runs, Merging(p, q)'
        PROVE  Merging(p, q) /\ Task(q) # Task(r)
    <3>1. <<p, q>> # <<o, r>> /\ Merging(p, q)
      BY <1>5, <2>1 DEF GivesUp, OthersStay, SamePlace, Merging
    <3> QED BY <1>5, <3>1 DEF GivesUp, OneMerge
  <2> QED BY <1>5, <2>1 DEF GivesUp, NothingWon
<1>6. ASSUME NEW o \in Ops, NEW r \in Runs, Wins(o, r) PROVE ClaimsHeld'
  <2>1. ASSUME NEW p \in Ops, NEW q \in Runs, Merging(p, q)'
        PROVE  Merging(p, q) /\ Task(q) # Task(r)
    <3>1. <<p, q>> # <<o, r>> /\ Merging(p, q)
      BY <1>6, <2>1 DEF Wins, OthersStay, SamePlace, Merging
    <3> QED BY <1>6, <3>1 DEF Wins, OneMerge
  <2>2. /\ claimed' = claimed \ {Task(r)}
        /\ taskState' = [taskState EXCEPT ![Task(r)] = "merged"]
        /\ winner' = [winner EXCEPT ![Task(r)] = r]
    BY <1>6 DEF Wins, Won
  <2> QED BY <2>1, <2>2 DEF TypeOK
<1>7. ASSUME NEW r \in Runs, WebWins(r) PROVE ClaimsHeld'
  <2>1. ASSUME NEW p \in Ops, NEW q \in Runs, Merging(p, q)'
        PROVE  Merging(p, q) /\ Task(q) # Task(r)
    BY <1>7, <2>1 DEF WebWins, SamePlaces, SamePlace, Merging
  <2>2. /\ claimed' = claimed
        /\ taskState' = [taskState EXCEPT ![Task(r)] = "merged"]
        /\ winner' = [winner EXCEPT ![Task(r)] = r]
    BY <1>7 DEF WebWins, Won
  <2> QED BY <2>1, <2>2 DEF TypeOK
<1> QED BY <1>1, <1>2, <1>3, <1>4, <1>5, <1>6, <1>7 DEF MergeMove

\* Whoever merges after a move merged before it, or has just claimed.
LEMMA MergersKept ==
  ASSUME TypeOK, MergeInv, MergeMove
  PROVE  \/ \A p \in Ops, q \in Runs : Merging(p, q)' => Merging(p, q)
         \/ \E o \in Ops, r \in Runs :
              /\ Task(r) \notin claimed
              /\ \A p \in Ops, q \in Runs :
                   <<p, q>> # <<o, r>> /\ Merging(p, q)' => Merging(p, q)
<1>1. CASE Beside \/ \E r \in Runs : WebWins(r)
  BY <1>1 DEF Beside, WebWins, SamePlaces, SamePlace, Merging
<1>2. CASE Dies
  BY <1>2, InBodies, OtherPlaces DEF Dies, Merging
<1>3. ASSUME NEW o \in Ops, NEW r \in Runs, Claims(o, r)
      PROVE  /\ Task(r) \notin claimed
             /\ \A p \in Ops, q \in Runs :
                  <<p, q>> # <<o, r>> /\ Merging(p, q)' => Merging(p, q)
  BY <1>3 DEF Claims, OthersStay, SamePlace, Merging
<1>4. ASSUME NEW o \in Ops, NEW r \in Runs, Works(o, r) \/ GivesUp(o, r) \/ Wins(o, r)
      PROVE  \A p \in Ops, q \in Runs : Merging(p, q)' => Merging(p, q)
  BY <1>4 DEF Works, GivesUp, Wins, OthersStay, SamePlace, Merging
<1> QED BY <1>1, <1>2, <1>3, <1>4 DEF MergeMove

\* A second merge body of a task never starts: the first one holds the claim.
LEMMA OneKept ==
  ASSUME TypeOK, MergeInv, MergeMove
  PROVE  OneMerge'
<1>1. CASE \A p \in Ops, q \in Runs : Merging(p, q)' => Merging(p, q)
  BY <1>1 DEF MergeInv, OneMerge, Task
<1>2. ASSUME NEW o \in Ops, NEW r \in Runs, Task(r) \notin claimed,
             \A p \in Ops, q \in Runs :
               <<p, q>> # <<o, r>> /\ Merging(p, q)' => Merging(p, q)
      PROVE  OneMerge'
  <2>1. ASSUME NEW p \in Ops, NEW q \in Runs, Merging(p, q)', Task(q) = Task(r)
        PROVE  p = o /\ q = r
    BY <1>2, <2>1 DEF MergeInv, ClaimsHeld
  <2>2. SUFFICES ASSUME NEW p1 \in Ops, NEW p2 \in Ops, NEW q1 \in Runs, NEW q2 \in Runs,
                        Merging(p1, q1)', Merging(p2, q2)', Task(q1) = Task(q2)
                 PROVE  p1 = p2 /\ q1 = q2
    BY DEF OneMerge, Task
  <2>3. CASE Task(q1) = Task(r)
    BY <2>1, <2>2, <2>3
  <2>4. CASE Task(q1) # Task(r)
    BY <1>2, <2>2, <2>4 DEF MergeInv, OneMerge
  <2> QED BY <2>3, <2>4
<1> QED BY <1>1, <1>2, MergersKept

\* Every way out of a merge gives the claim back, so a claim is that of a body.
LEMMA UsedKept ==
  ASSUME TypeOK, MergeInv, MergeMove
  PROVE  ClaimsUsed'
<1> USE OthersType
<1>1. CASE Beside \/ \E r \in Runs : WebWins(r)
  <2>1. claimed' = claimed /\ SamePlaces
    BY <1>1 DEF Beside, WebWins
  <2> QED BY <2>1 DEF MergeInv, ClaimsUsed, RunsOf, SamePlaces, SamePlace, Merging
<1>2. CASE Dies
  BY <1>2 DEF Dies, ClaimsUsed
<1>3. ASSUME NEW o \in Ops, NEW r \in Runs, Claims(o, r) PROVE ClaimsUsed'
  <2>1. Merging(o, r)' /\ r \in RunsOf(Task(r))
    BY <1>3, OtherPlaces DEF Claims, Merging, RunsOf, Task
  <2>2. ASSUME NEW t \in claimed PROVE \E p \in Ops, q \in RunsOf(t) : Merging(p, q)'
    <3>1. PICK p \in Ops, q \in RunsOf(t) : Merging(p, q)
      BY DEF MergeInv, ClaimsUsed
    <3>2. q \in Runs /\ <<p, q>> # <<o, r>>
      BY <1>3, <3>1 DEF Claims, RunsOf, Task
    <3> QED BY <1>3, <3>1, <3>2 DEF Claims, OthersStay, SamePlace, Merging
  <2>3. claimed' = claimed \cup {Task(r)}
    BY <1>3 DEF Claims
  <2> QED BY <2>1, <2>2, <2>3 DEF ClaimsUsed, RunsOf
<1>4. ASSUME NEW o \in Ops, NEW r \in Runs, Works(o, r) PROVE ClaimsUsed'
  <2>1. ASSUME NEW t \in claimed PROVE \E p \in Ops, q \in RunsOf(t) : Merging(p, q)'
    <3>1. PICK p \in Ops, q \in RunsOf(t) : Merging(p, q)
      BY DEF MergeInv, ClaimsUsed
    <3>2. q \in Runs
      BY DEF RunsOf
    <3> QED BY <1>4, <3>1, <3>2 DEF Works, OthersStay, SamePlace, Merging
  <2>2. claimed' = claimed
    BY <1>4 DEF Works
  <2> QED BY <2>1, <2>2 DEF ClaimsUsed, RunsOf
<1>5. ASSUME NEW o \in Ops, NEW r \in Runs, GivesUp(o, r) \/ Wins(o, r) PROVE ClaimsUsed'
  <2>1. ASSUME NEW t \in claimed, t # Task(r)
        PROVE  \E p \in Ops, q \in RunsOf(t) : Merging(p, q)'
    <3>1. PICK p \in Ops, q \in RunsOf(t) : Merging(p, q)
      BY DEF MergeInv, ClaimsUsed
    <3>2. q \in Runs /\ <<p, q>> # <<o, r>>
      BY <2>1, <3>1 DEF RunsOf, Task
    <3> QED BY <1>5, <3>1, <3>2 DEF GivesUp, Wins, OthersStay, SamePlace, Merging
  <2>2. claimed' = claimed \ {Task(r)}
    BY <1>5 DEF GivesUp, Wins
  <2> QED BY <2>1, <2>2 DEF ClaimsUsed, RunsOf
<1> QED BY <1>1, <1>2, <1>3, <1>4, <1>5 DEF MergeMove

\* A body comes to its finish only by landing its branch, and nothing unlands it.
LEMMA LandedKept ==
  ASSUME TypeOK, MergeInv, MergeMove
  PROVE  FinishLanded'
<1> USE OtherPlaces DEF MergeInv, FinishLanded
<1>1. CASE Beside \/ \E r \in Runs : WebWins(r)
  <2>1. landed' = landed /\ SamePlaces
    BY <1>1 DEF Beside, WebWins, Won
  <2> QED BY <2>1 DEF SamePlaces, SamePlace, Merging
<1>2. CASE Dies
  BY <1>2, InBodies DEF Dies
<1>3. ASSUME NEW o \in Ops, NEW r \in Runs,
             Claims(o, r) \/ Works(o, r) \/ GivesUp(o, r) \/ Wins(o, r)
      PROVE  FinishLanded'
  <2>1. ASSUME NEW p \in Ops, NEW q \in Runs, <<p, q>> # <<o, r>>, pc'[<<p, q>>] = "finish"
        PROVE  q \in landed
    BY <1>3, <2>1 DEF Claims, Works, GivesUp, Wins, OthersStay, SamePlace, Merging
  <2>2. pc'[<<o, r>>] = "finish" => r \in landed'
    BY <1>3 DEF Claims, Works, GivesUp, Wins, Merging
  <2>3. landed \subseteq landed'
    BY <1>3 DEF Claims, Works, GivesUp, Wins, Won
  <2> QED BY <2>1, <2>2, <2>3
<1> QED BY <1>1, <1>2, <1>3 DEF MergeMove

\* A run becomes merged only after its branch landed or its PR was seen merged.
LEMMA MergedKept ==
  ASSUME TypeOK, MergeInv, MergeMove
  PROVE  MergedIsMerged'
<1> USE DEF MergeInv, MergedIsMerged, FinishLanded
<1>1. CASE Beside
  BY <1>1 DEF Beside, NothingWon
<1>2. CASE Dies
  BY <1>2 DEF Dies
<1>3. ASSUME NEW o \in Ops, NEW r \in Runs, Claims(o, r) \/ Works(o, r) \/ GivesUp(o, r)
      PROVE  MergedIsMerged'
  BY <1>3 DEF Claims, Works, GivesUp, NothingWon
<1>4. ASSUME NEW o \in Ops, NEW r \in Runs, Wins(o, r) PROVE MergedIsMerged'
  BY <1>4 DEF Wins, Won, TypeOK
<1>5. ASSUME NEW r \in Runs, WebWins(r) PROVE MergedIsMerged'
  BY <1>5 DEF WebWins, Won, TypeOK
<1> QED BY <1>1, <1>2, <1>3, <1>4, <1>5 DEF MergeMove

\* The count of the branches landed for task t.
LandedOf(t) == landed \cap RunsOf(t)

Bound(t) == crashes + (IF Finishing(t) \/ taskState[t] = "merged" THEN 1 ELSE 0)

\* Only git merge adds to what landed, and then for a task that nobody has finished
\* or won: its own body is the only one that merges the task.
LEMMA CountKept ==
  ASSUME TypeOK, MergeInv, MergeMove
  PROVE  LandedCount'
<1> USE OtherPlaces
<1> SUFFICES ASSUME NEW t \in Tasks
             PROVE  IsFiniteSet(LandedOf(t)') /\ Cardinality(LandedOf(t)') <= Bound(t)'
  BY DEF LandedCount, LandedOf, Bound, RunsOf
<1>1. /\ IsFiniteSet(LandedOf(t)) /\ Cardinality(LandedOf(t)) \in Nat
      /\ Cardinality(LandedOf(t)) <= Bound(t)
  BY FS_CardinalityType DEF MergeInv, LandedCount, LandedOf, Bound
<1>2. crashes \in Nat /\ crashes' \in Nat
  <2>1. crashes \in Nat
    BY RunsAssumption DEF TypeOK
  <2>2. crashes' = crashes \/ crashes' = crashes + 1
    BY DEF MergeMove, Beside, Dies, Claims, Works, GivesUp, Wins, WebWins, NothingWon, Won
  <2> QED BY <2>1, <2>2
<1>3. ASSUME landed' = landed, Bound(t) <= Bound(t)'
      PROVE  IsFiniteSet(LandedOf(t)') /\ Cardinality(LandedOf(t)') <= Bound(t)'
  <2>1. LandedOf(t)' = LandedOf(t)
    BY <1>3 DEF LandedOf, RunsOf
  <2>2. Bound(t) \in Nat /\ Bound(t)' \in Nat
    BY <1>2 DEF Bound
  <2> QED BY <1>1, <1>3, <2>1, <2>2
<1>4. ASSUME landed' = landed, crashes' = crashes,
             taskState[t] = "merged" => taskState'[t] = "merged",
             Finishing(t) => Finishing(t)' \/ taskState'[t] = "merged"
      PROVE  Bound(t) <= Bound(t)'
  BY <1>2, <1>4 DEF Bound
<1>5. CASE Beside
  <2>1. Finishing(t) => Finishing(t)'
    BY <1>5 DEF Beside, SamePlaces, SamePlace, Merging, Finishing, RunsOf
  <2> QED BY <1>3, <1>4, <1>5, <2>1 DEF Beside, NothingWon
<1>6. CASE Dies
  BY <1>2, <1>3, <1>6 DEF Dies, Bound
<1>7. ASSUME NEW o \in Ops, NEW r \in Runs, Claims(o, r) \/ GivesUp(o, r)
      PROVE  Bound(t) <= Bound(t)' /\ landed' = landed
  <2>1. pc[<<o, r>>] # "finish"
    BY <1>7 DEF Claims, GivesUp, MergeInv, ClaimsHeld, Merging
  <2>2. ASSUME NEW p \in Ops, NEW q \in Runs, pc[<<p, q>>] = "finish"
        PROVE  pc'[<<p, q>>] = "finish"
    BY <1>7, <2>1, <2>2 DEF Claims, GivesUp, OthersStay, SamePlace, Merging
  <2>3. Finishing(t) => Finishing(t)'
    BY <2>2 DEF Finishing, RunsOf
  <2> QED BY <1>4, <1>7, <2>3 DEF Claims, GivesUp, NothingWon
<1>8. ASSUME NEW o \in Ops, NEW r \in Runs, Works(o, r)
      PROVE  IsFiniteSet(LandedOf(t)') /\ Cardinality(LandedOf(t)') <= Bound(t)'
  <2>1. ASSUME NEW p \in Ops, NEW q \in Runs, pc[<<p, q>>] = "finish"
        PROVE  pc'[<<p, q>>] = "finish"
    BY <1>8, <2>1 DEF Works, OthersStay, SamePlace, Merging
  <2>2. Finishing(t) => Finishing(t)'
    BY <2>1 DEF Finishing, RunsOf
  <2>3. CASE pc'[<<o, r>>] # "finish" \/ Task(r) # t
    <3>1. LandedOf(t)' = LandedOf(t)
      BY <1>8, <2>3 DEF Works, LandedOf, RunsOf, Task
    <3>2. Bound(t) <= Bound(t)'
      BY <1>2, <1>8, <2>2 DEF Works, NothingWon, Bound
    <3>3. Bound(t) \in Nat /\ Bound(t)' \in Nat
      BY <1>2 DEF Bound
    <3> QED BY <1>1, <3>1, <3>2, <3>3
  <2>4. CASE pc'[<<o, r>>] = "finish" /\ Task(r) = t
    <3>1. ~Finishing(t) /\ taskState[t] # "merged"
      BY <1>8, <2>4, ZenonT(60)
      DEF Works, MergeInv, ClaimsHeld, OneMerge, Finishing, Merging, RunsOf, Task
    <3>2. Cardinality(LandedOf(t)) <= crashes
      <4>1. Bound(t) = crashes
        BY <1>2, <3>1 DEF Bound
      <4> QED BY <1>1, <4>1
    <3>3. LandedOf(t)' = LandedOf(t) \cup {r}
      BY <1>8, <2>4 DEF Works, LandedOf, RunsOf, Task
    <3>4. /\ IsFiniteSet(LandedOf(t)')
          /\ Cardinality(LandedOf(t)') <= Cardinality(LandedOf(t)) + 1
      BY <1>1, <3>3, FS_AddElement
    <3>5. Bound(t)' = crashes + 1
      BY <1>8, <2>4 DEF Works, NothingWon, Bound, Finishing, RunsOf, Task
    <3> QED BY <1>1, <1>2, <3>2, <3>4, <3>5, FS_CardinalityType
  <2> QED BY <2>3, <2>4
<1>9. ASSUME NEW o \in Ops, NEW r \in Runs, Wins(o, r)
      PROVE  Bound(t) <= Bound(t)' /\ landed' = landed
  <2>1. ASSUME NEW p \in Ops, NEW q \in Runs, <<p, q>> # <<o, r>>, pc[<<p, q>>] = "finish"
        PROVE  pc'[<<p, q>>] = "finish"
    BY <1>9, <2>1 DEF Wins, OthersStay, SamePlace, Merging
  <2>2. taskState'[Task(r)] = "merged" /\ (taskState[t] = "merged" => taskState'[t] = "merged")
    BY <1>9, OthersType DEF Wins, Won, TypeOK
  <2>3. Finishing(t) => Finishing(t)' \/ taskState'[t] = "merged"
    BY <2>1, <2>2 DEF Finishing, RunsOf, Task
  <2> QED BY <1>4, <1>9, <2>2, <2>3 DEF Wins, Won
<1>10. ASSUME NEW r \in Runs, WebWins(r)
       PROVE  Bound(t) <= Bound(t)' /\ landed' = landed
  <2>1. Finishing(t) => Finishing(t)'
    BY <1>10 DEF WebWins, SamePlaces, SamePlace, Merging, Finishing, RunsOf
  <2>2. taskState[t] = "merged" => taskState'[t] = "merged"
    BY <1>10, OthersType DEF WebWins, Won, TypeOK
  <2> QED BY <1>4, <1>10, <2>1, <2>2 DEF WebWins, Won
<1> QED BY <1>3, <1>5, <1>6, <1>7, <1>8, <1>9, <1>10 DEF MergeMove

-----------------------------------------------------------------------------
(* The theorems *)

\* The invariant of the merges holds of every reachable state.
LEMMA MergeInvariant == Spec => [](TypeOK /\ MergeInv)
<1>1. Init => TypeOK /\ MergeInv
  <2> SUFFICES ASSUME Init PROVE TypeOK /\ MergeInv
    OBVIOUS
  <2>1. TypeOK
    BY RunsAssumption, IdAssumption
    DEF Init, TypeOK, Bodies, Holders, Pcs, MergePcs, RunStates, OpRecs, NoOp
  <2>2. \A o \in Ops, r \in Runs : pc[<<o, r>>] = "idle"
    BY IdAssumption, InBodies DEF Init
  <2>3. ClaimsHeld /\ OneMerge /\ ClaimsUsed /\ FinishLanded /\ MergedIsMerged
    BY <2>2, OtherPlaces
    DEF Init, ClaimsHeld, OneMerge, ClaimsUsed, FinishLanded, MergedIsMerged, Merging
  <2>4. LandedCount
    BY FS_EmptySet DEF Init, LandedCount
  <2> QED BY <2>1, <2>3, <2>4 DEF MergeInv
<1>2. TypeOK /\ MergeInv /\ [Next]_vars => (TypeOK /\ MergeInv)'
  <2> SUFFICES ASSUME TypeOK, MergeInv, [Next]_vars PROVE TypeOK' /\ MergeInv'
    OBVIOUS
  <2>1. MergeMove
    BY MergeMoves
  <2>2. ClaimsHeld' /\ OneMerge' /\ ClaimsUsed' /\ FinishLanded' /\ LandedCount' /\ MergedIsMerged'
    BY <2>1, HeldKept, OneKept, UsedKept, LandedKept, CountKept, MergedKept
  <2> QED BY <2>2, TypeStep DEF MergeInv
<1> QED BY <1>1, <1>2, PTL DEF Spec

\* However merges, refusals, errors, crashes and restarts interleave, a task is claimed
\* exactly while one merge body of it runs: claimMerge never lets in a second one, and no
\* way out of a merge forgets to release.
THEOREM ClaimIsExact == Spec => []ClaimExact
<1>1. TypeOK /\ MergeInv => ClaimExact
  <2> SUFFICES ASSUME TypeOK, MergeInv, NEW t \in Tasks
               PROVE  LET merging == {b \in Ops \X RunsOf(t) : pc[b] \in MergePcs}
                      IN Cardinality(merging) = IF t \in claimed THEN 1 ELSE 0
    BY DEF ClaimExact
  <2> DEFINE merging == {b \in Ops \X RunsOf(t) : pc[b] \in MergePcs}
  <2>1. CASE t \in claimed
    <3>1. PICK o \in Ops, r \in RunsOf(t) : Merging(o, r)
      BY <2>1 DEF MergeInv, ClaimsUsed
    <3>2. ASSUME NEW b \in merging PROVE b = <<o, r>>
      <4>1. PICK p \in Ops, q \in RunsOf(t) : b = <<p, q>>
        OBVIOUS
      <4>2. Merging(p, q)
        BY <4>1 DEF Merging
      <4> QED BY <3>1, <4>1, <4>2 DEF MergeInv, OneMerge, RunsOf, Task
    <3>3. <<o, r>> \in merging
      BY <3>1 DEF Merging
    <3>4. merging = {<<o, r>>}
      BY <3>2, <3>3
    <3>5. Cardinality(merging) = 1
      <4> HIDE DEF merging
      <4> QED BY <3>4, FS_Singleton
    <3> QED BY <2>1, <3>5
  <2>2. CASE t \notin claimed
    <3>1. merging = {}
      BY <2>2 DEF MergeInv, ClaimsHeld, Merging, RunsOf, Task
    <3>2. Cardinality(merging) = 0
      <4> HIDE DEF merging
      <4> QED BY <3>1, FS_EmptySet
    <3> QED BY <2>2, <3>2
  <2> QED BY <2>1, <2>2
<1> QED BY <1>1, MergeInvariant, PTL

\* A run is recorded as merged only when its branch is in the base or GitHub shows its
\* pull request merged, also when gh answered although it had only queued the merge.
THEOREM MergedRunsAreMerged == Spec => []MergedIsMerged
<1>1. TypeOK /\ MergeInv => MergedIsMerged
  BY DEF MergeInv
<1> QED BY <1>1, MergeInvariant, PTL

\* Of the branches of one task at most one lands, plus one for each death of the daemon
\* between git merge and the record of it.
THEOREM LandingsAreBounded == Spec => []LandedBounded
<1>1. TypeOK /\ MergeInv => LandedBounded
  <2> SUFFICES ASSUME TypeOK, MergeInv, NEW t \in Tasks
               PROVE  Cardinality(landed \cap RunsOf(t)) <= 1 + crashes
    BY DEF LandedBounded
  <2>1. Cardinality(landed \cap RunsOf(t)) \in Nat /\ crashes \in Nat
    <3>1. IsFiniteSet(landed \cap RunsOf(t))
      BY DEF MergeInv, LandedCount
    <3> QED BY <3>1, FS_CardinalityType, RunsAssumption DEF TypeOK
  <2>2. Cardinality(landed \cap RunsOf(t)) <=
          crashes + (IF Finishing(t) \/ taskState[t] = "merged" THEN 1 ELSE 0)
    BY DEF MergeInv, LandedCount
  <2> QED BY <2>1, <2>2
<1> QED BY <1>1, MergeInvariant, PTL

-----------------------------------------------------------------------------
(***************************************************************************)
(* The op locks of the runs, for every set of tasks, runs and operations,  *)
(* every number of crashes and any prompts: the op on a run is that of the *)
(* one body at work on it (OpHeldByBody), and none stays behind without a  *)
(* body that will clear it (NoLeakedOp).  Both hold of a daemon whose      *)
(* bodies and requests wait for reconcile, BootOverlap = FALSE; where they *)
(* run beside it, reconcile takes the op of a live body for one the daemon *)
(* died in.                                                                *)
(*                                                                         *)
(* OpMoves sorts every step into the ten things that can happen to op      *)
(* locks and to the bodies that hold them; OpInv is proved of those.       *)
(***************************************************************************)

Workers == Ops \cup {Post}

\* The places of postMerge while it discards one of the other runs.
OthersPcs == {"owait", "oremove", "oremoved"}

(* The inductive invariant *)

\* postMerge is at another run's discard exactly while postAt names that run,
\* which is another run of the winner's task and the target of nobody else.
Targets ==
  /\ \A r \in Runs : postLeft[r] \subseteq OtherRuns(r)
  /\ \A r \in Runs : pc[<<Post, r>>] \in OthersPcs <=> postAt[r] # None
  /\ \A r \in Runs : postAt[r] # None => postAt[r] \in OtherRuns(r)
  /\ \A r, p \in Runs : postAt[r] # None /\ postAt[r] = postAt[p] => r = p

\* The ops that no client sent: what the web merged is cleaned up, what postMerge
\* takes it discards.
OwnOps ==
  \A r \in Runs : /\ runOp[r].id = Web => runOp[r].kind = "cleanup"
                  /\ runOp[r].id = Post => runOp[r].kind = "discard"

\* A dead daemon has no bodies; one that reconciles has only the clean-ups it
\* started over, for runs it has looked at.
Booting ==
  /\ phase = "down" => \A p \in Workers, r \in Runs : ~Busy(<<p, r>>)
  /\ phase = "boot" =>
       /\ \A o \in Ops, r \in Runs : ~Busy(<<o, r>>)
       /\ \A r \in Runs : Busy(<<Post, r>>) => pc[<<Post, r>>] = "keep" /\ r \notin rec

\* An op that reconcile finds is that of a run it has still to look at, or of a
\* clean-up it has started over.
OpsCovered ==
  /\ NoLeakedOp
  /\ phase = "boot" => \A r \in Runs : runOp[r] # NoOp =>
       r \in rec \/ (runOp[r].kind = "cleanup" /\ Busy(<<Post, r>>))

\* No op is on a run of a deleted task.
DeletedIdle == \A t \in deleted : \A r \in RunsOf(t) : runOp[r] = NoOp

OpInv == OpHeldByBody /\ Targets /\ OwnOps /\ Booting /\ OpsCovered /\ DeletedIdle

-----------------------------------------------------------------------------
(* The moves *)

\* The body at work on run r for p stays at work, or stays away.
Stays(p, r) ==
  /\ Busy(<<p, r>>)' <=> Busy(<<p, r>>)
  /\ pc'[<<p, r>>] \in OthersPcs <=> pc[<<p, r>>] \in OthersPcs

StayBut(bodies) == \A p \in Workers, r \in Runs : <<p, r>> \notin bodies => Stays(p, r)

\* The op on run r becomes op, the ops on the other runs stay.
OpBecomes(r, op) == \A q \in Runs : runOp'[q] = IF q = r THEN op ELSE runOp[q]

AtBecomes(r, at) == \A q \in Runs : postAt'[q] = IF q = r THEN at ELSE postAt[q]

\* The clean-ups' lists of other runs only get shorter.
LeftShrinks == \A r \in Runs : postLeft'[r] \subseteq postLeft[r]

Aside ==
  /\ phase # "boot" \/ pc' = pc \/ \A p \in Workers, r \in Runs : pc'[<<p, r>>] = pc[<<p, r>>]
  /\ StayBut({}) /\ LeftShrinks
  /\ UNCHANGED <<runOp, postAt, phase, rec, deleted>>

Begins(o, targets) ==
  /\ phase = "up"
  /\ \A r \in targets : runOp[r] = NoOp /\ Task(r) \notin deleted
  /\ \A r \in Runs : runOp'[r] = IF r \in targets THEN [id |-> o, kind |-> KindOf[o]]
                                ELSE runOp[r]
  /\ \A r \in targets : Busy(<<o, r>>)'
  /\ StayBut({o} \X targets)
  /\ UNCHANGED <<postLeft, postAt, phase, rec, deleted>>

Ends(o, r) ==
  /\ phase = "up" /\ Busy(<<o, r>>) /\ ~Busy(<<o, r>>)'
  /\ StayBut({<<o, r>>})
  /\ OpBecomes(r, IF runOp[r].id = o THEN NoOp ELSE runOp[r])
  /\ UNCHANGED <<postLeft, postAt, phase, rec, deleted>>

CleanUpStarts(id, r) ==
  /\ phase = "up"
  /\ \/ id \in Ops /\ Busy(<<id, r>>) /\ ~Busy(<<id, r>>)'
     \/ id = Web /\ runOp[r] = NoOp /\ Task(r) \notin deleted
  /\ Busy(<<Post, r>>)' /\ pc'[<<Post, r>>] \notin OthersPcs
  /\ StayBut({<<id, r>>, <<Post, r>>})
  /\ OpBecomes(r, [id |-> id, kind |-> "cleanup"]) /\ runState'[r] = "merged"
  /\ \A q \in Runs : postLeft'[q] \subseteq IF q = r THEN OtherRuns(r) ELSE postLeft[q]
  /\ UNCHANGED <<postAt, phase, rec, deleted>>

Takes(r, q) ==
  /\ phase = "up" /\ pc[<<Post, r>>] = "others"
  /\ q \in postLeft[r] /\ runOp[q] = NoOp
  /\ pc'[<<Post, r>>] \in OthersPcs /\ StayBut({<<Post, r>>})
  /\ OpBecomes(q, [id |-> Post, kind |-> "discard"])
  /\ AtBecomes(r, q) /\ LeftShrinks
  /\ UNCHANGED <<phase, rec, deleted>>

Drops(r) ==
  /\ phase = "up" /\ pc[<<Post, r>>] \in OthersPcs
  /\ pc'[<<Post, r>>] = "others" /\ StayBut({<<Post, r>>})
  /\ OpBecomes(postAt[r], IF runOp[postAt[r]].id = Post THEN NoOp ELSE runOp[postAt[r]])
  /\ AtBecomes(r, None)
  /\ UNCHANGED <<postLeft, phase, rec, deleted>>

CleanUpEnds(r) ==
  /\ phase = "up" /\ pc[<<Post, r>>] = "others"
  /\ ~Busy(<<Post, r>>)' /\ StayBut({<<Post, r>>})
  /\ OpBecomes(r, IF runOp[r].kind = "cleanup" THEN NoOp ELSE runOp[r])
  /\ UNCHANGED <<postLeft, postAt, phase, rec, deleted>>

Deletes(t) ==
  /\ phase = "up" /\ \A r \in RunsOf(t) : runOp[r] = NoOp
  /\ Deletable(t) /\ deleted' = deleted \cup {t}
  /\ UNCHANGED <<pc, runOp, postLeft, postAt, phase, rec, runState, wt>>

OpMove ==
  \/ Aside \/ Crash \/ Restart \/ BootDone
  \/ \E o \in Ops, targets \in SUBSET Runs : Begins(o, targets)
  \/ \E o \in Ops, r \in Runs : Ends(o, r)
  \/ \E id \in Ops \cup {Web}, r \in Runs : CleanUpStarts(id, r)
  \/ \E r, q \in Runs : Takes(r, q)
  \/ \E r \in Runs : Drops(r) \/ CleanUpEnds(r) \/ ReconcileOp(r)
  \/ \E t \in Tasks : Deletes(t)

-----------------------------------------------------------------------------
(* Every step is a move *)

\* The ids of requests, of postMerge, of the creation and of the web differ.
LEMMA WorkerIds ==
  /\ Create \notin Workers /\ Web \notin Workers /\ Post \in Workers /\ Ops \subseteq Workers
  /\ \A p \in Workers, r \in Runs : <<p, r>> \in Bodies
  BY IdAssumption DEF Workers, Bodies

\* A body that goes from one place to another, neither of them its end nor at another
\* run's discard, stays at work (Goto).
LEMMA GotoStays ==
  ASSUME TypeOK, NEW p \in Workers \cup {Create}, NEW r \in Runs, NEW place, Goto(<<p, r>>, place)
  PROVE  /\ StayBut({<<p, r>>})
         /\ pc'[<<p, r>>] = place
         /\ pc[<<p, r>>] # "idle" /\ place # "idle"
            /\ pc[<<p, r>>] \notin OthersPcs /\ place \notin OthersPcs => StayBut({})
         /\ p = Create => StayBut({})
  BY WorkerIds, InBodies DEF TypeOK, Goto, StayBut, Stays, Busy, Workers

\* endOp is the end of a body.
LEMMA EndOpEnds ==
  ASSUME TypeOK, NEW o \in Ops, NEW r \in Runs, NEW out, EndOp(o, r, out), Busy(<<o, r>>),
         phase = "up", UNCHANGED <<postLeft, postAt, phase, rec, deleted>>
  PROVE  Ends(o, r)
<1>1. StayBut({<<o, r>>}) /\ pc'[<<o, r>>] = "idle"
  BY GotoStays, WorkerIds DEF EndOp
<1> QED BY <1>1 DEF Ends, EndOp, Busy, OpBecomes, TypeOK

\* So is the end of the launch of an op's run; the creation of a run holds no op.
LEMMA PipelineEndMoves ==
  ASSUME TypeOK, NEW o \in Ops \cup {Create}, NEW r \in Runs, NEW out, PipelineEnd(o, r, out),
         Busy(<<o, r>>), phase = "up", UNCHANGED <<postLeft, postAt, phase, rec, deleted>>
  PROVE  OpMove
<1>1. CASE o = Create
  <2>1. StayBut({}) /\ UNCHANGED runOp
    BY <1>1, GotoStays DEF PipelineEnd
  <2> QED BY <2>1 DEF OpMove, Aside, LeftShrinks
<1>2. CASE o # Create
  BY <1>2, EndOpEnds DEF PipelineEnd, OpMove
<1> QED BY <1>1, <1>2

\* A step that leaves bodies, ops and clean-ups alone.
LEMMA StillAside ==
  ASSUME UNCHANGED <<pc, runOp, postLeft, postAt, phase, rec, deleted>>
  PROVE  OpMove
  BY DEF OpMove, Aside, StayBut, Stays, Busy, LeftShrinks

\* Every step of the system is one of the moves.
LEMMA OpMoves ==
  ASSUME BootOverlap = FALSE, TypeOK, OpInv, [Next]_vars
  PROVE  OpMove
<1> USE DEF records, taskRec, opRec, world, posting, locks, timers, volatile, process
<1>1. ASSUME NEW o \in Ops, NEW r \in Runs, RequestOp(o, r) PROVE OpMove
  <2>1. /\ phase = "up" /\ runOp[r] = NoOp /\ Task(r) \notin deleted /\ BeginOp(o, r)
        /\ UNCHANGED <<postLeft, postAt, phase, rec, deleted>>
    BY <1>1 DEF RequestOp, Serving, OpGuard
  <2>2. FirstPc(o) # "idle"
    BY RunsAssumption DEF FirstPc, Kinds
  <2>3. StayBut({<<o, r>>}) /\ Busy(<<o, r>>)'
    BY <2>1, <2>2, GotoStays, WorkerIds DEF BeginOp, Busy
  <2>4. Begins(o, {r})
    BY <2>1, <2>3 DEF Begins, BeginOp, TypeOK, StayBut
  <2> QED BY <2>4 DEF OpMove
<1>2. ASSUME NEW o \in Ops, NEW r \in Runs, RequestMerge(o, r) PROVE OpMove
  <2>1. /\ phase = "up" /\ runOp[r] = NoOp /\ Task(r) \notin deleted /\ BeginOp(o, r)
        /\ UNCHANGED <<postLeft, postAt, phase, rec, deleted>>
    BY <1>2 DEF RequestMerge, Serving, OpGuard
  <2>2. FirstPc(o) # "idle"
    BY RunsAssumption DEF FirstPc, Kinds
  <2>3. StayBut({<<o, r>>}) /\ Busy(<<o, r>>)'
    BY <2>1, <2>2, GotoStays, WorkerIds DEF BeginOp, Busy
  <2>4. Begins(o, {r})
    BY <2>1, <2>3 DEF Begins, BeginOp, TypeOK, StayBut
  <2> QED BY <2>4 DEF OpMove
<1>3. ASSUME NEW o \in Ops, NEW r \in Runs, RefuseMerge(o, r) PROVE OpMove
  BY <1>3, StillAside DEF RefuseMerge
<1>4. ASSUME NEW o \in Ops, NEW t \in Tasks, DiscardAll(o, t) PROVE OpMove
  <2> DEFINE targets == {r \in RunsOf(t) :
                           /\ runState[r] \in {"running", "review_ready", "failed"}
                           /\ runOp[r] = NoOp
                           /\ Forced(o) \/ ~LiveWorking(r)}
  <2>1. /\ phase = "up" /\ t \notin deleted
        /\ runOp' = [r \in Runs |-> IF r \in targets
                                    THEN [id |-> o, kind |-> KindOf[o]] ELSE runOp[r]]
        /\ pc' = [b \in Bodies |->
                    IF b[1] = o /\ b[2] \in targets THEN "check" ELSE pc[b]]
        /\ UNCHANGED <<postLeft, postAt, phase, rec, deleted>>
    BY <1>4 DEF DiscardAll, Serving
  <2>2. targets \in SUBSET Runs /\ \A r \in targets : runOp[r] = NoOp /\ Task(r) \notin deleted
    BY <2>1 DEF RunsOf, Task
  <2> HIDE DEF targets
  <2>3. \A r \in targets : Busy(<<o, r>>)'
    BY <2>1, <2>2, InBodies DEF Busy
  <2>4. StayBut({o} \X targets)
    BY <2>1, <2>2, WorkerIds DEF StayBut, Stays, Busy
  <2>5. Begins(o, targets)
    BY <2>1, <2>2, <2>3, <2>4 DEF Begins
  <2> QED BY <2>2, <2>5 DEF OpMove
<1>5. ASSUME NEW t \in Tasks, DeleteTask(t) PROVE OpMove
  BY <1>5 DEF DeleteTask, Serving, Deletable, Deletes, OpMove
<1>6. ASSUME NEW r \in Runs, PrStatus(r) PROVE OpMove
  BY <1>6, StillAside DEF PrStatus
<1>7. ASSUME NEW r \in Runs, PromptDelivered(r) PROVE OpMove
  BY <1>7, StillAside DEF PromptDelivered
<1>8. ASSUME NEW o \in Ops, NEW r \in Runs, EndGit(o, r) PROVE OpMove
  <2>1. phase = "up" /\ Busy(<<o, r>>) /\ UNCHANGED <<postLeft, postAt, phase, rec, deleted>>
    BY <1>8 DEF EndGit, At, Serving, Busy
  <2>2. \E out \in {"ok", "error"} : EndOp(o, r, out)
    BY <1>8 DEF EndGit
  <2> QED BY <2>1, <2>2, EndOpEnds DEF OpMove
<1>9. ASSUME NEW o \in Ops, NEW r \in Runs, MergeStatus(o, r) PROVE OpMove
  <2>1. phase = "up" /\ Busy(<<o, r>>) /\ UNCHANGED <<postLeft, postAt, phase, rec, deleted>>
    BY <1>9 DEF MergeStatus, At, Serving, Busy
  <2>2. CASE \E place \in Pcs \ ({"idle"} \cup OthersPcs) :
               Goto(<<o, r>>, place) /\ UNCHANGED runOp
    <3>1. StayBut({})
      BY <1>9, <2>2, GotoStays, WorkerIds DEF MergeStatus, At, OthersPcs
    <3> QED BY <2>1, <2>2, <3>1 DEF OpMove, Aside, LeftShrinks
  <2>3. CASE \E out \in {"ok", "error"} : EndOp(o, r, out)
    BY <2>1, <2>3, EndOpEnds DEF OpMove
  <2> QED BY <1>9, <2>2, <2>3, PlacesInPcs DEF MergeStatus, OthersPcs, FailMerge
<1>10. ASSUME NEW o \in Ops, NEW r \in Runs, MergeLock(o, r) PROVE OpMove
  <2>1. phase = "up" /\ Busy(<<o, r>>) /\ UNCHANGED <<postLeft, postAt, phase, rec, deleted>>
    BY <1>10 DEF MergeLock, At, Serving, Busy
  <2>2. CASE \E place \in Pcs \ ({"idle"} \cup OthersPcs) :
               Goto(<<o, r>>, place) /\ UNCHANGED runOp
    <3>1. StayBut({})
      BY <1>10, <2>2, GotoStays, WorkerIds DEF MergeLock, At, OthersPcs
    <3> QED BY <2>1, <2>2, <3>1 DEF OpMove, Aside, LeftShrinks
  <2>3. CASE \E out \in {"ok", "error"} : EndOp(o, r, out)
    BY <2>1, <2>3, EndOpEnds DEF OpMove
  <2> QED BY <1>10, <2>2, <2>3, PlacesInPcs DEF MergeLock, OthersPcs, FailMerge
<1>11. ASSUME NEW o \in Ops, NEW r \in Runs, MergeGit(o, r) PROVE OpMove
  <2>1. phase = "up" /\ Busy(<<o, r>>) /\ UNCHANGED <<postLeft, postAt, phase, rec, deleted>>
    BY <1>11 DEF MergeGit, At, Serving, Busy
  <2>2. CASE \E place \in Pcs \ ({"idle"} \cup OthersPcs) :
               Goto(<<o, r>>, place) /\ UNCHANGED runOp
    <3>1. StayBut({})
      BY <1>11, <2>2, GotoStays, WorkerIds DEF MergeGit, At, OthersPcs
    <3> QED BY <2>1, <2>2, <3>1 DEF OpMove, Aside, LeftShrinks
  <2>3. CASE \E out \in {"ok", "error"} : EndOp(o, r, out)
    BY <2>1, <2>3, EndOpEnds DEF OpMove
  <2> QED BY <1>11, <2>2, <2>3, PlacesInPcs DEF MergeGit, OthersPcs, FailMerge
<1>12. ASSUME NEW o \in Ops, NEW r \in Runs, PrMergeView(o, r) PROVE OpMove
  <2>1. phase = "up" /\ Busy(<<o, r>>) /\ UNCHANGED <<postLeft, postAt, phase, rec, deleted>>
    BY <1>12 DEF PrMergeView, At, Serving, Busy
  <2>2. CASE \E place \in Pcs \ ({"idle"} \cup OthersPcs) :
               Goto(<<o, r>>, place) /\ UNCHANGED runOp
    <3>1. StayBut({})
      BY <1>12, <2>2, GotoStays, WorkerIds DEF PrMergeView, At, OthersPcs
    <3> QED BY <2>1, <2>2, <3>1 DEF OpMove, Aside, LeftShrinks
  <2>3. CASE \E out \in {"ok", "error"} : EndOp(o, r, out)
    BY <2>1, <2>3, EndOpEnds DEF OpMove
  <2> QED BY <1>12, <2>2, <2>3, PlacesInPcs DEF PrMergeView, OthersPcs, FailMerge
<1>13. ASSUME NEW o \in Ops, NEW r \in Runs, PrMergeGh(o, r) PROVE OpMove
  <2>1. phase = "up" /\ Busy(<<o, r>>) /\ UNCHANGED <<postLeft, postAt, phase, rec, deleted>>
    BY <1>13 DEF PrMergeGh, At, Serving, Busy
  <2>2. CASE \E place \in Pcs \ ({"idle"} \cup OthersPcs) :
               Goto(<<o, r>>, place) /\ UNCHANGED runOp
    <3>1. StayBut({})
      BY <1>13, <2>2, GotoStays, WorkerIds DEF PrMergeGh, At, OthersPcs
    <3> QED BY <2>1, <2>2, <3>1 DEF OpMove, Aside, LeftShrinks
  <2>3. CASE \E out \in {"ok", "error"} : EndOp(o, r, out)
    BY <2>1, <2>3, EndOpEnds DEF OpMove
  <2> QED BY <1>13, <2>2, <2>3, PlacesInPcs DEF PrMergeGh, OthersPcs, FailMerge
<1>14. ASSUME NEW o \in Ops, NEW r \in Runs, MergeFinish(o, r) PROVE OpMove
  <2>1. phase = "up" /\ Busy(<<o, r>>) /\ UNCHANGED <<postAt, phase, rec, deleted>>
    BY <1>14 DEF MergeFinish, At, Serving, Busy
  <2>2. CASE FinishClientMerge(o, r)
    <3>1. /\ pc' = [pc EXCEPT ![<<o, r>>] = "idle", ![<<Post, r>>] = "keep"]
          /\ runOp' = [runOp EXCEPT ![r] = [id |-> o, kind |-> "cleanup"]]
          /\ \E others \in SUBSET OtherRuns(r) : postLeft' = [postLeft EXCEPT ![r] = others]
      BY <2>2 DEF FinishClientMerge, FinishMerge
    <3>2. ~Busy(<<o, r>>)' /\ Busy(<<Post, r>>)' /\ pc'[<<Post, r>>] \notin OthersPcs
      BY <3>1, InBodies, IdAssumption DEF Busy, TypeOK, OthersPcs
    <3>3. StayBut({<<o, r>>, <<Post, r>>})
      BY <3>1, WorkerIds DEF StayBut, Stays, Busy, TypeOK
    <3>4. runState'[r] = "merged"
      BY <2>2 DEF FinishClientMerge, FinishMerge, SetRun, TypeOK
    <3>5. CleanUpStarts(o, r)
      BY <2>1, <3>1, <3>2, <3>3, <3>4 DEF CleanUpStarts, OpBecomes, TypeOK
    <3> QED BY <3>5 DEF OpMove
  <2> QED BY <1>14, <2>2 DEF MergeFinish
<1>15. ASSUME NEW o \in Ops, NEW r \in Runs, PrMergeAfter(o, r) PROVE OpMove
  <2>1. phase = "up" /\ Busy(<<o, r>>) /\ UNCHANGED <<postAt, phase, rec, deleted>>
    BY <1>15 DEF PrMergeAfter, At, Serving, Busy
  <2>2. CASE FinishClientMerge(o, r)
    <3>1. /\ pc' = [pc EXCEPT ![<<o, r>>] = "idle", ![<<Post, r>>] = "keep"]
          /\ runOp' = [runOp EXCEPT ![r] = [id |-> o, kind |-> "cleanup"]]
          /\ \E others \in SUBSET OtherRuns(r) : postLeft' = [postLeft EXCEPT ![r] = others]
      BY <2>2 DEF FinishClientMerge, FinishMerge
    <3>2. ~Busy(<<o, r>>)' /\ Busy(<<Post, r>>)' /\ pc'[<<Post, r>>] \notin OthersPcs
      BY <3>1, InBodies, IdAssumption DEF Busy, TypeOK, OthersPcs
    <3>3. StayBut({<<o, r>>, <<Post, r>>})
      BY <3>1, WorkerIds DEF StayBut, Stays, Busy, TypeOK
    <3>4. runState'[r] = "merged"
      BY <2>2 DEF FinishClientMerge, FinishMerge, SetRun, TypeOK
    <3>5. CleanUpStarts(o, r)
      BY <2>1, <3>1, <3>2, <3>3, <3>4 DEF CleanUpStarts, OpBecomes, TypeOK
    <3> QED BY <3>5 DEF OpMove
  <2>3. CASE UNCHANGED postLeft /\ \E out \in {"ok", "error"} : EndOp(o, r, out)
    BY <2>1, <2>3, EndOpEnds DEF OpMove
  <2> QED BY <1>15, <2>2, <2>3 DEF PrMergeAfter, FailMerge
<1>16. ASSUME NEW r \in Runs, GithubMerges(r) PROVE OpMove
  BY <1>16, StillAside DEF GithubMerges
<1>17. ASSUME NEW r \in Runs, PollStart(r) PROVE OpMove
  BY <1>17, StillAside DEF PollStart
<1>18. ASSUME NEW r \in Runs, ApplyPrView(r) PROVE OpMove
  <2>1. phase = "up" /\ Task(r) \notin deleted /\ UNCHANGED <<postAt, phase, rec, deleted>>
    BY <1>18 DEF ApplyPrView, Serving
  <2>2. CASE WebCompletes(r) /\ FinishMerge(Web, r, OtherRuns(r)) /\ Goto(<<Post, r>>, "keep")
    <3>1. StayBut({<<Post, r>>}) /\ pc'[<<Post, r>>] = "keep"
      BY <2>2, GotoStays, WorkerIds
    <3>2. CleanUpStarts(Web, r)
      BY <2>1, <2>2, <3>1
      DEF CleanUpStarts, OpBecomes, WebCompletes, FinishMerge, SetRun, StayBut, Busy, OthersPcs, TypeOK
    <3> QED BY <3>2 DEF OpMove
  <2>3. CASE UNCHANGED <<runOp, pc, postLeft>>
    BY <2>1, <2>3, StillAside
  <2> QED BY <1>18, <2>2, <2>3 DEF ApplyPrView
<1>19. ASSUME NEW o \in Ops, NEW r \in Runs, DiscardCheck(o, r) PROVE OpMove
  <2>1. phase = "up" /\ Busy(<<o, r>>) /\ UNCHANGED <<postLeft, postAt, phase, rec, deleted>>
    BY <1>19 DEF DiscardCheck, At, Serving, Busy
  <2>2. CASE \E place \in Pcs \ ({"idle"} \cup OthersPcs) :
               Goto(<<o, r>>, place) /\ UNCHANGED runOp
    <3>1. StayBut({})
      BY <1>19, <2>2, GotoStays, WorkerIds DEF DiscardCheck, At, OthersPcs
    <3> QED BY <2>1, <2>2, <3>1 DEF OpMove, Aside, LeftShrinks
  <2>3. CASE \E out \in {"ok", "error"} : EndOp(o, r, out)
    BY <2>1, <2>3, EndOpEnds DEF OpMove
  <2> QED BY <1>19, <2>2, <2>3, PlacesInPcs DEF DiscardCheck, OthersPcs
<1>20. ASSUME NEW o \in Ops \cup {Post}, NEW r \in Runs, RemoveLock(o, r) PROVE OpMove
  <2>1. StayBut({})
    BY <1>20, GotoStays, WorkerIds DEF RemoveLock, At, OthersPcs, Workers
  <2>2. phase = "up" /\ UNCHANGED <<runOp, postLeft, postAt, phase, rec, deleted>>
    BY <1>20 DEF RemoveLock, At, Serving
  <2> QED BY <2>1, <2>2 DEF OpMove, Aside, LeftShrinks
<1>21. ASSUME NEW o \in Ops, NEW r \in Runs, DiscardRemove(o, r) PROVE OpMove
  <2>1. phase = "up" /\ Busy(<<o, r>>) /\ UNCHANGED <<postLeft, postAt, phase, rec, deleted>>
    BY <1>21 DEF DiscardRemove, At, Serving, Busy
  <2>2. CASE \E place \in Pcs \ ({"idle"} \cup OthersPcs) :
               Goto(<<o, r>>, place) /\ UNCHANGED runOp
    <3>1. StayBut({})
      BY <1>21, <2>2, GotoStays, WorkerIds DEF DiscardRemove, At, OthersPcs
    <3> QED BY <2>1, <2>2, <3>1 DEF OpMove, Aside, LeftShrinks
  <2>3. CASE \E out \in {"ok", "error"} : EndOp(o, r, out)
    BY <2>1, <2>3, EndOpEnds DEF OpMove
  <2> QED BY <1>21, <2>2, <2>3, PlacesInPcs DEF DiscardRemove, OthersPcs
<1>22. ASSUME NEW o \in Ops, NEW r \in Runs, DiscardDone(o, r) PROVE OpMove
  <2>1. phase = "up" /\ Busy(<<o, r>>) /\ UNCHANGED <<postLeft, postAt, phase, rec, deleted>>
    BY <1>22 DEF DiscardDone, At, Serving, Busy
  <2>2. \E out \in {"ok", "error"} : EndOp(o, r, out)
    BY <1>22 DEF DiscardDone
  <2> QED BY <2>1, <2>2, EndOpEnds DEF OpMove
<1>23. ASSUME NEW r \in Runs, PostKeep(r) PROVE OpMove
  <2>1. StayBut({})
    BY <1>23, GotoStays, WorkerIds DEF PostKeep, At, OthersPcs, Workers
  <2>2. phase = "up" /\ UNCHANGED <<runOp, postLeft, postAt, phase, rec, deleted>>
    BY <1>23 DEF PostKeep, At, Serving
  <2> QED BY <2>1, <2>2 DEF OpMove, Aside, LeftShrinks
<1>24. ASSUME NEW r \in Runs, PostCheck(r) PROVE OpMove
  <2>1. StayBut({})
    BY <1>24, GotoStays, WorkerIds DEF PostCheck, At, OthersPcs, Workers
  <2>2. phase = "up" /\ UNCHANGED <<runOp, postLeft, postAt, phase, rec, deleted>>
    BY <1>24 DEF PostCheck, At, Serving
  <2> QED BY <2>1, <2>2 DEF OpMove, Aside, LeftShrinks
<1>25. ASSUME NEW r \in Runs, PostRemove(r) PROVE OpMove
  <2>1. StayBut({})
    BY <1>25, GotoStays, WorkerIds DEF PostRemove, At, OthersPcs, Workers
  <2>2. phase = "up" /\ UNCHANGED <<runOp, postLeft, postAt, phase, rec, deleted>>
    BY <1>25 DEF PostRemove, At, Serving
  <2> QED BY <2>1, <2>2 DEF OpMove, Aside, LeftShrinks
<1>26. ASSUME NEW r \in Runs, NEW q \in Runs, PostSkip(r, q) PROVE OpMove
  <2>1. LeftShrinks /\ UNCHANGED <<pc, runOp, postAt, phase, rec, deleted>>
    BY <1>26 DEF PostSkip, LeftShrinks, TypeOK
  <2> QED BY <2>1 DEF OpMove, Aside, StayBut, Stays, Busy
<1>27. ASSUME NEW r \in Runs, NEW q \in Runs, PostDiscard(r, q) PROVE OpMove
  <2>1. StayBut({<<Post, r>>}) /\ pc'[<<Post, r>>] = "owait"
    BY <1>27, GotoStays, WorkerIds DEF PostDiscard
  <2>2. Takes(r, q)
    BY <1>27, <2>1
    DEF PostDiscard, At, Serving, Takes, OthersPcs, LeftShrinks, OpBecomes, AtBecomes, TypeOK
  <2> QED BY <2>2 DEF OpMove
<1>28. ASSUME NEW r \in Runs, PostOtherLock(r) PROVE OpMove
  <2>1. StayBut({<<Post, r>>}) /\ pc[<<Post, r>>] = "owait" /\ pc'[<<Post, r>>] = "oremove"
    BY <1>28, GotoStays, WorkerIds DEF PostOtherLock, At
  <2>2. StayBut({})
    BY <2>1 DEF StayBut, Stays, Busy, OthersPcs
  <2>3. phase = "up" /\ UNCHANGED <<runOp, postLeft, postAt, phase, rec, deleted>>
    BY <1>28 DEF PostOtherLock, At, Serving
  <2> QED BY <2>2, <2>3 DEF OpMove, Aside, LeftShrinks
<1>29. ASSUME NEW r \in Runs, PostOtherRemove(r) PROVE OpMove
  <2>1. /\ phase = "up" /\ pc[<<Post, r>>] = "oremove"
        /\ UNCHANGED <<postLeft, phase, rec, deleted>>
    BY <1>29 DEF PostOtherRemove, At, Serving
  <2>2. CASE Goto(<<Post, r>>, "oremoved") /\ UNCHANGED <<runOp, postAt>>
    <3>1. StayBut({<<Post, r>>}) /\ pc'[<<Post, r>>] = "oremoved"
      BY <2>2, GotoStays, WorkerIds
    <3>2. StayBut({})
      BY <2>1, <3>1 DEF StayBut, Stays, Busy, OthersPcs
    <3> QED BY <2>1, <2>2, <3>2 DEF OpMove, Aside, LeftShrinks
  <2>3. CASE PostRelease(r, postAt[r])
    <3>1. StayBut({<<Post, r>>}) /\ pc'[<<Post, r>>] = "others"
      BY <2>3, GotoStays, WorkerIds DEF PostRelease
    <3>2. Drops(r)
      BY <2>1, <2>3, <3>1 DEF Drops, PostRelease, OthersPcs, OpBecomes, AtBecomes, TypeOK
    <3> QED BY <3>2 DEF OpMove
  <2> QED BY <1>29, <2>2, <2>3 DEF PostOtherRemove
<1>30. ASSUME NEW r \in Runs, PostOtherDone(r) PROVE OpMove
  <2>1. StayBut({<<Post, r>>}) /\ pc'[<<Post, r>>] = "others"
    BY <1>30, GotoStays, WorkerIds DEF PostOtherDone, PostRelease
  <2>2. Drops(r)
    BY <1>30, <2>1
    DEF PostOtherDone, At, Serving, Drops, PostRelease, OthersPcs, OpBecomes, AtBecomes,
        TypeOK
  <2> QED BY <2>2 DEF OpMove
<1>31. ASSUME NEW r \in Runs, PostEnd(r) PROVE OpMove
  <2>1. StayBut({<<Post, r>>}) /\ pc'[<<Post, r>>] = "idle"
    BY <1>31, GotoStays, WorkerIds DEF PostEnd
  <2>2. CleanUpEnds(r)
    BY <1>31, <2>1 DEF PostEnd, At, Serving, CleanUpEnds, Busy, OpBecomes, TypeOK
  <2> QED BY <2>2 DEF OpMove
<1>32. ASSUME NEW o \in Ops, NEW r \in Runs, FixStart(o, r) PROVE OpMove
  <2>1. StayBut({})
    BY <1>32, GotoStays, WorkerIds DEF FixStart, At, OthersPcs, Workers
  <2>2. phase = "up" /\ UNCHANGED <<runOp, postLeft, postAt, phase, rec, deleted>>
    BY <1>32 DEF FixStart, At, Serving
  <2> QED BY <2>1, <2>2 DEF OpMove, Aside, LeftShrinks
<1>33. ASSUME NEW o \in Ops, NEW r \in Runs, Reopen(o, r) PROVE OpMove
  <2>1. phase = "up" /\ Busy(<<o, r>>) /\ UNCHANGED <<postLeft, postAt, phase, rec, deleted>>
    BY <1>33 DEF Reopen, At, Serving, Busy
  <2>2. CASE \E place \in Pcs \ ({"idle"} \cup OthersPcs) :
               Goto(<<o, r>>, place) /\ UNCHANGED runOp
    <3>1. StayBut({})
      BY <1>33, <2>2, GotoStays, WorkerIds DEF Reopen, At, OthersPcs
    <3> QED BY <2>1, <2>2, <3>1 DEF OpMove, Aside, LeftShrinks
  <2>3. CASE \E out \in {"ok", "error"} : EndOp(o, r, out)
    BY <2>1, <2>3, EndOpEnds DEF OpMove
  <2> QED BY <1>33, <2>2, <2>3, PlacesInPcs DEF Reopen, OthersPcs
<1>34. ASSUME NEW o \in Ops, NEW r \in Runs, ReopenLock(o, r) PROVE OpMove
  <2>1. StayBut({})
    BY <1>34, GotoStays, WorkerIds DEF ReopenLock, At, OthersPcs, Workers
  <2>2. phase = "up" /\ UNCHANGED <<runOp, postLeft, postAt, phase, rec, deleted>>
    BY <1>34 DEF ReopenLock, At, Serving
  <2> QED BY <2>1, <2>2 DEF OpMove, Aside, LeftShrinks
<1>35. ASSUME NEW o \in Ops, NEW r \in Runs, ReopenAdd(o, r) PROVE OpMove
  <2>1. phase = "up" /\ Busy(<<o, r>>) /\ UNCHANGED <<postLeft, postAt, phase, rec, deleted>>
    BY <1>35 DEF ReopenAdd, At, Serving, Busy
  <2>2. CASE \E place \in Pcs \ ({"idle"} \cup OthersPcs) :
               Goto(<<o, r>>, place) /\ UNCHANGED runOp
    <3>1. StayBut({})
      BY <1>35, <2>2, GotoStays, WorkerIds DEF ReopenAdd, At, OthersPcs
    <3> QED BY <2>1, <2>2, <3>1 DEF OpMove, Aside, LeftShrinks
  <2>3. CASE \E out \in {"ok", "error"} : EndOp(o, r, out)
    BY <2>1, <2>3, EndOpEnds DEF OpMove
  <2> QED BY <1>35, <2>2, <2>3, PlacesInPcs DEF ReopenAdd, OthersPcs
<1>36. ASSUME NEW t \in Tasks, CreateLock(t) PROVE OpMove
  <2>1. \A p \in Workers, r \in Runs : pc'[<<p, r>>] = pc[<<p, r>>]
    BY <1>36, WorkerIds DEF CreateLock, TypeOK
  <2>2. UNCHANGED <<runOp, postLeft, postAt, phase, rec, deleted>>
    BY <1>36 DEF CreateLock
  <2> QED BY <2>1, <2>2 DEF OpMove, Aside, StayBut, Stays, Busy, LeftShrinks
<1>37. ASSUME NEW t \in Tasks, CreateUnlock(t) PROVE OpMove
  <2>1. \A p \in Workers, r \in Runs : pc'[<<p, r>>] = pc[<<p, r>>]
    BY <1>37, WorkerIds DEF CreateUnlock, TypeOK
  <2>2. UNCHANGED <<runOp, postLeft, postAt, phase, rec, deleted>>
    BY <1>37 DEF CreateUnlock
  <2> QED BY <2>1, <2>2 DEF OpMove, Aside, StayBut, Stays, Busy, LeftShrinks
<1>38. ASSUME NEW t \in Tasks, LaunchAll(t) PROVE OpMove
  <2>1. \A p \in Workers, r \in Runs : pc'[<<p, r>>] = pc[<<p, r>>]
    BY <1>38, WorkerIds DEF LaunchAll, TypeOK
  <2>2. UNCHANGED <<runOp, postLeft, postAt, phase, rec, deleted>>
    BY <1>38 DEF LaunchAll
  <2> QED BY <2>1, <2>2 DEF OpMove, Aside, StayBut, Stays, Busy, LeftShrinks
<1>39. ASSUME NEW r \in Runs, AddWorktree(r) PROVE OpMove
  <2>1. phase = "up" /\ StayBut({}) /\ UNCHANGED <<runOp, postLeft, postAt, phase, rec, deleted>>
    BY <1>39, GotoStays DEF AddWorktree, At, Serving
  <2> QED BY <2>1 DEF OpMove, Aside, LeftShrinks
<1>40. ASSUME NEW o \in Ops \cup {Create}, NEW r \in Runs, PrepareRun(o, r) PROVE OpMove
  <2>1. phase = "up" /\ Busy(<<o, r>>) /\ UNCHANGED <<postLeft, postAt, phase, rec, deleted>>
    BY <1>40 DEF PrepareRun, At, Serving, Busy
  <2>2. CASE \E place \in Pcs \ ({"idle"} \cup OthersPcs) :
               Goto(<<o, r>>, place) /\ UNCHANGED runOp
    <3>1. StayBut({})
      BY <1>40, <2>2, GotoStays, WorkerIds DEF PrepareRun, At, OthersPcs
    <3> QED BY <2>1, <2>2, <3>1 DEF OpMove, Aside, LeftShrinks
  <2>3. CASE \E out \in {"ok", "error"} : PipelineEnd(o, r, out)
    BY <2>1, <2>3, PipelineEndMoves
  <2> QED BY <1>40, <2>2, <2>3, PlacesInPcs DEF PrepareRun, OthersPcs
<1>41. ASSUME NEW o \in Ops \cup {Create}, NEW r \in Runs, Launched(o, r) PROVE OpMove
  <2>1. phase = "up" /\ Busy(<<o, r>>) /\ UNCHANGED <<postLeft, postAt, phase, rec, deleted>>
    BY <1>41 DEF Launched, At, Serving, Busy
  <2>2. CASE \E place \in Pcs \ ({"idle"} \cup OthersPcs) :
               Goto(<<o, r>>, place) /\ UNCHANGED runOp
    <3>1. StayBut({})
      BY <1>41, <2>2, GotoStays, WorkerIds DEF Launched, At, OthersPcs
    <3> QED BY <2>1, <2>2, <3>1 DEF OpMove, Aside, LeftShrinks
  <2>3. CASE \E out \in {"ok", "error"} : PipelineEnd(o, r, out)
    BY <2>1, <2>3, PipelineEndMoves
  <2> QED BY <1>41, <2>2, <2>3, PlacesInPcs DEF Launched, OthersPcs
<1>42. ASSUME NEW o \in Ops \cup {Create}, NEW r \in Runs, AgentReady(o, r) PROVE OpMove
  <2>1. phase = "up" /\ Busy(<<o, r>>) /\ UNCHANGED <<postLeft, postAt, phase, rec, deleted>>
    BY <1>42 DEF AgentReady, At, Serving, Busy
  <2>2. CASE \E place \in Pcs \ ({"idle"} \cup OthersPcs) :
               Goto(<<o, r>>, place) /\ UNCHANGED runOp
    <3>1. StayBut({})
      BY <1>42, <2>2, GotoStays, WorkerIds DEF AgentReady, At, OthersPcs
    <3> QED BY <2>1, <2>2, <3>1 DEF OpMove, Aside, LeftShrinks
  <2>3. CASE \E out \in {"ok", "error"} : PipelineEnd(o, r, out)
    BY <2>1, <2>3, PipelineEndMoves
  <2> QED BY <1>42, <2>2, <2>3, PlacesInPcs DEF AgentReady, OthersPcs
<1>43. ASSUME NEW o \in Ops \cup {Create}, NEW r \in Runs, DeliverPrompt(o, r) PROVE OpMove
  <2>1. phase = "up" /\ Busy(<<o, r>>) /\ UNCHANGED <<postLeft, postAt, phase, rec, deleted>>
    BY <1>43 DEF DeliverPrompt, At, Serving, Busy
  <2>3. CASE \E out \in {"ok", "error"} : PipelineEnd(o, r, out)
    BY <2>1, <2>3, PipelineEndMoves
  <2> QED BY <1>43, <2>3 DEF DeliverPrompt
<1>44. ASSUME NEW r \in Runs, AgentWorking(r) PROVE OpMove
  BY <1>44, StillAside DEF AgentWorking
<1>45. ASSUME NEW r \in Runs, AgentStops(r) PROVE OpMove
  BY <1>45, StillAside DEF AgentStops
<1>46. ASSUME NEW r \in Runs, EvaluateTurn(r) PROVE OpMove
  BY <1>46, StillAside DEF EvaluateTurn
<1>47. ASSUME NEW r \in Runs, WorktreeLost(r) PROVE OpMove
  BY <1>47, StillAside DEF WorktreeLost
<1>48. ASSUME NEW r \in Runs, AgentOpensPr(r) PROVE OpMove
  BY <1>48, StillAside DEF AgentOpensPr
<1>49. ASSUME NEW r \in Runs, ReconcileOp(r) PROVE OpMove
  BY <1>49 DEF OpMove
<1>50. ASSUME NEW r \in Runs, ReconcileState(r) PROVE OpMove
  <2>1. \A p \in Workers, q \in Runs : pc'[<<p, q>>] = pc[<<p, q>>]
    BY <1>50, WorkerIds, InBodies, ZenonT(60) DEF ReconcileState, Goto, TypeOK
  <2>2. UNCHANGED <<runOp, postLeft, postAt, phase, rec, deleted>>
    BY <1>50 DEF ReconcileState
  <2> QED BY <2>1, <2>2 DEF OpMove, Aside, StayBut, Stays, Busy, LeftShrinks
<1>51. CASE Crash \/ Restart \/ BootDone
  BY <1>51 DEF OpMove
<1>52. CASE UNCHANGED vars
  BY <1>52, StillAside DEF vars
<1> QED
  BY <1>1, <1>2, <1>3, <1>4, <1>5, <1>6, <1>7, <1>8, <1>9, <1>10, <1>11, <1>12, <1>13,
     <1>14, <1>15, <1>16, <1>17, <1>18, <1>19, <1>20, <1>21, <1>22, <1>23, <1>24,
     <1>25, <1>26, <1>27, <1>28, <1>29, <1>30, <1>31, <1>32, <1>33, <1>34, <1>35,
     <1>36, <1>37, <1>38, <1>39, <1>40, <1>41, <1>42, <1>43, <1>44, <1>45, <1>46,
     <1>47, <1>48, <1>49, <1>50, <1>51, <1>52
  DEF Next, Request, OpStep, MergeStep, DiscardStep, PipelineStep, CreateStep, PostStep, Boot,
      Agent, World, RunsOf

-----------------------------------------------------------------------------
(* The moves keep the invariant *)

\* None is no id, and the op that is none has no id and is no clean-up.
LEMMA NoneIsNone ==
  NoOp.id = None /\ NoOp.kind # "cleanup" /\ None \notin Workers \cup {Web} /\ None \notin Runs
  BY IdAssumption DEF NoOp, Workers

\* What the invariant says of the body behind an op: an op id ...
LEMMA OpTells ==
  ASSUME OpInv, NEW o \in Ops, NEW r \in Runs, Busy(<<o, r>>)
  PROVE  /\ runOp[r] = [id |-> o, kind |-> KindOf[o]]
         /\ runOp[r].id = o /\ runOp[r].kind # "cleanup" /\ runOp[r] # NoOp
<1>1. KindOf[o] \in Kinds /\ KindOf[o] # "cleanup"
  BY RunsAssumption DEF Kinds
<1>2. runOp[r] = [id |-> o, kind |-> KindOf[o]]
  BY DEF OpInv, OpHeldByBody
<1> QED BY <1>1, <1>2, NoneIsNone DEF Workers

\* ... a clean-up ...
LEMMA CleanUpTells ==
  ASSUME OpInv, NEW r \in Runs, Busy(<<Post, r>>)
  PROVE  runOp[r].kind = "cleanup" /\ runOp[r].id # Post /\ runOp[r] # NoOp
  BY NoneIsNone DEF OpInv, OpHeldByBody, OwnOps

\* ... and a discard by postMerge are told apart by the record on the run ...
LEMMA TargetTells ==
  ASSUME TypeOK, OpInv, NEW r \in Runs, postAt[r] # None
  PROVE  /\ postAt[r] \in Runs /\ runOp[postAt[r]].id = Post
         /\ runOp[postAt[r]].kind = "discard" /\ runOp[postAt[r]] # NoOp
<1>1. postAt[r] \in Runs /\ runOp[postAt[r]].id = Post
  BY DEF OpInv, OpHeldByBody, TypeOK
<1>2. runOp[postAt[r]].kind = "discard"
  BY <1>1 DEF OpInv, OwnOps
<1> QED BY <1>1, <1>2, NoneIsNone DEF Workers

\* ... and no body is at work on a run without an op.
LEMMA FreeTells ==
  ASSUME TypeOK, OpInv, NEW r \in Runs, runOp[r] = NoOp
  PROVE  /\ \A p \in Workers : ~Busy(<<p, r>>)
         /\ \A p \in Runs : postAt[p] # r
<1>1. \A o \in Ops : ~Busy(<<o, r>>)
  BY OpTells
<1>2. ~Busy(<<Post, r>>)
  BY CleanUpTells
<1>3. \A p \in Runs : postAt[p] # r
  BY TargetTells, NoneIsNone
<1> QED BY <1>1, <1>2, <1>3 DEF Workers

\* The bodies that a move leaves at work, or away, one by one.
LEMMA StayMeans ==
  /\ StayBut({}) => \A p \in Workers, r \in Runs : Stays(p, r)
  /\ \A o, r : StayBut({<<o, r>>}) =>
       \A p \in Workers, q \in Runs : p # o \/ q # r => Stays(p, q)
  /\ \A o, s, r : StayBut({<<o, r>>, <<s, r>>}) =>
       \A p \in Workers, q \in Runs : (p # o /\ p # s) \/ q # r => Stays(p, q)
  /\ \A o, targets : StayBut({o} \X targets) =>
       \A p \in Workers, q \in Runs : p # o \/ q \notin targets => Stays(p, q)
  BY DEF StayBut

\* The types of what the invariant speaks of.
LEMMA OpTypes ==
  ASSUME TypeOK
  PROVE  /\ runOp \in [Runs -> OpRecs \cup {NoOp}]
         /\ postAt \in [Runs -> Runs \cup {None}]
         /\ postLeft \in [Runs -> SUBSET Runs]
         /\ DOMAIN pc = Bodies
  BY DEF TypeOK

\* What a move does to an op it does only where nobody else is at work: the bodies keep
\* the ops they hold (opGuard, endOp, finishMerge, postMerge).
LEMMA OpsHeldKept ==
  ASSUME BootOverlap = FALSE, TypeOK, OpInv, OpMove
  PROVE  OpHeldByBody'
<1> USE WorkerIds
<1>1. CASE Aside
  BY <1>1, StayMeans DEF Aside, Stays, OpInv, OpHeldByBody
<1>2. CASE Crash
  BY <1>2, IdAssumption DEF Crash, Busy, OpInv, OpHeldByBody
<1>3. CASE Restart
  BY <1>3 DEF Restart, volatile, posting, records, opRec, Busy, OpInv, OpHeldByBody
<1>4. CASE BootDone
  BY <1>4 DEF BootDone, posting, records, opRec, Busy, OpInv, OpHeldByBody
<1>5. ASSUME NEW o \in Ops, NEW targets \in SUBSET Runs, Begins(o, targets)
      PROVE  OpHeldByBody'
  <2>1. \A p \in Workers, q \in Runs : p # o \/ q \notin targets => Stays(p, q)
    BY <1>5, StayMeans DEF Begins
  <2>2. ASSUME NEW p \in Ops, NEW s \in Runs, Busy(<<p, s>>)'
        PROVE  runOp'[s] = [id |-> p, kind |-> KindOf[p]]
    BY <1>5, <2>1, <2>2, OpTypes, OpTells, CleanUpTells, TargetTells, FreeTells, NoneIsNone
    DEF Begins, Stays, Workers
  <2>3. ASSUME NEW s \in Runs, Busy(<<Post, s>>)' PROVE runOp'[s].kind = "cleanup"
    BY <1>5, <2>1, <2>3, OpTypes, OpTells, CleanUpTells, TargetTells, FreeTells, NoneIsNone,
       IdAssumption
    DEF Begins, Stays, Workers
  <2>4. ASSUME NEW s \in Runs, postAt'[s] # None PROVE runOp'[postAt'[s]].id = Post
    BY <1>5, <2>4, OpTypes, OpTells, CleanUpTells, TargetTells, FreeTells, NoneIsNone
    DEF Begins, Workers
  <2> QED BY <2>2, <2>3, <2>4 DEF OpInv, OpHeldByBody
<1>6. ASSUME NEW o \in Ops, NEW r \in Runs, Ends(o, r)
      PROVE  OpHeldByBody'
  <2>1. \A p \in Workers, q \in Runs : p # o \/ q # r => Stays(p, q)
    BY <1>6, StayMeans DEF Ends
  <2>2. ASSUME NEW p \in Ops, NEW s \in Runs, Busy(<<p, s>>)'
        PROVE  runOp'[s] = [id |-> p, kind |-> KindOf[p]]
    BY <1>6, <2>1, <2>2, OpTypes, OpTells, CleanUpTells, TargetTells, FreeTells, NoneIsNone
    DEF Ends, OpBecomes, Stays, Workers
  <2>3. ASSUME NEW s \in Runs, Busy(<<Post, s>>)' PROVE runOp'[s].kind = "cleanup"
    BY <1>6, <2>1, <2>3, OpTypes, OpTells, CleanUpTells, TargetTells, FreeTells, NoneIsNone,
       IdAssumption
    DEF Ends, OpBecomes, Stays, Workers
  <2>4. ASSUME NEW s \in Runs, postAt'[s] # None PROVE runOp'[postAt'[s]].id = Post
    BY <1>6, <2>4, OpTypes, OpTells, CleanUpTells, TargetTells, FreeTells, NoneIsNone
    DEF Ends, OpBecomes, Workers
  <2> QED BY <2>2, <2>3, <2>4 DEF OpInv, OpHeldByBody
<1>7. ASSUME NEW id \in Ops \cup {Web}, NEW r \in Runs, CleanUpStarts(id, r)
      PROVE  OpHeldByBody'
  <2>1. \A p \in Workers, q \in Runs : (p # id /\ p # Post) \/ q # r => Stays(p, q)
    BY <1>7 DEF CleanUpStarts, StayBut
  <2>2. ASSUME NEW p \in Ops, NEW s \in Runs, Busy(<<p, s>>)'
        PROVE  runOp'[s] = [id |-> p, kind |-> KindOf[p]]
    BY <1>7, <2>1, <2>2, OpTypes, OpTells, CleanUpTells, TargetTells, FreeTells, NoneIsNone,
       IdAssumption
    DEF CleanUpStarts, OpBecomes, AtBecomes, Stays, Workers
  <2>3. ASSUME NEW s \in Runs, Busy(<<Post, s>>)' PROVE runOp'[s].kind = "cleanup"
    BY <1>7, <2>1, <2>3, OpTypes, OpTells, CleanUpTells, TargetTells, FreeTells, NoneIsNone,
       IdAssumption
    DEF CleanUpStarts, OpBecomes, AtBecomes, Stays, Workers
  <2>4. ASSUME NEW s \in Runs, postAt'[s] # None PROVE runOp'[postAt'[s]].id = Post
    BY <1>7, <2>4, OpTypes, OpTells, CleanUpTells, TargetTells, FreeTells, NoneIsNone,
       IdAssumption
    DEF CleanUpStarts, OpBecomes, AtBecomes, Workers
  <2> QED BY <2>2, <2>3, <2>4 DEF OpInv, OpHeldByBody
<1>8. ASSUME NEW r \in Runs, NEW q \in Runs, Takes(r, q)
      PROVE  OpHeldByBody'
  <2>1. \A p \in Workers, s \in Runs : p # Post \/ s # r => Stays(p, s)
    BY <1>8, StayMeans DEF Takes
  <2>2. Busy(<<Post, r>>)
    BY <1>8 DEF Takes, Busy, OthersPcs
  <2>3. ASSUME NEW p \in Ops, NEW s \in Runs, Busy(<<p, s>>)'
        PROVE  runOp'[s] = [id |-> p, kind |-> KindOf[p]]
    BY <1>8, <2>1, <2>3, OpTypes, OpTells, CleanUpTells, TargetTells, FreeTells, NoneIsNone,
       IdAssumption
    DEF Takes, OpBecomes, AtBecomes, Stays, Workers
  <2>4. ASSUME NEW s \in Runs, Busy(<<Post, s>>)' PROVE runOp'[s].kind = "cleanup"
    BY <1>8, <2>2, <2>1, <2>4, OpTypes, OpTells, CleanUpTells, TargetTells, FreeTells,
       NoneIsNone, IdAssumption
    DEF Takes, OpBecomes, AtBecomes, Stays, Workers
  <2>5. ASSUME NEW s \in Runs, postAt'[s] # None PROVE runOp'[postAt'[s]].id = Post
    <3>1. CASE s = r
      BY <1>8, <3>1 DEF Takes, AtBecomes, OpBecomes
    <3>2. CASE s # r
      <4>1. postAt'[s] = postAt[s] /\ postAt[s] # None
        BY <1>8, <2>5, <3>2 DEF Takes, AtBecomes
      <4>2. postAt[s] \in Runs /\ runOp[postAt[s]].id = Post /\ postAt[s] # q
        BY <1>8, <4>1, TargetTells, FreeTells DEF Takes
      <4> QED BY <1>8, <4>1, <4>2 DEF Takes, OpBecomes
    <3> QED BY <3>1, <3>2
  <2> QED BY <2>3, <2>4, <2>5 DEF OpInv, OpHeldByBody
<1>9. ASSUME NEW r \in Runs, Drops(r)
      PROVE  OpHeldByBody'
  <2>1. \A p \in Workers, s \in Runs : p # Post \/ s # r => Stays(p, s)
    BY <1>9, StayMeans DEF Drops
  <2>2. Busy(<<Post, r>>)
    BY <1>9 DEF Drops, Busy, OthersPcs
  <2>3. ASSUME NEW p \in Ops, NEW s \in Runs, Busy(<<p, s>>)'
        PROVE  runOp'[s] = [id |-> p, kind |-> KindOf[p]]
    BY <1>9, <2>1, <2>3, OpTypes, OpTells, CleanUpTells, TargetTells, FreeTells, NoneIsNone,
       IdAssumption
    DEF OpInv, Targets, Drops, OpBecomes, AtBecomes, Stays, Workers
  <2>4. ASSUME NEW s \in Runs, Busy(<<Post, s>>)' PROVE runOp'[s].kind = "cleanup"
    BY <1>9, <2>2, <2>1, <2>4, OpTypes, OpTells, CleanUpTells, TargetTells, FreeTells,
       NoneIsNone, IdAssumption
    DEF OpInv, Targets, Drops, OpBecomes, AtBecomes, Stays, Workers
  <2>5. ASSUME NEW s \in Runs, postAt'[s] # None PROVE runOp'[postAt'[s]].id = Post
    <3>1. s # r /\ postAt'[s] = postAt[s] /\ postAt[s] # None
      BY <1>9, <2>5 DEF Drops, AtBecomes
    <3>2. postAt[s] # postAt[r]
      BY <3>1 DEF OpInv, Targets
    <3>3. postAt[s] \in Runs /\ runOp[postAt[s]].id = Post
      BY <3>1, TargetTells
    <3> QED BY <1>9, <3>1, <3>2, <3>3 DEF Drops, OpBecomes
  <2> QED BY <2>3, <2>4, <2>5 DEF OpInv, OpHeldByBody
<1>10. ASSUME NEW r \in Runs, CleanUpEnds(r)
      PROVE  OpHeldByBody'
  <2>1. \A p \in Workers, s \in Runs : p # Post \/ s # r => Stays(p, s)
    BY <1>10, StayMeans DEF CleanUpEnds
  <2>2. Busy(<<Post, r>>)
    BY <1>10 DEF CleanUpEnds, Busy, OthersPcs
  <2>3. ASSUME NEW p \in Ops, NEW s \in Runs, Busy(<<p, s>>)'
        PROVE  runOp'[s] = [id |-> p, kind |-> KindOf[p]]
    BY <1>10, <2>1, <2>3, OpTypes, OpTells, CleanUpTells, TargetTells, FreeTells, NoneIsNone
    DEF CleanUpEnds, OpBecomes, AtBecomes, Stays, Workers
  <2>4. ASSUME NEW s \in Runs, Busy(<<Post, s>>)' PROVE runOp'[s].kind = "cleanup"
    BY <1>10, <2>2, <2>1, <2>4, OpTypes, OpTells, CleanUpTells, TargetTells, FreeTells,
       NoneIsNone, IdAssumption
    DEF CleanUpEnds, OpBecomes, AtBecomes, Stays, Workers
  <2>5. ASSUME NEW s \in Runs, postAt'[s] # None PROVE runOp'[postAt'[s]].id = Post
    BY <1>10, <2>5, OpTypes, OpTells, CleanUpTells, TargetTells, FreeTells, NoneIsNone
    DEF CleanUpEnds, OpBecomes, AtBecomes, Workers
  <2> QED BY <2>3, <2>4, <2>5 DEF OpInv, OpHeldByBody
<1>11. ASSUME NEW r \in Runs, ReconcileOp(r) PROVE OpHeldByBody'
  <2>1. /\ phase = "boot" /\ postAt' = postAt
        /\ \A p \in Ops, s \in Runs : ~Busy(<<p, s>>)'
        /\ \A s \in Runs : s # r => runOp'[s] = runOp[s] /\ pc'[<<Post, s>>] = pc[<<Post, s>>]
    BY <1>11, InBodies, IdAssumption, OpTypes
    DEF ReconcileOp, Interrupt, Goto, OpInv, Booting, Busy, TypeOK, posting
  <2>2. Busy(<<Post, r>>)' => runOp'[r].kind = "cleanup"
    BY <1>11, <2>1 DEF ReconcileOp, OpInv, Booting, Busy
  <2>3. \A s \in Runs : postAt[s] = None
    BY <2>1 DEF OpInv, Targets, Booting, OthersPcs, Busy
  <2> QED BY <2>1, <2>2, <2>3 DEF OpInv, OpHeldByBody, Busy
<1>12. ASSUME NEW t \in Tasks, Deletes(t) PROVE OpHeldByBody'
  BY <1>12 DEF Deletes, Busy, OpInv, OpHeldByBody
<1> QED BY <1>1, <1>2, <1>3, <1>4, <1>5, <1>6, <1>7, <1>8, <1>9, <1>10, <1>11, <1>12 DEF OpMove

\* postMerge works through the other runs of its task, one at a time and each by itself.
LEMMA TargetsKept ==
  ASSUME BootOverlap = FALSE, TypeOK, OpInv, OpMove
  PROVE  Targets'
<1> USE DEF Targets, OpInv
<1>1. CASE Aside
  BY <1>1, StayMeans, WorkerIds DEF Aside, Stays, LeftShrinks, OtherRuns, RunsOf, Task
<1>2. CASE Crash
  BY <1>2, WorkerIds DEF Crash, OthersPcs
<1>3. CASE Restart
  BY <1>3 DEF Restart, volatile, posting
<1>4. CASE BootDone
  BY <1>4, WorkerIds DEF BootDone, posting, OthersPcs
<1>5. ASSUME NEW o \in Ops, NEW targets \in SUBSET Runs, Begins(o, targets) PROVE Targets'
  <2>1. \A p \in Workers, s \in Runs : p # o \/ s \notin targets => Stays(p, s)
    BY <1>5, StayMeans DEF Begins
  <2>2. \A s \in Runs : Stays(Post, s)
    BY <2>1, IdAssumption, WorkerIds
  <2> QED BY <1>5, <2>2 DEF Begins, Stays
<1>6. ASSUME NEW o \in Ops, NEW r \in Runs, Ends(o, r) PROVE Targets'
  <2>1. \A p \in Workers, s \in Runs : p # o \/ s # r => Stays(p, s)
    BY <1>6, StayMeans DEF Ends
  <2>2. \A s \in Runs : Stays(Post, s)
    BY <2>1, IdAssumption, WorkerIds
  <2> QED BY <1>6, <2>2 DEF Ends, Stays
<1>7. ASSUME NEW id \in Ops \cup {Web}, NEW r \in Runs, CleanUpStarts(id, r) PROVE Targets'
  <2>1. \A s \in Runs : s # r => Stays(Post, s)
    BY <1>7, WorkerIds DEF CleanUpStarts, StayBut
  <2>2. ~Busy(<<Post, r>>)
    BY <1>7, OpTells, CleanUpTells, FreeTells, WorkerIds, IdAssumption DEF CleanUpStarts
  <2>3. pc[<<Post, r>>] \notin OthersPcs
    BY <2>2 DEF Busy, OthersPcs
  <2>4. \A s \in Runs : postLeft'[s] \subseteq OtherRuns(s)
    BY <1>7 DEF CleanUpStarts
  <2>5. \A s \in Runs : pc'[<<Post, s>>] \in OthersPcs <=> postAt'[s] # None
    BY <1>7, <2>1, <2>3 DEF CleanUpStarts, Stays
  <2> QED BY <1>7, <2>4, <2>5 DEF CleanUpStarts, OtherRuns, RunsOf, Task
<1>8. ASSUME NEW r \in Runs, NEW q \in Runs, Takes(r, q) PROVE Targets'
  <2>1. \A s \in Runs : s # r => Stays(Post, s)
    BY <1>8, StayMeans, WorkerIds DEF Takes
  <2>2. \A s \in Runs : postLeft'[s] \subseteq OtherRuns(s)
    BY <1>8 DEF Takes, LeftShrinks
  <2>3. q # None /\ q \in OtherRuns(r) /\ \A s \in Runs : postAt[s] # q
    BY <1>8, FreeTells, NoneIsNone DEF Takes
  <2>4. \A s \in Runs : pc'[<<Post, s>>] \in OthersPcs <=> postAt'[s] # None
    BY <1>8, <2>1, <2>3 DEF Takes, AtBecomes, Stays
  <2>5. \A s \in Runs : postAt'[s] # None => postAt'[s] \in OtherRuns(s)
    BY <1>8, <2>3 DEF Takes, AtBecomes
  <2>6. \A s, p \in Runs : postAt'[s] # None /\ postAt'[s] = postAt'[p] => s = p
    BY <1>8, <2>3 DEF Takes, AtBecomes
  <2> QED BY <2>2, <2>4, <2>5, <2>6 DEF OtherRuns, RunsOf, Task
<1>9. ASSUME NEW r \in Runs, Drops(r) PROVE Targets'
  <2>0. StayBut({<<Post, r>>})
    BY <1>9 DEF Drops
  <2>1. \A s \in Runs : s # r => Stays(Post, s)
    BY <2>0, WorkerIds DEF StayBut
  <2>2. \A s \in Runs : pc'[<<Post, s>>] \in OthersPcs <=> postAt'[s] # None
    BY <1>9, <2>1 DEF Drops, AtBecomes, Stays, OthersPcs
  <2>3. postLeft' = postLeft /\ \A s \in Runs : postAt'[s] # None => postAt'[s] = postAt[s]
    BY <1>9 DEF Drops, AtBecomes
  <2> QED BY <2>2, <2>3 DEF OtherRuns, RunsOf, Task
<1>10. ASSUME NEW r \in Runs, CleanUpEnds(r) PROVE Targets'
  <2>1. \A s \in Runs : s # r => Stays(Post, s)
    BY <1>10, StayMeans, WorkerIds DEF CleanUpEnds
  <2>2. pc[<<Post, r>>] \notin OthersPcs /\ pc'[<<Post, r>>] \notin OthersPcs
    BY <1>10 DEF CleanUpEnds, Busy, OthersPcs
  <2> QED BY <1>10, <2>1, <2>2 DEF CleanUpEnds, Stays
<1>11. ASSUME NEW r \in Runs, ReconcileOp(r) PROVE Targets'
  <2>1. /\ postAt' = postAt
        /\ \A s \in Runs : postLeft'[s] = postLeft[s] \/ postLeft'[s] = OtherRuns(s)
    BY <1>11, OpTypes DEF ReconcileOp, posting
  <2>2. \A s \in Runs : pc'[<<Post, s>>] = pc[<<Post, s>>]
                        \/ (pc'[<<Post, s>>] = "keep" /\ pc[<<Post, s>>] = "idle")
    BY <1>11, OpTypes, WorkerIds DEF ReconcileOp, Goto
  <2>3. \A s \in Runs : pc'[<<Post, s>>] \in OthersPcs <=> pc[<<Post, s>>] \in OthersPcs
    BY <2>2 DEF OthersPcs
  <2> QED BY <2>1, <2>3 DEF OtherRuns, RunsOf, Task
<1>12. ASSUME NEW t \in Tasks, Deletes(t) PROVE Targets'
  BY <1>12 DEF Deletes
<1> QED BY <1>1, <1>2, <1>3, <1>4, <1>5, <1>6, <1>7, <1>8, <1>9, <1>10, <1>11, <1>12 DEF OpMove

\* The web's ops are clean-ups, postMerge's are discards.
LEMMA OwnKept ==
  ASSUME TypeOK, OpInv, OpMove
  PROVE  OwnOps'
<1> USE IdAssumption, NoneIsNone DEF OwnOps, OpInv
<1>1. CASE Aside \/ Crash \/ Restart \/ BootDone \/ \E t \in Tasks : Deletes(t)
  BY <1>1 DEF Aside, Crash, Restart, BootDone, Deletes, records, opRec
<1>2. ASSUME NEW o \in Ops, NEW targets \in SUBSET Runs, Begins(o, targets) PROVE OwnOps'
  BY <1>2 DEF Begins
<1>3. ASSUME NEW o \in Ops, NEW r \in Runs, Ends(o, r) PROVE OwnOps'
  BY <1>3 DEF Ends, OpBecomes, Workers
<1>4. ASSUME NEW id \in Ops \cup {Web}, NEW r \in Runs, CleanUpStarts(id, r) PROVE OwnOps'
  BY <1>4 DEF CleanUpStarts, OpBecomes
<1>5. ASSUME NEW r \in Runs, NEW q \in Runs, Takes(r, q) PROVE OwnOps'
  BY <1>5 DEF Takes, OpBecomes
<1>6. ASSUME NEW r \in Runs, Drops(r) PROVE OwnOps'
  BY <1>6 DEF Drops, OpBecomes, Workers
<1>7. ASSUME NEW r \in Runs, CleanUpEnds(r) PROVE OwnOps'
  BY <1>7 DEF CleanUpEnds, OpBecomes, Workers
<1>8. ASSUME NEW r \in Runs, ReconcileOp(r) PROVE OwnOps'
  <2>1. \A s \in Runs : runOp'[s] = runOp[s] \/ runOp'[s] = NoOp
    BY <1>8, OpTypes DEF ReconcileOp, Interrupt
  <2> QED BY <2>1 DEF Workers
<1> QED BY <1>1, <1>2, <1>3, <1>4, <1>5, <1>6, <1>7, <1>8 DEF OpMove

\* Only reconcile sets bodies to work before the daemon is up.
LEMMA BootingKept ==
  ASSUME BootOverlap = FALSE, TypeOK, OpInv, OpMove
  PROVE  Booting'
<1> USE DEF Booting, OpInv
<1>1. CASE Aside
  <2>1. \A p \in Workers, r \in Runs : Busy(<<p, r>>)' <=> Busy(<<p, r>>)
    BY <1>1, StayMeans DEF Aside, Stays
  <2>2. phase = "boot" => \A r \in Runs : pc'[<<Post, r>>] = pc[<<Post, r>>]
    BY <1>1, WorkerIds DEF Aside
  <2> QED BY <1>1, <2>1, <2>2, WorkerIds DEF Aside
<1>2. CASE Crash
  BY <1>2, WorkerIds DEF Crash, Busy
<1>3. CASE Restart
  BY <1>3, WorkerIds DEF Restart, volatile, Busy
<1>4. CASE BootDone
  BY <1>4 DEF BootDone
<1>5. CASE phase = "up" /\ phase' = phase
  BY <1>5
<1>6. ASSUME NEW r \in Runs, ReconcileOp(r) PROVE Booting'
  <2>1. phase = "boot" /\ phase' = phase /\ rec' = rec \ {r}
    BY <1>6 DEF ReconcileOp
  <2>2. \A o \in Ops, s \in Runs : pc'[<<o, s>>] = pc[<<o, s>>]
    BY <1>6, OpTypes, WorkerIds, IdAssumption, ZenonT(60) DEF ReconcileOp, Goto
  <2>3. \A s \in Runs : s # r => pc'[<<Post, s>>] = pc[<<Post, s>>]
    BY <1>6, OpTypes, WorkerIds DEF ReconcileOp, Goto
  <2>4. pc'[<<Post, r>>] \in {pc[<<Post, r>>], "keep"}
    BY <1>6, OpTypes, WorkerIds DEF ReconcileOp, Goto
  <2> QED BY <2>1, <2>2, <2>3, <2>4 DEF Busy
<1> QED BY <1>1, <1>2, <1>3, <1>4, <1>5, <1>6
  DEF OpMove, Begins, Ends, CleanUpStarts, Takes, Drops, CleanUpEnds, Deletes

\* The body that will clear the op on run r.
Covered(r) ==
  \/ runOp[r].kind = "cleanup" /\ Busy(<<Post, r>>)
  \/ runOp[r].id = Post /\ \E p \in Runs : postAt[p] = r
  \/ \E o \in Ops : runOp[r].id = o /\ Busy(<<o, r>>)

\* Who ends clears its op, and reconcile clears those of the bodies that died.
LEMMA CoveredKept ==
  ASSUME BootOverlap = FALSE, TypeOK, OpInv, OpMove
  PROVE  OpsCovered'
<1>1. phase = "up" => \A s \in Runs : runOp[s] # NoOp => Covered(s)
  BY DEF OpInv, OpsCovered, NoLeakedOp, Covered
<1>2. SUFFICES /\ phase' = "up" => \A s \in Runs : runOp'[s] # NoOp => Covered(s)'
               /\ phase' = "boot" => \A r \in Runs : runOp'[r] # NoOp =>
                    r \in rec' \/ (runOp'[r].kind = "cleanup" /\ Busy(<<Post, r>>)')
  BY DEF OpsCovered, NoLeakedOp, Covered
<1>3. CASE Aside
  <2>1. /\ \A p \in Workers, s \in Runs : Busy(<<p, s>>)' <=> Busy(<<p, s>>)
        /\ UNCHANGED <<runOp, postAt, phase, rec>>
    BY <1>3, StayMeans DEF Aside, Stays
  <2> QED BY <1>1, <2>1, WorkerIds DEF Covered, OpInv, OpsCovered
<1>4. CASE Crash
  BY <1>4 DEF Crash
<1>5. CASE Restart
  <2>1. phase' = "boot" /\ runOp' = runOp /\ rec' = {r \in Runs : Task(r) \notin deleted}
    BY <1>5 DEF Restart, records, opRec
  <2> QED BY <2>1, OthersType DEF OpInv, DeletedIdle, RunsOf, Task
<1>6. CASE BootDone
  <2>1. /\ phase = "boot" /\ phase' = "up" /\ rec = {} /\ UNCHANGED <<runOp, postAt>>
        /\ \A s \in Runs : Busy(<<Post, s>>) => Busy(<<Post, s>>)'
    BY <1>6, WorkerIds DEF BootDone, records, opRec, posting, Busy
  <2> QED BY <2>1 DEF OpInv, OpsCovered, Covered
<1>7. ASSUME NEW o \in Ops, NEW targets \in SUBSET Runs, Begins(o, targets), NEW s \in Runs,
             runOp'[s] # NoOp
      PROVE  Covered(s)'
  <2>1. \A p \in Workers, q \in Runs : p # o \/ q \notin targets => Stays(p, q)
    BY <1>7, StayMeans DEF Begins
  <2>2. CASE s \in targets
    BY <1>7, <2>2 DEF Begins, Covered
  <2>3. CASE s \notin targets
    <3>1. runOp'[s] = runOp[s] /\ Covered(s)
      BY <1>1, <1>7, <2>3 DEF Begins
    <3> QED BY <1>7, <2>1, <2>3, <3>1, WorkerIds DEF Begins, Covered, Stays
  <2> QED BY <2>2, <2>3
<1>8. ASSUME NEW o \in Ops, NEW r \in Runs, Ends(o, r), NEW s \in Runs, runOp'[s] # NoOp
      PROVE  Covered(s)'
  <2>1. \A p \in Workers, q \in Runs : p # o \/ q # r => Stays(p, q)
    BY <1>8, StayMeans DEF Ends
  <2>2. runOp[r].id = o
    BY <1>8, OpTells DEF Ends
  <2>3. s # r /\ runOp'[s] = runOp[s] /\ Covered(s)
    BY <1>1, <1>8, <2>2 DEF Ends, OpBecomes
  <2> QED BY <1>8, <2>1, <2>3, WorkerIds DEF Ends, Covered, Stays
<1>9. ASSUME NEW id \in Ops \cup {Web}, NEW r \in Runs, CleanUpStarts(id, r), NEW s \in Runs,
             runOp'[s] # NoOp
      PROVE  Covered(s)'
  <2>1. \A p \in Workers, q \in Runs : q # r => Stays(p, q)
    BY <1>9, WorkerIds DEF CleanUpStarts, StayBut
  <2>2. CASE s = r
    BY <1>9, <2>2 DEF CleanUpStarts, OpBecomes, Covered
  <2>3. CASE s # r
    <3>1. runOp'[s] = runOp[s] /\ Covered(s)
      BY <1>1, <1>9, <2>3 DEF CleanUpStarts, OpBecomes
    <3> QED BY <1>9, <2>1, <2>3, <3>1, WorkerIds DEF CleanUpStarts, Covered, Stays
  <2> QED BY <2>2, <2>3
<1>10. ASSUME NEW r \in Runs, NEW q \in Runs, Takes(r, q), NEW s \in Runs, runOp'[s] # NoOp
       PROVE  Covered(s)'
  <2>1. \A p \in Workers, k \in Runs : Busy(<<p, k>>)' <=> Busy(<<p, k>>)
    <3>1. \A p \in Workers, k \in Runs : p # Post \/ k # r => Stays(p, k)
      BY <1>10, StayMeans DEF Takes
    <3>2. Busy(<<Post, r>>) /\ Busy(<<Post, r>>)'
      BY <1>10 DEF Takes, Busy, OthersPcs
    <3> QED BY <3>1, <3>2 DEF Stays
  <2>2. postAt[r] = None
    BY <1>10 DEF Takes, OpInv, Targets, OthersPcs
  <2>3. CASE s = q
    BY <1>10, <2>3 DEF Takes, OpBecomes, AtBecomes, Covered
  <2>4. CASE s # q
    <3>1. runOp'[s] = runOp[s] /\ Covered(s) /\ s # None
      BY <1>1, <1>10, <2>4, NoneIsNone DEF Takes, OpBecomes
    <3>2. \A p \in Runs : postAt[p] = s => postAt'[p] = s
      BY <1>10, <2>2, <3>1 DEF Takes, AtBecomes
    <3> QED BY <2>1, <3>1, <3>2, WorkerIds DEF Covered
  <2> QED BY <2>3, <2>4
<1>11. ASSUME NEW r \in Runs, Drops(r), NEW s \in Runs, runOp'[s] # NoOp
       PROVE  Covered(s)'
  <2>1. \A p \in Workers, k \in Runs : Busy(<<p, k>>)' <=> Busy(<<p, k>>)
    <3>1. \A p \in Workers, k \in Runs : p # Post \/ k # r => Stays(p, k)
      BY <1>11, StayMeans DEF Drops
    <3>2. Busy(<<Post, r>>) /\ Busy(<<Post, r>>)'
      BY <1>11 DEF Drops, Busy, OthersPcs
    <3> QED BY <3>1, <3>2 DEF Stays
  <2>2. postAt[r] # None
    BY <1>11 DEF Drops, OpInv, Targets
  <2>3. runOp[postAt[r]].id = Post
    BY <2>2, TargetTells
  <2>4. s # postAt[r] /\ runOp'[s] = runOp[s] /\ Covered(s)
    BY <1>1, <1>11, <2>3 DEF Drops, OpBecomes
  <2>5. \A p \in Runs : postAt[p] = s => postAt'[p] = s
    BY <1>11, <2>4 DEF Drops, AtBecomes
  <2> QED BY <2>1, <2>4, <2>5, WorkerIds DEF Covered
<1>12. ASSUME NEW r \in Runs, CleanUpEnds(r), NEW s \in Runs, runOp'[s] # NoOp
       PROVE  Covered(s)'
  <2>1. \A p \in Workers, k \in Runs : p # Post \/ k # r => Stays(p, k)
    BY <1>12, StayMeans DEF CleanUpEnds
  <2>2. runOp[r].kind = "cleanup"
    BY <1>12, CleanUpTells DEF CleanUpEnds, Busy
  <2>3. s # r /\ runOp'[s] = runOp[s] /\ Covered(s)
    BY <1>1, <1>12, <2>2 DEF CleanUpEnds, OpBecomes
  <2> QED BY <1>12, <2>1, <2>3, WorkerIds DEF CleanUpEnds, Covered, Stays
<1>13. ASSUME NEW r \in Runs, ReconcileOp(r)
       PROVE  /\ phase' = "boot"
              /\ \A s \in Runs : runOp'[s] # NoOp =>
                   s \in rec' \/ (runOp'[s].kind = "cleanup" /\ Busy(<<Post, s>>)')
  <2>1. /\ phase = "boot" /\ phase' = phase /\ rec' = rec \ {r}
        /\ \A s \in Runs : s # r => runOp'[s] = runOp[s] /\ pc'[<<Post, s>>] = pc[<<Post, s>>]
    BY <1>13, OpTypes, WorkerIds DEF ReconcileOp, Interrupt, Goto
  <2>2. runOp'[r] = NoOp \/ (runOp'[r].kind = "cleanup" /\ pc'[<<Post, r>>] # "idle")
    BY <1>13, OpTypes, WorkerIds DEF ReconcileOp, Interrupt, Goto
  <2> QED BY <2>1, <2>2 DEF OpInv, OpsCovered, Busy
<1>14. ASSUME NEW t \in Tasks, Deletes(t), NEW s \in Runs, runOp'[s] # NoOp PROVE Covered(s)'
  BY <1>1, <1>14 DEF Deletes, Covered, Busy
<1>15. CASE phase = "up" /\ phase' = phase /\ \A s \in Runs : runOp'[s] # NoOp => Covered(s)'
  BY <1>15
<1> QED BY <1>3, <1>4, <1>5, <1>6, <1>7, <1>8, <1>9, <1>10, <1>11, <1>12, <1>13, <1>14, <1>15
  DEF OpMove, Begins, Ends, CleanUpStarts, Takes, Drops, CleanUpEnds, Deletes

\* Nothing starts on a run of a deleted task.
LEMMA DeletedKept ==
  ASSUME BootOverlap = FALSE, TypeOK, OpInv, OpMove
  PROVE  DeletedIdle'
<1> USE DEF DeletedIdle, OpInv, RunsOf
<1>1. CASE Aside \/ Crash \/ Restart \/ BootDone
  BY <1>1 DEF Aside, Crash, Restart, BootDone, records, opRec, taskRec
<1>2. ASSUME NEW o \in Ops, NEW targets \in SUBSET Runs, Begins(o, targets) PROVE DeletedIdle'
  BY <1>2 DEF Begins, Task
<1>3. ASSUME NEW o \in Ops, NEW r \in Runs, Ends(o, r) PROVE DeletedIdle'
  BY <1>3 DEF Ends, OpBecomes
<1>4. ASSUME NEW id \in Ops \cup {Web}, NEW r \in Runs, CleanUpStarts(id, r) PROVE DeletedIdle'
  <2>1. id \in Ops => runOp[r] # NoOp
    BY <1>4, OpTells, IdAssumption DEF CleanUpStarts
  <2>2. TaskOf[r] \notin deleted
    BY <1>4, <2>1 DEF CleanUpStarts, Task
  <2> QED BY <1>4, <2>2 DEF CleanUpStarts, OpBecomes
<1>5. ASSUME NEW r \in Runs, NEW q \in Runs, Takes(r, q) PROVE DeletedIdle'
  <2>1. Busy(<<Post, r>>) /\ TaskOf[q] = TaskOf[r]
    BY <1>5 DEF Takes, Targets, OtherRuns, Task, Busy
  <2>2. TaskOf[q] \notin deleted
    BY <2>1, CleanUpTells
  <2> QED BY <1>5, <2>2 DEF Takes, OpBecomes
<1>6. ASSUME NEW r \in Runs, Drops(r) PROVE DeletedIdle'
  BY <1>6 DEF Drops, OpBecomes
<1>7. ASSUME NEW r \in Runs, CleanUpEnds(r) PROVE DeletedIdle'
  BY <1>7 DEF CleanUpEnds, OpBecomes
<1>8. ASSUME NEW r \in Runs, ReconcileOp(r) PROVE DeletedIdle'
  <2>1. /\ deleted' = deleted
        /\ \A s \in Runs : runOp'[s] = runOp[s] \/ runOp'[s] = NoOp
    BY <1>8, OpTypes DEF ReconcileOp, Interrupt, taskRec
  <2> QED BY <2>1
<1>9. ASSUME NEW t \in Tasks, Deletes(t) PROVE DeletedIdle'
  BY <1>9 DEF Deletes
<1> QED BY <1>1, <1>2, <1>3, <1>4, <1>5, <1>6, <1>7, <1>8, <1>9 DEF OpMove

-----------------------------------------------------------------------------
(* The theorems *)

\* The invariant holds at the start and is kept by every step.
LEMMA OpInvInit == Init => OpInv
<1> SUFFICES ASSUME Init PROVE OpInv
  OBVIOUS
<1>1. \A p \in Workers, r \in Runs : ~Busy(<<p, r>>) /\ pc[<<p, r>>] \notin OthersPcs
  BY WorkerIds DEF Init, Busy, OthersPcs
<1>2. \A r \in Runs : runOp[r] = NoOp /\ postAt[r] = None /\ postLeft[r] = {}
  BY DEF Init
<1>3. OpHeldByBody /\ Targets /\ Booting /\ OpsCovered /\ DeletedIdle
  BY <1>1, <1>2, WorkerIds
  DEF Init, OpHeldByBody, Targets, Booting, OpsCovered, NoLeakedOp, DeletedIdle
<1>4. OwnOps
  BY <1>2, IdAssumption DEF OwnOps, NoOp
<1> QED BY <1>3, <1>4 DEF OpInv

\* Every step keeps it.
LEMMA OpInvStep ==
  ASSUME BootOverlap = FALSE, TypeOK, OpInv, [Next]_vars
  PROVE  OpInv'
<1>1. OpMove
  BY OpMoves
<1> QED BY <1>1, OpsHeldKept, TargetsKept, OwnKept, BootingKept, CoveredKept, DeletedKept
        DEF OpInv

\* So it holds of every reachable state.
LEMMA OpInvariant ==
  ASSUME BootOverlap = FALSE
  PROVE  Spec => [](TypeOK /\ OpInv)
<1>1. OpInv /\ TypeOK /\ [Next]_vars => OpInv'
  BY OpInvStep
<1> QED BY <1>1, OpInvInit, TypeCorrect, PTL DEF Spec

\* The op recorded on a run is that of the one body at work on it, whatever requests,
\* clean-ups, crashes and restarts interleave: no body ever works on a run beside the
\* body whose op the run carries (opGuard, runOp, postMerge).
THEOREM OpsAreHeld ==
  ASSUME BootOverlap = FALSE
  PROVE  Spec => []OpHeldByBody
<1>1. OpInv => OpHeldByBody
  BY DEF OpInv
<1> QED BY <1>1, OpInvariant, PTL

\* No op outlives its body: once the daemon is up, whatever op is on a run belongs to a
\* body that will clear it, also after deaths of the daemon between any two steps.
THEOREM OpsAreNotLeaked ==
  ASSUME BootOverlap = FALSE
  PROVE  Spec => []NoLeakedOp
<1>1. OpInv => NoLeakedOp
  BY DEF OpInv, OpsCovered
<1> QED BY <1>1, OpInvariant, PTL

-----------------------------------------------------------------------------
(***************************************************************************)
(* Passing states, where no op reopens a run: who leaves a run in one of   *)
(* them has a body at work that takes it out (NoStrandedRun), however many *)
(* crashes there are, and whether or not bodies wait for reconcile.        *)
(***************************************************************************)

\* A reopen whose terminal cannot be made leaves its run creating (reopenBody).
NoReopen == \A o \in Ops : KindOf[o] \notin {"reopen", "fix"}

Passing     == {"creating", "launching", "merging"}
MergingPcs  == MergePcs \ {"status"}
CreatingPcs == {"wtwait", "add", "added", "prep", "prepared", "resume"}
AwayPcs     == {"idle", "git", "check", "dwait", "remove", "removed"} \cup MergePcs

\* Without a reopen no op builds a worktree or a terminal.
NoneReopens == \A o \in Ops, r \in Runs : pc[<<o, r>>] \in AwayPcs

\* A run that waits for its first worktree is known to nobody but its creation.
Newborn(r) == pc[<<Create, r>>] \in {"wtwait", "add"}
NewbornsAlone ==
  \A r \in Runs : Newborn(r) =>
    /\ runState[r] = "creating" /\ phase = "up" /\ r \notin wt /\ pr[r] = "none"
    /\ \A o \in Ops : ~Busy(<<o, r>>)
    /\ \A q \in Runs : postAt[q] # r

\* What is deleted has ended.
DeletedEnded == \A r \in Runs : Task(r) \in deleted => r \notin wt /\ runState[r] \notin Passing

\* Reconcile has yet to look at run r, or at least at its worktree and launch.
Ahead(r)   == phase = "down" \/ r \in rec
Halfway(r) == Ahead(r) \/ recAt = r

\* A run in a passing state has the body that put it there, or reconcile will see it.
Passes ==
  \A r \in Runs :
    /\ runState[r] = "merging" => Ahead(r) \/ \E o \in Ops : pc[<<o, r>>] \in MergingPcs
    /\ runState[r] = "creating" => Halfway(r) \/ pc[<<Create, r>>] \in CreatingPcs
    /\ runState[r] = "launching" => Halfway(r) \/ pc[<<Create, r>>] = "starting"

Reconciled == phase = "up" => rec = {} /\ recAt = None

PassInv == NoneReopens /\ NewbornsAlone /\ DeletedEnded /\ Passes /\ Reconciled

\* What a step of a daemon that goes on may do to run r.
Goes(r) ==
  /\ runState'[r] \in Passing =>
       \/ runState'[r] = runState[r]
       \/ runState'[r] = "launching" /\ runState[r] = "creating" /\ pc'[<<Create, r>>] = "starting"
       \/ runState'[r] = "merging" /\ r \in wt /\ \E o \in Ops : pc'[<<o, r>>] \in MergingPcs
  /\ \A o \in Ops : pc'[<<o, r>>] \in AwayPcs
  /\ runState'[r] = "merging" =>
       \A o \in Ops : pc[<<o, r>>] \in MergingPcs => pc'[<<o, r>>] \in MergingPcs
  /\ runState'[r] = "creating" /\ pc[<<Create, r>>] \in CreatingPcs =>
       pc'[<<Create, r>>] \in CreatingPcs
  /\ runState'[r] = "launching" /\ pc[<<Create, r>>] = "starting" =>
       pc'[<<Create, r>>] = "starting"
  /\ r \in wt' => r \in wt \/ Newborn(r)
  /\ Newborn(r)' => /\ Newborn(r) /\ runState'[r] = "creating" /\ r \notin wt' /\ pr'[r] = "none"
                    /\ \A o \in Ops : ~Busy(<<o, r>>)'
                    /\ \A q \in Runs : postAt'[q] # r

GoesOn == UNCHANGED process /\ \A r \in Runs : Goes(r)

\* The body of o on run r goes to place, the other ops and creations stay.
Only(o, r, place) ==
  \A p \in Ops \cup {Create}, q \in Runs :
    pc'[<<p, q>>] = IF p = o /\ q = r THEN place ELSE pc[<<p, q>>]
NoneGoes == \A p \in Ops \cup {Create}, q \in Runs : pc'[<<p, q>>] = pc[<<p, q>>]

\* No worktree comes, no newborn gets a PR, and postMerge takes no run that is
\* being created.
Around ==
  /\ UNCHANGED process /\ wt' \subseteq wt
  /\ \A r \in Runs : pr'[r] = pr[r] \/ ~Newborn(r)
  /\ \A q \in Runs : postAt'[q] \in {postAt[q], None} \/ runState[postAt'[q]] # "creating"

\* The places of merges and of the other bodies that no reopen has, one by one.
LEMMA PassPcs ==
  /\ {"idle", "git", "check", "dwait", "remove", "removed"} \cup MergePcs = AwayPcs
  /\ MergingPcs \subseteq AwayPcs /\ "idle" \notin MergingPcs
  /\ {"mwait", "merge", "finish", "view", "ghmerge", "after"} = MergingPcs
  /\ {"idle", "git", "check", "dwait", "remove", "removed", "status", "mwait", "merge", "finish",
      "view", "ghmerge", "after"} = AwayPcs
  BY DEF AwayPcs, MergingPcs, MergePcs

\* A body that moves on moves alone (Goto).
LEMMA GotoOnly ==
  ASSUME TypeOK, NEW o \in Ops \cup {Create}, NEW r \in Runs, NEW place, Goto(<<o, r>>, place)
  PROVE  Only(o, r, place)
BY InBodies DEF TypeOK, Goto, Only

\* A clean-up that moves on moves neither an op nor a creation.
LEMMA GotoNone ==
  ASSUME TypeOK, NEW r \in Runs, NEW place, Goto(<<Post, r>>, place)
  PROVE  NoneGoes
BY InBodies, IdAssumption DEF TypeOK, Goto, NoneGoes

\* Steps of an op.
LEMMA OpGoes ==
  ASSUME TypeOK, PassInv, Around, NEW o \in Ops, NEW r \in Runs, NEW place \in AwayPcs,
         Only(o, r, place), Busy(<<o, r>>) \/ runState[r] # "creating",
         \A q \in Runs : q # r => runState'[q] = runState[q],
         runState'[r] = runState[r] \/ runState'[r] \notin Passing
           \/ (runState'[r] = "merging" /\ r \in wt /\ place \in MergingPcs),
         pc[<<o, r>>] \in MergingPcs /\ runState'[r] = "merging" => place \in MergingPcs
  PROVE  GoesOn
<1>1. Create \notin Ops /\ None \notin Runs
  BY IdAssumption
<1>2. ~Newborn(r)
  BY DEF PassInv, NewbornsAlone
<1>3. ASSUME NEW q \in Runs PROVE Goes(q)
  <2>1. pc'[<<Create, q>>] = pc[<<Create, q>>] /\ (Newborn(q)' <=> Newborn(q))
    BY <1>1, <1>3 DEF Only, Newborn
  <2>2. \A p \in Ops : pc'[<<p, q>>] = IF p = o /\ q = r THEN place ELSE pc[<<p, q>>]
    BY <1>3 DEF Only
  <2>3. \A p \in Ops : pc'[<<p, q>>] \in AwayPcs
    BY <1>3, <2>2 DEF PassInv, NoneReopens
  <2>4. runState'[q] = "merging" =>
          \A p \in Ops : pc[<<p, q>>] \in MergingPcs => pc'[<<p, q>>] \in MergingPcs
    BY <1>3, <2>2
  <2>5. runState'[q] \in Passing =>
          \/ runState'[q] = runState[q]
          \/ runState'[q] = "merging" /\ q \in wt /\ \E p \in Ops : pc'[<<p, q>>] \in MergingPcs
    BY <1>3, <2>2
  <2>6. q \in wt' => q \in wt
    BY DEF Around
  <2>7. Newborn(q)' => /\ Newborn(q) /\ runState'[q] = "creating" /\ q \notin wt' /\ pr'[q] = "none"
                       /\ \A p \in Ops : ~Busy(<<p, q>>)'
                       /\ \A x \in Runs : postAt'[x] # q
    <3>1. SUFFICES ASSUME Newborn(q)
                   PROVE  /\ runState'[q] = "creating" /\ q \notin wt' /\ pr'[q] = "none"
                          /\ \A p \in Ops : ~Busy(<<p, q>>)'
                          /\ \A x \in Runs : postAt'[x] # q
      BY <2>1, Zenon
    <3>2. q # r
      BY <1>2, <3>1
    <3>3. /\ runState[q] = "creating" /\ q \notin wt /\ pr[q] = "none"
          /\ \A p \in Ops : ~Busy(<<p, q>>)
          /\ \A x \in Runs : postAt[x] # q
      BY <1>3, <3>1 DEF PassInv, NewbornsAlone
    <3> QED
      BY <1>1, <1>3, <2>2, <3>1, <3>2, <3>3 DEF Around, Busy
  <2> QED
    BY <2>1, <2>3, <2>4, <2>5, <2>6, <2>7, Zenon DEF Goes
<1> QED
  BY <1>3 DEF GoesOn, Around

\* Steps of what is neither an op nor a creation.
LEMMA StillGoes ==
  ASSUME TypeOK, PassInv, Around, NoneGoes,
         \A r \in Runs : runState'[r] = runState[r]
                         \/ (runState'[r] \notin Passing /\ ~Newborn(r))
  PROVE  GoesOn
<1>1. None \notin Runs
  BY IdAssumption
<1>2. ASSUME NEW q \in Runs PROVE Goes(q)
  <2>1. /\ pc'[<<Create, q>>] = pc[<<Create, q>>] /\ (Newborn(q)' <=> Newborn(q))
        /\ \A p \in Ops : pc'[<<p, q>>] = pc[<<p, q>>]
    BY <1>2 DEF NoneGoes, Newborn
  <2>2. \A p \in Ops : pc'[<<p, q>>] \in AwayPcs
    BY <1>2, <2>1 DEF PassInv, NoneReopens
  <2>3. q \in wt' => q \in wt
    BY DEF Around
  <2>4. Newborn(q)' => /\ Newborn(q) /\ runState'[q] = "creating" /\ q \notin wt' /\ pr'[q] = "none"
                       /\ \A p \in Ops : ~Busy(<<p, q>>)'
                       /\ \A x \in Runs : postAt'[x] # q
    <3>1. SUFFICES ASSUME Newborn(q)
                   PROVE  /\ runState'[q] = "creating" /\ q \notin wt' /\ pr'[q] = "none"
                          /\ \A p \in Ops : ~Busy(<<p, q>>)'
                          /\ \A x \in Runs : postAt'[x] # q
      BY <2>1, Zenon
    <3>2. /\ runState[q] = "creating" /\ q \notin wt /\ pr[q] = "none"
          /\ \A p \in Ops : ~Busy(<<p, q>>)
          /\ \A x \in Runs : postAt[x] # q
      BY <1>2, <3>1 DEF PassInv, NewbornsAlone
    <3> QED
      BY <1>1, <1>2, <2>1, <3>1, <3>2 DEF Around, Busy
  <2> QED
    BY <1>2, <2>1, <2>2, <2>3, <2>4, Zenon DEF Goes
<1> QED
  BY <1>2 DEF GoesOn, Around

\* Steps of creations.
LEMMA CreationGoes ==
  ASSUME PassInv, UNCHANGED <<pr, postAt>>, NEW q \in Runs,
         \A o \in Ops : pc'[<<o, q>>] = pc[<<o, q>>],
         \/ runState'[q] = runState[q] \/ runState'[q] \notin Passing
         \/ /\ runState'[q] = "launching" /\ runState[q] = "creating"
            /\ pc'[<<Create, q>>] = "starting",
         runState'[q] = "creating" /\ pc[<<Create, q>>] \in CreatingPcs =>
           pc'[<<Create, q>>] \in CreatingPcs,
         runState'[q] = "launching" /\ pc[<<Create, q>>] = "starting" =>
           pc'[<<Create, q>>] = "starting",
         q \in wt' => q \in wt \/ Newborn(q),
         Newborn(q)' => Newborn(q) /\ runState'[q] = runState[q] /\ q \notin wt'
  PROVE  Goes(q)
<1>1. \A o \in Ops : pc'[<<o, q>>] \in AwayPcs
  BY DEF PassInv, NoneReopens
<1>2. runState'[q] = "merging" =>
        \A o \in Ops : pc[<<o, q>>] \in MergingPcs => pc'[<<o, q>>] \in MergingPcs
  OBVIOUS
<1>3. Newborn(q)' => /\ Newborn(q) /\ runState'[q] = "creating" /\ q \notin wt' /\ pr'[q] = "none"
                     /\ \A o \in Ops : ~Busy(<<o, q>>)'
                     /\ \A x \in Runs : postAt'[x] # q
  BY DEF PassInv, NewbornsAlone, Busy
<1> QED
  BY <1>1, <1>2, <1>3, Zenon DEF Goes

\* Steps of the creation of run r.
LEMMA CreateGoes ==
  ASSUME PassInv, UNCHANGED <<process, wt, pr, postAt>>, NEW r \in Runs, NEW place,
         Only(Create, r, place), place \notin {"wtwait", "add"},
         \A q \in Runs : q # r => runState'[q] = runState[q],
         runState'[r] = runState[r] \/ runState'[r] \notin Passing,
         runState'[r] = "creating" /\ pc[<<Create, r>>] \in CreatingPcs => place \in CreatingPcs,
         runState'[r] = "launching" /\ pc[<<Create, r>>] = "starting" => place = "starting"
  PROVE  GoesOn
<1>1. Create \notin Ops
  BY IdAssumption
<1>2. ASSUME NEW q \in Runs PROVE Goes(q)
  <2>1. /\ pc'[<<Create, q>>] = IF q = r THEN place ELSE pc[<<Create, q>>]
        /\ \A p \in Ops : pc'[<<p, q>>] = pc[<<p, q>>]
    BY <1>1, <1>2 DEF Only
  <2>2. Newborn(q)' => Newborn(q) /\ runState'[q] = runState[q] /\ q \notin wt'
    BY <1>2, <2>1 DEF Newborn, PassInv, NewbornsAlone
  <2> QED BY <1>2, <2>1, <2>2, CreationGoes
<1> QED
  BY <1>2 DEF GoesOn

\* A run known to somebody is not newborn.
LEMMA NotNewborn ==
  ASSUME PassInv, NEW r \in Runs,
         r \in wt \/ pr[r] # "none" \/ runState[r] # "creating" \/ \E o \in Ops : Busy(<<o, r>>)
  PROVE  ~Newborn(r)
  BY DEF PassInv, NewbornsAlone

\* A step that leaves worktrees, PRs and clean-ups alone.
LEMMA StillAround ==
  ASSUME UNCHANGED <<process, wt, pr, postAt>>
  PROVE  Around
  BY DEF Around

\* A run that is not being created takes a state that is not passing (SetRun).
LEMMA StatesStill ==
  ASSUME TypeOK, PassInv, NEW r \in Runs, NEW s \in RunStates, s \notin Passing,
         runState[r] # "creating", SetRun(r, s) \/ UNCHANGED runState
  PROVE  \A q \in Runs : runState'[q] = runState[q] \/ (runState'[q] \notin Passing /\ ~Newborn(q))
  BY NotNewborn DEF TypeOK, SetRun

\* A merge that fails, or ends without having merged.
LEMMA FailMergeGoes ==
  ASSUME TypeOK, PassInv, Around, NEW o \in Ops, NEW r \in Runs, Busy(<<o, r>>),
         FailMerge(o, r) \/ (EndOp(o, r, "ok") /\ Unmerging(r))
  PROVE  GoesOn
<1>1. Only(o, r, "idle") /\ "idle" \in AwayPcs
  BY GotoOnly, PassPcs DEF FailMerge, EndOp
<1>2. /\ \A q \in Runs : q # r => runState'[q] = runState[q]
      /\ runState'[r] # "merging"
      /\ runState'[r] = runState[r] \/ runState'[r] \notin Passing
  BY DEF FailMerge, Unmerging, TypeOK, Passing
<1> QED BY <1>1, <1>2, OpGoes

\* A merge that is won.
LEMMA FinishGoes ==
  ASSUME TypeOK, PassInv, Around, NEW o \in Ops, NEW r \in Runs, Busy(<<o, r>>),
         FinishClientMerge(o, r)
  PROVE  GoesOn
<1>1. Only(o, r, "idle") /\ "idle" \in AwayPcs
  <2>1. Post \notin Ops \cup {Create}
    BY IdAssumption
  <2>2. pc' = [pc EXCEPT ![<<o, r>>] = "idle", ![<<Post, r>>] = "keep"] /\ pc \in [Bodies -> Pcs]
    BY DEF FinishClientMerge, TypeOK
  <2>3. \A p \in Ops \cup {Create}, q \in Runs : <<p, q>> \in Bodies /\ <<p, q>> # <<Post, r>>
    BY <2>1, InBodies
  <2>4. \A p \in Ops \cup {Create}, q \in Runs :
          pc'[<<p, q>>] = IF p = o /\ q = r THEN "idle" ELSE pc[<<p, q>>]
    BY <2>2, <2>3
  <2> QED BY <2>4, PassPcs DEF Only
<1>2. /\ \A q \in Runs : runState'[q] = IF q = r THEN "merged" ELSE runState[q]
      /\ "merged" \notin Passing
  BY DEF FinishClientMerge, FinishMerge, SetRun, TypeOK, Passing
<1> QED BY <1>1, <1>2, OpGoes

\* Every step of a daemon that goes on - no crash, no part of reconcile - is such a step.
LEMMA PassMoves ==
  ASSUME NoReopen, TypeOK, PassInv, Next
  PROVE  \/ GoesOn
         \/ Crash \/ Restart \/ BootDone
         \/ \E r \in Runs : ReconcileOp(r) \/ ReconcileState(r)
<1> USE DEF records, taskRec, opRec, world, posting, locks, timers, volatile, process
<1>0. None \notin Runs /\ Create \notin Ops /\ Post \notin Ops \cup {Create}
  BY IdAssumption
<1>1. ASSUME NEW o \in Ops, NEW r \in Runs, RefuseMerge(o, r) PROVE GoesOn
  <2>1. Around /\ NoneGoes
    BY <1>1, StillAround DEF RefuseMerge, NoneGoes
  <2> QED BY <1>1, <2>1, StillGoes DEF RefuseMerge
<1>2. ASSUME NEW t \in Tasks, DeleteTask(t) PROVE GoesOn
  <2>1. Around /\ NoneGoes
    BY <1>2, StillAround DEF DeleteTask, NoneGoes
  <2> QED BY <1>2, <2>1, StillGoes DEF DeleteTask
<1>3. ASSUME NEW r \in Runs, PrStatus(r) PROVE GoesOn
  <2>1. Around /\ NoneGoes
    BY <1>3, StillAround DEF PrStatus, NoneGoes
  <2> QED BY <1>3, <2>1, StillGoes DEF PrStatus
<1>4. ASSUME NEW r \in Runs, PollStart(r) PROVE GoesOn
  <2>1. Around /\ NoneGoes
    BY <1>4, StillAround DEF PollStart, NoneGoes
  <2> QED BY <1>4, <2>1, StillGoes DEF PollStart
<1>5. ASSUME NEW r \in Runs, PostKeep(r) PROVE GoesOn
  <2>1. Around /\ NoneGoes
    BY <1>5, StillAround, GotoNone DEF PostKeep, NoneGoes
  <2> QED BY <1>5, <2>1, StillGoes DEF PostKeep
<1>6. ASSUME NEW r \in Runs, PostCheck(r) PROVE GoesOn
  <2>1. Around /\ NoneGoes
    BY <1>6, StillAround, GotoNone DEF PostCheck, NoneGoes
  <2> QED BY <1>6, <2>1, StillGoes DEF PostCheck
<1>7. ASSUME NEW r \in Runs, PostOtherLock(r) PROVE GoesOn
  <2>1. Around /\ NoneGoes
    BY <1>7, StillAround, GotoNone DEF PostOtherLock, NoneGoes
  <2> QED BY <1>7, <2>1, StillGoes DEF PostOtherLock
<1>8. ASSUME NEW r \in Runs, PostEnd(r) PROVE GoesOn
  <2>1. Around /\ NoneGoes
    BY <1>8, StillAround, GotoNone DEF PostEnd, NoneGoes
  <2> QED BY <1>8, <2>1, StillGoes DEF PostEnd
<1>9. ASSUME NEW r \in Runs, RemoveLock(Post, r) PROVE GoesOn
  <2>1. Around /\ NoneGoes
    BY <1>9, StillAround, GotoNone DEF RemoveLock, NoneGoes
  <2> QED BY <1>9, <2>1, StillGoes DEF RemoveLock
<1>10. ASSUME NEW r \in Runs, NEW q \in Runs, PostSkip(r, q) PROVE GoesOn
  <2>1. Around /\ NoneGoes
    BY <1>10, StillAround DEF PostSkip, NoneGoes
  <2> QED BY <1>10, <2>1, StillGoes DEF PostSkip
<1>11. ASSUME NEW r \in Runs, AgentStops(r) PROVE GoesOn
  <2>1. Around /\ NoneGoes
    BY <1>11, StillAround DEF AgentStops, NoneGoes
  <2> QED BY <1>11, <2>1, StillGoes DEF AgentStops
<1>12. ASSUME NEW r \in Runs, PostRemove(r) PROVE GoesOn
  <2>1. Around /\ NoneGoes
    BY <1>12, GotoNone DEF PostRemove, Around
  <2> QED BY <1>12, <2>1, StillGoes DEF PostRemove
<1>13. ASSUME NEW r \in Runs, NEW q \in Runs, PostDiscard(r, q) PROVE GoesOn
  <2>1. \A x \in Runs : postAt'[x] = IF x = r THEN q ELSE postAt[x]
    BY <1>13 DEF PostDiscard, TypeOK
  <2>2. Around /\ NoneGoes
    BY <1>13, <2>1, GotoNone DEF PostDiscard, Around
  <2> QED BY <1>13, <2>2, StillGoes DEF PostDiscard
<1>14. ASSUME NEW r \in Runs, PostOtherRemove(r) PROVE GoesOn
  <2>1. \A x \in Runs : postAt'[x] \in {postAt[x], None}
    BY <1>14 DEF PostOtherRemove, PostRelease, TypeOK
  <2>2. Around /\ NoneGoes
    BY <1>14, <2>1, GotoNone DEF PostOtherRemove, PostRelease, Around
  <2> QED BY <1>14, <2>2, StillGoes DEF PostOtherRemove
<1>15. ASSUME NEW r \in Runs, PostOtherDone(r) PROVE GoesOn
  <2>1. \A x \in Runs : postAt'[x] \in {postAt[x], None}
    BY <1>15 DEF PostOtherDone, PostRelease, TypeOK
  <2>2. Around /\ NoneGoes
    BY <1>15, <2>1, GotoNone DEF PostOtherDone, PostRelease, Around
  <2>3. \A x \in Runs : runState'[x] = IF x = postAt[r] THEN "discarded" ELSE runState[x]
    BY <1>15 DEF PostOtherDone, Discarded, SetRun, TypeOK
  <2>4. \A x \in Runs : x = postAt[r] => ~Newborn(x)
    BY DEF PassInv, NewbornsAlone
  <2>5. "discarded" \notin Passing
    BY DEF Passing
  <2> QED BY <2>2, <2>3, <2>4, <2>5, StillGoes
<1>16. ASSUME NEW r \in Runs, ApplyPrView(r) PROVE GoesOn
  <2>1. Around /\ NoneGoes
    BY <1>16, StillAround, GotoNone DEF ApplyPrView, NoneGoes
  <2>2. CASE WebCompletes(r) /\ FinishMerge(Web, r, OtherRuns(r))
    <3>1. /\ ~Newborn(r) /\ "merged" \notin Passing
          /\ \A x \in Runs : runState'[x] = IF x = r THEN "merged" ELSE runState[x]
      BY <2>2, NotNewborn DEF WebCompletes, FinishMerge, SetRun, TypeOK, Passing
    <3> QED BY <2>1, <3>1, StillGoes
  <2>3. CASE UNCHANGED runState
    BY <2>1, <2>3, StillGoes
  <2> QED BY <1>16, <2>2, <2>3 DEF ApplyPrView
<1>17. ASSUME NEW r \in Runs, PromptDelivered(r) PROVE GoesOn
  <2>1. Around /\ NoneGoes
    BY <1>17, StillAround DEF PromptDelivered, NoneGoes
  <2>2. \A x \in Runs : runState'[x] = runState[x] \/ (runState'[x] \notin Passing /\ ~Newborn(x))
    BY <1>17, StatesStill, StatesInRunStates DEF PromptDelivered, Passing
  <2> QED BY <2>1, <2>2, StillGoes
<1>18. ASSUME NEW r \in Runs, AgentWorking(r) PROVE GoesOn
  <2>1. Around /\ NoneGoes
    BY <1>18, StillAround DEF AgentWorking, NoneGoes
  <2>2. CASE runState[r] \in {"review_ready", "failed"} /\ SetRun(r, "running")
    <3>1. \A x \in Runs : runState'[x] = runState[x] \/ (runState'[x] \notin Passing /\ ~Newborn(x))
      BY <2>2, StatesStill, StatesInRunStates DEF Passing
    <3> QED BY <2>1, <3>1, StillGoes
  <2>3. CASE UNCHANGED runState
    BY <2>1, <2>3, StillGoes
  <2> QED BY <1>18, <2>2, <2>3 DEF AgentWorking
<1>19. ASSUME NEW r \in Runs, EvaluateTurn(r) PROVE GoesOn
  <2>1. Around /\ NoneGoes
    BY <1>19, StillAround DEF EvaluateTurn, NoneGoes
  <2>2. CASE runState[r] = "running" /\ SetRun(r, "review_ready")
    <3>1. \A x \in Runs : runState'[x] = runState[x] \/ (runState'[x] \notin Passing /\ ~Newborn(x))
      BY <2>2, StatesStill, StatesInRunStates DEF Passing
    <3> QED BY <2>1, <3>1, StillGoes
  <2>3. CASE UNCHANGED runState
    BY <2>1, <2>3, StillGoes
  <2> QED BY <1>19, <2>2, <2>3 DEF EvaluateTurn
<1>20. ASSUME NEW r \in Runs, WorktreeLost(r) PROVE GoesOn
  <2>1. Around /\ NoneGoes
    BY <1>20 DEF WorktreeLost, Around, NoneGoes
  <2> QED BY <1>20, <2>1, StillGoes DEF WorktreeLost
<1>21. ASSUME NEW r \in Runs, AgentOpensPr(r) PROVE GoesOn
  <2>1. ~Newborn(r) /\ \A x \in Runs : x # r => pr'[x] = pr[x]
    BY <1>21, NotNewborn DEF AgentOpensPr, TypeOK
  <2>2. Around /\ NoneGoes
    BY <1>21, <2>1 DEF AgentOpensPr, Around, NoneGoes
  <2> QED BY <1>21, <2>2, StillGoes DEF AgentOpensPr
<1>22. ASSUME NEW r \in Runs, GithubMerges(r) PROVE GoesOn
  <2>1. ~Newborn(r) /\ \A x \in Runs : x # r => pr'[x] = pr[x]
    BY <1>22, NotNewborn DEF GithubMerges, TypeOK
  <2>2. Around /\ NoneGoes
    BY <1>22, <2>1 DEF GithubMerges, Around, NoneGoes
  <2> QED BY <1>22, <2>2, StillGoes DEF GithubMerges
<1>23. ASSUME NEW o \in Ops, NEW r \in Runs, RequestOp(o, r) PROVE GoesOn
  <2>1. /\ FirstPc(o) \in AwayPcs /\ runState[r] \notin {"creating", "merging"}
        /\ Only(o, r, FirstPc(o))
    BY <1>23, RunsAssumption, PassPcs, GotoOnly
    DEF RequestOp, OpGuard, StatesFor, BeginOp, FirstPc, NoReopen, IsMerge, IsDiscard, Kinds
  <2>2. Around
    BY <1>23, StillAround DEF RequestOp
  <2> QED BY <1>23, <2>1, <2>2, OpGoes DEF RequestOp
<1>24. ASSUME NEW o \in Ops, NEW r \in Runs, RequestMerge(o, r) PROVE GoesOn
  <2>1. /\ FirstPc(o) = "status" /\ runState[r] \notin {"creating", "merging"}
        /\ Only(o, r, FirstPc(o))
    BY <1>24, GotoOnly DEF RequestMerge, OpGuard, StatesFor, BeginOp, FirstPc, IsMerge
  <2>2. Around /\ "status" \in AwayPcs
    BY <1>24, StillAround, PassPcs DEF RequestMerge
  <2> QED BY <1>24, <2>1, <2>2, OpGoes DEF RequestMerge
<1>25. ASSUME NEW o \in Ops, NEW r \in Runs, EndGit(o, r) PROVE GoesOn
  <2>1. Only(o, r, "idle") /\ Busy(<<o, r>>) /\ pc[<<o, r>>] \notin MergingPcs
    BY <1>25, GotoOnly, PassPcs DEF EndGit, EndOp, At, Busy
  <2>2. \A x \in Runs : pr'[x] = pr[x] \/ (x = r /\ r \in wt)
    BY <1>25 DEF EndGit, PrOpened, TypeOK
  <2>3. Around /\ "idle" \in AwayPcs
    BY <1>25, <2>2, NotNewborn, PassPcs DEF EndGit, Around
  <2> QED BY <1>25, <2>1, <2>3, OpGoes DEF EndGit
<1>26. ASSUME NEW o \in Ops, NEW r \in Runs, MergeStatus(o, r) PROVE GoesOn
  <2> DEFINE place == IF KindOf[o] = "merge.local" THEN "mwait" ELSE "view"
  <2>1. Around /\ Busy(<<o, r>>)
    BY <1>26, StillAround DEF MergeStatus, At, Busy
  <2>2. CASE FailMerge(o, r)
    BY <2>1, <2>2, FailMergeGoes
  <2>3. CASE SetRun(r, "merging") /\ r \in wt /\ Goto(<<o, r>>, place)
    <3>1. /\ Only(o, r, place) /\ place \in MergingPcs /\ place \in AwayPcs
          /\ \A x \in Runs : runState'[x] = IF x = r THEN "merging" ELSE runState[x]
      BY <2>3, GotoOnly, PassPcs DEF SetRun, TypeOK
    <3> HIDE DEF place
    <3> QED BY <2>1, <2>3, <3>1, OpGoes
  <2> QED BY <1>26, <2>2, <2>3 DEF MergeStatus
<1>27. ASSUME NEW o \in Ops, NEW r \in Runs, MergeLock(o, r) PROVE GoesOn
  <2>1. Around /\ Busy(<<o, r>>)
    BY <1>27, StillAround DEF MergeLock, At, Busy
  <2>2. CASE FailMerge(o, r)
    BY <2>1, <2>2, FailMergeGoes
  <2>3. CASE Goto(<<o, r>>, "merge") /\ UNCHANGED runState
    <3>1. Only(o, r, "merge") /\ "merge" \in MergingPcs /\ "merge" \in AwayPcs
      BY <2>3, GotoOnly, PassPcs
    <3> QED BY <2>1, <2>3, <3>1, OpGoes
  <2> QED BY <1>27, <2>2, <2>3 DEF MergeLock
<1>28. ASSUME NEW o \in Ops, NEW r \in Runs, MergeGit(o, r) PROVE GoesOn
  <2>1. Around /\ Busy(<<o, r>>)
    BY <1>28, StillAround DEF MergeGit, At, Busy
  <2>2. CASE FailMerge(o, r)
    BY <2>1, <2>2, FailMergeGoes
  <2>3. CASE Goto(<<o, r>>, "finish") /\ UNCHANGED runState
    <3>1. Only(o, r, "finish") /\ "finish" \in MergingPcs /\ "finish" \in AwayPcs
      BY <2>3, GotoOnly, PassPcs
    <3> QED BY <2>1, <2>3, <3>1, OpGoes
  <2> QED BY <1>28, <2>2, <2>3 DEF MergeGit
<1>29. ASSUME NEW o \in Ops, NEW r \in Runs, PrMergeView(o, r) PROVE GoesOn
  <2> DEFINE place == IF pr[r] = "merged" THEN "after" ELSE "ghmerge"
  <2>1. Around /\ Busy(<<o, r>>)
    BY <1>29, StillAround DEF PrMergeView, At, Busy
  <2>2. CASE FailMerge(o, r)
    BY <2>1, <2>2, FailMergeGoes
  <2>3. CASE Goto(<<o, r>>, place) /\ UNCHANGED runState
    <3>1. Only(o, r, place) /\ place \in MergingPcs /\ place \in AwayPcs
      BY <2>3, GotoOnly, PassPcs
    <3> HIDE DEF place
    <3> QED BY <2>1, <2>3, <3>1, OpGoes
  <2> QED BY <1>29, <2>2, <2>3 DEF PrMergeView
<1>30. ASSUME NEW o \in Ops, NEW r \in Runs, PrMergeGh(o, r) PROVE GoesOn
  <2>1. Busy(<<o, r>>) /\ \A x \in Runs : x # r => pr'[x] = pr[x]
    BY <1>30 DEF PrMergeGh, At, Busy, TypeOK
  <2>2. Around /\ Busy(<<o, r>>)
    BY <1>30, <2>1, NotNewborn DEF PrMergeGh, Around
  <2>3. CASE FailMerge(o, r)
    BY <2>2, <2>3, FailMergeGoes
  <2>4. CASE Goto(<<o, r>>, "after") /\ UNCHANGED runState
    <3>1. Only(o, r, "after") /\ "after" \in MergingPcs /\ "after" \in AwayPcs
      BY <2>4, GotoOnly, PassPcs
    <3> QED BY <2>2, <2>4, <3>1, OpGoes
  <2> QED BY <1>30, <2>3, <2>4 DEF PrMergeGh
<1>31. ASSUME NEW o \in Ops, NEW r \in Runs, MergeFinish(o, r) PROVE GoesOn
  <2>1. Around /\ Busy(<<o, r>>) /\ FinishClientMerge(o, r)
    BY <1>31, StillAround DEF MergeFinish, At, Busy
  <2> QED BY <2>1, FinishGoes
<1>32. ASSUME NEW o \in Ops, NEW r \in Runs, PrMergeAfter(o, r) PROVE GoesOn
  <2>1. Around /\ Busy(<<o, r>>)
    BY <1>32, StillAround DEF PrMergeAfter, At, Busy
  <2>2. CASE FinishClientMerge(o, r)
    BY <2>1, <2>2, FinishGoes
  <2>3. CASE FailMerge(o, r) \/ (EndOp(o, r, "ok") /\ Unmerging(r))
    BY <2>1, <2>3, FailMergeGoes
  <2> QED BY <1>32, <2>2, <2>3 DEF PrMergeAfter
<1>33. ASSUME NEW o \in Ops, NEW r \in Runs, DiscardCheck(o, r) PROVE GoesOn
  <2>1. Around /\ Busy(<<o, r>>) /\ pc[<<o, r>>] \notin MergingPcs
    BY <1>33, PassPcs DEF DiscardCheck, Around, At, Busy
  <2>2. \E place \in {"idle", "dwait"} : Only(o, r, place)
    BY <1>33, GotoOnly DEF DiscardCheck, EndOp
  <2> QED BY <1>33, <2>1, <2>2, PassPcs, OpGoes DEF DiscardCheck
<1>34. ASSUME NEW o \in Ops, NEW r \in Runs, DiscardRemove(o, r) PROVE GoesOn
  <2>1. Around /\ Busy(<<o, r>>) /\ pc[<<o, r>>] \notin MergingPcs
    BY <1>34, PassPcs DEF DiscardRemove, Around, At, Busy
  <2>2. \E place \in {"idle", "removed"} : Only(o, r, place)
    BY <1>34, GotoOnly DEF DiscardRemove, EndOp
  <2> QED BY <1>34, <2>1, <2>2, PassPcs, OpGoes DEF DiscardRemove
<1>35. ASSUME NEW o \in Ops, NEW r \in Runs, RemoveLock(o, r) PROVE GoesOn
  <2>1. Around /\ Busy(<<o, r>>) /\ pc[<<o, r>>] \notin MergingPcs
    BY <1>35, PassPcs DEF RemoveLock, Around, At, Busy
  <2>2. Only(o, r, "remove") /\ "remove" \in AwayPcs
    BY <1>35, GotoOnly, PassPcs DEF RemoveLock
  <2> QED BY <1>35, <2>1, <2>2, OpGoes DEF RemoveLock
<1>36. ASSUME NEW o \in Ops, NEW r \in Runs, DiscardDone(o, r) PROVE GoesOn
  <2>1. Around /\ Busy(<<o, r>>) /\ pc[<<o, r>>] \notin MergingPcs
    BY <1>36, PassPcs DEF DiscardDone, Around, At, Busy
  <2>2. Only(o, r, "idle") /\ "idle" \in AwayPcs
    BY <1>36, GotoOnly, PassPcs DEF DiscardDone, EndOp
  <2>3. /\ "discarded" \notin Passing
        /\ \A x \in Runs : runState'[x] = IF x = r THEN "discarded" ELSE runState[x]
    BY <1>36 DEF DiscardDone, Discarded, SetRun, TypeOK, Passing
  <2> QED BY <2>1, <2>2, <2>3, OpGoes DEF Passing
<1>37. ASSUME NEW o \in Ops, NEW t \in Tasks, DiscardAll(o, t) PROVE GoesOn
  <2> DEFINE targets == {r \in RunsOf(t) :
                           /\ runState[r] \in {"running", "review_ready", "failed"}
                           /\ runOp[r] = NoOp
                           /\ Forced(o) \/ ~LiveWorking(r)}
  <2>1. \A p \in Ops \cup {Create}, q \in Runs :
          pc'[<<p, q>>] = IF p = o /\ q \in targets THEN "check" ELSE pc[<<p, q>>]
    BY <1>37, InBodies DEF DiscardAll
  <2>2. \A q \in targets : runState[q] \notin {"creating", "merging"} /\ ~Newborn(q)
    BY NotNewborn DEF RunsOf
  <2>3. UNCHANGED <<process, runState, wt, pr, postAt>>
    BY <1>37 DEF DiscardAll
  <2> HIDE DEF targets
  <2>4. ASSUME NEW q \in Runs PROVE Goes(q)
    <3>1. pc'[<<Create, q>>] = pc[<<Create, q>>] /\ (Newborn(q)' <=> Newborn(q))
      BY <1>0, <2>1, <2>4 DEF Newborn
    <3>2. \A p \in Ops : pc'[<<p, q>>] = IF p = o /\ q \in targets THEN "check" ELSE pc[<<p, q>>]
      BY <2>1, <2>4
    <3>3. \A p \in Ops : pc'[<<p, q>>] \in AwayPcs
      BY <2>4, <3>2, PassPcs DEF PassInv, NoneReopens
    <3>4. runState'[q] = "merging" =>
            \A p \in Ops : pc[<<p, q>>] \in MergingPcs => pc'[<<p, q>>] \in MergingPcs
      BY <2>2, <2>3, <3>2
    <3>5. Newborn(q)' =>
            /\ Newborn(q) /\ runState'[q] = "creating" /\ q \notin wt' /\ pr'[q] = "none"
            /\ \A p \in Ops : ~Busy(<<p, q>>)'
            /\ \A x \in Runs : postAt'[x] # q
      BY <2>2, <2>3, <2>4, <3>1, <3>2 DEF PassInv, NewbornsAlone, Busy
    <3> QED BY <2>3, <3>1, <3>3, <3>4, <3>5, Zenon DEF Goes
  <2> QED BY <2>3, <2>4 DEF GoesOn
<1>38. ASSUME NEW t \in Tasks, CreateLock(t) PROVE GoesOn
  <2>1. ASSUME NEW q \in Runs PROVE Goes(q)
    <3>1. /\ \A o \in Ops : pc'[<<o, q>>] = pc[<<o, q>>]
          /\ \/ pc'[<<Create, q>>] = pc[<<Create, q>>]
             \/ pc[<<Create, q>>] = "wtwait" /\ pc'[<<Create, q>>] = "add"
      BY <1>38, <1>0, InBodies DEF CreateLock, TypeOK
    <3>2. UNCHANGED <<pr, postAt, runState, wt>>
      BY <1>38 DEF CreateLock
    <3>3. Newborn(q)' => Newborn(q) /\ runState'[q] = runState[q] /\ q \notin wt'
      BY <3>1, <3>2 DEF Newborn, PassInv, NewbornsAlone
    <3> QED BY <3>1, <3>2, <3>3, CreationGoes DEF CreatingPcs
  <2> QED BY <1>38, <2>1 DEF CreateLock, GoesOn
<1>39. ASSUME NEW t \in Tasks, CreateUnlock(t) PROVE GoesOn
  <2>1. ASSUME NEW q \in Runs PROVE Goes(q)
    <3>1. /\ \A o \in Ops : pc'[<<o, q>>] = pc[<<o, q>>]
          /\ \/ pc'[<<Create, q>>] = pc[<<Create, q>>]
             \/ pc[<<Create, q>>] = "added" /\ pc'[<<Create, q>>] = "prep"
      BY <1>39, <1>0, InBodies DEF CreateUnlock, TypeOK
    <3>2. UNCHANGED <<pr, postAt, runState, wt>>
      BY <1>39 DEF CreateUnlock
    <3>3. Newborn(q)' => Newborn(q) /\ runState'[q] = runState[q] /\ q \notin wt'
      BY <3>1, <3>2 DEF Newborn, PassInv, NewbornsAlone
    <3> QED BY <3>1, <3>2, <3>3, CreationGoes DEF CreatingPcs
  <2> QED BY <1>39, <2>1 DEF CreateUnlock, GoesOn
<1>40. ASSUME NEW t \in Tasks, LaunchAll(t) PROVE GoesOn
  <2>1. ASSUME NEW q \in Runs PROVE Goes(q)
    <3>1. /\ \A o \in Ops : pc'[<<o, q>>] = pc[<<o, q>>]
          /\ \/ pc'[<<Create, q>>] = pc[<<Create, q>>] /\ runState'[q] = runState[q]
             \/ /\ pc[<<Create, q>>] = "prepared" /\ runState[q] = "creating"
                /\ pc'[<<Create, q>>] = "starting" /\ runState'[q] = "launching"
             \/ /\ pc[<<Create, q>>] = "prepared" /\ runState[q] # "creating"
                /\ pc'[<<Create, q>>] = "idle" /\ runState'[q] = runState[q]
      BY <1>40, <1>0, InBodies DEF LaunchAll, TypeOK
    <3>2. UNCHANGED <<pr, postAt, wt>>
      BY <1>40 DEF LaunchAll
    <3>3. Newborn(q)' => Newborn(q) /\ runState'[q] = runState[q] /\ q \notin wt'
      BY <3>1, <3>2 DEF Newborn, PassInv, NewbornsAlone
    <3> QED BY <3>1, <3>2, <3>3, CreationGoes
  <2> QED BY <1>40, <2>1 DEF LaunchAll, GoesOn
<1>41. ASSUME NEW r \in Runs, AddWorktree(r) PROVE GoesOn
  <2>1. ASSUME NEW q \in Runs PROVE Goes(q)
    <3>1. /\ \A o \in Ops : pc'[<<o, q>>] = pc[<<o, q>>]
          /\ q # r => pc'[<<Create, q>>] = pc[<<Create, q>>] /\ runState'[q] = runState[q]
          /\ q # r => (q \in wt' <=> q \in wt)
      BY <1>41, <1>0, InBodies DEF AddWorktree, Goto, SetRun, TypeOK
    <3>2. /\ pc[<<Create, r>>] = "add"
          /\ \/ pc'[<<Create, r>>] = "added" /\ runState'[r] = runState[r]
             \/ pc'[<<Create, r>>] = "idle" /\ runState'[r] = "failed"
      BY <1>41, InBodies DEF AddWorktree, Goto, SetRun, TypeOK, At
    <3>3. UNCHANGED <<pr, postAt>>
      BY <1>41 DEF AddWorktree
    <3>4. Newborn(q)' => Newborn(q) /\ runState'[q] = runState[q] /\ q \notin wt'
      BY <3>1, <3>2 DEF Newborn, PassInv, NewbornsAlone
    <3>5. q \in wt' => q \in wt \/ Newborn(q)
      BY <3>1, <3>2 DEF Newborn
    <3> QED BY <3>1, <3>2, <3>3, <3>4, <3>5, CreationGoes DEF CreatingPcs, Passing
  <2> QED BY <1>41, <2>1 DEF AddWorktree, GoesOn
<1>42. ASSUME NEW r \in Runs, PrepareRun(Create, r) PROVE GoesOn
  <2>1. UNCHANGED <<process, wt, pr, postAt>>
    BY <1>42 DEF PrepareRun
  <2>2. \/ Only(Create, r, "prepared") /\ UNCHANGED runState
        \/ Only(Create, r, "idle") /\ SetRun(r, "failed")
    BY <1>42, GotoOnly DEF PrepareRun, PipelineEnd
  <2>3. CASE Only(Create, r, "prepared") /\ UNCHANGED runState
    BY <1>42, <2>1, <2>3, CreateGoes DEF CreatingPcs, PrepareRun, At
  <2>4. CASE Only(Create, r, "idle") /\ SetRun(r, "failed")
    <3>1. /\ "failed" \notin Passing
          /\ \A q \in Runs : runState'[q] = IF q = r THEN "failed" ELSE runState[q]
      BY <2>4 DEF SetRun, TypeOK, Passing
    <3> QED BY <2>1, <2>4, <3>1, CreateGoes DEF Passing
  <2> QED BY <2>2, <2>3, <2>4
<1>43. ASSUME NEW r \in Runs, Launched(Create, r) PROVE GoesOn
  <2>1. UNCHANGED <<process, wt, pr, postAt>>
    BY <1>43 DEF Launched
  <2>2. \E place \in {"idle", "ready"} : Only(Create, r, place)
    BY <1>43, GotoOnly DEF Launched, PipelineEnd
  <2>3. \E st \in {"failed", "running"} : SetRun(r, st)
    BY <1>43 DEF Launched
  <2> QED BY <2>1, <2>2, <2>3, CreateGoes DEF SetRun, TypeOK, Passing
<1>44. ASSUME NEW r \in Runs, AgentReady(Create, r) PROVE GoesOn
  <2>1. UNCHANGED <<process, wt, pr, postAt, runState>> /\ pc[<<Create, r>>] = "ready"
    BY <1>44 DEF AgentReady, At
  <2>2. \E place \in {"idle", "deliver"} : Only(Create, r, place)
    BY <1>44, GotoOnly DEF AgentReady, PipelineEnd
  <2> QED BY <2>1, <2>2, CreateGoes DEF CreatingPcs
<1>45. ASSUME NEW r \in Runs, DeliverPrompt(Create, r) PROVE GoesOn
  <2>1. UNCHANGED <<process, wt, pr, postAt>> /\ pc[<<Create, r>>] = "deliver"
    BY <1>45 DEF DeliverPrompt, At
  <2>2. Only(Create, r, "idle")
    BY <1>45, GotoOnly DEF DeliverPrompt, PipelineEnd
  <2>3. /\ \A q \in Runs : q # r => runState'[q] = runState[q]
        /\ runState'[r] = runState[r] \/ runState'[r] \notin Passing
    BY <1>45 DEF DeliverPrompt, SetRun, TypeOK, Passing
  <2> QED BY <2>1, <2>2, <2>3, CreateGoes DEF CreatingPcs
<1>46. ASSUME NEW o \in Ops, NEW r \in Runs
      PROVE  ~(\/ FixStart(o, r) \/ Reopen(o, r) \/ ReopenLock(o, r) \/ ReopenAdd(o, r)
               \/ PipelineStep(o, r))
  <2>1. pc[<<o, r>>] \notin {"fix", "reopen", "wtwait", "add", "prep", "starting", "ready",
                             "deliver"}
    BY PassPcs DEF PassInv, NoneReopens
  <2> QED
    BY <2>1 DEF FixStart, Reopen, ReopenLock, ReopenAdd, PipelineStep, PrepareRun, Launched,
                AgentReady, DeliverPrompt, At
<1> QED
  BY <1>0, <1>1, <1>2, <1>3, <1>4, <1>5, <1>6, <1>7, <1>8, <1>9, <1>10, <1>11, <1>12, <1>13,
     <1>14, <1>15, <1>16, <1>17, <1>18, <1>19, <1>20, <1>21, <1>22, <1>23, <1>24, <1>25, <1>26,
     <1>27, <1>28, <1>29, <1>30, <1>31, <1>32, <1>33, <1>34, <1>35, <1>36, <1>37, <1>38, <1>39,
     <1>40, <1>41, <1>42, <1>43, <1>44, <1>45, <1>46, ZenonT(60)
  DEF Next, Request, OpStep, MergeStep, DiscardStep, PipelineStep, CreateStep, PostStep, Boot,
      Agent, World, RunsOf

\* Only rpcDelete deletes, and only what has ended.
LEMMA OnlyEndedDeleted ==
  ASSUME Next
  PROVE  \/ UNCHANGED deleted
         \/ /\ UNCHANGED <<runState, wt>>
            /\ \A r \in Runs : Task(r) \in deleted' =>
                 Task(r) \in deleted \/ (runState[r] \notin ActiveRunStates /\ r \notin wt)
<1> USE DEF records, taskRec
<1>1. ASSUME NEW t \in Tasks, DeleteTask(t)
      PROVE  /\ UNCHANGED <<runState, wt>>
             /\ \A r \in Runs : Task(r) \in deleted' =>
                  Task(r) \in deleted \/ (runState[r] \notin ActiveRunStates /\ r \notin wt)
  BY <1>1 DEF DeleteTask, Deletable, RunsOf, Task, world
<1>2. ASSUME NEW o, NEW r, \/ RequestOp(o, r) \/ RequestMerge(o, r) \/ RefuseMerge(o, r)
                           \/ DiscardAll(o, r) \/ PrStatus(r) \/ PromptDelivered(r)
      PROVE  UNCHANGED deleted
  BY <1>2 DEF RequestOp, RequestMerge, RefuseMerge, DiscardAll, PrStatus, PromptDelivered
<1>3. ASSUME NEW o, NEW r, MergeStep(o, r) PROVE UNCHANGED deleted
  BY <1>3 DEF MergeStep, MergeStatus, MergeLock, MergeGit, MergeFinish, PrMergeView, PrMergeGh,
              PrMergeAfter
<1>4. ASSUME NEW o, NEW r, EndGit(o, r) \/ DiscardStep(o, r) \/ PipelineStep(o, r)
      PROVE  UNCHANGED deleted
  BY <1>4 DEF EndGit, DiscardStep, DiscardCheck, RemoveLock, DiscardRemove, DiscardDone,
              PipelineStep, PrepareRun, Launched, AgentReady, DeliverPrompt
<1>5. ASSUME NEW o, NEW r, FixStart(o, r) \/ Reopen(o, r) \/ ReopenLock(o, r) \/ ReopenAdd(o, r)
      PROVE  UNCHANGED deleted
  BY <1>5 DEF FixStart, Reopen, ReopenLock, ReopenAdd
<1>6. ASSUME NEW t, CreateLock(t) \/ CreateUnlock(t) \/ LaunchAll(t) \/ AddWorktree(t)
      PROVE  UNCHANGED deleted
  BY <1>6 DEF CreateLock, CreateUnlock, LaunchAll, AddWorktree
<1>7. ASSUME NEW r, PostStep(r) PROVE UNCHANGED deleted
  BY <1>7 DEF PostStep, PostKeep, PostCheck, RemoveLock, PostRemove, PostOtherLock,
              PostOtherRemove, PostOtherDone, PostEnd, PostSkip, PostDiscard
<1>8. ASSUME NEW r, Agent(r) \/ World(r) \/ PollStart(r) \/ ApplyPrView(r)
      PROVE  UNCHANGED deleted
  BY <1>8 DEF Agent, AgentWorking, AgentStops, EvaluateTurn, World, WorktreeLost, AgentOpensPr,
              GithubMerges, PollStart, ApplyPrView
<1>9. ASSUME Crash \/ Boot PROVE UNCHANGED deleted
  BY <1>9 DEF Crash, Boot, Restart, BootDone, ReconcileOp, ReconcileState
<1> QED
  BY <1>1, <1>2, <1>3, <1>4, <1>5, <1>6, <1>7, <1>8, <1>9, ZenonT(60)
  DEF Next, Request, OpStep, CreateStep, Boot

\* A step of a daemon that goes on keeps the invariant.
LEMMA PassGoesOn ==
  ASSUME TypeOK, PassInv, Next, GoesOn
  PROVE  PassInv'
<1>1. NoneReopens' /\ NewbornsAlone'
  BY DEF GoesOn, Goes, process, PassInv, NoneReopens, NewbornsAlone
<1>2. DeletedEnded'
  <2> SUFFICES ASSUME NEW r \in Runs, Task(r) \in deleted'
               PROVE  r \notin wt' /\ runState'[r] \notin Passing
    BY DEF DeletedEnded, Task
  <2>1. CASE Task(r) \in deleted
    <3>1. r \notin wt /\ runState[r] \notin Passing
      BY <2>1 DEF PassInv, DeletedEnded
    <3>2. ~Newborn(r)
      BY <3>1 DEF PassInv, NewbornsAlone, Passing
    <3> QED BY <3>1, <3>2 DEF GoesOn, Goes, Passing
  <2>2. CASE Task(r) \notin deleted
    BY <2>2, OnlyEndedDeleted DEF Passing, ActiveRunStates
  <2> QED BY <2>1, <2>2
<1>3. Passes'
  <2> SUFFICES ASSUME NEW r \in Runs
               PROVE  /\ runState'[r] = "merging" =>
                           Ahead(r) \/ \E o \in Ops : pc'[<<o, r>>] \in MergingPcs
                      /\ runState'[r] = "creating" =>
                           Halfway(r) \/ pc'[<<Create, r>>] \in CreatingPcs
                      /\ runState'[r] = "launching" => Halfway(r) \/ pc'[<<Create, r>>] = "starting"
    BY DEF Passes, Halfway, Ahead, GoesOn, process
  <2>1. Goes(r)
    BY DEF GoesOn
  <2>2. CASE runState'[r] = "merging"
    BY <2>1, <2>2 DEF Goes, Passing, PassInv, Passes
  <2>3. CASE runState'[r] = "creating"
    BY <2>1, <2>3 DEF Goes, Passing, PassInv, Passes
  <2>4. CASE runState'[r] = "launching"
    BY <2>1, <2>4 DEF Goes, Passing, PassInv, Passes
  <2> QED BY <2>2, <2>3, <2>4
<1>4. Reconciled'
  BY DEF PassInv, Reconciled, GoesOn, process
<1> QED BY <1>1, <1>2, <1>3, <1>4 DEF PassInv

\* The daemon dies: reconcile has every run before it.
LEMMA PassCrash ==
  ASSUME PassInv, Crash
  PROVE  PassInv'
<1>1. \A b \in Bodies : pc'[b] = "idle"
  BY DEF Crash
<1>2. NoneReopens' /\ NewbornsAlone'
  BY <1>1, InBodies, PassPcs DEF NoneReopens, NewbornsAlone, Newborn
<1>3. DeletedEnded' /\ Passes' /\ Reconciled'
  BY DEF Crash, records, taskRec, PassInv, DeletedEnded, Passes, Halfway, Ahead, Reconciled
<1> QED BY <1>2, <1>3 DEF PassInv

\* It comes back, and reconcile is to look at every run of a task that is not deleted.
LEMMA PassRestart ==
  ASSUME TypeOK, PassInv, Restart
  PROVE  PassInv'
<1> USE DEF records, taskRec, world, volatile
<1>1. NoneReopens' /\ NewbornsAlone'
  BY DEF Restart, PassInv, NoneReopens, NewbornsAlone, Newborn
<1>2. DeletedEnded' /\ Reconciled'
  BY DEF Restart, PassInv, DeletedEnded, Reconciled
<1>3. \A r \in Runs : runState[r] \in Passing => r \in rec'
  BY DEF Restart, PassInv, DeletedEnded
<1>4. Passes'
  BY <1>3 DEF Restart, Passes, Halfway, Ahead, Passing
<1> QED BY <1>1, <1>2, <1>4 DEF PassInv

\* The first half of a run's turn ends its merge.
LEMMA PassReconcileOp ==
  ASSUME TypeOK, PassInv, NEW r \in Runs, ReconcileOp(r)
  PROVE  PassInv'
<1>1. phase = "boot" /\ phase' = "boot" /\ recAt = None /\ recAt' = r /\ rec' = rec \ {r}
  BY DEF ReconcileOp
<1>2. NoneGoes /\ None \notin Runs
  BY GotoNone, IdAssumption DEF ReconcileOp, NoneGoes
<1>3. \A q \in Runs : ~Newborn(q) /\ ~Newborn(q)'
  BY <1>1, <1>2 DEF PassInv, NewbornsAlone, NoneGoes, Newborn
<1>4. /\ \A q \in Runs : runState'[q] = runState[q] \/ runState'[q] = "review_ready"
      /\ runState'[r] # "merging"
  BY DEF ReconcileOp, Unmerging, TypeOK
<1>5. NoneReopens' /\ NewbornsAlone'
  BY <1>2, <1>3 DEF PassInv, NoneReopens, NoneGoes, NewbornsAlone
<1>6. DeletedEnded'
  BY <1>4 DEF ReconcileOp, taskRec, world, PassInv, DeletedEnded, Passing
<1>7. Passes'
  BY <1>1, <1>2, <1>4 DEF PassInv, Passes, Halfway, Ahead, NoneGoes
<1> QED BY <1>1, <1>5, <1>6, <1>7 DEF PassInv, Reconciled

\* The second half fails what was creating or launching, or hands it to be resumed.
LEMMA PassReconcileState ==
  ASSUME TypeOK, PassInv, NEW r \in Runs, ReconcileState(r)
  PROVE  PassInv'
<1>1. phase = "boot" /\ phase' = "boot" /\ recAt = r /\ recAt' = None /\ rec' = rec
  BY DEF ReconcileState
<1>2. None \notin Runs /\ Create \notin Ops
  BY IdAssumption
<1>3. /\ \A o \in Ops, q \in Runs : pc'[<<o, q>>] = pc[<<o, q>>]
      /\ \A q \in Runs : pc'[<<Create, q>>] = pc[<<Create, q>>]
                         \/ (q = r /\ pc'[<<Create, q>>] = "resume")
  <2>1. pc' = pc \/ Goto(<<Create, r>>, "resume")
    BY DEF ReconcileState
  <2>2. pc \in [Bodies -> Pcs]
    BY DEF TypeOK
  <2> QED BY <1>2, <2>1, <2>2, InBodies DEF Goto
<1>4. \A q \in Runs : ~Newborn(q) /\ ~Newborn(q)'
  BY <1>1, <1>3 DEF PassInv, NewbornsAlone, Newborn
<1>5. /\ \A q \in Runs : q # r => runState'[q] = runState[q]
      /\ \/ runState'[r] = "creating" /\ runState[r] = "creating"
            /\ pc'[<<Create, r>>] = "resume"
         \/ runState'[r] = "failed"
         \/ runState'[r] = runState[r] /\ runState[r] \notin {"creating", "launching"}
      /\ wt' \subseteq wt
  BY InBodies DEF ReconcileState, Goto, SetRun, Unlaunched, TypeOK
<1>6. NoneReopens' /\ NewbornsAlone'
  BY <1>3, <1>4 DEF PassInv, NoneReopens, NewbornsAlone
<1>7. DeletedEnded'
  BY <1>5 DEF ReconcileState, taskRec, PassInv, DeletedEnded, Passing
<1>8. Passes'
  BY <1>1, <1>2, <1>3, <1>5 DEF PassInv, Passes, Halfway, Ahead, CreatingPcs
<1> QED BY <1>1, <1>6, <1>7, <1>8 DEF PassInv, Reconciled

\* reconcile is over, and what it resumes gets its terminal.
LEMMA PassBootDone ==
  ASSUME TypeOK, PassInv, BootDone
  PROVE  PassInv'
<1> USE DEF records, taskRec, world, posting
<1>1. /\ \A o \in Ops, q \in Runs : pc'[<<o, q>>] = pc[<<o, q>>]
      /\ \A q \in Runs : pc'[<<Create, q>>] = pc[<<Create, q>>]
                         \/ (pc[<<Create, q>>] = "resume" /\ pc'[<<Create, q>>] = "prep")
  BY InBodies, PassPcs DEF BootDone, TypeOK, PassInv, NoneReopens
<1>2. \A q \in Runs : ~Newborn(q)'
  BY <1>1 DEF BootDone, PassInv, NewbornsAlone, Newborn
<1>3. NoneReopens' /\ NewbornsAlone'
  BY <1>1, <1>2 DEF PassInv, NoneReopens, NewbornsAlone
<1>4. DeletedEnded' /\ Reconciled'
  BY DEF BootDone, PassInv, DeletedEnded, Reconciled
<1>5. Passes'
  BY <1>1, IdAssumption DEF BootDone, PassInv, Passes, Halfway, Ahead, CreatingPcs
<1> QED BY <1>3, <1>4, <1>5 DEF PassInv

\* So does a step that changes nothing.
LEMMA PassStill ==
  ASSUME PassInv, UNCHANGED vars
  PROVE  PassInv'
  BY DEF vars, records, taskRec, world, posting, volatile, process, PassInv, NoneReopens,
         NewbornsAlone, Newborn, Busy, DeletedEnded, Passes, Halfway, Ahead, Reconciled

\* Every run is newborn at the start.
LEMMA PassInit == Init => PassInv
<1> SUFFICES ASSUME Init PROVE PassInv
  OBVIOUS
<1>1. \A r \in Runs : /\ pc[<<Create, r>>] = "wtwait"
                      /\ \A o \in Ops : pc[<<o, r>>] = "idle"
  BY InBodies, IdAssumption DEF Init
<1>2. NoneReopens /\ NewbornsAlone
  BY <1>1, IdAssumption, PassPcs DEF Init, NoneReopens, NewbornsAlone, Busy
<1>3. DeletedEnded /\ Passes /\ Reconciled
  BY <1>1 DEF Init, DeletedEnded, Passes, CreatingPcs, Reconciled
<1> QED BY <1>2, <1>3 DEF PassInv

\* Every step keeps it.
LEMMA PassStep ==
  ASSUME NoReopen, TypeOK, PassInv, [Next]_vars
  PROVE  PassInv'
<1>1. CASE Next
  BY <1>1, PassMoves, PassGoesOn, PassCrash, PassRestart, PassReconcileOp, PassReconcileState,
     PassBootDone
<1>2. CASE UNCHANGED vars
  BY <1>2, PassStill
<1> QED BY <1>1, <1>2

\* Where no op reopens a run, a daemon that is up has a body at work for every run in a
\* passing state, and so a way out of it, after deaths between any two awaits of the
\* creation, the launch and the merge, and also when bodies do not wait for reconcile.
THEOREM NoRunIsStranded ==
  ASSUME NoReopen
  PROVE  Spec => []NoStrandedRun
<1>1. TypeOK /\ PassInv /\ [Next]_vars => PassInv'
  BY PassStep
<1>2. PassInv => NoStrandedRun
  <2> SUFFICES ASSUME PassInv, phase = "up", NEW r \in Runs, runState[r] \in Passing
               PROVE  \E b \in Bodies : b[2] = r /\ Busy(b)
    BY DEF NoStrandedRun, Passing
  <2>1. ~Halfway(r)
    BY IdAssumption DEF PassInv, Reconciled, Halfway, Ahead
  <2>2. \E p \in Ops \cup {Create} : Busy(<<p, r>>)
    BY <2>1, PassPcs DEF PassInv, Passes, Passing, Halfway, CreatingPcs, Busy
  <2> QED BY <2>2, InBodies
<1> QED BY <1>1, <1>2, PassInit, TypeCorrect, PTL DEF Spec
=============================================================================
