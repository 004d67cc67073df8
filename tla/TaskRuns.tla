------------------------------ MODULE TaskRuns ------------------------------
(***************************************************************************)
(* The run and task life cycle of the daemon's Agent Tasks                 *)
(* (codingpt_daemon/packages/runner-core/tasks.js).                        *)
(*                                                                         *)
(* A task fans one prompt out to several runs; every run owns a branch, a  *)
(* git worktree and a terminal with a coding agent.  Clients send          *)
(* operations (commit, PR, merge, discard, reopen) whose bodies are async  *)
(* functions of the single-threaded daemon: what runs between two awaits   *)
(* is one action here, and a body's place among its awaits is pc.  One     *)
(* repository is modelled, so there is one repository lock.                *)
(*                                                                         *)
(* Records of tasks.json are saved synchronously by every handler, so one  *)
(* variable stands for the memory and the disk copy; a crash loses the     *)
(* variables marked volatile.                                              *)
(***************************************************************************)
EXTENDS Naturals, FiniteSets

CONSTANTS
  Tasks, Runs, TaskOf,   \* TaskOf[r] is the task a run belongs to
  Ops, KindOf,           \* operation ids a client may send, and their method
  KeepOps,               \* merges requested with discardOthers = false
  PasteRuns,             \* runs whose prompt is pasted (promptMode 'paste')
  PrRuns,                \* runs that may get a pull request
  LossRuns,              \* runs whose worktree the user may delete by hand
  BootOverlap,           \* may bodies and requests run while reconcile does?
  MaxCrashes,            \* bound: how often the daemon may die
  Create, Post, Web,     \* ids of the bodies and of the op no client sends
  None

Kinds == {"commit", "pr.create", "merge.local", "pr.merge",
          "discard", "discard.force", "reopen", "fix"}

ASSUME RunsAssumption ==
  /\ TaskOf \in [Runs -> Tasks]
  /\ KindOf \in [Ops -> Kinds]
  /\ KeepOps \subseteq Ops /\ PasteRuns \subseteq Runs
  /\ PrRuns \subseteq Runs /\ LossRuns \subseteq Runs
  /\ BootOverlap \in BOOLEAN /\ MaxCrashes \in Nat

ASSUME IdAssumption ==
  /\ Create \notin Ops /\ Post \notin Ops /\ Web \notin Ops
  /\ Create # Post /\ Post # Web /\ Create # Web
  /\ None \notin Runs /\ None \notin Tasks /\ None \notin Ops
  /\ None # Create /\ None # Post /\ None # Web
  /\ Runs \cap Tasks = {}

\* createSync refuses a request without agents, and an agent with a count below one.
ASSUME FanOutAssumption == \A t \in Tasks : \E r \in Runs : TaskOf[r] = t

VARIABLES
  \* tasks.json
  taskState, winner, runState, runOp, outcome, based, seenPr, deleted,
  \* the world: worktrees, base branch, pull requests, terminals
  wt, landed, pr, agent,
  \* volatile: bodies, locks, timers
  pc, postLeft, postAt, lock, claimed, turnEval, poll,
  \* the daemon process
  phase, rec, recAt, crashes

taskRec  == <<taskState, winner, deleted>>
opRec    == <<runOp, outcome>>
records  == <<taskRec, runState, opRec, based, seenPr>>
world    == <<wt, landed, pr, agent>>
posting  == <<postLeft, postAt>>
locks    == <<lock, claimed>>
timers   == <<turnEval, poll>>
volatile == <<pc, posting, locks, timers>>
process  == <<phase, rec, recAt, crashes>>
vars     == <<records, world, volatile, process>>

-----------------------------------------------------------------------------
(* Domains *)

RunStates == {"creating", "launching", "running", "review_ready", "merging",
              "merged", "failed", "discarded"}
ActiveRunStates == {"creating", "launching", "running", "review_ready", "merging"}
Settled == {"merged", "discarded"}

OpKinds == Kinds \cup {"cleanup"}
NoOp    == [id |-> None, kind |-> "none"]
OpRecs  == [id : Ops \cup {Post, Web}, kind : OpKinds]

MergePcs == {"status", "mwait", "merge", "finish", "view", "ghmerge", "after"}
Pcs == MergePcs \cup
       {"idle", "git",
        "check", "dwait", "remove", "removed",
        "fix", "reopen", "wtwait", "add", "added", "prep", "prepared", "starting", "ready",
        "deliver", "resume",
        "keep", "others", "owait", "oremove", "oremoved"}

Bodies  == (Ops \cup {Create, Post}) \X Runs
Holders == Bodies \cup ({Create} \X Tasks)

RunsOf(t) == {r \in Runs : TaskOf[r] = t}
Task(r)   == TaskOf[r]

Forced(o)     == KindOf[o] = "discard.force"
IsDiscard(o) == KindOf[o] \in {"discard", "discard.force"}
IsMerge(o)   == KindOf[o] \in {"merge.local", "pr.merge"}

TypeOK ==
  /\ taskState \in [Tasks -> {"open", "merged", "closed"}]
  /\ winner \in [Tasks -> Runs \cup {None}]
  /\ runState \in [Runs -> RunStates]
  /\ runOp \in [Runs -> OpRecs \cup {NoOp}]
  /\ outcome \in [Ops \X Runs -> {"new", "running", "ok", "error"}]
  /\ based \subseteq Runs
  /\ seenPr \in [Runs -> {"none", "open", "merged"}]
  /\ deleted \subseteq Tasks
  /\ wt \subseteq Runs
  /\ landed \subseteq Runs
  /\ pr \in [Runs -> {"none", "open", "merged"}]
  /\ agent \in [Runs -> {"gone", "unknown", "idle", "working"}]
  /\ pc \in [Bodies -> Pcs]
  /\ postLeft \in [Runs -> SUBSET Runs]
  /\ postAt \in [Runs -> Runs \cup {None}]
  /\ lock \in Holders \cup {None}
  /\ claimed \subseteq Tasks
  /\ turnEval \subseteq Runs
  /\ poll \subseteq Runs
  /\ phase \in {"up", "down", "boot"}
  /\ rec \subseteq Runs
  /\ recAt \in Runs \cup {None}
  /\ crashes \in 0..MaxCrashes

\* A task just recorded by task.create: its runs are waiting for the
\* repository lock to get their worktrees.
Init ==
  /\ taskState = [t \in Tasks |-> "open"]
  /\ winner = [t \in Tasks |-> None]
  /\ runState = [r \in Runs |-> "creating"]
  /\ runOp = [r \in Runs |-> NoOp]
  /\ outcome = [b \in Ops \X Runs |-> "new"]
  /\ based = {} /\ deleted = {}
  /\ seenPr = [r \in Runs |-> "none"]
  /\ wt = {} /\ landed = {}
  /\ pr = [r \in Runs |-> "none"]
  /\ agent = [r \in Runs |-> "gone"]
  /\ pc = [b \in Bodies |-> IF b[1] = Create THEN "wtwait" ELSE "idle"]
  /\ postLeft = [r \in Runs |-> {}]
  /\ postAt = [r \in Runs |-> None]
  /\ lock = None /\ claimed = {} /\ turnEval = {} /\ poll = {}
  /\ phase = "up" /\ rec = {} /\ recAt = None /\ crashes = 0

-----------------------------------------------------------------------------
(* Helpers shared by the handlers *)

\* Bodies advance and requests are served once the daemon is up.  start()
\* does not wait for reconcile, so with BootOverlap they may also run beside it.
Serving == phase = "up" \/ (BootOverlap /\ phase = "boot")

\* liveWorking: the agent-state module last heard that the agent works.
LiveWorking(r) == agent[r] = "working"

Goto(b, place) == pc' = [pc EXCEPT ![b] = place]

SetRun(r, s) == runState' = [runState EXCEPT ![r] = s]

\* MUTANTS: reconcile and a failed merge forget the state, or restore 'running'.
MutUnmergingMissing(r)   == UNCHANGED runState
MutUnmergingToRunning(r) ==
  runState' = [runState EXCEPT ![r] = IF @ = "merging" THEN "running" ELSE @]

\* if (r.state === 'merging') r.state = 'review_ready'
Unmerging(r) ==
  runState' = [runState EXCEPT ![r] = IF @ = "merging" THEN "review_ready" ELSE @]

\* MUTANTS: the catch block forgets r.op; r.op is cleared to nothing.
MutEndOpLeaky(o, r, out) ==
  /\ Goto(<<o, r>>, "idle")
  /\ runOp' = [runOp EXCEPT ![r] = IF @.id = o /\ out = "ok" THEN NoOp ELSE @]
  /\ outcome' = [outcome EXCEPT ![<<o, r>>] = out]
MutEndOpNull(o, r, out) ==
  /\ Goto(<<o, r>>, "idle")
  /\ runOp' = [runOp EXCEPT ![r] = [id |-> None, kind |-> out]]
  /\ outcome' = [outcome EXCEPT ![<<o, r>>] = out]

\* endOp: record the outcome and release r.op if it is still this op's.
EndOp(o, r, out) ==
  /\ Goto(<<o, r>>, "idle")
  /\ runOp' = [runOp EXCEPT ![r] = IF @.id = o THEN NoOp ELSE @]
  /\ outcome' = [outcome EXCEPT ![<<o, r>>] = out]

\* MUTANT: no maybeCloseTask.
MutDiscardedOpen(r) == SetRun(r, "discarded") /\ UNCHANGED taskState

\* discardOne's last step with maybeCloseTask: the task closes with its last run.
Discarded(r) ==
  /\ SetRun(r, "discarded")
  /\ taskState' = [taskState EXCEPT ![Task(r)] =
       IF @ = "open" /\ \A q \in RunsOf(Task(r)) \ {r} : runState[q] = "discarded"
       THEN "closed" ELSE @]

\* assertStillOpen and the first half of claimMerge.
StillOpen(t) == taskState[t] = "open" /\ winner[t] = None

\* MUTANT: the task record is left for later.
MutFinishMergeTaskOpen(id, r, others) ==
  /\ SetRun(r, "merged")
  /\ runOp' = [runOp EXCEPT ![r] = [id |-> id, kind |-> "cleanup"]]
  /\ postLeft' = [postLeft EXCEPT ![r] = others]
  /\ UNCHANGED <<taskState, winner>>

\* finishMerge: run, task and winner change in one save; the op becomes the
\* clean-up of the merge and postMerge starts.
FinishMerge(id, r, others) ==
  /\ SetRun(r, "merged")
  /\ taskState' = [taskState EXCEPT ![Task(r)] = "merged"]
  /\ winner' = [winner EXCEPT ![Task(r)] = r]
  /\ runOp' = [runOp EXCEPT ![r] = [id |-> id, kind |-> "cleanup"]]
  /\ postLeft' = [postLeft EXCEPT ![r] = others]

OtherRuns(r) == RunsOf(Task(r)) \ {r}

-----------------------------------------------------------------------------
(* Requests: startRunOp, opGuard and the synchronous prefix of the body *)

\* MUTANT: any state but merged will do.
MutStatesForAny(o) == RunStates \ {"merged"}

StatesFor(o) ==
  IF KindOf[o] \in {"pr.create", "merge.local", "pr.merge", "fix"}
  THEN {"running", "review_ready"}
  ELSE {"running", "review_ready", "failed"}

\* MUTANT: the RUN_BUSY refusal is missing.
MutOpGuardNoLock(o, r) ==
  /\ runState[r] \in StatesFor(o)
  /\ IsDiscard(o) \/ taskState[Task(r)] = "open"
  /\ Forced(o) \/ ~LiveWorking(r)

OpGuard(o, r) ==
  /\ runOp[r] = NoOp
  /\ runState[r] \in StatesFor(o)
  /\ IsDiscard(o) \/ taskState[Task(r)] = "open"
  /\ Forced(o) \/ ~LiveWorking(r)

FirstPc(o) ==
  IF KindOf[o] \in {"commit", "pr.create"} THEN "git"
  ELSE IF IsMerge(o)   THEN "status"
  ELSE IF IsDiscard(o) THEN "check"
  ELSE KindOf[o]                              \* reopen and fix

\* MUTANT: only an op still running is replayed.
MutFreshForgets(o, r) == outcome[<<o, r>>] # "running"

\* A run's opIds: an id already recorded is answered, never executed again.
Fresh(o, r) == outcome[<<o, r>>] = "new"

\* beginOp
BeginOp(o, r) ==
  /\ runOp' = [runOp EXCEPT ![r] = [id |-> o, kind |-> KindOf[o]]]
  /\ outcome' = [outcome EXCEPT ![<<o, r>>] = "running"]
  /\ Goto(<<o, r>>, FirstPc(o))

RequestOp(o, r) ==
  /\ Serving /\ Task(r) \notin deleted
  /\ ~IsMerge(o) /\ Fresh(o, r) /\ OpGuard(o, r)
  /\ KindOf[o] \in {"pr.create", "fix"} => r \in PrRuns
  /\ KindOf[o] = "fix" => seenPr[r] # "none"
  /\ BeginOp(o, r)
  /\ UNCHANGED <<taskRec, runState, based, seenPr, world, posting, locks, timers, process>>

\* A merge body takes the task's claim before its first await ...
RequestMerge(o, r) ==
  /\ Serving /\ Task(r) \notin deleted
  /\ IsMerge(o) /\ Fresh(o, r) /\ OpGuard(o, r)
  /\ KindOf[o] = "pr.merge" => seenPr[r] # "none"
  /\ StillOpen(Task(r)) /\ Task(r) \notin claimed
  /\ claimed' = claimed \cup {Task(r)}
  /\ BeginOp(o, r)
  /\ UNCHANGED <<taskRec, runState, based, seenPr, world, posting, lock, timers, process>>

\* ... and ends at once with RUN_BUSY when another run of the task holds it.
RefuseMerge(o, r) ==
  /\ Serving /\ Task(r) \notin deleted
  /\ IsMerge(o) /\ Fresh(o, r) /\ OpGuard(o, r)
  /\ KindOf[o] = "pr.merge" => seenPr[r] # "none"
  /\ ~StillOpen(Task(r)) \/ Task(r) \in claimed
  /\ outcome' = [outcome EXCEPT ![<<o, r>>] = "error"]
  /\ UNCHANGED <<taskRec, runState, runOp, based, seenPr, world, volatile, process>>

\* task.discard without runId: one body per run that can be discarded, under
\* one op id, whatever the state of the task.  (With no such run the handler only
\* repeats maybeCloseTask, which then finds nothing to close.)
DiscardAll(o, t) ==
  LET targets == {r \in RunsOf(t) :
                    /\ runState[r] \in {"running", "review_ready", "failed"}
                    /\ runOp[r] = NoOp
                    /\ Forced(o) \/ ~LiveWorking(r)}
  IN /\ Serving /\ t \notin deleted
     /\ IsDiscard(o) /\ \A r \in RunsOf(t) : Fresh(o, r)
     /\ targets # {}
     /\ runOp' = [r \in Runs |-> IF r \in targets
                                 THEN [id |-> o, kind |-> KindOf[o]] ELSE runOp[r]]
     /\ outcome' = [b \in Ops \X Runs |->
                      IF b[1] = o /\ b[2] \in targets THEN "running" ELSE outcome[b]]
     /\ pc' = [b \in Bodies |->
                 IF b[1] = o /\ b[2] \in targets THEN "check" ELSE pc[b]]
     /\ UNCHANGED <<taskRec, runState, based, seenPr, world, posting, locks, timers, process>>

-----------------------------------------------------------------------------
(* Bodies of commit, push and pr.create: the run keeps its state *)

At(b, place) == Serving /\ pc[b] = place

\* gh opens the branch's PR, or finds the one it has.
PrOpened(r) == [pr EXCEPT ![r] = IF @ = "none" THEN "open" ELSE @]

\* pr.create may fail after gh opened the PR: then only GitHub knows of it.
EndGit(o, r) ==
  /\ At(<<o, r>>, "git")
  /\ \/ /\ EndOp(o, r, "error")
        /\ UNCHANGED <<pr, seenPr>>
     \/ /\ KindOf[o] = "pr.create" /\ r \in wt
        /\ pr' = PrOpened(r)
        /\ \/ EndOp(o, r, "error") /\ UNCHANGED seenPr
           \/ EndOp(o, r, "ok") /\ seenPr' = [seenPr EXCEPT ![r] = pr'[r]]
     \/ /\ KindOf[o] = "commit" /\ r \in wt
        /\ EndOp(o, r, "ok")
        /\ UNCHANGED <<pr, seenPr>>
  /\ UNCHANGED <<taskRec, runState, based, wt, landed, agent, posting, locks, timers, process>>

-----------------------------------------------------------------------------
(* Merges.  A failure after the state became merging gives review_ready, and *)
(* every way out releases the claim.                                         *)

\* MUTANT: the failure keeps the claim.
MutFailMergeClaimed(o, r) == EndOp(o, r, "error") /\ Unmerging(r) /\ UNCHANGED claimed

FailMerge(o, r) ==
  /\ EndOp(o, r, "error")
  /\ Unmerging(r)
  /\ claimed' = claimed \ {Task(r)}

FinishClientMerge(o, r) ==
  /\ FinishMerge(o, r, IF o \in KeepOps THEN {} ELSE OtherRuns(r))
  /\ outcome' = [outcome EXCEPT ![<<o, r>>] = "ok"]
  /\ pc' = [pc EXCEPT ![<<o, r>>] = "idle", ![<<Post, r>>] = "keep"]
  /\ claimed' = claimed \ {Task(r)}

\* freshStatus and, when asked, a commit of what is dirty.
MergeStatus(o, r) ==
  /\ At(<<o, r>>, "status")
  /\ \/ FailMerge(o, r)
     \/ /\ r \in wt
        /\ SetRun(r, "merging")
        /\ Goto(<<o, r>>, IF KindOf[o] = "merge.local" THEN "mwait" ELSE "view")
        /\ UNCHANGED <<runOp, outcome, claimed>>
  /\ UNCHANGED <<taskRec, based, seenPr, world, posting, lock, timers, process>>

\* merge.local under the repository lock, where the task is looked at again.
MergeLock(o, r) ==
  /\ At(<<o, r>>, "mwait") /\ lock = None
  /\ IF StillOpen(Task(r))
     THEN /\ lock' = <<o, r>>
          /\ Goto(<<o, r>>, "merge")
          /\ UNCHANGED <<runState, runOp, outcome, claimed>>
     ELSE FailMerge(o, r) /\ UNCHANGED lock
  /\ UNCHANGED <<taskRec, based, seenPr, world, posting, timers, process>>

\* git merge (and the compare-and-swap of the base branch) lands, or fails
\* with a conflict, a dirty checkout or a moved base.
MergeGit(o, r) ==
  /\ At(<<o, r>>, "merge")
  /\ lock' = None
  /\ \/ FailMerge(o, r) /\ UNCHANGED landed
     \/ /\ landed' = landed \cup {r}
        /\ Goto(<<o, r>>, "finish")
        /\ UNCHANGED <<runState, runOp, outcome, claimed>>
  /\ UNCHANGED <<taskRec, based, seenPr, wt, pr, agent, posting, timers, process>>

MergeFinish(o, r) ==
  /\ At(<<o, r>>, "finish")
  /\ FinishClientMerge(o, r)
  /\ UNCHANGED <<deleted, based, seenPr, world, postAt, lock, timers, process>>

\* pr.merge: look at the PR, then let gh merge it unless it already is.
PrMergeView(o, r) ==
  /\ At(<<o, r>>, "view")
  /\ \/ /\ FailMerge(o, r)
        /\ seenPr' \in {seenPr, [seenPr EXCEPT ![r] = pr[r]]}
     \/ /\ pr[r] = "merged" \/ (pr[r] = "open" /\ StillOpen(Task(r)))
        /\ Goto(<<o, r>>, IF pr[r] = "merged" THEN "after" ELSE "ghmerge")
        /\ seenPr' = [seenPr EXCEPT ![r] = pr[r]]
        /\ UNCHANGED <<runState, runOp, outcome, claimed>>
  /\ UNCHANGED <<taskRec, based, world, posting, lock, timers, process>>

\* gh pr merge merges, or only queues (a merge queue or auto-merge); an error or
\* a timeout may hide that it did.
PrMergeGh(o, r) ==
  /\ At(<<o, r>>, "ghmerge")
  /\ pr' \in {pr, [pr EXCEPT ![r] = "merged"]}
  /\ \/ FailMerge(o, r)
     \/ Goto(<<o, r>>, "after") /\ UNCHANGED <<runState, runOp, outcome, claimed>>
  /\ UNCHANGED <<taskRec, based, seenPr, wt, landed, agent, posting, lock, timers, process>>

\* MUTANT: gh's exit code is taken for the merge.
MutSeenMergedOnExit(r) == pr[r] # "none"

SeenMerged(r) == pr[r] = "merged"

\* Only a PR seen merged ends in finishMerge; else the op succeeds as queued.
PrMergeAfter(o, r) ==
  /\ At(<<o, r>>, "after")
  /\ \/ /\ SeenMerged(r) /\ StillOpen(Task(r))
        /\ FinishClientMerge(o, r)
        /\ seenPr' = [seenPr EXCEPT ![r] = pr[r]]
     \/ /\ SeenMerged(r) /\ ~StillOpen(Task(r))
        /\ FailMerge(o, r)
        /\ seenPr' = [seenPr EXCEPT ![r] = pr[r]]
        /\ UNCHANGED <<taskState, winner, postLeft>>
     \/ /\ EndOp(o, r, "ok")      \* not merged, or the second look failed
        /\ Unmerging(r)
        /\ claimed' = claimed \ {Task(r)}
        /\ seenPr' = [seenPr EXCEPT ![r] = IF pr[r] = "merged" THEN @ ELSE pr[r]]
        /\ UNCHANGED <<taskState, winner, postLeft>>
  /\ UNCHANGED <<deleted, based, world, postAt, lock, timers, process>>

-----------------------------------------------------------------------------
(* Pull requests seen from outside: git.pr.status and the background poller *)

\* The user, or GitHub's merge queue, merges an open pull request.
GithubMerges(r) ==
  /\ pr[r] = "open"
  /\ pr' = [pr EXCEPT ![r] = "merged"]
  /\ UNCHANGED <<records, wt, landed, agent, volatile, process>>

\* followupTick asks only about the runs it last saw with an open PR.
PollStart(r) ==
  /\ Serving /\ Task(r) \notin deleted /\ r \notin poll
  /\ taskState[Task(r)] = "open"
  /\ seenPr[r] = "open" /\ runState[r] \in {"running", "review_ready"}
  /\ runOp[r] = NoOp
  /\ poll' = poll \cup {r}
  /\ UNCHANGED <<records, world, pc, posting, locks, turnEval, process>>

\* git.pr.status, which the open detail view sends, asks about any run.
PrStatus(r) ==
  /\ Serving /\ Task(r) \notin deleted /\ r \notin poll
  /\ pr[r] # "none"
  /\ poll' = poll \cup {r}
  /\ UNCHANGED <<records, world, pc, posting, locks, turnEval, process>>

\* MUTANT: the claim of a merge in progress is not looked at.
MutWebCompletesUnclaimed(r) == pr[r] = "merged" /\ runState[r] \notin Settled /\ runOp[r] = NoOp

\* applyPrView: a PR merged on the web completes the task unless a merge of
\* the task or an op of the run is in progress.
WebCompletes(r) ==
  /\ pr[r] = "merged"
  /\ StillOpen(Task(r)) /\ Task(r) \notin claimed
  /\ runState[r] \notin Settled /\ runOp[r] = NoOp

ApplyPrView(r) ==
  /\ Serving /\ r \in poll /\ Task(r) \notin deleted
  /\ poll' = poll \ {r}
  /\ seenPr' = [seenPr EXCEPT ![r] = pr[r]]
  /\ \/ /\ WebCompletes(r)
        /\ FinishMerge(Web, r, OtherRuns(r))
        /\ Goto(<<Post, r>>, "keep")
     \/ /\ ~WebCompletes(r)
        /\ UNCHANGED <<runState, taskState, winner, runOp, pc, postLeft>>
  /\ UNCHANGED <<deleted, outcome, based, world, postAt, locks, turnEval, process>>

-----------------------------------------------------------------------------
(* Discarding: cleanupRun and discardOne *)

\* The refusal of a discard without force, else the terminal is closed.
DiscardCheck(o, r) ==
  /\ o \in Ops /\ At(<<o, r>>, "check")
  /\ \/ /\ ~Forced(o) /\ r \in wt
        /\ EndOp(o, r, "error") /\ UNCHANGED agent
     \/ /\ Goto(<<o, r>>, "dwait")
        /\ agent' = [agent EXCEPT ![r] = "gone"]
        /\ UNCHANGED <<runOp, outcome>>
  /\ UNCHANGED <<taskRec, runState, based, seenPr, wt, landed, pr, posting, locks, timers, process>>

\* withRepoLock around git worktree remove, for a discard and for postMerge's
\* clean-up of the winner.
RemoveLock(o, r) ==
  /\ At(<<o, r>>, "dwait") /\ lock = None
  /\ lock' = <<o, r>>
  /\ Goto(<<o, r>>, "remove")
  /\ UNCHANGED <<records, world, posting, claimed, timers, process>>

DiscardRemove(o, r) ==
  /\ o \in Ops /\ At(<<o, r>>, "remove")
  /\ lock' = None
  /\ \/ /\ wt' = wt \ {r}
        /\ Goto(<<o, r>>, "removed")
        /\ UNCHANGED <<runOp, outcome>>
     \/ /\ r \in wt               \* WORKTREE_REMOVE_FAILED
        /\ EndOp(o, r, "error") /\ UNCHANGED wt
  /\ UNCHANGED <<taskRec, runState, based, seenPr, landed, pr, agent, posting, claimed, timers, process>>

\* The branch and the workspace are gone too: the run is discarded.
DiscardDone(o, r) ==
  /\ At(<<o, r>>, "removed")
  /\ Discarded(r)
  /\ EndOp(o, r, "ok")
  /\ UNCHANGED <<winner, deleted, based, seenPr, world, posting, locks, timers, process>>

\* MUTANT: a worktree that is still there is not looked for.
MutDeletableTree(t) ==
  /\ taskState[t] \in {"merged", "closed"}
  /\ \A r \in RunsOf(t) : runOp[r] = NoOp /\ runState[r] \notin ActiveRunStates

\* task.delete: only a finished task with nothing left of it.
Deletable(t) ==
  /\ taskState[t] \in {"merged", "closed"}
  /\ \A r \in RunsOf(t) : /\ runOp[r] = NoOp
                          /\ runState[r] \notin ActiveRunStates
                          /\ r \notin wt

DeleteTask(t) ==
  /\ Serving /\ t \notin deleted /\ Deletable(t)
  /\ deleted' = deleted \cup {t}
  /\ UNCHANGED <<runState, opRec, taskState, winner, based, seenPr, world, volatile, process>>

-----------------------------------------------------------------------------
(* postMerge: the winner's clean-up, then the other runs one by one *)

\* winnerKeepReason: an agent at work, or commits the merge left out, keep the
\* winner as it is.
PostKeep(r) ==
  /\ At(<<Post, r>>, "keep")
  /\ \/ Goto(<<Post, r>>, "others")
     \/ ~LiveWorking(r) /\ Goto(<<Post, r>>, "check")
  /\ UNCHANGED <<records, world, posting, locks, timers, process>>

\* cleanupRun looks for uncommitted changes, not at the agent again.
PostCheck(r) ==
  /\ At(<<Post, r>>, "check")
  /\ \/ Goto(<<Post, r>>, "others") /\ UNCHANGED agent
     \/ /\ Goto(<<Post, r>>, "dwait")
        /\ agent' = [agent EXCEPT ![r] = "gone"]
  /\ UNCHANGED <<records, wt, landed, pr, posting, locks, timers, process>>

PostRemove(r) ==
  /\ At(<<Post, r>>, "remove")
  /\ lock' = None
  /\ wt' \in {wt, wt \ {r}}
  /\ Goto(<<Post, r>>, "others")
  /\ UNCHANGED <<records, landed, pr, agent, posting, claimed, timers, process>>

\* A loser is skipped when it is busy, works, or is in no state to discard.
PostSkip(r, q) ==
  /\ At(<<Post, r>>, "others") /\ q \in postLeft[r]
  /\ \/ runState[q] \notin {"running", "review_ready", "failed"}
     \/ runOp[q] # NoOp
     \/ LiveWorking(q)
  /\ postLeft' = [postLeft EXCEPT ![r] = @ \ {q}]
  /\ UNCHANGED <<records, world, pc, postAt, locks, timers, process>>

\* ... and otherwise force-discarded under an op of its own.
PostDiscard(r, q) ==
  /\ At(<<Post, r>>, "others") /\ q \in postLeft[r]
  /\ runState[q] \in {"running", "review_ready", "failed"}
  /\ runOp[q] = NoOp /\ ~LiveWorking(q)
  /\ runOp' = [runOp EXCEPT ![q] = [id |-> Post, kind |-> "discard"]]
  /\ agent' = [agent EXCEPT ![q] = "gone"]
  /\ postLeft' = [postLeft EXCEPT ![r] = @ \ {q}]
  /\ postAt' = [postAt EXCEPT ![r] = q]
  /\ Goto(<<Post, r>>, "owait")
  /\ UNCHANGED <<taskRec, runState, outcome, based, seenPr, wt, landed, pr, locks, timers, process>>

PostOtherLock(r) ==
  /\ At(<<Post, r>>, "owait") /\ lock = None
  /\ lock' = <<Post, r>>
  /\ Goto(<<Post, r>>, "oremove")
  /\ UNCHANGED <<records, world, posting, claimed, timers, process>>

\* The end of postMerge's own discard of q releases q's op.
PostRelease(r, q) ==
  /\ runOp' = [runOp EXCEPT ![q] = IF @.id = Post THEN NoOp ELSE @]
  /\ postAt' = [postAt EXCEPT ![r] = None]
  /\ Goto(<<Post, r>>, "others")

PostOtherRemove(r) ==
  /\ At(<<Post, r>>, "oremove")
  /\ lock' = None
  /\ \/ /\ wt' = wt \ {postAt[r]}
        /\ Goto(<<Post, r>>, "oremoved")
        /\ UNCHANGED <<runOp, postAt>>
     \/ /\ postAt[r] \in wt
        /\ PostRelease(r, postAt[r]) /\ UNCHANGED wt
  /\ UNCHANGED <<taskRec, runState, outcome, based, seenPr, landed, pr, agent, postLeft, claimed, timers, process>>

PostOtherDone(r) ==
  /\ At(<<Post, r>>, "oremoved")
  /\ Discarded(postAt[r])
  /\ PostRelease(r, postAt[r])
  /\ UNCHANGED <<winner, deleted, outcome, based, seenPr, world, postLeft, locks, timers, process>>

\* MUTANT: the op stays with the winner.
MutPostEndKeepsOp(r) ==
  /\ At(<<Post, r>>, "others") /\ postLeft[r] = {}
  /\ Goto(<<Post, r>>, "idle")
  /\ UNCHANGED <<records, world, posting, locks, timers, process>>

PostEnd(r) ==
  /\ At(<<Post, r>>, "others") /\ postLeft[r] = {}
  /\ runOp' = [runOp EXCEPT ![r] = IF @.kind = "cleanup" THEN NoOp ELSE @]
  /\ Goto(<<Post, r>>, "idle")
  /\ UNCHANGED <<taskRec, runState, outcome, based, seenPr, world, posting, locks, timers, process>>

-----------------------------------------------------------------------------
(* Worktree, terminal and launch: task.create's pipeline (owner Create) and  *)
(* the bodies of reopen and fix (owner an op id)                             *)

\* MUTANT: only a success is answered.
MutPipelineEndSilent(o, r, out) ==
  IF o = Create \/ out = "error"
  THEN Goto(<<o, r>>, "idle") /\ UNCHANGED <<runOp, outcome>>
  ELSE EndOp(o, r, out)

\* The pipeline ends: an op is answered, the creation of a run has nobody to
\* answer.
PipelineEnd(o, r, out) ==
  IF o = Create THEN Goto(<<o, r>>, "idle") /\ UNCHANGED <<runOp, outcome>>
                ELSE EndOp(o, r, out)

\* fix delivers into a live agent, else reopens first.
FixStart(o, r) ==
  /\ At(<<o, r>>, "fix")
  /\ Goto(<<o, r>>, IF agent[r] \in {"idle", "working"} THEN "ready" ELSE "reopen")
  /\ UNCHANGED <<records, world, posting, locks, timers, process>>

\* reopenBody: recreate the worktree of a run that never had one, refuse when
\* it is lost or the terminal is occupied, else relaunch.
Reopen(o, r) ==
  /\ At(<<o, r>>, "reopen")
  /\ \/ /\ r \notin wt /\ r \notin based
        /\ SetRun(r, "creating")
        /\ Goto(<<o, r>>, "wtwait")
        /\ UNCHANGED <<runOp, outcome>>
     \/ /\ r \notin wt /\ r \in based
        /\ EndOp(o, r, "error") /\ UNCHANGED runState
     \/ /\ r \in wt /\ agent[r] # "gone"
        /\ EndOp(o, r, "error") /\ UNCHANGED runState
     \/ /\ r \in wt /\ agent[r] = "gone"
        /\ Goto(<<o, r>>, "prep")
        /\ UNCHANGED <<runState, runOp, outcome>>
     \/ /\ r \in wt /\ agent[r] = "unknown"
        /\ SetRun(r, "launching")
        /\ Goto(<<o, r>>, "starting")
        /\ UNCHANGED <<runOp, outcome>>
  /\ UNCHANGED <<taskRec, based, seenPr, world, posting, locks, timers, process>>

\* addWorktrees holds the repository lock for all the runs it was given: those
\* of a task being created, or the one being reopened.
CreateLock(t) ==
  /\ Serving /\ lock = None
  /\ \E r \in RunsOf(t) : pc[<<Create, r>>] = "wtwait"
  /\ lock' = <<Create, t>>
  /\ pc' = [b \in Bodies |-> IF /\ b[1] = Create /\ Task(b[2]) = t
                                /\ pc[b] = "wtwait" THEN "add" ELSE pc[b]]
  /\ UNCHANGED <<records, world, posting, claimed, timers, process>>

ReopenLock(o, r) ==
  /\ o \in Ops /\ At(<<o, r>>, "wtwait") /\ lock = None
  /\ lock' = <<o, r>>
  /\ Goto(<<o, r>>, "add")
  /\ UNCHANGED <<records, world, posting, claimed, timers, process>>

\* git worktree add, one run after the other; a failed one becomes failed.
AddWorktree(r) ==
  /\ At(<<Create, r>>, "add")
  /\ \/ /\ wt' = wt \cup {r} /\ based' = based \cup {r}
        /\ Goto(<<Create, r>>, "added") /\ UNCHANGED runState
     \/ /\ SetRun(r, "failed")
        /\ Goto(<<Create, r>>, "idle") /\ UNCHANGED <<wt, based>>
  /\ UNCHANGED <<taskRec, opRec, seenPr, landed, pr, agent, posting, locks, timers, process>>

CreateUnlock(t) ==
  /\ Serving /\ lock = <<Create, t>>
  /\ \A r \in RunsOf(t) : pc[<<Create, r>>] # "add"
  /\ lock' = None
  /\ pc' = [b \in Bodies |-> IF /\ b[1] = Create /\ Task(b[2]) = t
                                /\ pc[b] = "added" THEN "prep" ELSE pc[b]]
  /\ UNCHANGED <<records, world, posting, claimed, timers, process>>

ReopenAdd(o, r) ==
  /\ o \in Ops /\ At(<<o, r>>, "add")
  /\ lock' = None
  /\ \/ /\ wt' = wt \cup {r} /\ based' = based \cup {r}
        /\ Goto(<<o, r>>, "prep")
        /\ UNCHANGED <<runState, runOp, outcome>>
     \/ /\ SetRun(r, "failed") /\ EndOp(o, r, "error")
        /\ UNCHANGED <<wt, based>>
  /\ UNCHANGED <<taskRec, seenPr, landed, pr, agent, posting, claimed, timers, process>>

\* prepareRun: the terminal.  The creation of a run fails it on an error; the
\* body of reopen only answers the error, whatever the run's state has become.
\* A reopened run goes on to its launch at once.
PrepareRun(o, r) ==
  /\ At(<<o, r>>, "prep")
  /\ \/ /\ agent' = [agent EXCEPT ![r] = IF @ = "gone" THEN "unknown" ELSE @]
        /\ IF o = Create
           THEN Goto(<<o, r>>, "prepared") /\ UNCHANGED runState
           ELSE Goto(<<o, r>>, "starting") /\ SetRun(r, "launching")
        /\ UNCHANGED <<runOp, outcome>>
     \/ /\ PipelineEnd(o, r, "error")
        /\ IF o = Create THEN SetRun(r, "failed") ELSE UNCHANGED runState
        /\ UNCHANGED agent
  /\ UNCHANGED <<taskRec, based, seenPr, wt, landed, pr, posting, locks, timers, process>>

\* When every run of the group has its terminal, the group is launched.
LaunchAll(t) ==
  LET ready == {r \in RunsOf(t) : pc[<<Create, r>>] = "prepared"}
  IN /\ Serving /\ ready # {}
     /\ \A r \in RunsOf(t) : pc[<<Create, r>>] # "prep"
     /\ runState' = [r \in Runs |-> IF r \in ready /\ runState[r] = "creating"
                                    THEN "launching" ELSE runState[r]]
     /\ pc' = [b \in Bodies |->
                 IF b[1] = Create /\ b[2] \in ready
                 THEN IF runState[b[2]] = "creating" THEN "starting" ELSE "idle"
                 ELSE pc[b]]
     /\ UNCHANGED <<taskRec, opRec, based, seenPr, world, posting, locks, timers, process>>

\* inj.launch answers: the agent runs, or the run fails.  A pasted prompt waits
\* for the agent; a reopened run pastes only a prompt it never got.
Launched(o, r) ==
  /\ At(<<o, r>>, "starting")
  /\ \/ SetRun(r, "failed") /\ PipelineEnd(o, r, "error")
     \/ /\ SetRun(r, "running")
        /\ r \in PasteRuns \/ (o \in Ops /\ KindOf[o] = "fix")
        /\ Goto(<<o, r>>, "ready") /\ UNCHANGED <<runOp, outcome>>
     \/ /\ SetRun(r, "running")
        /\ IF o = Create THEN r \notin PasteRuns ELSE KindOf[o] # "fix"
        /\ PipelineEnd(o, r, "ok")
  /\ UNCHANGED <<taskRec, based, seenPr, world, posting, locks, timers, process>>

\* waitAgentReady: the agent can take the prompt, or the wait times out.
AgentReady(o, r) ==
  /\ At(<<o, r>>, "ready")
  /\ \/ /\ agent[r] # "gone"
        /\ Goto(<<o, r>>, "deliver") /\ UNCHANGED <<runOp, outcome>>
     \/ PipelineEnd(o, r, IF o \in Ops /\ KindOf[o] = "fix" THEN "error" ELSE "ok")
  /\ UNCHANGED <<taskRec, runState, based, seenPr, world, posting, locks, timers, process>>

\* deliverPrompt.  Its rejection fails the run only in the creation pipeline,
\* where resumePrepared catches it with failRun.
DeliverPrompt(o, r) ==
  /\ At(<<o, r>>, "deliver")
  /\ \/ /\ agent[r] # "gone"
        /\ PipelineEnd(o, r, "ok")
        /\ SetRun(r, IF runState[r] = "review_ready" THEN "running" ELSE runState[r])
     \/ /\ PipelineEnd(o, r, "error")
        /\ IF o = Create THEN SetRun(r, "failed") ELSE UNCHANGED runState
  /\ UNCHANGED <<taskRec, based, seenPr, world, posting, locks, timers, process>>

\* task.run.prompt takes no op lock; what it changes is this last step.
PromptDelivered(r) ==
  /\ Serving /\ Task(r) \notin deleted
  /\ agent[r] \in {"idle", "working"} /\ runState[r] = "review_ready"
  /\ SetRun(r, "running")
  /\ UNCHANGED <<taskRec, opRec, based, seenPr, world, volatile, process>>

-----------------------------------------------------------------------------
(* onAgentState and the debounced evaluation of a finished turn *)

Heard(r) == phase # "down" /\ runState[r] \notin Settled /\ Task(r) \notin deleted

\* A prompt reached the agent: a reviewed run, or a failed one whose worktree
\* is there, runs again.
AgentWorking(r) ==
  /\ phase # "down" /\ agent[r] \in {"unknown", "idle"}
  /\ agent' = [agent EXCEPT ![r] = "working"]
  /\ IF Heard(r) /\ (runState[r] = "review_ready" \/ (runState[r] = "failed" /\ r \in wt))
     THEN SetRun(r, "running") ELSE UNCHANGED runState
  /\ UNCHANGED <<taskRec, opRec, based, seenPr, wt, landed, pr, volatile, process>>

\* The turn stopped (agent idle) or the session ended: evaluate it shortly.
AgentStops(r) ==
  /\ phase # "down" /\ agent[r] \in {"idle", "working"}
  /\ \/ agent[r] = "working" /\ agent' = [agent EXCEPT ![r] = "idle"]
     \/ agent' = [agent EXCEPT ![r] = "unknown"]
  /\ turnEval' = IF Heard(r) THEN turnEval \cup {r} ELSE turnEval
  /\ UNCHANGED <<records, wt, landed, pr, pc, posting, locks, poll, process>>

\* evaluateTurn: a running run with changes is ready for review.
EvaluateTurn(r) ==
  /\ phase # "down" /\ r \in turnEval
  /\ turnEval' = turnEval \ {r}
  /\ \/ UNCHANGED runState
     \/ runState[r] = "running" /\ SetRun(r, "review_ready")
  /\ UNCHANGED <<taskRec, opRec, based, seenPr, world, pc, posting, locks, poll, process>>

\* The agent of a run opens a pull request itself.
AgentOpensPr(r) ==
  /\ r \in PrRuns \cap wt /\ pr[r] = "none" /\ LiveWorking(r)
  /\ runState[r] \in {"running", "review_ready"}
  /\ pr' = [pr EXCEPT ![r] = "open"]
  /\ UNCHANGED <<records, wt, landed, agent, volatile, process>>

\* The user removes a worktree by hand.
WorktreeLost(r) ==
  /\ r \in LossRuns \cap wt
  /\ wt' = wt \ {r}
  /\ UNCHANGED <<records, landed, pr, agent, volatile, process>>

-----------------------------------------------------------------------------
(* Death of the daemon, restart and reconcile *)

Crash ==
  /\ phase # "down" /\ crashes < MaxCrashes
  /\ crashes' = crashes + 1
  /\ phase' = "down" /\ rec' = {} /\ recAt' = None
  /\ pc' = [b \in Bodies |-> "idle"]
  /\ postLeft' = [r \in Runs |-> {}] /\ postAt' = [r \in Runs |-> None]
  /\ lock' = None /\ claimed' = {} /\ turnEval' = {} /\ poll' = {}
  /\ agent' = [r \in Runs |-> IF agent[r] = "gone" THEN "gone" ELSE "unknown"]
  /\ UNCHANGED <<records, wt, landed, pr>>

Restart ==
  /\ phase = "down"
  /\ phase' = "boot"
  /\ rec' = {r \in Runs : Task(r) \notin deleted} /\ recAt' = None
  /\ UNCHANGED <<records, world, volatile, crashes>>

\* MUTANT: the interrupted op is not recorded.
MutInterruptForgets(r) ==
  /\ runOp' = [runOp EXCEPT ![r] = NoOp]
  /\ UNCHANGED outcome

\* The op the daemon died in ends in INTERRUPTED.
Interrupt(r) ==
  /\ runOp' = [runOp EXCEPT ![r] = NoOp]
  /\ outcome' = [b \in Ops \X Runs |->
                   IF b = <<runOp[r].id, r>> THEN "error" ELSE outcome[b]]

\* First half of a run's turn in reconcile, up to its first await: the op the
\* daemon died in.  A merge's clean-up starts over, with discardOthers true; beside
\* one that began during the reconcile it repeats the same idempotent steps.
ReconcileOp(r) ==
  /\ phase = "boot" /\ recAt = None /\ r \in rec
  /\ recAt' = r /\ rec' = rec \ {r}
  /\ IF runOp[r].kind = "cleanup" /\ runState[r] = "merged"
     THEN /\ IF pc[<<Post, r>>] = "idle"
             THEN /\ Goto(<<Post, r>>, "keep")
                  /\ postLeft' = [postLeft EXCEPT ![r] = OtherRuns(r)]
             ELSE UNCHANGED <<pc, postLeft>>
          /\ UNCHANGED <<runOp, outcome, runState>>
     ELSE /\ Interrupt(r)
          /\ Unmerging(r)
          /\ UNCHANGED <<pc, postLeft>>
  /\ UNCHANGED <<taskRec, based, seenPr, world, postAt, locks, timers, phase, crashes>>

Unlaunched(r) ==
  \/ runState[r] = "launching"
  \/ runState[r] \in {"running", "review_ready"} /\ r \notin wt

\* Second half: what became of the run's worktree and launch.
ReconcileState(r) ==
  /\ phase = "boot" /\ recAt = r
  /\ recAt' = None
  /\ \/ /\ runState[r] = "creating" /\ r \in based \cap wt
        /\ Goto(<<Create, r>>, "resume") /\ UNCHANGED <<runState, wt>>
     \/ /\ runState[r] = "creating" /\ r \notin based \cap wt
        /\ SetRun(r, "failed") /\ wt' = wt \ {r} /\ UNCHANGED pc
     \/ /\ Unlaunched(r)
        /\ SetRun(r, "failed") /\ UNCHANGED <<wt, pc>>
     \/ /\ runState[r] # "creating" /\ ~Unlaunched(r)
        /\ UNCHANGED <<runState, wt, pc>>
  /\ UNCHANGED <<taskRec, opRec, based, seenPr, landed, pr, agent, posting, locks, timers, phase, rec, crashes>>

\* reconcile is over: the runs it can resume get their terminals.
BootDone ==
  /\ phase = "boot" /\ rec = {} /\ recAt = None
  /\ phase' = "up"
  /\ pc' = [b \in Bodies |-> IF pc[b] = "resume" THEN "prep" ELSE pc[b]]
  /\ UNCHANGED <<records, world, posting, locks, timers, rec, recAt, crashes>>

-----------------------------------------------------------------------------
(* The specification *)

Request ==
  \/ \E o \in Ops, r \in Runs : RequestOp(o, r) \/ RequestMerge(o, r) \/ RefuseMerge(o, r)
  \/ \E o \in Ops, t \in Tasks : DiscardAll(o, t)
  \/ \E t \in Tasks : DeleteTask(t)
  \/ \E r \in Runs : PrStatus(r) \/ PromptDelivered(r)

MergeStep(o, r) ==
  \/ MergeStatus(o, r) \/ MergeLock(o, r) \/ MergeGit(o, r) \/ MergeFinish(o, r)
  \/ PrMergeView(o, r) \/ PrMergeGh(o, r) \/ PrMergeAfter(o, r)

DiscardStep(o, r) ==
  \/ DiscardCheck(o, r) \/ RemoveLock(o, r) \/ DiscardRemove(o, r) \/ DiscardDone(o, r)

PipelineStep(o, r) ==
  \/ PrepareRun(o, r) \/ Launched(o, r) \/ AgentReady(o, r) \/ DeliverPrompt(o, r)

OpStep(o, r) ==
  \/ EndGit(o, r) \/ MergeStep(o, r) \/ DiscardStep(o, r)
  \/ FixStart(o, r) \/ Reopen(o, r) \/ ReopenLock(o, r) \/ ReopenAdd(o, r)
  \/ PipelineStep(o, r)

CreateStep(t) ==
  \/ CreateLock(t) \/ CreateUnlock(t) \/ LaunchAll(t)
  \/ \E r \in RunsOf(t) : AddWorktree(r) \/ PipelineStep(Create, r)

PostStep(r) ==
  \/ PostKeep(r) \/ PostCheck(r) \/ RemoveLock(Post, r) \/ PostRemove(r)
  \/ PostOtherLock(r) \/ PostOtherRemove(r) \/ PostOtherDone(r) \/ PostEnd(r)
  \/ \E q \in Runs : PostSkip(r, q) \/ PostDiscard(r, q)

Boot ==
  \/ Restart \/ BootDone
  \/ \E r \in Runs : ReconcileOp(r) \/ ReconcileState(r)

Agent(r) == AgentWorking(r) \/ AgentStops(r) \/ EvaluateTurn(r)

World(r) == WorktreeLost(r) \/ AgentOpensPr(r) \/ GithubMerges(r)

Next ==
  \/ Request
  \/ \E o \in Ops, r \in Runs : OpStep(o, r)
  \/ \E t \in Tasks : CreateStep(t)
  \/ \E r \in Runs : PostStep(r) \/ Agent(r) \/ World(r) \/ PollStart(r) \/ ApplyPrView(r)
  \/ Crash \/ Boot

Spec == Init /\ [][Next]_vars

\* Bodies run on: every await they make ends, by an answer or its deadline; the
\* repository lock is a queue; a dead daemon is restarted; the poller ticks.
Fairness ==
  /\ \A o \in Ops, r \in Runs : WF_vars(OpStep(o, r))
  /\ \A t \in Tasks : WF_vars(CreateStep(t))
  /\ \A r \in Runs : WF_vars(PostStep(r))
  /\ \A r \in Runs : WF_vars(PollStart(r)) /\ WF_vars(ApplyPrView(r))
  /\ WF_vars(Boot)

FairSpec == Spec /\ Fairness

-----------------------------------------------------------------------------
(* Safety *)

Busy(b) == pc[b] # "idle"

\* A task has at most one winner: a merged task names exactly one run, that run
\* and no other is merged, and a task that is not merged names none - however
\* the local merge, the PR merge and the merge seen on the web interleave
\* (claimMerge, assertStillOpen, finishMerge, applyPrView).
SingleWinner ==
  /\ \A t \in Tasks : winner[t] \in RunsOf(t) \cup {None}
  /\ \A t \in Tasks : winner[t] # None <=> taskState[t] = "merged"
  /\ \A r \in Runs : runState[r] = "merged" <=> winner[Task(r)] = r

\* A task is closed exactly when its last run was discarded: the discards of
\* several runs in flight never leave an open task with nothing to open, and a
\* closed task holds no run that could still be merged (maybeCloseTask).
ClosedWithLastRun ==
  \A t \in Tasks :
    taskState[t] = "closed" <=> \A r \in RunsOf(t) : runState[r] = "discarded"

\* The op recorded on a run is that of the one body at work on it: no second
\* body gets at the run's worktree while the first is between two awaits
\* (opGuard, runOp, postMerge).
OpHeldByBody ==
  \A r \in Runs :
    /\ \A o \in Ops : Busy(<<o, r>>) =>
         runOp[r] = [id |-> o, kind |-> KindOf[o]]
    /\ Busy(<<Post, r>>) => runOp[r].kind = "cleanup"
    /\ postAt[r] # None => runOp[postAt[r]].id = Post

\* Conversely, once the daemon is up no op stays on a run without a body that
\* will clear it: a leaked one would answer RUN_BUSY for ever (endOp, reconcile).
NoLeakedOp ==
  phase = "up" =>
    \A r \in Runs : runOp[r] # NoOp =>
      \/ runOp[r].kind = "cleanup" /\ Busy(<<Post, r>>)
      \/ runOp[r].id = Post /\ \E p \in Runs : postAt[p] = r
      \/ \E o \in Ops : runOp[r].id = o /\ Busy(<<o, r>>)

\* The claim of a task is held exactly while one merge body of the task runs;
\* it is neither lost to another run nor left behind by an error (claimMerge).
ClaimExact ==
  \A t \in Tasks :
    LET merging == {b \in Ops \X RunsOf(t) : pc[b] \in MergePcs}
    IN Cardinality(merging) = IF t \in claimed THEN 1 ELSE 0

\* A run recorded as merged really is: its branch landed in the base, or GitHub
\* shows its PR merged - also when gh only queued the merge (finishMerge).
MergedIsMerged ==
  \A r \in Runs : runState[r] = "merged" => r \in landed \/ pr[r] = "merged"

\* Local merges land one run of a task in the base, except that a death of the
\* daemon between git merge and finishMerge may let one more land.
LandedBounded ==
  \A t \in Tasks : Cardinality(landed \cap RunsOf(t)) <= 1 + crashes

\* A run in a passing state has a body that takes it out of it; without one
\* every op on the run would be refused (opGuard).
NoStrandedRun ==
  phase = "up" => \A r \in Runs :
    runState[r] \in {"creating", "launching", "merging"} =>
      \E b \in Bodies : b[2] = r /\ Busy(b)

\* A deleted task leaves no worktree, op or body behind (rpcDelete).
DeletedLeavesNothing ==
  \A t \in deleted : \A r \in RunsOf(t) :
    /\ r \notin wt /\ runOp[r] = NoOp
    /\ \A b \in Bodies : b[2] = r => ~Busy(b)

(* Action properties *)

\* Merged and discarded are final for a run, and a task that is merged or
\* closed stays so with the same winner - across crashes, late answers of the
\* agent and late steps of any body.
SettledForever ==
  [][/\ \A r \in Runs : runState[r] \in Settled => runState'[r] = runState[r]
     /\ \A t \in Tasks : taskState[t] # "open" =>
          taskState'[t] = taskState[t] /\ winner'[t] = winner[t]]_vars

\* An operation id is executed at most once per run: once it has an outcome,
\* a request that carries it again changes nothing (replayFor, recordOpId).
OpOnce ==
  [][\A b \in Ops \X Runs :
       outcome[b] \in {"ok", "error"} => outcome'[b] = outcome[b]]_vars

(* Liveness *)

\* Every accepted operation is answered, also when the daemon dies in it.
OpsAnswered ==
  \A b \in Ops \X Runs : outcome[b] = "running" ~> outcome[b] \in {"ok", "error"}

\* The clean-up after a merge ends and gives the winner's op lock back.
CleanupEnds ==
  \A r \in Runs : runOp[r].kind = "cleanup" ~> runOp[r] = NoOp

-----------------------------------------------------------------------------
(* Refinement *)

Lifecycle == INSTANCE TaskLifecycle

\* Whatever operations, crashes and late answers do, the records of tasks.json
\* walk the state machines of the task and of the run: the only way to merged is
\* one step that settles run, task and winner, the only way out of merging is
\* merged or review_ready (every handler of tasks.js, and reconcile).
ImplementsLifecycle == Lifecycle!Spec
=============================================================================
