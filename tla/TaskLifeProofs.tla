---------------------------- MODULE TaskLifeProofs ----------------------------
(***************************************************************************)
(* The records of tasks and runs, for every set of tasks, runs and         *)
(* operations and every number of crashes: TaskRuns implements             *)
(* TaskLifecycle, a task has one winner and closes with its last run, what *)
(* is settled stays so, an op id is executed once, and a deleted task      *)
(* leaves nothing behind.                                                  *)
(*                                                                         *)
(* All of it holds of a daemon whose bodies wait for reconcile             *)
(* (BootOverlap = FALSE) and whose prompts are given with the launch       *)
(* (PasteRuns = {}): the creation of a run that pastes its prompt holds no *)
(* op while it waits for the agent, and fails the run late whatever has    *)
(* become of it.                                                           *)
(*                                                                         *)
(* The heart is Staged: a body's place among its awaits tells the state of *)
(* its run, because nobody else moves the run meanwhile.                   *)
(***************************************************************************)
EXTENDS TaskRunsProofs

\* Those whose bodies move the states of runs: the requests, and the creation.
Crew == Ops \cup {Create}

Rested == {"running", "review_ready", "failed"}
InWork == {"running", "review_ready"}

\* At place p a body of o finds its run in state s.
Fits(o, p, s) ==
  \/ p \in {"git", "check", "dwait", "remove", "removed", "reopen"} /\ o # Create /\ s \in Rested
  \/ p \in {"status", "fix", "ready", "deliver"} /\ o # Create /\ s \in InWork
  \/ p \in MergePcs \ {"status"} /\ o # Create /\ s = "merging"
  \/ p \in {"wtwait", "add", "added", "prep", "prepared", "resume"} /\ s = "creating"
  \/ p = "prep" /\ o # Create /\ s \in Rested
  \/ p = "starting" /\ s = "launching"

(* The inductive invariant *)

Staged == \A o \in Crew, r \in Runs : Busy(<<o, r>>) => Fits(o, pc[<<o, r>>], runState[r])

\* The creation of a run works on it alone, although it holds no op.
CreatedAlone == \A r \in Runs : Busy(<<Create, r>>) => runOp[r] = NoOp

\* The run postMerge is discarding is one it may discard.
TargetsRest == \A r \in Runs : postAt[r] # None => runState[postAt[r]] \in Rested

\* Reconcile has done with the runs whose creation it resumes.
BootCreates ==
  /\ phase = "down" => \A r \in Runs : ~Busy(<<Create, r>>)
  /\ phase = "boot" => recAt \notin rec
  /\ phase = "boot" => \A r \in Runs : Busy(<<Create, r>>) => r \notin rec /\ r # recAt

\* A run whose worktree is still to come has no pull request, which could be
\* merged on the web.
PullRequests ==
  /\ wt \subseteq based
  /\ \A r \in Runs : pr[r] # "none" => r \in based
  /\ \A r \in Runs : runState[r] = "creating" \/ Busy(<<Create, r>>) => pr[r] = "none"
  /\ \A o \in Ops, r \in Runs : pc[<<o, r>>] = "ghmerge" => pr[r] # "none"

CleanUpsMerged == \A r \in Runs : runOp[r].kind = "cleanup" => runState[r] = "merged"

\* The op on a run, until its merge turns it into a clean-up.
Bears(o, r) == runOp[r].id = o /\ runOp[r].kind # "cleanup"

OpsRun == \A o \in Ops, r \in Runs : Bears(o, r) => outcome[<<o, r>>] = "running"

DeletedGone ==
  \A t \in deleted : \A r \in RunsOf(t) : runState[r] \notin ActiveRunStates /\ r \notin wt

StageInv ==
  /\ Staged /\ CreatedAlone /\ TargetsRest /\ BootCreates /\ PullRequests
  /\ CleanUpsMerged /\ OpsRun /\ DeletedGone
  /\ SingleWinner /\ ClosedWithLastRun

\* With what TaskRunsProofs proves.
LifeInv == TypeOK /\ OpInv /\ MergeInv /\ StageInv

-----------------------------------------------------------------------------
(* What a step does to a run *)

\* The state stays, or follows the agent.
StateStays(r) ==
  \/ runState'[r] = runState[r]
  \/ runState[r] = "running" /\ runState'[r] = "review_ready"
  \/ runState[r] = "review_ready" /\ runState'[r] = "running"
  \/ runState[r] = "failed" /\ runState'[r] = "running" /\ Task(r) \notin deleted

CrewStays(r) == \A o \in Crew : pc'[<<o, r>>] = pc[<<o, r>>]

OpStays(r) == runOp'[r] \in {runOp[r], NoOp}

Steady(r) == StateStays(r) /\ CrewStays(r) /\ OpStays(r)

\* The body of o is at its run, and leaves it in a state that fits its next place.
Working(o, r) ==
  /\ Busy(<<o, r>>)
  /\ \A p \in Crew : p # o => pc'[<<p, r>>] = pc[<<p, r>>]
  /\ Busy(<<o, r>>)' => Fits(o, pc'[<<o, r>>], runState'[r])

\* A body, or several of one request, start at runs that no one works on.
Starting(r) ==
  /\ runOp[r] = NoOp /\ runState[r] \in Rested /\ runState'[r] = runState[r]
  /\ pc'[<<Create, r>>] = pc[<<Create, r>>]
  /\ \A o \in Ops : \/ pc'[<<o, r>>] = pc[<<o, r>>]
                    \/ Fits(o, pc'[<<o, r>>], runState[r])

InPlace == UNCHANGED <<postAt, phase, rec, recAt>>

Calm == InPlace /\ \A r \in Runs : Steady(r)

Starts == InPlace /\ phase = "up" /\ \A r \in Runs : Steady(r) \/ Starting(r)

OpWorks(o, r) ==
  /\ InPlace /\ phase = "up"
  /\ Working(o, r) /\ \A q \in Runs : q # r => Steady(q)

Creates ==
  /\ UNCHANGED <<postAt, rec, recAt>> /\ phase # "down" /\ phase' \in {phase, "up"}
  /\ \A r \in Runs : Steady(r) \/ (Working(Create, r) /\ runOp'[r] = runOp[r])

MergedOnWeb(r) ==
  /\ InPlace /\ phase = "up"
  /\ runOp[r] = NoOp /\ pr[r] = "merged" /\ runState'[r] = "merged" /\ CrewStays(r)
  /\ \A q \in Runs : q # r => Steady(q)

TakesOther(r, q) ==
  /\ UNCHANGED <<runState, phase, rec, recAt>> /\ phase = "up"
  /\ runOp[q] = NoOp /\ runState[q] \in Rested
  /\ \A s \in Runs : CrewStays(s) /\ (s # q => OpStays(s))
  /\ AtBecomes(r, q)

DropsOther(r) ==
  /\ UNCHANGED <<phase, rec, recAt>> /\ phase = "up"
  /\ postAt[r] # None /\ CrewStays(postAt[r]) /\ OpStays(postAt[r])
  /\ \A s \in Runs : s # postAt[r] => Steady(s)
  /\ AtBecomes(r, None)

StageMove ==
  \/ Calm \/ Starts \/ Creates \/ Crash \/ Restart
  \/ \E o \in Ops, r \in Runs : OpWorks(o, r)
  \/ \E r, q \in Runs : TakesOther(r, q)
  \/ \E r \in Runs : MergedOnWeb(r) \/ DropsOther(r) \/ ReconcileOp(r) \/ ReconcileState(r)

\* Worktrees and pull requests.
WorldStep ==
  /\ wt' \subseteq based' /\ based \subseteq based'
  /\ \A r \in Runs : r \in wt' => r \in wt \/ \E o \in Crew : Busy(<<o, r>>)
  /\ \A r \in Runs : \/ pr'[r] = pr[r]
                     \/ /\ pr'[r] # "none" /\ r \in based
                        /\ runState[r] # "creating" /\ ~Busy(<<Create, r>>)
  /\ \A r \in Runs : runState'[r] = "creating" => runState[r] = "creating" \/ r \notin based
  /\ \A o \in Ops, r \in Runs :
       pc'[<<o, r>>] = "ghmerge" => pc[<<o, r>>] = "ghmerge" \/ pr[r] # "none"

\* The answer of an op stays, or is the first, or ends the op on the run.
AnswerStep ==
  \A o \in Ops, r \in Runs :
    \/ outcome'[<<o, r>>] = outcome[<<o, r>>] /\ (Bears(o, r)' => Bears(o, r))
    \/ outcome[<<o, r>>] = "new" /\ (Bears(o, r)' => Bears(o, r) \/ outcome'[<<o, r>>] = "running")
    \/ Bears(o, r) /\ ~Bears(o, r)'

LifeStep == [Lifecycle!Next]_(Lifecycle!vars)

-----------------------------------------------------------------------------
(* What the helpers of the handlers do to states and bodies *)

\* The ids of the crew are bodies of every run.
LEMMA CrewIds ==
  /\ Create \in Crew /\ Ops \subseteq Crew /\ Create \notin Ops /\ Post \notin Crew
  /\ \A o \in Crew, r \in Runs : <<o, r>> \in Bodies
  BY IdAssumption DEF Crew, Bodies

\* The states of runs at the places of a body.
LEMMA FitsAt ==
  /\ \A o \in Ops, s \in Rested :
       /\ \A p \in {"git", "check", "dwait", "remove", "removed", "reopen"} : Fits(o, p, s)
       /\ Fits(o, "prep", s)
  /\ \A o \in Ops, s \in InWork :
       \A p \in {"status", "fix", "ready", "deliver"} : Fits(o, p, s)
  /\ \A o \in Ops : \A p \in {"mwait", "merge", "finish", "view", "ghmerge", "after"} :
       Fits(o, p, "merging")
  /\ \A o \in Crew :
       /\ \A p \in {"wtwait", "add", "added", "prep", "prepared", "resume"} :
            Fits(o, p, "creating")
       /\ Fits(o, "starting", "launching")
  BY IdAssumption DEF Fits, Crew, MergePcs

\* ... and conversely.
LEMMA FitsMeans ==
  ASSUME NEW o \in Crew, NEW p, NEW s, Fits(o, p, s)
  PROVE  /\ p \in {"git", "check", "dwait", "remove", "removed", "reopen"} => s \in Rested
         /\ p \in {"status", "fix", "ready", "deliver"} => s \in InWork
         /\ p \in {"mwait", "merge", "finish", "view", "ghmerge", "after"} => s = "merging"
         /\ p \in {"wtwait", "add", "added", "prepared", "resume"} => s = "creating"
         /\ p = "prep" => s \in Rested \/ s = "creating"
         /\ p = "starting" => s = "launching"
         /\ o = Create => /\ s \in {"creating", "launching"}
                          /\ p # "starting" => s = "creating"
                          /\ p \in {"wtwait", "add", "added", "prep", "prepared", "resume",
                                    "starting"}
  BY DEF Fits, MergePcs, Rested, InWork

\* The agent takes a run from one state that fits its body's place to another.
LEMMA FitsOn ==
  ASSUME NEW o \in Crew, NEW p, NEW r \in Runs, Fits(o, p, runState[r]), StateStays(r)
  PROVE  Fits(o, p, runState'[r])
  BY DEF Fits, StateStays, Rested, InWork

\* Goto moves one body.
LEMMA CrewGoes ==
  ASSUME TypeOK, NEW p \in Crew \cup {Post}, NEW r \in Runs, NEW place, Goto(<<p, r>>, place)
  PROVE  /\ pc'[<<p, r>>] = place
         /\ \A o \in Crew, q \in Runs : o # p \/ q # r => pc'[<<o, q>>] = pc[<<o, q>>]
  BY InBodies, CrewIds DEF TypeOK, Goto, Crew

\* A state is set on one run ...
LEMMA StateSet ==
  ASSUME TypeOK, NEW r \in Runs, NEW s, SetRun(r, s)
  PROVE  runState'[r] = s /\ \A q \in Runs : q # r => runState'[q] = runState[q]
  BY DEF TypeOK, SetRun

\* ... or taken back from merging ...
LEMMA StateUnmerged ==
  ASSUME TypeOK, NEW r \in Runs, Unmerging(r)
  PROVE  /\ runState'[r] = IF runState[r] = "merging" THEN "review_ready" ELSE runState[r]
         /\ \A q \in Runs : q # r => runState'[q] = runState[q]
  BY DEF TypeOK, Unmerging

\* ... or ends as discarded.
LEMMA StateDiscarded ==
  ASSUME TypeOK, NEW r \in Runs, Discarded(r)
  PROVE  runState'[r] = "discarded" /\ \A q \in Runs : q # r => runState'[q] = runState[q]
  BY StateSet DEF Discarded

\* What a body of an op knows of its run.
LEMMA OpAlone ==
  ASSUME LifeInv, NEW o \in Ops, NEW r \in Runs, Busy(<<o, r>>)
  PROVE  /\ Fits(o, pc[<<o, r>>], runState[r])
         /\ Bears(o, r) /\ runOp[r] # NoOp
         /\ \A p \in Crew : p # o => ~Busy(<<p, r>>)
         /\ \A q \in Runs : postAt[q] # r
<1>1. Fits(o, pc[<<o, r>>], runState[r])
  BY CrewIds DEF LifeInv, StageInv, Staged
<1>2. runOp[r].id = o /\ Bears(o, r) /\ runOp[r] # NoOp
  BY OpTells DEF LifeInv, Bears
<1>3. ASSUME NEW p \in Crew, p # o, Busy(<<p, r>>) PROVE FALSE
  <2>1. CASE p \in Ops
    <3>1. runOp[r].id = p
      BY <1>3, <2>1, OpTells DEF LifeInv
    <3> QED BY <1>2, <1>3, <3>1
  <2>2. CASE p = Create
    BY <1>2, <1>3, <2>2 DEF LifeInv, StageInv, CreatedAlone
  <2> QED BY <2>1, <2>2 DEF Crew
<1>4. ASSUME NEW q \in Runs, postAt[q] = r PROVE FALSE
  BY <1>2, <1>4, TargetTells, IdAssumption DEF LifeInv
<1> QED BY <1>1, <1>2, <1>3, <1>4

\* The creation of a run works on it alone, too.
LEMMA CreateAlone ==
  ASSUME LifeInv, NEW r \in Runs, Busy(<<Create, r>>)
  PROVE  /\ Fits(Create, pc[<<Create, r>>], runState[r])
         /\ runState[r] \in {"creating", "launching"}
         /\ runOp[r] = NoOp /\ pr[r] = "none"
         /\ \A p \in Crew : p # Create => ~Busy(<<p, r>>)
         /\ \A q \in Runs : postAt[q] # r
<1>1. Fits(Create, pc[<<Create, r>>], runState[r])
  BY CrewIds DEF LifeInv, StageInv, Staged
<1>2. runState[r] \in {"creating", "launching"} /\ runOp[r] = NoOp /\ pr[r] = "none"
  BY <1>1, FitsMeans, CrewIds DEF LifeInv, StageInv, CreatedAlone, PullRequests
<1>3. ASSUME NEW p \in Crew, p # Create, Busy(<<p, r>>) PROVE FALSE
  BY <1>2, <1>3, OpAlone DEF Crew
<1>4. ASSUME NEW q \in Runs, postAt[q] = r PROVE FALSE
  BY <1>2, <1>4, TargetTells, IdAssumption DEF LifeInv, NoOp
<1> QED BY <1>1, <1>2, <1>3, <1>4

-----------------------------------------------------------------------------
(* Every step is a move *)

\* An op's body goes from one place to another.
LEMMA WorksOn ==
  ASSUME LifeInv, NEW o \in Ops, NEW r \in Runs, NEW place, Goto(<<o, r>>, place),
         Busy(<<o, r>>), phase = "up", InPlace, UNCHANGED runOp,
         \A q \in Runs : q # r => runState'[q] = runState[q],
         place = "idle" \/ Fits(o, place, runState'[r])
  PROVE  StageMove
<1>1. TypeOK /\ o \in Crew
  BY CrewIds DEF LifeInv
<1>2. Working(o, r)
  BY <1>1, CrewGoes DEF Working, Busy
<1>3. \A q \in Runs : q # r => Steady(q)
  BY <1>1, CrewGoes DEF Steady, StateStays, CrewStays, OpStays
<1> QED BY <1>2, <1>3 DEF StageMove, OpWorks

\* It ends (endOp).
LEMMA EndsOn ==
  ASSUME LifeInv, NEW o \in Ops, NEW r \in Runs, NEW out, EndOp(o, r, out),
         Busy(<<o, r>>), phase = "up", InPlace,
         \A q \in Runs : q # r => runState'[q] = runState[q]
  PROVE  StageMove
<1>1. TypeOK /\ o \in Crew /\ Goto(<<o, r>>, "idle")
  BY CrewIds DEF LifeInv, EndOp
<1>2. Working(o, r)
  BY <1>1, CrewGoes DEF Working, Busy
<1>3. \A q \in Runs : q # r => runOp'[q] = runOp[q]
  BY <1>1 DEF EndOp, TypeOK
<1>4. \A q \in Runs : q # r => Steady(q)
  BY <1>1, <1>3, CrewGoes DEF Steady, StateStays, CrewStays, OpStays
<1> QED BY <1>2, <1>4 DEF StageMove, OpWorks

\* It ends in finishMerge.
LEMMA FinishesOn ==
  ASSUME LifeInv, NEW o \in Ops, NEW r \in Runs, FinishClientMerge(o, r),
         Busy(<<o, r>>), phase = "up", InPlace
  PROVE  StageMove
<1>1. TypeOK /\ o \in Crew
  BY CrewIds DEF LifeInv
<1>2. /\ pc' = [pc EXCEPT ![<<o, r>>] = "idle", ![<<Post, r>>] = "keep"]
      /\ runOp' = [runOp EXCEPT ![r] = [id |-> o, kind |-> "cleanup"]]
      /\ SetRun(r, "merged")
  BY DEF FinishClientMerge, FinishMerge
<1>3. /\ pc'[<<o, r>>] = "idle"
      /\ \A p \in Crew, q \in Runs : p # o \/ q # r => pc'[<<p, q>>] = pc[<<p, q>>]
  BY <1>1, <1>2, InBodies, CrewIds, IdAssumption DEF TypeOK
<1>4. \A q \in Runs : q # r => runState'[q] = runState[q] /\ runOp'[q] = runOp[q]
  BY <1>1, <1>2, StateSet DEF TypeOK
<1>5. Working(o, r)
  BY <1>1, <1>3 DEF Working, Busy
<1>6. \A q \in Runs : q # r => Steady(q)
  BY <1>1, <1>3, <1>4 DEF Steady, StateStays, CrewStays, OpStays
<1> QED BY <1>5, <1>6 DEF StageMove, OpWorks

\* The creation of a run goes on.
LEMMA CreatesOn ==
  ASSUME LifeInv, NEW r \in Runs, NEW place, Goto(<<Create, r>>, place),
         Busy(<<Create, r>>), phase = "up", InPlace, UNCHANGED runOp,
         \A q \in Runs : q # r => runState'[q] = runState[q],
         place = "idle" \/ Fits(Create, place, runState'[r])
  PROVE  StageMove
<1>1. TypeOK /\ Create \in Crew
  BY CrewIds DEF LifeInv
<1>2. Working(Create, r)
  BY <1>1, CrewGoes DEF Working, Busy
<1>3. \A q \in Runs : q # r => Steady(q)
  BY <1>1, CrewGoes DEF Steady, StateStays, CrewStays, OpStays
<1> QED BY <1>2, <1>3 DEF StageMove, Creates, InPlace

\* A step that leaves the bodies and the ops alone.
LEMMA StaysCalm ==
  ASSUME InPlace, UNCHANGED <<pc, runOp>>, \A r \in Runs : StateStays(r)
  PROVE  StageMove
  BY DEF StageMove, Calm, Steady, CrewStays, OpStays

\* A step of postMerge other than the beginning and the end of a discard.
LEMMA PostCalm ==
  ASSUME TypeOK, NEW r \in Runs, NEW place, Goto(<<Post, r>>, place), InPlace,
         UNCHANGED runState, \A q \in Runs : OpStays(q)
  PROVE  StageMove
  BY CrewGoes, CrewIds DEF StageMove, Calm, Steady, StateStays, CrewStays

\* The state a request finds is one its body may start from (opGuard).
LEMMA BeginsFit ==
  ASSUME NEW o \in Ops, NEW s \in StatesFor(o)
  PROVE  Fits(o, FirstPc(o), s) /\ s \in Rested
  BY RunsAssumption, IdAssumption
  DEF StatesFor, FirstPc, Fits, Kinds, Rested, InWork, IsMerge, IsDiscard

\* A request starts its body at a run that no one works on.
LEMMA BeginStarts ==
  ASSUME LifeInv, NEW o \in Ops, NEW r \in Runs, BeginOp(o, r), phase = "up", InPlace,
         UNCHANGED runState, runOp[r] = NoOp, runState[r] \in StatesFor(o)
  PROVE  StageMove
<1>1. TypeOK /\ o \in Crew
  BY CrewIds DEF LifeInv
<1>2. Starting(r)
  BY <1>1, BeginsFit, CrewGoes, CrewIds DEF BeginOp, Starting
<1>3. \A q \in Runs : q # r => Steady(q)
  BY <1>1, CrewGoes DEF BeginOp, Steady, StateStays, CrewStays, OpStays, TypeOK
<1> QED BY <1>2, <1>3 DEF StageMove, Starts

\* The end of postMerge's discard of another run.
LEMMA PostAtIs ==
  ASSUME TypeOK, OpInv, NEW r \in Runs, pc[<<Post, r>>] \in OthersPcs
  PROVE  postAt[r] \in Runs /\ postAt[r] # None
  BY DEF TypeOK, OpInv, Targets

\* The end of postMerge's discard of another run is a move.
LEMMA PostDrops ==
  ASSUME LifeInv, NEW r \in Runs, pc[<<Post, r>>] \in {"oremove", "oremoved"}, phase = "up",
         PostRelease(r, postAt[r]), UNCHANGED <<phase, rec, recAt>>,
         \A q \in Runs : q # postAt[r] => runState'[q] = runState[q]
  PROVE  StageMove
<1>1. TypeOK /\ postAt[r] \in Runs /\ postAt[r] # None
  BY PostAtIs DEF LifeInv, OthersPcs
<1>2. \A q \in Runs : CrewStays(q)
  BY <1>1, CrewGoes, CrewIds DEF PostRelease, CrewStays
<1>3. \A q \in Runs : OpStays(q) /\ (q # postAt[r] => runOp'[q] = runOp[q])
  BY <1>1 DEF PostRelease, OpStays, TypeOK
<1>4. AtBecomes(r, None)
  BY <1>1 DEF PostRelease, AtBecomes, TypeOK
<1>5. DropsOther(r)
  BY <1>1, <1>2, <1>3, <1>4 DEF DropsOther, Steady, StateStays
<1> QED BY <1>5 DEF StageMove

\* Every step of the system is one of the moves.
LEMMA StageMoves ==
  ASSUME BootOverlap = FALSE, PasteRuns = {}, LifeInv, TypeOK, [Next]_vars
  PROVE  StageMove
<1> USE DEF records, taskRec, opRec, world, posting, locks, timers, volatile, process
<1>1. ASSUME NEW o \in Ops, NEW r \in Runs, RequestOp(o, r) PROVE StageMove
  <2>1. /\ phase = "up" /\ InPlace /\ UNCHANGED runState
        /\ runOp[r] = NoOp /\ runState[r] \in StatesFor(o) /\ BeginOp(o, r)
    BY <1>1 DEF RequestOp, Serving, OpGuard, InPlace
  <2> QED BY <2>1, BeginStarts
<1>2. ASSUME NEW o \in Ops, NEW r \in Runs, RequestMerge(o, r) PROVE StageMove
  <2>1. /\ phase = "up" /\ InPlace /\ UNCHANGED runState
        /\ runOp[r] = NoOp /\ runState[r] \in StatesFor(o) /\ BeginOp(o, r)
    BY <1>2 DEF RequestMerge, Serving, OpGuard, InPlace
  <2> QED BY <2>1, BeginStarts
<1>3. ASSUME NEW o \in Ops, NEW r \in Runs, RefuseMerge(o, r) PROVE StageMove
  BY <1>3, StaysCalm DEF RefuseMerge, InPlace, StateStays
<1>4. ASSUME NEW o \in Ops, NEW t \in Tasks, DiscardAll(o, t) PROVE StageMove
  <2> DEFINE targets == {r \in RunsOf(t) :
                           /\ runState[r] \in {"running", "review_ready", "failed"}
                           /\ runOp[r] = NoOp
                           /\ Forced(o) \/ ~LiveWorking(r)}
  <2>1. /\ phase = "up" /\ InPlace /\ UNCHANGED runState
        /\ runOp' = [r \in Runs |-> IF r \in targets
                                    THEN [id |-> o, kind |-> KindOf[o]] ELSE runOp[r]]
        /\ pc' = [b \in Bodies |->
                    IF b[1] = o /\ b[2] \in targets THEN "check" ELSE pc[b]]
    BY <1>4 DEF DiscardAll, Serving, InPlace
  <2>2. \A r \in targets : runOp[r] = NoOp /\ runState[r] \in Rested
    BY DEF Rested
  <2> HIDE DEF targets
  <2>3. \A p \in Crew, r \in Runs :
          pc'[<<p, r>>] = IF p = o /\ r \in targets THEN "check" ELSE pc[<<p, r>>]
    BY <2>1, CrewIds
  <2>4. \A r \in Runs : r \in targets => Starting(r)
    BY <2>1, <2>2, <2>3, CrewIds, FitsAt DEF Starting
  <2>5. \A r \in Runs : r \notin targets => Steady(r)
    BY <2>1, <2>3 DEF Steady, StateStays, CrewStays, OpStays
  <2> QED BY <2>1, <2>4, <2>5 DEF StageMove, Starts
<1>5. ASSUME NEW t \in Tasks, DeleteTask(t) PROVE StageMove
  BY <1>5, StaysCalm DEF DeleteTask, InPlace, StateStays
<1>6. ASSUME NEW r \in Runs, PrStatus(r) PROVE StageMove
  BY <1>6, StaysCalm DEF PrStatus, InPlace, StateStays
<1>7. ASSUME NEW r \in Runs, PromptDelivered(r) PROVE StageMove
  <2>1. \A q \in Runs : StateStays(q)
    BY <1>7, StateSet DEF PromptDelivered, StateStays
  <2> QED BY <1>7, <2>1, StaysCalm DEF PromptDelivered, InPlace
<1>8. ASSUME NEW o \in Ops, NEW r \in Runs, EndGit(o, r) PROVE StageMove
  <2>1. /\ phase = "up" /\ Busy(<<o, r>>) /\ InPlace
        /\ Fits(o, pc[<<o, r>>], runState[r])
    BY <1>8, OpAlone DEF EndGit, At, Serving, Busy, InPlace
  <2>2. \A q \in Runs : q # r => runState'[q] = runState[q]
    BY <1>8, StateSet DEF EndGit
  <2>3. CASE \E out \in {"ok", "error"} : EndOp(o, r, out)
    BY <2>1, <2>2, <2>3, EndsOn
  <2> QED BY <1>8, <2>3 DEF EndGit
<1>9. ASSUME NEW o \in Ops, NEW r \in Runs, MergeStatus(o, r) PROVE StageMove
  <2>1. /\ phase = "up" /\ Busy(<<o, r>>) /\ InPlace
        /\ Fits(o, pc[<<o, r>>], runState[r])
    BY <1>9, OpAlone DEF MergeStatus, At, Serving, Busy, InPlace
  <2>2. \A q \in Runs : q # r => runState'[q] = runState[q]
    BY <1>9, StateSet, StateUnmerged DEF MergeStatus, FailMerge
  <2>3. CASE \E out \in {"ok", "error"} : EndOp(o, r, out)
    BY <2>1, <2>2, <2>3, EndsOn
  <2>4. CASE \E place \in Pcs : /\ Goto(<<o, r>>, place) /\ UNCHANGED runOp
                                 /\ Fits(o, place, runState'[r])
    BY <2>1, <2>2, <2>4, WorksOn
  <2> QED BY <1>9, <2>3, <2>4, <2>1, FitsAt, FitsMeans, StateSet, PlacesInPcs, CrewIds
          DEF MergeStatus, At, FailMerge
<1>10. ASSUME NEW o \in Ops, NEW r \in Runs, MergeLock(o, r) PROVE StageMove
  <2>1. /\ phase = "up" /\ Busy(<<o, r>>) /\ InPlace
        /\ Fits(o, pc[<<o, r>>], runState[r])
    BY <1>10, OpAlone DEF MergeLock, At, Serving, Busy, InPlace
  <2>2. \A q \in Runs : q # r => runState'[q] = runState[q]
    BY <1>10, StateUnmerged DEF MergeLock, FailMerge
  <2>3. CASE \E out \in {"ok", "error"} : EndOp(o, r, out)
    BY <2>1, <2>2, <2>3, EndsOn
  <2>4. CASE \E place \in Pcs : /\ Goto(<<o, r>>, place) /\ UNCHANGED runOp
                                 /\ Fits(o, place, runState'[r])
    BY <2>1, <2>2, <2>4, WorksOn
  <2> QED BY <1>10, <2>3, <2>4, <2>1, FitsAt, FitsMeans, StateSet, PlacesInPcs, CrewIds
          DEF MergeLock, At, FailMerge
<1>11. ASSUME NEW o \in Ops, NEW r \in Runs, MergeGit(o, r) PROVE StageMove
  <2>1. /\ phase = "up" /\ Busy(<<o, r>>) /\ InPlace
        /\ Fits(o, pc[<<o, r>>], runState[r])
    BY <1>11, OpAlone DEF MergeGit, At, Serving, Busy, InPlace
  <2>2. \A q \in Runs : q # r => runState'[q] = runState[q]
    BY <1>11, StateUnmerged DEF MergeGit, FailMerge
  <2>3. CASE \E out \in {"ok", "error"} : EndOp(o, r, out)
    BY <2>1, <2>2, <2>3, EndsOn
  <2>4. CASE \E place \in Pcs : /\ Goto(<<o, r>>, place) /\ UNCHANGED runOp
                                 /\ Fits(o, place, runState'[r])
    BY <2>1, <2>2, <2>4, WorksOn
  <2> QED BY <1>11, <2>3, <2>4, <2>1, FitsAt, FitsMeans, StateSet, PlacesInPcs, CrewIds
          DEF MergeGit, At, FailMerge
<1>12. ASSUME NEW o \in Ops, NEW r \in Runs, PrMergeView(o, r) PROVE StageMove
  <2>1. /\ phase = "up" /\ Busy(<<o, r>>) /\ InPlace
        /\ Fits(o, pc[<<o, r>>], runState[r])
    BY <1>12, OpAlone DEF PrMergeView, At, Serving, Busy, InPlace
  <2>2. \A q \in Runs : q # r => runState'[q] = runState[q]
    BY <1>12, StateUnmerged DEF PrMergeView, FailMerge
  <2>3. CASE \E out \in {"ok", "error"} : EndOp(o, r, out)
    BY <2>1, <2>2, <2>3, EndsOn
  <2>4. CASE \E place \in Pcs : /\ Goto(<<o, r>>, place) /\ UNCHANGED runOp
                                 /\ Fits(o, place, runState'[r])
    BY <2>1, <2>2, <2>4, WorksOn
  <2> QED BY <1>12, <2>3, <2>4, <2>1, FitsAt, FitsMeans, StateSet, PlacesInPcs, CrewIds
          DEF PrMergeView, At, FailMerge
<1>13. ASSUME NEW o \in Ops, NEW r \in Runs, PrMergeGh(o, r) PROVE StageMove
  <2>1. /\ phase = "up" /\ Busy(<<o, r>>) /\ InPlace
        /\ Fits(o, pc[<<o, r>>], runState[r])
    BY <1>13, OpAlone DEF PrMergeGh, At, Serving, Busy, InPlace
  <2>2. \A q \in Runs : q # r => runState'[q] = runState[q]
    BY <1>13, StateUnmerged DEF PrMergeGh, FailMerge
  <2>3. CASE \E out \in {"ok", "error"} : EndOp(o, r, out)
    BY <2>1, <2>2, <2>3, EndsOn
  <2>4. CASE \E place \in Pcs : /\ Goto(<<o, r>>, place) /\ UNCHANGED runOp
                                 /\ Fits(o, place, runState'[r])
    BY <2>1, <2>2, <2>4, WorksOn
  <2> QED BY <1>13, <2>3, <2>4, <2>1, FitsAt, FitsMeans, StateSet, PlacesInPcs, CrewIds
          DEF PrMergeGh, At, FailMerge
<1>14. ASSUME NEW o \in Ops, NEW r \in Runs, MergeFinish(o, r) PROVE StageMove
  BY <1>14, FinishesOn DEF MergeFinish, At, Serving, Busy, InPlace
<1>15. ASSUME NEW o \in Ops, NEW r \in Runs, PrMergeAfter(o, r) PROVE StageMove
  <2>1. phase = "up" /\ Busy(<<o, r>>) /\ InPlace
    BY <1>15 DEF PrMergeAfter, At, Serving, Busy, InPlace
  <2>2. CASE FinishClientMerge(o, r)
    BY <2>1, <2>2, FinishesOn
  <2>3. CASE Unmerging(r) /\ \E out \in {"ok", "error"} : EndOp(o, r, out)
    BY <2>1, <2>3, StateUnmerged, EndsOn
  <2> QED BY <1>15, <2>2, <2>3 DEF PrMergeAfter, FailMerge
<1>16. ASSUME NEW r \in Runs, GithubMerges(r) PROVE StageMove
  BY <1>16, StaysCalm DEF GithubMerges, InPlace, StateStays
<1>17. ASSUME NEW r \in Runs, PollStart(r) PROVE StageMove
  BY <1>17, StaysCalm DEF PollStart, InPlace, StateStays
<1>18. ASSUME NEW r \in Runs, ApplyPrView(r) PROVE StageMove
  <2>1. phase = "up" /\ InPlace
    BY <1>18 DEF ApplyPrView, Serving, InPlace
  <2>2. CASE WebCompletes(r) /\ FinishMerge(Web, r, OtherRuns(r)) /\ Goto(<<Post, r>>, "keep")
    <3>1. \A q \in Runs : CrewStays(q)
      BY <2>2, CrewGoes, CrewIds DEF CrewStays
    <3>2. /\ runState'[r] = "merged"
          /\ \A q \in Runs : q # r => runState'[q] = runState[q] /\ runOp'[q] = runOp[q]
      BY <2>2, StateSet DEF FinishMerge, TypeOK
    <3>3. \A q \in Runs : q # r => Steady(q)
      BY <3>1, <3>2 DEF Steady, StateStays, OpStays
    <3> QED BY <2>1, <2>2, <3>1, <3>2, <3>3 DEF StageMove, MergedOnWeb, WebCompletes
  <2>3. CASE UNCHANGED <<runOp, pc, runState>>
    BY <2>1, <2>3, StaysCalm DEF StateStays
  <2> QED BY <1>18, <2>2, <2>3 DEF ApplyPrView
<1>19. ASSUME NEW o \in Ops, NEW r \in Runs, DiscardCheck(o, r) PROVE StageMove
  <2>1. /\ phase = "up" /\ Busy(<<o, r>>) /\ InPlace
        /\ Fits(o, pc[<<o, r>>], runState[r])
    BY <1>19, OpAlone DEF DiscardCheck, At, Serving, Busy, InPlace
  <2>2. \A q \in Runs : q # r => runState'[q] = runState[q]
    BY <1>19, StateSet DEF DiscardCheck
  <2>3. CASE \E out \in {"ok", "error"} : EndOp(o, r, out)
    BY <2>1, <2>2, <2>3, EndsOn
  <2>4. CASE \E place \in Pcs : /\ Goto(<<o, r>>, place) /\ UNCHANGED runOp
                                 /\ Fits(o, place, runState'[r])
    BY <2>1, <2>2, <2>4, WorksOn
  <2> QED BY <1>19, <2>3, <2>4, <2>1, FitsAt, FitsMeans, StateSet, PlacesInPcs, CrewIds
          DEF DiscardCheck, At
<1>20. ASSUME NEW o \in Ops \cup {Post}, NEW r \in Runs, RemoveLock(o, r) PROVE StageMove
  <2>1. CASE o = Post
    <3>1. Goto(<<Post, r>>, "remove") /\ UNCHANGED <<runState, runOp>> /\ InPlace
      BY <1>20, <2>1 DEF RemoveLock, InPlace
    <3> QED BY <3>1, PostCalm DEF OpStays
  <2>2. CASE o \in Ops
    <3>1. /\ phase = "up" /\ Busy(<<o, r>>) /\ InPlace /\ UNCHANGED <<runState, runOp>>
          /\ pc[<<o, r>>] = "dwait" /\ Goto(<<o, r>>, "remove")
      BY <1>20 DEF RemoveLock, At, Serving, Busy, InPlace
    <3>2. runState[r] \in Rested
      BY <2>2, <3>1, OpAlone, FitsMeans, CrewIds
    <3> QED BY <2>2, <3>1, <3>2, WorksOn, FitsAt
  <2> QED BY <2>1, <2>2
<1>21. ASSUME NEW o \in Ops, NEW r \in Runs, DiscardRemove(o, r) PROVE StageMove
  <2>1. /\ phase = "up" /\ Busy(<<o, r>>) /\ InPlace
        /\ Fits(o, pc[<<o, r>>], runState[r])
    BY <1>21, OpAlone DEF DiscardRemove, At, Serving, Busy, InPlace
  <2>2. \A q \in Runs : q # r => runState'[q] = runState[q]
    BY <1>21, StateSet DEF DiscardRemove
  <2>3. CASE \E out \in {"ok", "error"} : EndOp(o, r, out)
    BY <2>1, <2>2, <2>3, EndsOn
  <2>4. CASE \E place \in Pcs : /\ Goto(<<o, r>>, place) /\ UNCHANGED runOp
                                 /\ Fits(o, place, runState'[r])
    BY <2>1, <2>2, <2>4, WorksOn
  <2> QED BY <1>21, <2>3, <2>4, <2>1, FitsAt, FitsMeans, StateSet, PlacesInPcs, CrewIds
          DEF DiscardRemove, At
<1>22. ASSUME NEW o \in Ops, NEW r \in Runs, DiscardDone(o, r) PROVE StageMove
  <2>1. /\ phase = "up" /\ Busy(<<o, r>>) /\ InPlace
        /\ Fits(o, pc[<<o, r>>], runState[r])
    BY <1>22, OpAlone DEF DiscardDone, At, Serving, Busy, InPlace
  <2>2. \A q \in Runs : q # r => runState'[q] = runState[q]
    BY <1>22, StateDiscarded DEF DiscardDone
  <2>3. CASE \E out \in {"ok", "error"} : EndOp(o, r, out)
    BY <2>1, <2>2, <2>3, EndsOn
  <2> QED BY <1>22, <2>3 DEF DiscardDone
<1>23. ASSUME NEW r \in Runs, PostKeep(r) PROVE StageMove
  <2>1. InPlace /\ UNCHANGED <<runState, runOp>> /\ \E place \in Pcs : Goto(<<Post, r>>, place)
    BY <1>23, PlacesInPcs DEF PostKeep, InPlace
  <2> QED BY <2>1, PostCalm DEF OpStays
<1>24. ASSUME NEW r \in Runs, PostCheck(r) PROVE StageMove
  <2>1. InPlace /\ UNCHANGED <<runState, runOp>> /\ \E place \in Pcs : Goto(<<Post, r>>, place)
    BY <1>24, PlacesInPcs DEF PostCheck, InPlace
  <2> QED BY <2>1, PostCalm DEF OpStays
<1>25. ASSUME NEW r \in Runs, PostRemove(r) PROVE StageMove
  <2>1. InPlace /\ UNCHANGED <<runState, runOp>> /\ \E place \in Pcs : Goto(<<Post, r>>, place)
    BY <1>25, PlacesInPcs DEF PostRemove, InPlace
  <2> QED BY <2>1, PostCalm DEF OpStays
<1>26. ASSUME NEW r \in Runs, NEW q \in Runs, PostSkip(r, q) PROVE StageMove
  BY <1>26, StaysCalm DEF PostSkip, InPlace, StateStays
<1>27. ASSUME NEW r \in Runs, NEW q \in Runs, PostDiscard(r, q) PROVE StageMove
  <2>1. \A s \in Runs : CrewStays(s)
    BY <1>27, CrewGoes, CrewIds DEF PostDiscard, CrewStays
  <2>2. TakesOther(r, q)
    BY <1>27, <2>1 DEF PostDiscard, At, Serving, TakesOther, Rested, OpStays, AtBecomes, TypeOK
  <2> QED BY <2>2 DEF StageMove
<1>28. ASSUME NEW r \in Runs, PostOtherLock(r) PROVE StageMove
  <2>1. InPlace /\ UNCHANGED <<runState, runOp>> /\ \E place \in Pcs : Goto(<<Post, r>>, place)
    BY <1>28, PlacesInPcs DEF PostOtherLock, InPlace
  <2> QED BY <2>1, PostCalm DEF OpStays
<1>29. ASSUME NEW r \in Runs, PostOtherRemove(r) PROVE StageMove
  <2>1. phase = "up" /\ pc[<<Post, r>>] = "oremove" /\ UNCHANGED <<runState, phase, rec, recAt>>
    BY <1>29 DEF PostOtherRemove, At, Serving
  <2>2. CASE Goto(<<Post, r>>, "oremoved") /\ UNCHANGED <<runOp, postAt>>
    BY <2>1, <2>2, PostCalm DEF OpStays, InPlace
  <2>3. CASE PostRelease(r, postAt[r])
    BY <2>1, <2>3, PostDrops
  <2> QED BY <1>29, <2>2, <2>3 DEF PostOtherRemove
<1>30. ASSUME NEW r \in Runs, PostOtherDone(r) PROVE StageMove
  <2>1. /\ phase = "up" /\ pc[<<Post, r>>] = "oremoved" /\ PostRelease(r, postAt[r])
        /\ UNCHANGED <<phase, rec, recAt>> /\ Discarded(postAt[r])
    BY <1>30 DEF PostOtherDone, At, Serving
  <2>2. postAt[r] \in Runs
    BY <2>1, PostAtIs DEF LifeInv, OthersPcs
  <2> QED BY <2>1, <2>2, StateDiscarded, PostDrops
<1>31. ASSUME NEW r \in Runs, PostEnd(r) PROVE StageMove
  <2>1. Goto(<<Post, r>>, "idle") /\ InPlace /\ UNCHANGED runState /\ \A q \in Runs : OpStays(q)
    BY <1>31 DEF PostEnd, InPlace, OpStays, TypeOK
  <2> QED BY <2>1, PostCalm
<1>32. ASSUME NEW o \in Ops, NEW r \in Runs, FixStart(o, r) PROVE StageMove
  <2>1. /\ phase = "up" /\ Busy(<<o, r>>) /\ InPlace
        /\ Fits(o, pc[<<o, r>>], runState[r])
    BY <1>32, OpAlone DEF FixStart, At, Serving, Busy, InPlace
  <2>2. \A q \in Runs : q # r => runState'[q] = runState[q]
    BY <1>32, StateSet DEF FixStart
  <2>4. CASE \E place \in Pcs : /\ Goto(<<o, r>>, place) /\ UNCHANGED runOp
                                 /\ Fits(o, place, runState'[r])
    BY <2>1, <2>2, <2>4, WorksOn
  <2> QED BY <1>32, <2>4, <2>1, FitsAt, FitsMeans, StateSet, PlacesInPcs, CrewIds
          DEF FixStart, At, Rested, InWork
<1>33. ASSUME NEW o \in Ops, NEW r \in Runs, Reopen(o, r) PROVE StageMove
  <2>1. /\ phase = "up" /\ Busy(<<o, r>>) /\ InPlace
        /\ Fits(o, pc[<<o, r>>], runState[r])
    BY <1>33, OpAlone DEF Reopen, At, Serving, Busy, InPlace
  <2>2. \A q \in Runs : q # r => runState'[q] = runState[q]
    BY <1>33, StateSet DEF Reopen
  <2>3. CASE \E out \in {"ok", "error"} : EndOp(o, r, out)
    BY <2>1, <2>2, <2>3, EndsOn
  <2>4. CASE \E place \in Pcs : /\ Goto(<<o, r>>, place) /\ UNCHANGED runOp
                                 /\ Fits(o, place, runState'[r])
    BY <2>1, <2>2, <2>4, WorksOn
  <2> QED BY <1>33, <2>3, <2>4, <2>1, FitsAt, FitsMeans, StateSet, PlacesInPcs, CrewIds
          DEF Reopen, At, Rested, InWork
<1>34. ASSUME NEW o \in Ops, NEW r \in Runs, ReopenLock(o, r) PROVE StageMove
  <2>1. /\ phase = "up" /\ Busy(<<o, r>>) /\ InPlace
        /\ Fits(o, pc[<<o, r>>], runState[r])
    BY <1>34, OpAlone DEF ReopenLock, At, Serving, Busy, InPlace
  <2>2. \A q \in Runs : q # r => runState'[q] = runState[q]
    BY <1>34, StateSet DEF ReopenLock
  <2>4. CASE \E place \in Pcs : /\ Goto(<<o, r>>, place) /\ UNCHANGED runOp
                                 /\ Fits(o, place, runState'[r])
    BY <2>1, <2>2, <2>4, WorksOn
  <2> QED BY <1>34, <2>4, <2>1, FitsAt, FitsMeans, StateSet, PlacesInPcs, CrewIds
          DEF ReopenLock, At
<1>35. ASSUME NEW o \in Ops, NEW r \in Runs, ReopenAdd(o, r) PROVE StageMove
  <2>1. /\ phase = "up" /\ Busy(<<o, r>>) /\ InPlace
        /\ Fits(o, pc[<<o, r>>], runState[r])
    BY <1>35, OpAlone DEF ReopenAdd, At, Serving, Busy, InPlace
  <2>2. \A q \in Runs : q # r => runState'[q] = runState[q]
    BY <1>35, StateSet DEF ReopenAdd
  <2>3. CASE \E out \in {"ok", "error"} : EndOp(o, r, out)
    BY <2>1, <2>2, <2>3, EndsOn
  <2>4. CASE \E place \in Pcs : /\ Goto(<<o, r>>, place) /\ UNCHANGED runOp
                                 /\ Fits(o, place, runState'[r])
    BY <2>1, <2>2, <2>4, WorksOn
  <2> QED BY <1>35, <2>3, <2>4, <2>1, FitsAt, FitsMeans, StateSet, PlacesInPcs, CrewIds
          DEF ReopenAdd, At
<1>36. ASSUME NEW t \in Tasks, CreateLock(t) PROVE StageMove
  <2>1. phase = "up" /\ InPlace /\ UNCHANGED <<runState, runOp>>
    BY <1>36 DEF CreateLock, Serving, InPlace
  <2>2. \A p \in Crew, r \in Runs :
          \/ pc'[<<p, r>>] = pc[<<p, r>>]
          \/ p = Create /\ pc[<<p, r>>] = "wtwait" /\ pc'[<<p, r>>] = "add"
    BY <1>36, CrewIds DEF CreateLock
  <2>3. ASSUME NEW r \in Runs PROVE Steady(r) \/ Working(Create, r)
    <3>1. CASE pc[<<Create, r>>] = "wtwait" /\ pc'[<<Create, r>>] = "add"
      <4>1. Busy(<<Create, r>>)
        BY <3>1 DEF Busy
      <4>2. runState'[r] = "creating"
        BY <2>1, <3>1, <4>1, CreateAlone, FitsMeans, CrewIds
      <4> QED BY <2>2, <3>1, <4>1, <4>2, FitsAt, CrewIds DEF Working
    <3>2. CASE pc'[<<Create, r>>] = pc[<<Create, r>>]
      BY <2>1, <2>2, <3>2 DEF Steady, StateStays, CrewStays, OpStays
    <3> QED BY <2>2, <3>1, <3>2, CrewIds
  <2> QED BY <2>1, <2>3 DEF StageMove, Creates, InPlace
<1>37. ASSUME NEW t \in Tasks, CreateUnlock(t) PROVE StageMove
  <2>1. phase = "up" /\ InPlace /\ UNCHANGED <<runState, runOp>>
    BY <1>37 DEF CreateUnlock, Serving, InPlace
  <2>2. \A p \in Crew, r \in Runs :
          \/ pc'[<<p, r>>] = pc[<<p, r>>]
          \/ p = Create /\ pc[<<p, r>>] = "added" /\ pc'[<<p, r>>] = "prep"
    BY <1>37, CrewIds DEF CreateUnlock
  <2>3. ASSUME NEW r \in Runs PROVE Steady(r) \/ Working(Create, r)
    <3>1. CASE pc[<<Create, r>>] = "added" /\ pc'[<<Create, r>>] = "prep"
      <4>1. Busy(<<Create, r>>)
        BY <3>1 DEF Busy
      <4>2. runState'[r] = "creating"
        BY <2>1, <3>1, <4>1, CreateAlone, FitsMeans, CrewIds
      <4> QED BY <2>2, <3>1, <4>1, <4>2, FitsAt, CrewIds DEF Working
    <3>2. CASE pc'[<<Create, r>>] = pc[<<Create, r>>]
      BY <2>1, <2>2, <3>2 DEF Steady, StateStays, CrewStays, OpStays
    <3> QED BY <2>2, <3>1, <3>2, CrewIds
  <2> QED BY <2>1, <2>3 DEF StageMove, Creates, InPlace
<1>38. ASSUME NEW t \in Tasks, LaunchAll(t) PROVE StageMove
  <2>1. phase = "up" /\ InPlace /\ UNCHANGED runOp
    BY <1>38 DEF LaunchAll, Serving, InPlace
  <2>2. ASSUME NEW r \in Runs, pc[<<Create, r>>] = "prepared" PROVE runState[r] = "creating"
    BY <2>2, CreateAlone, FitsMeans, CrewIds DEF Busy
  <2>3. \A p \in Crew, r \in Runs :
          \/ pc'[<<p, r>>] = pc[<<p, r>>] /\ (p = Create => runState'[r] = runState[r])
          \/ /\ p = Create /\ pc[<<p, r>>] = "prepared" /\ pc'[<<p, r>>] = "starting"
             /\ runState'[r] = "launching"
    BY <1>38, <2>2, CrewIds DEF LaunchAll
  <2>4. ASSUME NEW r \in Runs PROVE Steady(r) \/ Working(Create, r)
    <3>1. CASE /\ pc[<<Create, r>>] = "prepared" /\ pc'[<<Create, r>>] = "starting"
               /\ runState'[r] = "launching"
      BY <2>3, <3>1, FitsAt, CrewIds DEF Working, Busy
    <3>2. CASE pc'[<<Create, r>>] = pc[<<Create, r>>] /\ runState'[r] = runState[r]
      BY <2>1, <2>3, <3>2 DEF Steady, StateStays, CrewStays, OpStays
    <3> QED BY <2>3, <3>1, <3>2, CrewIds
  <2> QED BY <2>1, <2>4 DEF StageMove, Creates, InPlace
<1>39. ASSUME NEW r \in Runs, AddWorktree(r) PROVE StageMove
  <2>1. /\ phase = "up" /\ InPlace /\ UNCHANGED runOp /\ pc[<<Create, r>>] = "add"
        /\ Busy(<<Create, r>>)
    BY <1>39 DEF AddWorktree, At, Serving, InPlace, Busy
  <2>2. \A q \in Runs : q # r => runState'[q] = runState[q]
    BY <1>39, StateSet DEF AddWorktree
  <2>3. runState[r] = "creating"
    BY <2>1, CreateAlone, FitsMeans, CrewIds
  <2>4. \/ Goto(<<Create, r>>, "added") /\ UNCHANGED runState
        \/ Goto(<<Create, r>>, "idle")
    BY <1>39 DEF AddWorktree
  <2> QED BY <2>1, <2>2, <2>3, <2>4, CreatesOn, FitsAt, CrewIds
<1>40. ASSUME NEW o \in Ops \cup {Create}, NEW r \in Runs, PrepareRun(o, r) PROVE StageMove
  <2>1. phase = "up" /\ Busy(<<o, r>>) /\ InPlace /\ o \in Crew
    BY <1>40 DEF PrepareRun, At, Serving, Busy, InPlace, Crew
  <2>2. Fits(o, pc[<<o, r>>], runState[r])
    BY <2>1 DEF LifeInv, StageInv, Staged
  <2>3. \A q \in Runs : q # r => runState'[q] = runState[q]
    BY <1>40, StateSet DEF PrepareRun
  <2>4. CASE \E out \in {"ok", "error"} : PipelineEnd(o, r, out)
    BY <2>1, <2>3, <2>4, EndsOn, CreatesOn DEF PipelineEnd
  <2>5. CASE \E place \in Pcs : /\ Goto(<<o, r>>, place) /\ UNCHANGED runOp
                                 /\ Fits(o, place, runState'[r])
    BY <2>1, <2>3, <2>5, WorksOn, CreatesOn
  <2> QED BY <1>40, <2>1, <2>2, <2>4, <2>5, FitsAt, FitsMeans, StateSet, PlacesInPcs, CrewIds
          DEF PrepareRun, At
<1>41. ASSUME NEW o \in Ops \cup {Create}, NEW r \in Runs, Launched(o, r) PROVE StageMove
  <2>1. phase = "up" /\ Busy(<<o, r>>) /\ InPlace /\ o \in Crew
    BY <1>41 DEF Launched, At, Serving, Busy, InPlace, Crew
  <2>2. Fits(o, pc[<<o, r>>], runState[r])
    BY <2>1 DEF LifeInv, StageInv, Staged
  <2>3. \A q \in Runs : q # r => runState'[q] = runState[q]
    BY <1>41, StateSet DEF Launched
  <2>4. CASE \E out \in {"ok", "error"} : PipelineEnd(o, r, out)
    BY <2>1, <2>3, <2>4, EndsOn, CreatesOn DEF PipelineEnd
  <2>5. CASE \E place \in Pcs : /\ Goto(<<o, r>>, place) /\ UNCHANGED runOp
                                 /\ Fits(o, place, runState'[r])
    BY <2>1, <2>3, <2>5, WorksOn, CreatesOn
  <2> QED BY <1>41, <2>1, <2>2, <2>4, <2>5, FitsAt, FitsMeans, StateSet, PlacesInPcs, CrewIds
          DEF Launched, At, InWork
<1>42. ASSUME NEW o \in Ops \cup {Create}, NEW r \in Runs, AgentReady(o, r) PROVE StageMove
  <2>1. phase = "up" /\ Busy(<<o, r>>) /\ InPlace /\ o \in Crew
    BY <1>42 DEF AgentReady, At, Serving, Busy, InPlace, Crew
  <2>2. Fits(o, pc[<<o, r>>], runState[r])
    BY <2>1 DEF LifeInv, StageInv, Staged
  <2>3. \A q \in Runs : q # r => runState'[q] = runState[q]
    BY <1>42, StateSet DEF AgentReady
  <2>4. CASE \E out \in {"ok", "error"} : PipelineEnd(o, r, out)
    BY <2>1, <2>3, <2>4, EndsOn, CreatesOn DEF PipelineEnd
  <2>5. CASE \E place \in Pcs : /\ Goto(<<o, r>>, place) /\ UNCHANGED runOp
                                 /\ Fits(o, place, runState'[r])
    BY <2>1, <2>3, <2>5, WorksOn, CreatesOn
  <2> QED BY <1>42, <2>1, <2>2, <2>4, <2>5, FitsAt, FitsMeans, StateSet, PlacesInPcs, CrewIds
          DEF AgentReady, At
<1>43. ASSUME NEW o \in Ops \cup {Create}, NEW r \in Runs, DeliverPrompt(o, r) PROVE StageMove
  <2>1. phase = "up" /\ Busy(<<o, r>>) /\ InPlace /\ o \in Crew
    BY <1>43 DEF DeliverPrompt, At, Serving, Busy, InPlace, Crew
  <2>2. Fits(o, pc[<<o, r>>], runState[r])
    BY <2>1 DEF LifeInv, StageInv, Staged
  <2>3. \A q \in Runs : q # r => runState'[q] = runState[q]
    BY <1>43, StateSet DEF DeliverPrompt
  <2>4. CASE \E out \in {"ok", "error"} : PipelineEnd(o, r, out)
    BY <2>1, <2>3, <2>4, EndsOn, CreatesOn DEF PipelineEnd
  <2> QED BY <1>43, <2>4 DEF DeliverPrompt
<1>44. ASSUME NEW r \in Runs, AgentWorking(r) PROVE StageMove
  <2>1. \A q \in Runs : StateStays(q)
    BY <1>44, StateSet DEF AgentWorking, StateStays, Heard
  <2> QED BY <1>44, <2>1, StaysCalm DEF AgentWorking, InPlace
<1>45. ASSUME NEW r \in Runs, AgentStops(r) PROVE StageMove
  BY <1>45, StaysCalm DEF AgentStops, InPlace, StateStays
<1>46. ASSUME NEW r \in Runs, EvaluateTurn(r) PROVE StageMove
  <2>1. \A q \in Runs : StateStays(q)
    BY <1>46, StateSet DEF EvaluateTurn, StateStays
  <2> QED BY <1>46, <2>1, StaysCalm DEF EvaluateTurn, InPlace
<1>47. ASSUME NEW r \in Runs, WorktreeLost(r) PROVE StageMove
  BY <1>47, StaysCalm DEF WorktreeLost, InPlace, StateStays
<1>48. ASSUME NEW r \in Runs, AgentOpensPr(r) PROVE StageMove
  BY <1>48, StaysCalm DEF AgentOpensPr, InPlace, StateStays
<1>49. ASSUME NEW r \in Runs, ReconcileOp(r) PROVE StageMove
  BY <1>49 DEF StageMove
<1>50. ASSUME NEW r \in Runs, ReconcileState(r) PROVE StageMove
  BY <1>50 DEF StageMove
<1>51. CASE Crash
  BY <1>51 DEF StageMove
<1>52. CASE Restart
  BY <1>52 DEF StageMove
<1>53. CASE BootDone
  <2>1. phase = "boot" /\ phase' = "up" /\ UNCHANGED <<runState, runOp, postAt, rec, recAt>>
    BY <1>53 DEF BootDone
  <2>2. \A p \in Crew, r \in Runs :
          pc'[<<p, r>>] = IF pc[<<p, r>>] = "resume" THEN "prep" ELSE pc[<<p, r>>]
    BY <1>53, CrewIds DEF BootDone
  <2>3. \A p \in Ops, r \in Runs : pc[<<p, r>>] # "resume"
    BY <2>1 DEF LifeInv, OpInv, Booting, Busy
  <2>4. ASSUME NEW r \in Runs PROVE Steady(r) \/ Working(Create, r)
    <3>1. CASE pc[<<Create, r>>] = "resume"
      <4>1. Busy(<<Create, r>>) /\ runState'[r] = "creating"
        BY <2>1, <3>1, CreateAlone, FitsMeans, CrewIds DEF Busy
      <4> QED BY <2>2, <2>3, <3>1, <4>1, FitsAt, CrewIds DEF Working, Crew
    <3>2. CASE pc[<<Create, r>>] # "resume"
      BY <2>1, <2>2, <2>3, <3>2 DEF Steady, StateStays, CrewStays, OpStays, Crew
    <3> QED BY <3>1, <3>2
  <2> QED BY <2>1, <2>4 DEF StageMove, Creates
<1>54. CASE UNCHANGED vars
  BY <1>54, StaysCalm DEF vars, InPlace, StateStays
<1> QED
  BY <1>1, <1>2, <1>3, <1>4, <1>5, <1>6, <1>7, <1>8, <1>9, <1>10, <1>11, <1>12, <1>13,
     <1>14, <1>15, <1>16, <1>17, <1>18, <1>19, <1>20, <1>21, <1>22, <1>23, <1>24,
     <1>25, <1>26, <1>27, <1>28, <1>29, <1>30, <1>31, <1>32, <1>33, <1>34, <1>35,
     <1>36, <1>37, <1>38, <1>39, <1>40, <1>41, <1>42, <1>43, <1>44, <1>45, <1>46,
     <1>47, <1>48, <1>49, <1>50, <1>51, <1>52, <1>53, <1>54
  DEF Next, Request, OpStep, MergeStep, DiscardStep, PipelineStep, CreateStep, PostStep, Boot,
      Agent, World, RunsOf

-----------------------------------------------------------------------------
(* Worktrees and pull requests *)

\* What a run with a pull request is not.
LEMMA PrTells ==
  ASSUME LifeInv, NEW r \in Runs, pr[r] # "none"
  PROVE  r \in based /\ runState[r] # "creating" /\ ~Busy(<<Create, r>>)
  BY DEF LifeInv, StageInv, PullRequests

\* Steps that leave the pull requests alone, and add no worktree.
LEMMA WorldGoes ==
  ASSUME LifeInv, UNCHANGED <<based, pr>>, wt' \subseteq wt,
         \A r \in Runs : runState'[r] = "creating" => runState[r] = "creating",
         \A o \in Ops, r \in Runs : pc'[<<o, r>>] = "ghmerge" => pc[<<o, r>>] = "ghmerge"
  PROVE  WorldStep
  BY DEF WorldStep, LifeInv, StageInv, PullRequests

\* Steps that leave states, bodies, worktrees and pull requests alone.
LEMMA WorldStill ==
  ASSUME LifeInv, UNCHANGED <<based, pr, wt, runState, pc>>
  PROVE  WorldStep
  BY WorldGoes

\* A body that goes elsewhere than to gh pr merge.
LEMMA GoesElsewhere ==
  ASSUME TypeOK, NEW p \in Crew \cup {Post}, NEW r \in Runs, NEW place, Goto(<<p, r>>, place),
         place # "ghmerge"
  PROVE  \A o \in Ops, q \in Runs : pc'[<<o, q>>] = "ghmerge" => pc[<<o, q>>] = "ghmerge"
<1>1. pc'[<<p, r>>] = place /\ \A o \in Crew, q \in Runs : o # p \/ q # r => pc'[<<o, q>>] = pc[<<o, q>>]
  BY CrewGoes
<1> QED BY <1>1, CrewIds

\* Every step keeps to WorldStep.
LEMMA WorldSteps ==
  ASSUME BootOverlap = FALSE, LifeInv, TypeOK, [Next]_vars
  PROVE  WorldStep
<1> USE DEF records, taskRec, opRec, world, posting, locks, timers, volatile, process
<1>1. ASSUME NEW o \in Ops, NEW r \in Runs, RequestOp(o, r) PROVE WorldStep
  <2>1. Goto(<<o, r>>, FirstPc(o)) /\ UNCHANGED <<based, pr, wt, runState>>
    BY <1>1 DEF RequestOp, BeginOp
  <2>2. FirstPc(o) # "ghmerge"
    BY RunsAssumption DEF FirstPc, Kinds
  <2>3. \A p \in Ops, q \in Runs : pc'[<<p, q>>] = "ghmerge" => pc[<<p, q>>] = "ghmerge"
    BY <2>1, <2>2, CrewGoes, CrewIds, ZenonT(60)
  <2> QED BY <2>1, <2>3, WorldGoes
<1>2. ASSUME NEW o \in Ops, NEW r \in Runs, RequestMerge(o, r) PROVE WorldStep
  <2>1. Goto(<<o, r>>, FirstPc(o)) /\ UNCHANGED <<based, pr, wt, runState>>
    BY <1>2 DEF RequestMerge, BeginOp
  <2>2. FirstPc(o) # "ghmerge"
    BY RunsAssumption DEF FirstPc, Kinds
  <2>3. \A p \in Ops, q \in Runs : pc'[<<p, q>>] = "ghmerge" => pc[<<p, q>>] = "ghmerge"
    BY <2>1, <2>2, CrewGoes, CrewIds, ZenonT(60)
  <2> QED BY <2>1, <2>3, WorldGoes
<1>3. ASSUME NEW o \in Ops, NEW r \in Runs, RefuseMerge(o, r) PROVE WorldStep
  BY <1>3, WorldStill DEF RefuseMerge
<1>4. ASSUME NEW o \in Ops, NEW t \in Tasks, DiscardAll(o, t) PROVE WorldStep
  <2>1. UNCHANGED <<based, pr>> /\ wt' \subseteq wt
    BY <1>4 DEF DiscardAll
  <2>2. \A q \in Runs : runState'[q] = "creating" => runState[q] = "creating"
    BY <1>4, StateSet DEF DiscardAll
  <2>3. \A p \in Ops, q \in Runs : pc'[<<p, q>>] = "ghmerge" => pc[<<p, q>>] = "ghmerge"
    BY <1>4, InBodies DEF DiscardAll
  <2> QED BY <2>1, <2>2, <2>3, WorldGoes
<1>5. ASSUME NEW t \in Tasks, DeleteTask(t) PROVE WorldStep
  BY <1>5, WorldStill DEF DeleteTask
<1>6. ASSUME NEW r \in Runs, PrStatus(r) PROVE WorldStep
  BY <1>6, WorldStill DEF PrStatus
<1>7. ASSUME NEW r \in Runs, PromptDelivered(r) PROVE WorldStep
  <2>1. \A q \in Runs : runState'[q] = "creating" => runState[q] = "creating"
    BY <1>7, StateSet DEF PromptDelivered
  <2> QED BY <1>7, <2>1, WorldGoes DEF PromptDelivered
<1>8. ASSUME NEW o \in Ops, NEW r \in Runs, EndGit(o, r) PROVE WorldStep
  <2>1. UNCHANGED <<based, wt, runState>> /\ pc[<<o, r>>] = "git" /\ Busy(<<o, r>>)
        /\ Goto(<<o, r>>, "idle")
    BY <1>8 DEF EndGit, At, Busy, EndOp
  <2>2. runState[r] # "creating" /\ ~Busy(<<Create, r>>)
    BY <2>1, OpAlone, FitsMeans, CrewIds DEF Rested
  <2>3. \A q \in Runs : pr'[q] = pr[q] \/ (q = r /\ r \in wt /\ pr'[q] # "none")
    BY <1>8 DEF EndGit, PrOpened, TypeOK
  <2>4. \A p \in Ops, q \in Runs : pc'[<<p, q>>] = "ghmerge" => pc[<<p, q>>] = "ghmerge"
    <3>1. Goto(<<o, r>>, "idle")
      BY <1>8 DEF EndGit, EndOp
    <3> QED BY <3>1, GoesElsewhere, CrewIds DEF Crew
  <2> QED BY <2>1, <2>2, <2>3, <2>4 DEF WorldStep, LifeInv, StageInv, PullRequests
<1>9. ASSUME NEW o \in Ops, NEW r \in Runs, MergeStatus(o, r) PROVE WorldStep
  <2>1. UNCHANGED <<based, pr>> /\ wt' \subseteq wt
    BY <1>9 DEF MergeStatus
  <2>2. \A q \in Runs : runState'[q] = "creating" => runState[q] = "creating"
    BY <1>9, StateSet, StateUnmerged DEF MergeStatus, FailMerge
  <2>3. \A p \in Ops, q \in Runs : pc'[<<p, q>>] = "ghmerge" => pc[<<p, q>>] = "ghmerge"
    <3>1. Goto(<<o, r>>, "idle") \/ Goto(<<o, r>>, "mwait") \/ Goto(<<o, r>>, "view")
      BY <1>9 DEF MergeStatus, FailMerge, EndOp
    <3> QED BY <3>1, GoesElsewhere, CrewIds DEF Crew
  <2> QED BY <2>1, <2>2, <2>3, WorldGoes
<1>10. ASSUME NEW o \in Ops, NEW r \in Runs, MergeLock(o, r) PROVE WorldStep
  <2>1. UNCHANGED <<based, pr>> /\ wt' \subseteq wt
    BY <1>10 DEF MergeLock
  <2>2. \A q \in Runs : runState'[q] = "creating" => runState[q] = "creating"
    BY <1>10, StateUnmerged DEF MergeLock, FailMerge
  <2>3. \A p \in Ops, q \in Runs : pc'[<<p, q>>] = "ghmerge" => pc[<<p, q>>] = "ghmerge"
    <3>1. Goto(<<o, r>>, "idle") \/ Goto(<<o, r>>, "merge")
      BY <1>10 DEF MergeLock, FailMerge, EndOp
    <3> QED BY <3>1, GoesElsewhere, CrewIds DEF Crew
  <2> QED BY <2>1, <2>2, <2>3, WorldGoes
<1>11. ASSUME NEW o \in Ops, NEW r \in Runs, MergeGit(o, r) PROVE WorldStep
  <2>1. UNCHANGED <<based, pr>> /\ wt' \subseteq wt
    BY <1>11 DEF MergeGit
  <2>2. \A q \in Runs : runState'[q] = "creating" => runState[q] = "creating"
    BY <1>11, StateUnmerged DEF MergeGit, FailMerge
  <2>3. \A p \in Ops, q \in Runs : pc'[<<p, q>>] = "ghmerge" => pc[<<p, q>>] = "ghmerge"
    <3>1. Goto(<<o, r>>, "idle") \/ Goto(<<o, r>>, "finish")
      BY <1>11 DEF MergeGit, FailMerge, EndOp
    <3> QED BY <3>1, GoesElsewhere, CrewIds DEF Crew
  <2> QED BY <2>1, <2>2, <2>3, WorldGoes
<1>12. ASSUME NEW o \in Ops, NEW r \in Runs, PrMergeView(o, r) PROVE WorldStep
  <2>1. UNCHANGED <<based, pr, wt>>
    BY <1>12 DEF PrMergeView
  <2>2. \A q \in Runs : runState'[q] = "creating" => runState[q] = "creating"
    BY <1>12, StateUnmerged DEF PrMergeView, FailMerge
  <2>3. \A p \in Ops, q \in Runs :
          pc'[<<p, q>>] = "ghmerge" => pc[<<p, q>>] = "ghmerge" \/ pr[q] # "none"
    <3>1. CASE Goto(<<o, r>>, "idle") \/ Goto(<<o, r>>, "after")
      BY <3>1, GoesElsewhere, CrewIds
    <3>2. CASE Goto(<<o, r>>, "ghmerge") /\ pr[r] # "none"
      BY <3>2, CrewGoes, CrewIds, ZenonT(60)
    <3> QED BY <1>12, <3>1, <3>2 DEF PrMergeView, FailMerge, EndOp
  <2> QED BY <2>1, <2>2, <2>3 DEF WorldStep, LifeInv, StageInv, PullRequests
<1>13. ASSUME NEW o \in Ops, NEW r \in Runs, PrMergeGh(o, r) PROVE WorldStep
  <2>1. UNCHANGED <<based, wt>> /\ pr' \in {pr, [pr EXCEPT ![r] = "merged"]}
        /\ pc[<<o, r>>] = "ghmerge"
    BY <1>13 DEF PrMergeGh, At
  <2>2. pr[r] # "none"
    BY <2>1 DEF LifeInv, StageInv, PullRequests
  <2>3. \A q \in Runs : q # r => pr'[q] = pr[q]
    BY <2>1 DEF TypeOK
  <2>4. pr'[r] \in {pr[r], "merged"}
    BY <2>1 DEF TypeOK
  <2>5. \A q \in Runs : runState'[q] = "creating" => runState[q] = "creating"
    BY <1>13, StateUnmerged DEF PrMergeGh, FailMerge
  <2>6. \A p \in Ops, q \in Runs : pc'[<<p, q>>] = "ghmerge" => pc[<<p, q>>] = "ghmerge"
    <3>1. Goto(<<o, r>>, "idle") \/ Goto(<<o, r>>, "after")
      BY <1>13 DEF PrMergeGh, FailMerge, EndOp
    <3> QED BY <3>1, GoesElsewhere, CrewIds DEF Crew
  <2> QED BY <2>1, <2>2, <2>3, <2>4, <2>5, <2>6, PrTells
          DEF WorldStep, LifeInv, StageInv, PullRequests
<1>14. ASSUME NEW o \in Ops, NEW r \in Runs, MergeFinish(o, r) PROVE WorldStep
  <2>1. UNCHANGED <<based, pr, wt>>
    BY <1>14 DEF MergeFinish
  <2>2. \A q \in Runs : runState'[q] = "creating" => runState[q] = "creating"
    BY <1>14, StateSet, StateUnmerged DEF MergeFinish, FinishClientMerge, FinishMerge, FailMerge
  <2>3. \/ pc' = [pc EXCEPT ![<<o, r>>] = "idle", ![<<Post, r>>] = "keep"]
        \/ Goto(<<o, r>>, "idle")
    BY <1>14 DEF MergeFinish, FinishClientMerge, FailMerge, EndOp
  <2>4. \A p \in Ops, q \in Runs : pc'[<<p, q>>] = "ghmerge" => pc[<<p, q>>] = "ghmerge"
    BY <2>3, CrewIds, InBodies DEF Goto, TypeOK
  <2> QED BY <2>1, <2>2, <2>4, WorldGoes
<1>15. ASSUME NEW o \in Ops, NEW r \in Runs, PrMergeAfter(o, r) PROVE WorldStep
  <2>1. UNCHANGED <<based, pr, wt>>
    BY <1>15 DEF PrMergeAfter
  <2>2. \A q \in Runs : runState'[q] = "creating" => runState[q] = "creating"
    BY <1>15, StateSet, StateUnmerged
    DEF PrMergeAfter, FinishClientMerge, FinishMerge, FailMerge
  <2>3. \/ pc' = [pc EXCEPT ![<<o, r>>] = "idle", ![<<Post, r>>] = "keep"]
        \/ Goto(<<o, r>>, "idle")
    BY <1>15 DEF PrMergeAfter, FinishClientMerge, FailMerge, EndOp
  <2>4. \A p \in Ops, q \in Runs : pc'[<<p, q>>] = "ghmerge" => pc[<<p, q>>] = "ghmerge"
    BY <2>3, CrewIds, InBodies DEF Goto, TypeOK
  <2> QED BY <2>1, <2>2, <2>4, WorldGoes
<1>16. ASSUME NEW r \in Runs, GithubMerges(r) PROVE WorldStep
  <2>1. UNCHANGED <<based, wt, runState, pc>> /\ pr[r] = "open"
        /\ \A q \in Runs : pr'[q] = IF q = r THEN "merged" ELSE pr[q]
    BY <1>16 DEF GithubMerges, TypeOK
  <2> QED BY <2>1, PrTells DEF WorldStep, LifeInv, StageInv, PullRequests
<1>17. ASSUME NEW r \in Runs, PollStart(r) PROVE WorldStep
  BY <1>17, WorldStill DEF PollStart
<1>18. ASSUME NEW r \in Runs, ApplyPrView(r) PROVE WorldStep
  <2>1. UNCHANGED <<based, pr, wt>>
    BY <1>18 DEF ApplyPrView
  <2>2. \A q \in Runs : runState'[q] = "creating" => runState[q] = "creating"
    BY <1>18, StateSet DEF ApplyPrView, FinishMerge
  <2>3. \A p \in Ops, q \in Runs : pc'[<<p, q>>] = "ghmerge" => pc[<<p, q>>] = "ghmerge"
    BY <1>18, CrewGoes, CrewIds, ZenonT(60) DEF ApplyPrView
  <2> QED BY <2>1, <2>2, <2>3, WorldGoes
<1>19. ASSUME NEW o \in Ops, NEW r \in Runs, DiscardCheck(o, r) PROVE WorldStep
  <2>1. UNCHANGED <<based, pr>> /\ wt' \subseteq wt
    BY <1>19 DEF DiscardCheck
  <2>2. \A q \in Runs : runState'[q] = "creating" => runState[q] = "creating"
    BY <1>19, StateSet DEF DiscardCheck
  <2>3. \A p \in Ops, q \in Runs : pc'[<<p, q>>] = "ghmerge" => pc[<<p, q>>] = "ghmerge"
    <3>1. Goto(<<o, r>>, "idle") \/ Goto(<<o, r>>, "dwait")
      BY <1>19 DEF DiscardCheck, EndOp
    <3> QED BY <3>1, GoesElsewhere, CrewIds DEF Crew
  <2> QED BY <2>1, <2>2, <2>3, WorldGoes
<1>20. ASSUME NEW o \in Ops \cup {Post}, NEW r \in Runs, RemoveLock(o, r) PROVE WorldStep
  <2>1. UNCHANGED <<based, pr>> /\ wt' \subseteq wt
    BY <1>20 DEF RemoveLock
  <2>2. \A q \in Runs : runState'[q] = "creating" => runState[q] = "creating"
    BY <1>20, StateSet DEF RemoveLock
  <2>3. \A p \in Ops, q \in Runs : pc'[<<p, q>>] = "ghmerge" => pc[<<p, q>>] = "ghmerge"
    <3>1. Goto(<<o, r>>, "remove")
      BY <1>20 DEF RemoveLock
    <3> QED BY <3>1, GoesElsewhere, CrewIds DEF Crew
  <2> QED BY <2>1, <2>2, <2>3, WorldGoes
<1>21. ASSUME NEW o \in Ops, NEW r \in Runs, DiscardRemove(o, r) PROVE WorldStep
  <2>1. UNCHANGED <<based, pr>> /\ wt' \subseteq wt
    BY <1>21 DEF DiscardRemove
  <2>2. \A q \in Runs : runState'[q] = "creating" => runState[q] = "creating"
    BY <1>21, StateSet DEF DiscardRemove
  <2>3. \A p \in Ops, q \in Runs : pc'[<<p, q>>] = "ghmerge" => pc[<<p, q>>] = "ghmerge"
    <3>1. Goto(<<o, r>>, "idle") \/ Goto(<<o, r>>, "removed")
      BY <1>21 DEF DiscardRemove, EndOp
    <3> QED BY <3>1, GoesElsewhere, CrewIds DEF Crew
  <2> QED BY <2>1, <2>2, <2>3, WorldGoes
<1>22. ASSUME NEW o \in Ops, NEW r \in Runs, DiscardDone(o, r) PROVE WorldStep
  <2>1. UNCHANGED <<based, pr>> /\ wt' \subseteq wt
    BY <1>22 DEF DiscardDone
  <2>2. \A q \in Runs : runState'[q] = "creating" => runState[q] = "creating"
    BY <1>22, StateDiscarded DEF DiscardDone
  <2>3. \A p \in Ops, q \in Runs : pc'[<<p, q>>] = "ghmerge" => pc[<<p, q>>] = "ghmerge"
    <3>1. Goto(<<o, r>>, "idle")
      BY <1>22 DEF DiscardDone, EndOp
    <3> QED BY <3>1, GoesElsewhere, CrewIds DEF Crew
  <2> QED BY <2>1, <2>2, <2>3, WorldGoes
<1>23. ASSUME NEW r \in Runs, PostKeep(r) PROVE WorldStep
  <2>1. UNCHANGED <<based, pr>> /\ wt' \subseteq wt
    BY <1>23 DEF PostKeep
  <2>2. \A q \in Runs : runState'[q] = "creating" => runState[q] = "creating"
    BY <1>23, StateSet DEF PostKeep
  <2>3. \A p \in Ops, q \in Runs : pc'[<<p, q>>] = "ghmerge" => pc[<<p, q>>] = "ghmerge"
    <3>1. Goto(<<Post, r>>, "others") \/ Goto(<<Post, r>>, "check")
      BY <1>23 DEF PostKeep
    <3> QED BY <3>1, GoesElsewhere, CrewIds DEF Crew
  <2> QED BY <2>1, <2>2, <2>3, WorldGoes
<1>24. ASSUME NEW r \in Runs, PostCheck(r) PROVE WorldStep
  <2>1. UNCHANGED <<based, pr>> /\ wt' \subseteq wt
    BY <1>24 DEF PostCheck
  <2>2. \A q \in Runs : runState'[q] = "creating" => runState[q] = "creating"
    BY <1>24, StateSet DEF PostCheck
  <2>3. \A p \in Ops, q \in Runs : pc'[<<p, q>>] = "ghmerge" => pc[<<p, q>>] = "ghmerge"
    <3>1. Goto(<<Post, r>>, "others") \/ Goto(<<Post, r>>, "dwait")
      BY <1>24 DEF PostCheck
    <3> QED BY <3>1, GoesElsewhere, CrewIds DEF Crew
  <2> QED BY <2>1, <2>2, <2>3, WorldGoes
<1>25. ASSUME NEW r \in Runs, PostRemove(r) PROVE WorldStep
  <2>1. UNCHANGED <<based, pr>> /\ wt' \subseteq wt
    BY <1>25 DEF PostRemove
  <2>2. \A q \in Runs : runState'[q] = "creating" => runState[q] = "creating"
    BY <1>25, StateSet DEF PostRemove
  <2>3. \A p \in Ops, q \in Runs : pc'[<<p, q>>] = "ghmerge" => pc[<<p, q>>] = "ghmerge"
    <3>1. Goto(<<Post, r>>, "others")
      BY <1>25 DEF PostRemove
    <3> QED BY <3>1, GoesElsewhere, CrewIds DEF Crew
  <2> QED BY <2>1, <2>2, <2>3, WorldGoes
<1>26. ASSUME NEW r \in Runs, NEW q \in Runs, PostSkip(r, q) PROVE WorldStep
  BY <1>26, WorldStill DEF PostSkip
<1>27. ASSUME NEW r \in Runs, NEW q \in Runs, PostDiscard(r, q) PROVE WorldStep
  <2>1. UNCHANGED <<based, pr>> /\ wt' \subseteq wt
    BY <1>27 DEF PostDiscard
  <2>2. \A s \in Runs : runState'[s] = "creating" => runState[s] = "creating"
    BY <1>27, StateSet DEF PostDiscard
  <2>3. \A p \in Ops, s \in Runs : pc'[<<p, s>>] = "ghmerge" => pc[<<p, s>>] = "ghmerge"
    <3>1. Goto(<<Post, r>>, "owait")
      BY <1>27 DEF PostDiscard
    <3> QED BY <3>1, GoesElsewhere, CrewIds DEF Crew
  <2> QED BY <2>1, <2>2, <2>3, WorldGoes
<1>28. ASSUME NEW r \in Runs, PostOtherLock(r) PROVE WorldStep
  <2>1. UNCHANGED <<based, pr>> /\ wt' \subseteq wt
    BY <1>28 DEF PostOtherLock
  <2>2. \A q \in Runs : runState'[q] = "creating" => runState[q] = "creating"
    BY <1>28, StateSet DEF PostOtherLock
  <2>3. \A p \in Ops, q \in Runs : pc'[<<p, q>>] = "ghmerge" => pc[<<p, q>>] = "ghmerge"
    <3>1. Goto(<<Post, r>>, "oremove")
      BY <1>28 DEF PostOtherLock
    <3> QED BY <3>1, GoesElsewhere, CrewIds DEF Crew
  <2> QED BY <2>1, <2>2, <2>3, WorldGoes
<1>29. ASSUME NEW r \in Runs, PostOtherRemove(r) PROVE WorldStep
  <2>1. UNCHANGED <<based, pr>> /\ wt' \subseteq wt
    BY <1>29 DEF PostOtherRemove
  <2>2. \A q \in Runs : runState'[q] = "creating" => runState[q] = "creating"
    BY <1>29, StateSet DEF PostOtherRemove
  <2>3. \A p \in Ops, q \in Runs : pc'[<<p, q>>] = "ghmerge" => pc[<<p, q>>] = "ghmerge"
    <3>1. Goto(<<Post, r>>, "oremoved") \/ Goto(<<Post, r>>, "others")
      BY <1>29 DEF PostOtherRemove, PostRelease
    <3> QED BY <3>1, GoesElsewhere, CrewIds DEF Crew
  <2> QED BY <2>1, <2>2, <2>3, WorldGoes
<1>30. ASSUME NEW r \in Runs, PostOtherDone(r) PROVE WorldStep
  <2>1. UNCHANGED <<based, pr, wt>> /\ Discarded(postAt[r]) /\ Goto(<<Post, r>>, "others")
        /\ pc[<<Post, r>>] = "oremoved"
    BY <1>30 DEF PostOtherDone, PostRelease, At
  <2>2. postAt[r] \in Runs
    BY <2>1, PostAtIs DEF LifeInv, OthersPcs
  <2>3. \A q \in Runs : runState'[q] = "creating" => runState[q] = "creating"
    BY <2>1, <2>2, StateDiscarded
  <2>4. \A p \in Ops, q \in Runs : pc'[<<p, q>>] = "ghmerge" => pc[<<p, q>>] = "ghmerge"
    BY <2>1, CrewGoes, CrewIds
  <2> QED BY <2>1, <2>3, <2>4, WorldGoes
<1>31. ASSUME NEW r \in Runs, PostEnd(r) PROVE WorldStep
  <2>1. UNCHANGED <<based, pr>> /\ wt' \subseteq wt
    BY <1>31 DEF PostEnd
  <2>2. \A q \in Runs : runState'[q] = "creating" => runState[q] = "creating"
    BY <1>31, StateSet DEF PostEnd
  <2>3. \A p \in Ops, q \in Runs : pc'[<<p, q>>] = "ghmerge" => pc[<<p, q>>] = "ghmerge"
    <3>1. Goto(<<Post, r>>, "idle")
      BY <1>31 DEF PostEnd
    <3> QED BY <3>1, GoesElsewhere, CrewIds DEF Crew
  <2> QED BY <2>1, <2>2, <2>3, WorldGoes
<1>32. ASSUME NEW o \in Ops, NEW r \in Runs, FixStart(o, r) PROVE WorldStep
  <2>1. UNCHANGED <<based, pr>> /\ wt' \subseteq wt
    BY <1>32 DEF FixStart
  <2>2. \A q \in Runs : runState'[q] = "creating" => runState[q] = "creating"
    BY <1>32, StateSet DEF FixStart
  <2>3. \A p \in Ops, q \in Runs : pc'[<<p, q>>] = "ghmerge" => pc[<<p, q>>] = "ghmerge"
    <3>1. Goto(<<o, r>>, "ready") \/ Goto(<<o, r>>, "reopen")
      BY <1>32 DEF FixStart
    <3> QED BY <3>1, GoesElsewhere, CrewIds DEF Crew
  <2> QED BY <2>1, <2>2, <2>3, WorldGoes
<1>33. ASSUME NEW o \in Ops, NEW r \in Runs, Reopen(o, r) PROVE WorldStep
  <2>1. UNCHANGED <<based, pr, wt>>
    BY <1>33 DEF Reopen
  <2>2. \A q \in Runs :
          runState'[q] = "creating" => runState[q] = "creating" \/ q \notin based
    BY <1>33, StateSet DEF Reopen
  <2>3. \A p \in Ops, q \in Runs : pc'[<<p, q>>] = "ghmerge" => pc[<<p, q>>] = "ghmerge"
    <3>1. \/ Goto(<<o, r>>, "idle") \/ Goto(<<o, r>>, "prep")
          \/ Goto(<<o, r>>, "wtwait") \/ Goto(<<o, r>>, "starting")
      BY <1>33 DEF Reopen, EndOp
    <3> QED BY <3>1, GoesElsewhere, CrewIds DEF Crew
  <2> QED BY <2>1, <2>2, <2>3 DEF WorldStep, LifeInv, StageInv, PullRequests
<1>34. ASSUME NEW o \in Ops, NEW r \in Runs, ReopenLock(o, r) PROVE WorldStep
  <2>1. UNCHANGED <<based, pr>> /\ wt' \subseteq wt
    BY <1>34 DEF ReopenLock
  <2>2. \A q \in Runs : runState'[q] = "creating" => runState[q] = "creating"
    BY <1>34, StateSet DEF ReopenLock
  <2>3. \A p \in Ops, q \in Runs : pc'[<<p, q>>] = "ghmerge" => pc[<<p, q>>] = "ghmerge"
    <3>1. Goto(<<o, r>>, "add")
      BY <1>34 DEF ReopenLock
    <3> QED BY <3>1, GoesElsewhere, CrewIds DEF Crew
  <2> QED BY <2>1, <2>2, <2>3, WorldGoes
<1>35. ASSUME NEW o \in Ops, NEW r \in Runs, ReopenAdd(o, r) PROVE WorldStep
  <2>1. /\ UNCHANGED pr /\ Busy(<<o, r>>)
        /\ UNCHANGED <<wt, based>> \/ (wt' = wt \cup {r} /\ based' = based \cup {r})
    BY <1>35 DEF ReopenAdd, At, Busy
  <2>2. \A q \in Runs : runState'[q] = "creating" => runState[q] = "creating"
    BY <1>35, StateSet DEF ReopenAdd
  <2>3. \A p \in Ops, q \in Runs : pc'[<<p, q>>] = "ghmerge" => pc[<<p, q>>] = "ghmerge"
    <3>1. Goto(<<o, r>>, "idle") \/ Goto(<<o, r>>, "prep")
      BY <1>35 DEF ReopenAdd, EndOp
    <3> QED BY <3>1, GoesElsewhere, CrewIds DEF Crew
  <2>4. wt' \subseteq based' /\ based \subseteq based'
    BY <2>1 DEF LifeInv, StageInv, PullRequests
  <2>5. \A q \in Runs : q \in wt' => q \in wt \/ \E p \in Crew : Busy(<<p, q>>)
    BY <2>1, CrewIds
  <2> QED BY <2>1, <2>2, <2>3, <2>4, <2>5 DEF WorldStep
<1>36. ASSUME NEW t \in Tasks, CreateLock(t) PROVE WorldStep
  <2>1. UNCHANGED <<based, pr>> /\ wt' \subseteq wt
    BY <1>36 DEF CreateLock
  <2>2. \A q \in Runs : runState'[q] = "creating" => runState[q] = "creating"
    BY <1>36, StateSet DEF CreateLock
  <2>3. \A p \in Ops, q \in Runs : pc'[<<p, q>>] = "ghmerge" => pc[<<p, q>>] = "ghmerge"
    BY <1>36, CrewIds, InBodies DEF CreateLock
  <2> QED BY <2>1, <2>2, <2>3, WorldGoes
<1>37. ASSUME NEW t \in Tasks, CreateUnlock(t) PROVE WorldStep
  <2>1. UNCHANGED <<based, pr>> /\ wt' \subseteq wt
    BY <1>37 DEF CreateUnlock
  <2>2. \A q \in Runs : runState'[q] = "creating" => runState[q] = "creating"
    BY <1>37, StateSet DEF CreateUnlock
  <2>3. \A p \in Ops, q \in Runs : pc'[<<p, q>>] = "ghmerge" => pc[<<p, q>>] = "ghmerge"
    BY <1>37, CrewIds, InBodies DEF CreateUnlock
  <2> QED BY <2>1, <2>2, <2>3, WorldGoes
<1>38. ASSUME NEW t \in Tasks, LaunchAll(t) PROVE WorldStep
  <2>1. UNCHANGED <<based, pr>> /\ wt' \subseteq wt
    BY <1>38 DEF LaunchAll
  <2>2. \A q \in Runs : runState'[q] = "creating" => runState[q] = "creating"
    BY <1>38, StateSet DEF LaunchAll
  <2>3. \A p \in Ops, q \in Runs : pc'[<<p, q>>] = "ghmerge" => pc[<<p, q>>] = "ghmerge"
    BY <1>38, CrewIds, InBodies DEF LaunchAll
  <2> QED BY <2>1, <2>2, <2>3, WorldGoes
<1>39. ASSUME NEW r \in Runs, AddWorktree(r) PROVE WorldStep
  <2>1. /\ UNCHANGED pr /\ Busy(<<Create, r>>)
        /\ UNCHANGED <<wt, based>> \/ (wt' = wt \cup {r} /\ based' = based \cup {r})
    BY <1>39 DEF AddWorktree, At, Busy
  <2>2. \A q \in Runs : runState'[q] = "creating" => runState[q] = "creating"
    BY <1>39, StateSet DEF AddWorktree
  <2>3. \A p \in Ops, q \in Runs : pc'[<<p, q>>] = "ghmerge" => pc[<<p, q>>] = "ghmerge"
    <3>1. Goto(<<Create, r>>, "added") \/ Goto(<<Create, r>>, "idle")
      BY <1>39 DEF AddWorktree
    <3> QED BY <3>1, GoesElsewhere, CrewIds DEF Crew
  <2>4. wt' \subseteq based' /\ based \subseteq based'
    BY <2>1 DEF LifeInv, StageInv, PullRequests
  <2>5. \A q \in Runs : q \in wt' => q \in wt \/ \E p \in Crew : Busy(<<p, q>>)
    BY <2>1, CrewIds
  <2> QED BY <2>1, <2>2, <2>3, <2>4, <2>5 DEF WorldStep
<1>40. ASSUME NEW o \in Ops \cup {Create}, NEW r \in Runs, PrepareRun(o, r) PROVE WorldStep
  <2>1. UNCHANGED <<based, pr>> /\ wt' \subseteq wt
    BY <1>40 DEF PrepareRun
  <2>2. \A q \in Runs : runState'[q] = "creating" => runState[q] = "creating"
    BY <1>40, StateSet DEF PrepareRun
  <2>3. \A p \in Ops, q \in Runs : pc'[<<p, q>>] = "ghmerge" => pc[<<p, q>>] = "ghmerge"
    <3>1. Goto(<<o, r>>, "idle") \/ Goto(<<o, r>>, "prepared") \/ Goto(<<o, r>>, "starting")
      BY <1>40 DEF PrepareRun, PipelineEnd, EndOp
    <3> QED BY <3>1, GoesElsewhere, CrewIds DEF Crew
  <2> QED BY <2>1, <2>2, <2>3, WorldGoes
<1>41. ASSUME NEW o \in Ops \cup {Create}, NEW r \in Runs, Launched(o, r) PROVE WorldStep
  <2>1. UNCHANGED <<based, pr>> /\ wt' \subseteq wt
    BY <1>41 DEF Launched
  <2>2. \A q \in Runs : runState'[q] = "creating" => runState[q] = "creating"
    BY <1>41, StateSet DEF Launched
  <2>3. \A p \in Ops, q \in Runs : pc'[<<p, q>>] = "ghmerge" => pc[<<p, q>>] = "ghmerge"
    <3>1. Goto(<<o, r>>, "idle") \/ Goto(<<o, r>>, "ready")
      BY <1>41 DEF Launched, PipelineEnd, EndOp
    <3> QED BY <3>1, GoesElsewhere, CrewIds DEF Crew
  <2> QED BY <2>1, <2>2, <2>3, WorldGoes
<1>42. ASSUME NEW o \in Ops \cup {Create}, NEW r \in Runs, AgentReady(o, r) PROVE WorldStep
  <2>1. UNCHANGED <<based, pr>> /\ wt' \subseteq wt
    BY <1>42 DEF AgentReady
  <2>2. \A q \in Runs : runState'[q] = "creating" => runState[q] = "creating"
    BY <1>42, StateSet DEF AgentReady
  <2>3. \A p \in Ops, q \in Runs : pc'[<<p, q>>] = "ghmerge" => pc[<<p, q>>] = "ghmerge"
    <3>1. Goto(<<o, r>>, "idle") \/ Goto(<<o, r>>, "deliver")
      BY <1>42 DEF AgentReady, PipelineEnd, EndOp
    <3> QED BY <3>1, GoesElsewhere, CrewIds DEF Crew
  <2> QED BY <2>1, <2>2, <2>3, WorldGoes
<1>43. ASSUME NEW o \in Ops \cup {Create}, NEW r \in Runs, DeliverPrompt(o, r) PROVE WorldStep
  <2>1. UNCHANGED <<based, pr>> /\ wt' \subseteq wt
    BY <1>43 DEF DeliverPrompt
  <2>2. \A q \in Runs : runState'[q] = "creating" => runState[q] = "creating"
    BY <1>43, StateSet DEF DeliverPrompt
  <2>3. \A p \in Ops, q \in Runs : pc'[<<p, q>>] = "ghmerge" => pc[<<p, q>>] = "ghmerge"
    <3>1. Goto(<<o, r>>, "idle")
      BY <1>43 DEF DeliverPrompt, PipelineEnd, EndOp
    <3> QED BY <3>1, GoesElsewhere, CrewIds DEF Crew
  <2> QED BY <2>1, <2>2, <2>3, WorldGoes
<1>44. ASSUME NEW r \in Runs, AgentWorking(r) PROVE WorldStep
  <2>1. \A q \in Runs : runState'[q] = "creating" => runState[q] = "creating"
    BY <1>44, StateSet DEF AgentWorking
  <2> QED BY <1>44, <2>1, WorldGoes DEF AgentWorking
<1>45. ASSUME NEW r \in Runs, AgentStops(r) PROVE WorldStep
  BY <1>45, WorldStill DEF AgentStops
<1>46. ASSUME NEW r \in Runs, EvaluateTurn(r) PROVE WorldStep
  <2>1. \A q \in Runs : runState'[q] = "creating" => runState[q] = "creating"
    BY <1>46, StateSet DEF EvaluateTurn
  <2> QED BY <1>46, <2>1, WorldGoes DEF EvaluateTurn
<1>47. ASSUME NEW r \in Runs, WorktreeLost(r) PROVE WorldStep
  BY <1>47, WorldGoes DEF WorktreeLost
<1>48. ASSUME NEW r \in Runs, AgentOpensPr(r) PROVE WorldStep
  <2>1. UNCHANGED <<based, wt, runState, pc>> /\ r \in wt /\ runState[r] \in InWork
        /\ \A q \in Runs : pr'[q] = IF q = r THEN "open" ELSE pr[q]
    BY <1>48 DEF AgentOpensPr, TypeOK, InWork
  <2>2. runState[r] # "creating" /\ ~Busy(<<Create, r>>)
    BY <2>1, CreateAlone DEF InWork
  <2> QED BY <2>1, <2>2 DEF WorldStep, LifeInv, StageInv, PullRequests
<1>49. ASSUME NEW r \in Runs, ReconcileOp(r) PROVE WorldStep
  <2>1. UNCHANGED <<based, pr>> /\ wt' \subseteq wt
    BY <1>49 DEF ReconcileOp
  <2>2. \A q \in Runs : runState'[q] = "creating" => runState[q] = "creating"
    BY <1>49, StateUnmerged DEF ReconcileOp
  <2>3. \A p \in Ops, q \in Runs : pc'[<<p, q>>] = "ghmerge" => pc[<<p, q>>] = "ghmerge"
    BY <1>49, CrewGoes, CrewIds DEF ReconcileOp
  <2> QED BY <2>1, <2>2, <2>3, WorldGoes
<1>50. ASSUME NEW r \in Runs, ReconcileState(r) PROVE WorldStep
  <2>1. UNCHANGED <<based, pr>> /\ wt' \subseteq wt
    BY <1>50 DEF ReconcileState
  <2>2. \A q \in Runs : runState'[q] = "creating" => runState[q] = "creating"
    BY <1>50, StateSet DEF ReconcileState
  <2>3. \A p \in Ops, q \in Runs : pc'[<<p, q>>] = "ghmerge" => pc[<<p, q>>] = "ghmerge"
    BY <1>50, CrewGoes, CrewIds, ZenonT(60) DEF ReconcileState
  <2> QED BY <2>1, <2>2, <2>3, WorldGoes
<1>51. CASE Crash
  <2>1. UNCHANGED <<based, pr>> /\ wt' \subseteq wt
    BY <1>51 DEF Crash
  <2>2. \A q \in Runs : runState'[q] = "creating" => runState[q] = "creating"
    BY <1>51, StateSet DEF Crash
  <2>3. \A p \in Ops, q \in Runs : pc'[<<p, q>>] = "ghmerge" => pc[<<p, q>>] = "ghmerge"
    BY <1>51, InBodies DEF Crash
  <2> QED BY <2>1, <2>2, <2>3, WorldGoes
<1>52. CASE Restart
  BY <1>52, WorldStill DEF Restart
<1>53. CASE BootDone
  <2>1. UNCHANGED <<based, pr>> /\ wt' \subseteq wt
    BY <1>53 DEF BootDone
  <2>2. \A q \in Runs : runState'[q] = "creating" => runState[q] = "creating"
    BY <1>53, StateSet DEF BootDone
  <2>3. \A p \in Ops, q \in Runs : pc'[<<p, q>>] = "ghmerge" => pc[<<p, q>>] = "ghmerge"
    BY <1>53, InBodies DEF BootDone
  <2> QED BY <2>1, <2>2, <2>3, WorldGoes
<1>54. CASE UNCHANGED vars
  BY <1>54, WorldStill DEF vars
<1> QED
  BY <1>1, <1>2, <1>3, <1>4, <1>5, <1>6, <1>7, <1>8, <1>9, <1>10, <1>11, <1>12, <1>13,
     <1>14, <1>15, <1>16, <1>17, <1>18, <1>19, <1>20, <1>21, <1>22, <1>23, <1>24,
     <1>25, <1>26, <1>27, <1>28, <1>29, <1>30, <1>31, <1>32, <1>33, <1>34, <1>35,
     <1>36, <1>37, <1>38, <1>39, <1>40, <1>41, <1>42, <1>43, <1>44, <1>45, <1>46,
     <1>47, <1>48, <1>49, <1>50, <1>51, <1>52, <1>53, <1>54
  DEF Next, Request, OpStep, MergeStep, DiscardStep, PipelineStep, CreateStep, PostStep, Boot,
      Agent, World, RunsOf

-----------------------------------------------------------------------------
(* Answers *)

\* Steps that leave ops and answers alone.
LEMMA AnswersStay ==
  ASSUME UNCHANGED opRec
  PROVE  AnswerStep
  BY DEF opRec, AnswerStep, Bears

\* endOp answers the op and takes it off the run.
LEMMA AnswerEnds ==
  ASSUME LifeInv, NEW o \in Ops, NEW r \in Runs, NEW out, EndOp(o, r, out), Busy(<<o, r>>)
  PROVE  AnswerStep
<1>1. Bears(o, r)
  BY OpAlone
<1>2. /\ runOp'[r] = NoOp
      /\ \A q \in Runs : q # r => runOp'[q] = runOp[q]
      /\ \A p \in Ops, q \in Runs : p # o \/ q # r => outcome'[<<p, q>>] = outcome[<<p, q>>]
  BY <1>1 DEF EndOp, Bears, LifeInv, TypeOK
<1>3. ~Bears(o, r)'
  BY <1>2, IdAssumption DEF Bears, NoOp
<1>4. \A p \in Ops, q \in Runs : p # o \/ q # r =>
        outcome'[<<p, q>>] = outcome[<<p, q>>] /\ (Bears(p, q)' => Bears(p, q))
  <2>1. \A p \in Ops : ~Bears(p, r)'
    BY <1>2, IdAssumption DEF Bears, NoOp
  <2> QED BY <1>2, <2>1 DEF Bears
<1> QED BY <1>1, <1>3, <1>4 DEF AnswerStep

\* finishMerge answers the op and turns it into the clean-up.
LEMMA AnswerMerged ==
  ASSUME LifeInv, NEW o \in Ops, NEW r \in Runs, FinishClientMerge(o, r), Busy(<<o, r>>)
  PROVE  AnswerStep
<1>1. Bears(o, r)
  BY OpAlone
<1>2. /\ runOp'[r].kind = "cleanup"
      /\ \A q \in Runs : q # r => runOp'[q] = runOp[q]
      /\ \A p \in Ops, q \in Runs : p # o \/ q # r => outcome'[<<p, q>>] = outcome[<<p, q>>]
  BY DEF FinishClientMerge, FinishMerge, LifeInv, TypeOK
<1> QED BY <1>1, <1>2 DEF AnswerStep, Bears

\* Every step keeps to AnswerStep.
LEMMA AnswerSteps ==
  ASSUME BootOverlap = FALSE, LifeInv, TypeOK, [Next]_vars
  PROVE  AnswerStep
<1> USE DEF records, taskRec, opRec, world, posting, locks, timers, volatile, process
<1>1. ASSUME NEW o \in Ops, NEW r \in Runs, RequestOp(o, r) PROVE AnswerStep
  <2>1. outcome[<<o, r>>] = "new" /\ BeginOp(o, r)
    BY <1>1 DEF RequestOp, Fresh
  <2>2. /\ outcome'[<<o, r>>] = "running" /\ runOp'[r].id = o
        /\ \A p \in Ops, q \in Runs : p # o \/ q # r => outcome'[<<p, q>>] = outcome[<<p, q>>]
        /\ \A q \in Runs : q # r => runOp'[q] = runOp[q]
    BY <2>1 DEF BeginOp, TypeOK
  <2> QED BY <2>1, <2>2 DEF AnswerStep, Bears
<1>2. ASSUME NEW o \in Ops, NEW r \in Runs, RequestMerge(o, r) PROVE AnswerStep
  <2>1. outcome[<<o, r>>] = "new" /\ BeginOp(o, r)
    BY <1>2 DEF RequestMerge, Fresh
  <2>2. /\ outcome'[<<o, r>>] = "running" /\ runOp'[r].id = o
        /\ \A p \in Ops, q \in Runs : p # o \/ q # r => outcome'[<<p, q>>] = outcome[<<p, q>>]
        /\ \A q \in Runs : q # r => runOp'[q] = runOp[q]
    BY <2>1 DEF BeginOp, TypeOK
  <2> QED BY <2>1, <2>2 DEF AnswerStep, Bears
<1>3. ASSUME NEW o \in Ops, NEW r \in Runs, RefuseMerge(o, r) PROVE AnswerStep
  BY <1>3 DEF RefuseMerge, Fresh, AnswerStep, Bears, TypeOK
<1>4. ASSUME NEW o \in Ops, NEW t \in Tasks, DiscardAll(o, t) PROVE AnswerStep
  <2> DEFINE targets == {r \in RunsOf(t) :
                           /\ runState[r] \in {"running", "review_ready", "failed"}
                           /\ runOp[r] = NoOp
                           /\ Forced(o) \/ ~LiveWorking(r)}
  <2>1. /\ \A r \in RunsOf(t) : outcome[<<o, r>>] = "new"
        /\ runOp' = [r \in Runs |-> IF r \in targets
                                    THEN [id |-> o, kind |-> KindOf[o]] ELSE runOp[r]]
        /\ outcome' = [b \in Ops \X Runs |->
                         IF b[1] = o /\ b[2] \in targets THEN "running" ELSE outcome[b]]
    BY <1>4 DEF DiscardAll, Fresh
  <2>2. targets \subseteq RunsOf(t)
    OBVIOUS
  <2> HIDE DEF targets
  <2>3. \A p \in Ops, r \in Runs :
          /\ outcome'[<<p, r>>] = IF p = o /\ r \in targets THEN "running" ELSE outcome[<<p, r>>]
          /\ runOp'[r].id = p => IF r \in targets THEN p = o ELSE runOp'[r] = runOp[r]
    BY <2>1
  <2>4. ASSUME NEW p \in Ops, NEW r \in Runs, p = o, r \in targets
        PROVE  outcome[<<p, r>>] = "new" /\ outcome'[<<p, r>>] = "running"
    BY <2>1, <2>2, <2>3, <2>4
  <2>5. ASSUME NEW p \in Ops, NEW r \in Runs, p # o \/ r \notin targets
        PROVE  outcome'[<<p, r>>] = outcome[<<p, r>>] /\ (Bears(p, r)' => Bears(p, r))
    BY <2>3, <2>5 DEF Bears
  <2> QED BY <2>4, <2>5 DEF AnswerStep
<1>5. ASSUME NEW t \in Tasks, DeleteTask(t) PROVE AnswerStep
  BY <1>5, AnswersStay DEF DeleteTask
<1>6. ASSUME NEW r \in Runs, PrStatus(r) PROVE AnswerStep
  BY <1>6, AnswersStay DEF PrStatus
<1>7. ASSUME NEW r \in Runs, PromptDelivered(r) PROVE AnswerStep
  BY <1>7, AnswersStay DEF PromptDelivered
<1>8. ASSUME NEW o \in Ops, NEW r \in Runs, EndGit(o, r) PROVE AnswerStep
  <2>1. Busy(<<o, r>>)
    BY <1>8 DEF EndGit, At, Busy
  <2>2. UNCHANGED opRec \/ \E out \in {"ok", "error"} : EndOp(o, r, out)
    BY <1>8 DEF EndGit, FailMerge
  <2> QED BY <2>1, <2>2, AnswersStay, AnswerEnds
<1>9. ASSUME NEW o \in Ops, NEW r \in Runs, MergeStatus(o, r) PROVE AnswerStep
  <2>1. Busy(<<o, r>>)
    BY <1>9 DEF MergeStatus, At, Busy
  <2>2. UNCHANGED opRec \/ \E out \in {"ok", "error"} : EndOp(o, r, out)
    BY <1>9 DEF MergeStatus, FailMerge
  <2> QED BY <2>1, <2>2, AnswersStay, AnswerEnds
<1>10. ASSUME NEW o \in Ops, NEW r \in Runs, MergeLock(o, r) PROVE AnswerStep
  <2>1. Busy(<<o, r>>)
    BY <1>10 DEF MergeLock, At, Busy
  <2>2. UNCHANGED opRec \/ \E out \in {"ok", "error"} : EndOp(o, r, out)
    BY <1>10 DEF MergeLock, FailMerge
  <2> QED BY <2>1, <2>2, AnswersStay, AnswerEnds
<1>11. ASSUME NEW o \in Ops, NEW r \in Runs, MergeGit(o, r) PROVE AnswerStep
  <2>1. Busy(<<o, r>>)
    BY <1>11 DEF MergeGit, At, Busy
  <2>2. UNCHANGED opRec \/ \E out \in {"ok", "error"} : EndOp(o, r, out)
    BY <1>11 DEF MergeGit, FailMerge
  <2> QED BY <2>1, <2>2, AnswersStay, AnswerEnds
<1>12. ASSUME NEW o \in Ops, NEW r \in Runs, PrMergeView(o, r) PROVE AnswerStep
  <2>1. Busy(<<o, r>>)
    BY <1>12 DEF PrMergeView, At, Busy
  <2>2. UNCHANGED opRec \/ \E out \in {"ok", "error"} : EndOp(o, r, out)
    BY <1>12 DEF PrMergeView, FailMerge
  <2> QED BY <2>1, <2>2, AnswersStay, AnswerEnds
<1>13. ASSUME NEW o \in Ops, NEW r \in Runs, PrMergeGh(o, r) PROVE AnswerStep
  <2>1. Busy(<<o, r>>)
    BY <1>13 DEF PrMergeGh, At, Busy
  <2>2. UNCHANGED opRec \/ \E out \in {"ok", "error"} : EndOp(o, r, out)
    BY <1>13 DEF PrMergeGh, FailMerge
  <2> QED BY <2>1, <2>2, AnswersStay, AnswerEnds
<1>14. ASSUME NEW o \in Ops, NEW r \in Runs, MergeFinish(o, r) PROVE AnswerStep
  BY <1>14, AnswerMerged DEF MergeFinish, At, Busy
<1>15. ASSUME NEW o \in Ops, NEW r \in Runs, PrMergeAfter(o, r) PROVE AnswerStep
  <2>1. Busy(<<o, r>>)
    BY <1>15 DEF PrMergeAfter, At, Busy
  <2>2. FinishClientMerge(o, r) \/ \E out \in {"ok", "error"} : EndOp(o, r, out)
    BY <1>15 DEF PrMergeAfter, FailMerge
  <2> QED BY <2>1, <2>2, AnswerMerged, AnswerEnds
<1>16. ASSUME NEW r \in Runs, GithubMerges(r) PROVE AnswerStep
  BY <1>16, AnswersStay DEF GithubMerges
<1>17. ASSUME NEW r \in Runs, PollStart(r) PROVE AnswerStep
  BY <1>17, AnswersStay DEF PollStart
<1>18. ASSUME NEW r \in Runs, ApplyPrView(r) PROVE AnswerStep
  <2>1. /\ UNCHANGED outcome
        /\ \A q \in Runs : runOp'[q] = runOp[q] \/ runOp'[q].kind = "cleanup"
    BY <1>18 DEF ApplyPrView, FinishMerge, TypeOK
  <2> QED BY <2>1 DEF AnswerStep, Bears
<1>19. ASSUME NEW o \in Ops, NEW r \in Runs, DiscardCheck(o, r) PROVE AnswerStep
  <2>1. Busy(<<o, r>>)
    BY <1>19 DEF DiscardCheck, At, Busy
  <2>2. UNCHANGED opRec \/ \E out \in {"ok", "error"} : EndOp(o, r, out)
    BY <1>19 DEF DiscardCheck, FailMerge
  <2> QED BY <2>1, <2>2, AnswersStay, AnswerEnds
<1>20. ASSUME NEW o \in Ops \cup {Post}, NEW r \in Runs, RemoveLock(o, r) PROVE AnswerStep
  BY <1>20, AnswersStay DEF RemoveLock
<1>21. ASSUME NEW o \in Ops, NEW r \in Runs, DiscardRemove(o, r) PROVE AnswerStep
  <2>1. Busy(<<o, r>>)
    BY <1>21 DEF DiscardRemove, At, Busy
  <2>2. UNCHANGED opRec \/ \E out \in {"ok", "error"} : EndOp(o, r, out)
    BY <1>21 DEF DiscardRemove, FailMerge
  <2> QED BY <2>1, <2>2, AnswersStay, AnswerEnds
<1>22. ASSUME NEW o \in Ops, NEW r \in Runs, DiscardDone(o, r) PROVE AnswerStep
  <2>1. Busy(<<o, r>>)
    BY <1>22 DEF DiscardDone, At, Busy
  <2>2. UNCHANGED opRec \/ \E out \in {"ok", "error"} : EndOp(o, r, out)
    BY <1>22 DEF DiscardDone, FailMerge
  <2> QED BY <2>1, <2>2, AnswersStay, AnswerEnds
<1>23. ASSUME NEW r \in Runs, PostKeep(r) PROVE AnswerStep
  BY <1>23, AnswersStay DEF PostKeep
<1>24. ASSUME NEW r \in Runs, PostCheck(r) PROVE AnswerStep
  BY <1>24, AnswersStay DEF PostCheck
<1>25. ASSUME NEW r \in Runs, PostRemove(r) PROVE AnswerStep
  BY <1>25, AnswersStay DEF PostRemove
<1>26. ASSUME NEW r \in Runs, NEW q \in Runs, PostSkip(r, q) PROVE AnswerStep
  BY <1>26, AnswersStay DEF PostSkip
<1>27. ASSUME NEW r \in Runs, NEW q \in Runs, PostDiscard(r, q) PROVE AnswerStep
  <2>1. /\ UNCHANGED outcome
        /\ \A s \in Runs : runOp'[s] = runOp[s] \/ runOp'[s].id = Post
    BY <1>27 DEF PostDiscard, TypeOK
  <2> QED BY <2>1, IdAssumption DEF AnswerStep, Bears
<1>28. ASSUME NEW r \in Runs, PostOtherLock(r) PROVE AnswerStep
  BY <1>28, AnswersStay DEF PostOtherLock
<1>29. ASSUME NEW r \in Runs, PostOtherRemove(r) PROVE AnswerStep
  <2>1. UNCHANGED outcome /\ \A s \in Runs : runOp'[s] \in {runOp[s], NoOp}
    BY <1>29 DEF PostOtherRemove, PostRelease, TypeOK
  <2> QED BY <2>1, IdAssumption DEF AnswerStep, Bears, NoOp
<1>30. ASSUME NEW r \in Runs, PostOtherDone(r) PROVE AnswerStep
  <2>1. UNCHANGED outcome /\ \A s \in Runs : runOp'[s] \in {runOp[s], NoOp}
    BY <1>30 DEF PostOtherDone, PostRelease, TypeOK
  <2> QED BY <2>1, IdAssumption DEF AnswerStep, Bears, NoOp
<1>31. ASSUME NEW r \in Runs, PostEnd(r) PROVE AnswerStep
  <2>1. UNCHANGED outcome /\ \A s \in Runs : runOp'[s] \in {runOp[s], NoOp}
    BY <1>31 DEF PostEnd, PostRelease, TypeOK
  <2> QED BY <2>1, IdAssumption DEF AnswerStep, Bears, NoOp
<1>32. ASSUME NEW o \in Ops, NEW r \in Runs, FixStart(o, r) PROVE AnswerStep
  BY <1>32, AnswersStay DEF FixStart
<1>33. ASSUME NEW o \in Ops, NEW r \in Runs, Reopen(o, r) PROVE AnswerStep
  <2>1. Busy(<<o, r>>)
    BY <1>33 DEF Reopen, At, Busy
  <2>2. UNCHANGED opRec \/ \E out \in {"ok", "error"} : EndOp(o, r, out)
    BY <1>33 DEF Reopen, FailMerge
  <2> QED BY <2>1, <2>2, AnswersStay, AnswerEnds
<1>34. ASSUME NEW o \in Ops, NEW r \in Runs, ReopenLock(o, r) PROVE AnswerStep
  BY <1>34, AnswersStay DEF ReopenLock
<1>35. ASSUME NEW o \in Ops, NEW r \in Runs, ReopenAdd(o, r) PROVE AnswerStep
  <2>1. Busy(<<o, r>>)
    BY <1>35 DEF ReopenAdd, At, Busy
  <2>2. UNCHANGED opRec \/ \E out \in {"ok", "error"} : EndOp(o, r, out)
    BY <1>35 DEF ReopenAdd, FailMerge
  <2> QED BY <2>1, <2>2, AnswersStay, AnswerEnds
<1>36. ASSUME NEW t \in Tasks, CreateLock(t) PROVE AnswerStep
  BY <1>36, AnswersStay DEF CreateLock
<1>37. ASSUME NEW t \in Tasks, CreateUnlock(t) PROVE AnswerStep
  BY <1>37, AnswersStay DEF CreateUnlock
<1>38. ASSUME NEW t \in Tasks, LaunchAll(t) PROVE AnswerStep
  BY <1>38, AnswersStay DEF LaunchAll
<1>39. ASSUME NEW r \in Runs, AddWorktree(r) PROVE AnswerStep
  BY <1>39, AnswersStay DEF AddWorktree
<1>40. ASSUME NEW o \in Ops \cup {Create}, NEW r \in Runs, PrepareRun(o, r) PROVE AnswerStep
  <2>1. Busy(<<o, r>>)
    BY <1>40 DEF PrepareRun, At, Busy
  <2>2. UNCHANGED opRec \/ \E out \in {"ok", "error"} : o # Create /\ EndOp(o, r, out)
    BY <1>40 DEF PrepareRun, PipelineEnd
  <2> QED BY <2>1, <2>2, AnswersStay, AnswerEnds
<1>41. ASSUME NEW o \in Ops \cup {Create}, NEW r \in Runs, Launched(o, r) PROVE AnswerStep
  <2>1. Busy(<<o, r>>)
    BY <1>41 DEF Launched, At, Busy
  <2>2. UNCHANGED opRec \/ \E out \in {"ok", "error"} : o # Create /\ EndOp(o, r, out)
    BY <1>41 DEF Launched, PipelineEnd
  <2> QED BY <2>1, <2>2, AnswersStay, AnswerEnds
<1>42. ASSUME NEW o \in Ops \cup {Create}, NEW r \in Runs, AgentReady(o, r) PROVE AnswerStep
  <2>1. Busy(<<o, r>>)
    BY <1>42 DEF AgentReady, At, Busy
  <2>2. UNCHANGED opRec \/ \E out \in {"ok", "error"} : o # Create /\ EndOp(o, r, out)
    BY <1>42 DEF AgentReady, PipelineEnd
  <2> QED BY <2>1, <2>2, AnswersStay, AnswerEnds
<1>43. ASSUME NEW o \in Ops \cup {Create}, NEW r \in Runs, DeliverPrompt(o, r) PROVE AnswerStep
  <2>1. Busy(<<o, r>>)
    BY <1>43 DEF DeliverPrompt, At, Busy
  <2>2. UNCHANGED opRec \/ \E out \in {"ok", "error"} : o # Create /\ EndOp(o, r, out)
    BY <1>43 DEF DeliverPrompt, PipelineEnd
  <2> QED BY <2>1, <2>2, AnswersStay, AnswerEnds
<1>44. ASSUME NEW r \in Runs, AgentWorking(r) PROVE AnswerStep
  BY <1>44, AnswersStay DEF AgentWorking
<1>45. ASSUME NEW r \in Runs, AgentStops(r) PROVE AnswerStep
  BY <1>45, AnswersStay DEF AgentStops
<1>46. ASSUME NEW r \in Runs, EvaluateTurn(r) PROVE AnswerStep
  BY <1>46, AnswersStay DEF EvaluateTurn
<1>47. ASSUME NEW r \in Runs, WorktreeLost(r) PROVE AnswerStep
  BY <1>47, AnswersStay DEF WorktreeLost
<1>48. ASSUME NEW r \in Runs, AgentOpensPr(r) PROVE AnswerStep
  BY <1>48, AnswersStay DEF AgentOpensPr
<1>49. ASSUME NEW r \in Runs, ReconcileOp(r) PROVE AnswerStep
  <2>1. CASE UNCHANGED opRec
    BY <2>1, AnswersStay
  <2>2. CASE Interrupt(r) /\ ~(runOp[r].kind = "cleanup" /\ runState[r] = "merged")
    <3>1. runOp[r].kind # "cleanup"
      BY <2>2 DEF LifeInv, StageInv, CleanUpsMerged
    <3>2. /\ \A q \in Runs : runOp'[q] = IF q = r THEN NoOp ELSE runOp[q]
          /\ \A p \in Ops, q \in Runs :
               p # runOp[r].id \/ q # r => outcome'[<<p, q>>] = outcome[<<p, q>>]
      BY <2>2 DEF Interrupt, TypeOK
    <3>3. \A p \in Ops : ~Bears(p, r)'
      BY <3>2, IdAssumption DEF Bears, NoOp
    <3>4. \A p \in Ops, q \in Runs : q # r => (Bears(p, q)' => Bears(p, q))
      BY <3>2 DEF Bears
    <3>5. \A p \in Ops : p = runOp[r].id => Bears(p, r)
      BY <3>1 DEF Bears
    <3> QED BY <3>2, <3>3, <3>4, <3>5 DEF AnswerStep
  <2> QED BY <1>49, <2>1, <2>2 DEF ReconcileOp
<1>50. ASSUME NEW r \in Runs, ReconcileState(r) PROVE AnswerStep
  BY <1>50, AnswersStay DEF ReconcileState
<1>51. CASE Crash
  BY <1>51, AnswersStay DEF Crash
<1>52. CASE Restart
  BY <1>52, AnswersStay DEF Restart
<1>53. CASE BootDone
  BY <1>53, AnswersStay DEF BootDone
<1>54. CASE UNCHANGED vars
  BY <1>54, AnswersStay DEF vars
<1> QED
  BY <1>1, <1>2, <1>3, <1>4, <1>5, <1>6, <1>7, <1>8, <1>9, <1>10, <1>11, <1>12, <1>13,
     <1>14, <1>15, <1>16, <1>17, <1>18, <1>19, <1>20, <1>21, <1>22, <1>23, <1>24,
     <1>25, <1>26, <1>27, <1>28, <1>29, <1>30, <1>31, <1>32, <1>33, <1>34, <1>35,
     <1>36, <1>37, <1>38, <1>39, <1>40, <1>41, <1>42, <1>43, <1>44, <1>45, <1>46,
     <1>47, <1>48, <1>49, <1>50, <1>51, <1>52, <1>53, <1>54
  DEF Next, Request, OpStep, MergeStep, DiscardStep, PipelineStep, CreateStep, PostStep, Boot,
      Agent, World, RunsOf

-----------------------------------------------------------------------------
(* The refinement *)

\* The steps of a single run are TaskLifecycle's.
LEMMA RunEdges ==
  {<<"creating", "launching">>, <<"creating", "failed">>, <<"launching", "running">>,
   <<"launching", "failed">>, <<"running", "review_ready">>, <<"running", "merging">>,
   <<"running", "launching">>, <<"running", "creating">>, <<"running", "failed">>,
   <<"review_ready", "running">>, <<"review_ready", "merging">>,
   <<"review_ready", "launching">>, <<"review_ready", "creating">>,
   <<"review_ready", "failed">>, <<"merging", "review_ready">>, <<"failed", "creating">>,
   <<"failed", "launching">>, <<"failed", "running">>} \subseteq Lifecycle!Edges
  BY DEF Lifecycle!Edges

\* Steps that leave the records of tasks and runs alone.
LEMMA RecordsStay ==
  ASSUME UNCHANGED <<runState, taskState, winner>>
  PROVE  LifeStep
  BY DEF LifeStep, Lifecycle!vars

\* Steps of runs along the edges.
LEMMA RunsMove ==
  ASSUME UNCHANGED <<taskState, winner>>, DOMAIN runState' = Runs,
         \A r \in Runs : \/ runState'[r] = runState[r]
                         \/ <<runState[r], runState'[r]>> \in Lifecycle!Edges
  PROVE  LifeStep
  BY DEF LifeStep, Lifecycle!Next, Lifecycle!RunsMove

\* finishMerge is the merge of the task: it is still open.
LEMMA WinsOpen ==
  ASSUME LifeInv, NEW id, NEW r \in Runs, NEW others, FinishMerge(id, r, others),
         runState[r] \notin {"merged", "discarded"}, taskState[Task(r)] # "merged"
  PROVE  LifeStep
<1>1. taskState[Task(r)] \in {"open", "merged", "closed"}
  BY OthersType DEF LifeInv, TypeOK
<1>2. taskState[Task(r)] # "closed"
  BY OthersType DEF LifeInv, StageInv, ClosedWithLastRun, RunsOf, Task
<1> QED BY <1>1, <1>2
  DEF LifeStep, Lifecycle!Next, Lifecycle!Merge, FinishMerge, SetRun, Task

\* discardOne is the discard of TaskLifecycle: the run is one it may discard.
LEMMA DiscardsRested ==
  ASSUME LifeInv, NEW r \in Runs, Discarded(r), runState[r] \in Rested, UNCHANGED winner
  PROVE  LifeStep
<1>1. taskState' = IF taskState[TaskOf[r]] = "open"
                      /\ \A q \in RunsOf(TaskOf[r]) \ {r} : runState[q] = "discarded"
                   THEN [taskState EXCEPT ![TaskOf[r]] = "closed"] ELSE taskState
  BY OthersType DEF Discarded, LifeInv, TypeOK, Task
<1>2. Lifecycle!Discard(r)
  BY <1>1 DEF Lifecycle!Discard, Lifecycle!RunsOf, RunsOf, Discarded, SetRun, Rested
<1> QED BY <1>2 DEF LifeStep, Lifecycle!Next

\* Every step is one of TaskLifecycle, or leaves its variables alone.
LEMMA LifeSteps ==
  ASSUME BootOverlap = FALSE, PasteRuns = {}, LifeInv, TypeOK, [Next]_vars
  PROVE  LifeStep
<1> USE DEF records, taskRec, opRec, world, posting, locks, timers, volatile, process
<1>1. ASSUME NEW o \in Ops, NEW r \in Runs, RequestOp(o, r) PROVE LifeStep
  BY <1>1, RecordsStay DEF RequestOp
<1>2. ASSUME NEW o \in Ops, NEW r \in Runs, RequestMerge(o, r) PROVE LifeStep
  BY <1>2, RecordsStay DEF RequestMerge
<1>3. ASSUME NEW o \in Ops, NEW r \in Runs, RefuseMerge(o, r) PROVE LifeStep
  BY <1>3, RecordsStay DEF RefuseMerge
<1>4. ASSUME NEW o \in Ops, NEW t \in Tasks, DiscardAll(o, t) PROVE LifeStep
  BY <1>4, RecordsStay DEF DiscardAll
<1>5. ASSUME NEW t \in Tasks, DeleteTask(t) PROVE LifeStep
  BY <1>5, RecordsStay DEF DeleteTask
<1>6. ASSUME NEW r \in Runs, PrStatus(r) PROVE LifeStep
  BY <1>6, RecordsStay DEF PrStatus
<1>7. ASSUME NEW r \in Runs, PromptDelivered(r) PROVE LifeStep
  <2>8. UNCHANGED <<taskState, winner>>
    BY <1>7 DEF PromptDelivered
  <2>9. \A q \in Runs : q # r => runState'[q] = runState[q]
    BY <1>7, StateSet DEF PromptDelivered
  <2>10. runState'[r] = runState[r] \/ <<runState[r], runState'[r]>> \in Lifecycle!Edges
    BY <1>7, StateSet, RunEdges DEF PromptDelivered
  <2>11. DOMAIN runState' = Runs
    BY <1>7 DEF PromptDelivered, SetRun, Unmerging, TypeOK
  <2> QED BY <2>8, <2>9, <2>10, <2>11, RunsMove
<1>8. ASSUME NEW o \in Ops, NEW r \in Runs, EndGit(o, r) PROVE LifeStep
  BY <1>8, RecordsStay DEF EndGit
<1>9. ASSUME NEW o \in Ops, NEW r \in Runs, MergeStatus(o, r) PROVE LifeStep
  <2>1. Busy(<<o, r>>) /\ pc[<<o, r>>] = "status"
    BY <1>9 DEF MergeStatus, At, Busy
  <2>2. runState[r] \in InWork
    BY <2>1, OpAlone, CreateAlone, FitsMeans, CrewIds
  <2>8. UNCHANGED <<taskState, winner>>
    BY <1>9 DEF MergeStatus, FailMerge
  <2>9. \A q \in Runs : q # r => runState'[q] = runState[q]
    BY <1>9, StateSet, StateUnmerged DEF MergeStatus, FailMerge
  <2>10. runState'[r] = runState[r] \/ <<runState[r], runState'[r]>> \in Lifecycle!Edges
    BY <1>9, <2>2, StateSet, StateUnmerged, RunEdges DEF MergeStatus, FailMerge, InWork
  <2>11. DOMAIN runState' = Runs
    BY <1>9 DEF MergeStatus, SetRun, Unmerging, TypeOK, FailMerge
  <2> QED BY <2>8, <2>9, <2>10, <2>11, RunsMove
<1>10. ASSUME NEW o \in Ops, NEW r \in Runs, MergeLock(o, r) PROVE LifeStep
  <2>8. UNCHANGED <<taskState, winner>>
    BY <1>10 DEF MergeLock, FailMerge
  <2>9. \A q \in Runs : q # r => runState'[q] = runState[q]
    BY <1>10, StateUnmerged DEF MergeLock, FailMerge
  <2>10. runState'[r] = runState[r] \/ <<runState[r], runState'[r]>> \in Lifecycle!Edges
    BY <1>10, StateUnmerged, RunEdges DEF MergeLock, FailMerge
  <2>11. DOMAIN runState' = Runs
    BY <1>10 DEF MergeLock, SetRun, Unmerging, TypeOK, FailMerge
  <2> QED BY <2>8, <2>9, <2>10, <2>11, RunsMove
<1>11. ASSUME NEW o \in Ops, NEW r \in Runs, MergeGit(o, r) PROVE LifeStep
  <2>8. UNCHANGED <<taskState, winner>>
    BY <1>11 DEF MergeGit, FailMerge
  <2>9. \A q \in Runs : q # r => runState'[q] = runState[q]
    BY <1>11, StateUnmerged DEF MergeGit, FailMerge
  <2>10. runState'[r] = runState[r] \/ <<runState[r], runState'[r]>> \in Lifecycle!Edges
    BY <1>11, StateUnmerged, RunEdges DEF MergeGit, FailMerge
  <2>11. DOMAIN runState' = Runs
    BY <1>11 DEF MergeGit, SetRun, Unmerging, TypeOK, FailMerge
  <2> QED BY <2>8, <2>9, <2>10, <2>11, RunsMove
<1>12. ASSUME NEW o \in Ops, NEW r \in Runs, PrMergeView(o, r) PROVE LifeStep
  <2>8. UNCHANGED <<taskState, winner>>
    BY <1>12 DEF PrMergeView, FailMerge
  <2>9. \A q \in Runs : q # r => runState'[q] = runState[q]
    BY <1>12, StateUnmerged DEF PrMergeView, FailMerge
  <2>10. runState'[r] = runState[r] \/ <<runState[r], runState'[r]>> \in Lifecycle!Edges
    BY <1>12, StateUnmerged, RunEdges DEF PrMergeView, FailMerge
  <2>11. DOMAIN runState' = Runs
    BY <1>12 DEF PrMergeView, SetRun, Unmerging, TypeOK, FailMerge
  <2> QED BY <2>8, <2>9, <2>10, <2>11, RunsMove
<1>13. ASSUME NEW o \in Ops, NEW r \in Runs, PrMergeGh(o, r) PROVE LifeStep
  <2>8. UNCHANGED <<taskState, winner>>
    BY <1>13 DEF PrMergeGh, FailMerge
  <2>9. \A q \in Runs : q # r => runState'[q] = runState[q]
    BY <1>13, StateUnmerged DEF PrMergeGh, FailMerge
  <2>10. runState'[r] = runState[r] \/ <<runState[r], runState'[r]>> \in Lifecycle!Edges
    BY <1>13, StateUnmerged, RunEdges DEF PrMergeGh, FailMerge
  <2>11. DOMAIN runState' = Runs
    BY <1>13 DEF PrMergeGh, SetRun, Unmerging, TypeOK, FailMerge
  <2> QED BY <2>8, <2>9, <2>10, <2>11, RunsMove
<1>14. ASSUME NEW o \in Ops, NEW r \in Runs, MergeFinish(o, r) PROVE LifeStep
  <2>1. Busy(<<o, r>>) /\ pc[<<o, r>>] = "finish"
    BY <1>14 DEF MergeFinish, At, Busy
  <2>2. runState[r] = "merging"
    BY <2>1, OpAlone, CreateAlone, FitsMeans, CrewIds
  <2>3. taskState[Task(r)] # "merged"
    BY <2>1, OtherPlaces DEF LifeInv, MergeInv, ClaimsHeld, Merging
  <2> QED BY <1>14, <2>2, <2>3, WinsOpen DEF MergeFinish, FinishClientMerge
<1>15. ASSUME NEW o \in Ops, NEW r \in Runs, PrMergeAfter(o, r) PROVE LifeStep
  <2>1. Busy(<<o, r>>) /\ pc[<<o, r>>] = "after"
    BY <1>15 DEF PrMergeAfter, At, Busy
  <2>2. runState[r] = "merging"
    BY <2>1, OpAlone, CreateAlone, FitsMeans, CrewIds
  <2>3. CASE StillOpen(Task(r)) /\ FinishClientMerge(o, r)
    BY <2>2, <2>3, WinsOpen DEF FinishClientMerge, StillOpen
  <2>4. CASE Unmerging(r) /\ UNCHANGED <<taskState, winner>>
    <3>1. runState'[r] = "review_ready" /\ \A q \in Runs : q # r => runState'[q] = runState[q]
      BY <2>2, <2>4, StateUnmerged
    <3>2. DOMAIN runState' = Runs
      BY <2>4 DEF Unmerging, TypeOK
    <3> QED BY <2>2, <2>4, <3>1, <3>2, RunEdges, RunsMove
  <2> QED BY <1>15, <2>3, <2>4 DEF PrMergeAfter, FailMerge
<1>16. ASSUME NEW r \in Runs, GithubMerges(r) PROVE LifeStep
  BY <1>16, RecordsStay DEF GithubMerges
<1>17. ASSUME NEW r \in Runs, PollStart(r) PROVE LifeStep
  BY <1>17, RecordsStay DEF PollStart
<1>18. ASSUME NEW r \in Runs, ApplyPrView(r) PROVE LifeStep
  <2>1. CASE WebCompletes(r) /\ FinishMerge(Web, r, OtherRuns(r))
    BY <2>1, WinsOpen DEF WebCompletes, StillOpen, Settled
  <2>2. CASE UNCHANGED <<runState, taskState, winner>>
    BY <2>2, RecordsStay
  <2> QED BY <1>18, <2>1, <2>2 DEF ApplyPrView
<1>19. ASSUME NEW o \in Ops, NEW r \in Runs, DiscardCheck(o, r) PROVE LifeStep
  BY <1>19, RecordsStay DEF DiscardCheck
<1>20. ASSUME NEW o \in Ops \cup {Post}, NEW r \in Runs, RemoveLock(o, r) PROVE LifeStep
  BY <1>20, RecordsStay DEF RemoveLock
<1>21. ASSUME NEW o \in Ops, NEW r \in Runs, DiscardRemove(o, r) PROVE LifeStep
  BY <1>21, RecordsStay DEF DiscardRemove
<1>22. ASSUME NEW o \in Ops, NEW r \in Runs, DiscardDone(o, r) PROVE LifeStep
  <2>1. Busy(<<o, r>>) /\ pc[<<o, r>>] = "removed"
    BY <1>22 DEF DiscardDone, At, Busy
  <2>2. runState[r] \in Rested
    BY <2>1, OpAlone, CreateAlone, FitsMeans, CrewIds
  <2> QED BY <1>22, <2>2, DiscardsRested DEF DiscardDone
<1>23. ASSUME NEW r \in Runs, PostKeep(r) PROVE LifeStep
  BY <1>23, RecordsStay DEF PostKeep
<1>24. ASSUME NEW r \in Runs, PostCheck(r) PROVE LifeStep
  BY <1>24, RecordsStay DEF PostCheck
<1>25. ASSUME NEW r \in Runs, PostRemove(r) PROVE LifeStep
  BY <1>25, RecordsStay DEF PostRemove
<1>26. ASSUME NEW r \in Runs, NEW q \in Runs, PostSkip(r, q) PROVE LifeStep
  BY <1>26, RecordsStay DEF PostSkip
<1>27. ASSUME NEW r \in Runs, NEW q \in Runs, PostDiscard(r, q) PROVE LifeStep
  BY <1>27, RecordsStay DEF PostDiscard
<1>28. ASSUME NEW r \in Runs, PostOtherLock(r) PROVE LifeStep
  BY <1>28, RecordsStay DEF PostOtherLock
<1>29. ASSUME NEW r \in Runs, PostOtherRemove(r) PROVE LifeStep
  BY <1>29, RecordsStay DEF PostOtherRemove
<1>30. ASSUME NEW r \in Runs, PostOtherDone(r) PROVE LifeStep
  <2>1. pc[<<Post, r>>] = "oremoved" /\ Discarded(postAt[r]) /\ UNCHANGED winner
    BY <1>30 DEF PostOtherDone, At
  <2>2. postAt[r] \in Runs /\ runState[postAt[r]] \in Rested
    BY <2>1, PostAtIs DEF LifeInv, StageInv, TargetsRest, OthersPcs
  <2> QED BY <2>1, <2>2, DiscardsRested
<1>31. ASSUME NEW r \in Runs, PostEnd(r) PROVE LifeStep
  BY <1>31, RecordsStay DEF PostEnd
<1>32. ASSUME NEW o \in Ops, NEW r \in Runs, FixStart(o, r) PROVE LifeStep
  BY <1>32, RecordsStay DEF FixStart
<1>33. ASSUME NEW o \in Ops, NEW r \in Runs, Reopen(o, r) PROVE LifeStep
  <2>1. Busy(<<o, r>>) /\ pc[<<o, r>>] = "reopen"
    BY <1>33 DEF Reopen, At, Busy
  <2>2. runState[r] \in Rested
    BY <2>1, OpAlone, CreateAlone, FitsMeans, CrewIds
  <2>8. UNCHANGED <<taskState, winner>>
    BY <1>33 DEF Reopen
  <2>9. \A q \in Runs : q # r => runState'[q] = runState[q]
    BY <1>33, StateSet DEF Reopen
  <2>10. runState'[r] = runState[r] \/ <<runState[r], runState'[r]>> \in Lifecycle!Edges
    BY <1>33, <2>2, StateSet, RunEdges DEF Reopen, Rested
  <2>11. DOMAIN runState' = Runs
    BY <1>33 DEF Reopen, SetRun, Unmerging, TypeOK
  <2> QED BY <2>8, <2>9, <2>10, <2>11, RunsMove
<1>34. ASSUME NEW o \in Ops, NEW r \in Runs, ReopenLock(o, r) PROVE LifeStep
  BY <1>34, RecordsStay DEF ReopenLock
<1>35. ASSUME NEW o \in Ops, NEW r \in Runs, ReopenAdd(o, r) PROVE LifeStep
  <2>1. Busy(<<o, r>>) /\ pc[<<o, r>>] = "add"
    BY <1>35 DEF ReopenAdd, At, Busy
  <2>2. runState[r] = "creating"
    BY <2>1, OpAlone, CreateAlone, FitsMeans, CrewIds
  <2>8. UNCHANGED <<taskState, winner>>
    BY <1>35 DEF ReopenAdd
  <2>9. \A q \in Runs : q # r => runState'[q] = runState[q]
    BY <1>35, StateSet DEF ReopenAdd
  <2>10. runState'[r] = runState[r] \/ <<runState[r], runState'[r]>> \in Lifecycle!Edges
    BY <1>35, <2>2, StateSet, RunEdges DEF ReopenAdd
  <2>11. DOMAIN runState' = Runs
    BY <1>35 DEF ReopenAdd, SetRun, Unmerging, TypeOK
  <2> QED BY <2>8, <2>9, <2>10, <2>11, RunsMove
<1>36. ASSUME NEW t \in Tasks, CreateLock(t) PROVE LifeStep
  BY <1>36, RecordsStay DEF CreateLock
<1>37. ASSUME NEW t \in Tasks, CreateUnlock(t) PROVE LifeStep
  BY <1>37, RecordsStay DEF CreateUnlock
<1>38. ASSUME NEW t \in Tasks, LaunchAll(t) PROVE LifeStep
  <2>1. UNCHANGED <<taskState, winner>> /\ DOMAIN runState' = Runs
    BY <1>38 DEF LaunchAll
  <2>2. \A q \in Runs : \/ runState'[q] = runState[q]
                        \/ runState[q] = "creating" /\ runState'[q] = "launching"
    BY <1>38 DEF LaunchAll
  <2> QED BY <2>1, <2>2, RunEdges, RunsMove
<1>39. ASSUME NEW r \in Runs, AddWorktree(r) PROVE LifeStep
  <2>1. Busy(<<Create, r>>) /\ pc[<<Create, r>>] = "add"
    BY <1>39 DEF AddWorktree, At, Busy
  <2>2. runState[r] = "creating"
    BY <2>1, OpAlone, CreateAlone, FitsMeans, CrewIds
  <2>8. UNCHANGED <<taskState, winner>>
    BY <1>39 DEF AddWorktree
  <2>9. \A q \in Runs : q # r => runState'[q] = runState[q]
    BY <1>39, StateSet DEF AddWorktree
  <2>10. runState'[r] = runState[r] \/ <<runState[r], runState'[r]>> \in Lifecycle!Edges
    BY <1>39, <2>2, StateSet, RunEdges DEF AddWorktree
  <2>11. DOMAIN runState' = Runs
    BY <1>39 DEF AddWorktree, SetRun, Unmerging, TypeOK
  <2> QED BY <2>8, <2>9, <2>10, <2>11, RunsMove
<1>40. ASSUME NEW o \in Ops \cup {Create}, NEW r \in Runs, PrepareRun(o, r) PROVE LifeStep
  <2>1. Busy(<<o, r>>) /\ pc[<<o, r>>] = "prep"
    BY <1>40 DEF PrepareRun, At, Busy
  <2>2. runState[r] \in Rested \cup {"creating"} /\ (o = Create => runState[r] = "creating")
    BY <2>1, OpAlone, CreateAlone, FitsMeans, CrewIds
  <2>8. UNCHANGED <<taskState, winner>>
    BY <1>40 DEF PrepareRun
  <2>9. \A q \in Runs : q # r => runState'[q] = runState[q]
    BY <1>40, StateSet DEF PrepareRun
  <2>10. runState'[r] = runState[r] \/ <<runState[r], runState'[r]>> \in Lifecycle!Edges
    BY <1>40, <2>2, StateSet, RunEdges DEF PrepareRun, Rested
  <2>11. DOMAIN runState' = Runs
    BY <1>40 DEF PrepareRun, SetRun, Unmerging, TypeOK
  <2> QED BY <2>8, <2>9, <2>10, <2>11, RunsMove
<1>41. ASSUME NEW o \in Ops \cup {Create}, NEW r \in Runs, Launched(o, r) PROVE LifeStep
  <2>1. Busy(<<o, r>>) /\ pc[<<o, r>>] = "starting"
    BY <1>41 DEF Launched, At, Busy
  <2>2. runState[r] = "launching"
    BY <2>1, OpAlone, CreateAlone, FitsMeans, CrewIds
  <2>8. UNCHANGED <<taskState, winner>>
    BY <1>41 DEF Launched
  <2>9. \A q \in Runs : q # r => runState'[q] = runState[q]
    BY <1>41, StateSet DEF Launched
  <2>10. runState'[r] = runState[r] \/ <<runState[r], runState'[r]>> \in Lifecycle!Edges
    BY <1>41, <2>2, StateSet, RunEdges DEF Launched
  <2>11. DOMAIN runState' = Runs
    BY <1>41 DEF Launched, SetRun, Unmerging, TypeOK
  <2> QED BY <2>8, <2>9, <2>10, <2>11, RunsMove
<1>42. ASSUME NEW o \in Ops \cup {Create}, NEW r \in Runs, AgentReady(o, r) PROVE LifeStep
  BY <1>42, RecordsStay DEF AgentReady
<1>43. ASSUME NEW o \in Ops \cup {Create}, NEW r \in Runs, DeliverPrompt(o, r) PROVE LifeStep
  <2>1. Busy(<<o, r>>) /\ pc[<<o, r>>] = "deliver"
    BY <1>43 DEF DeliverPrompt, At, Busy
  <2>2. o # Create
    BY <2>1, OpAlone, CreateAlone, FitsMeans, CrewIds
  <2>8. UNCHANGED <<taskState, winner>>
    BY <1>43 DEF DeliverPrompt
  <2>9. \A q \in Runs : q # r => runState'[q] = runState[q]
    BY <1>43, StateSet DEF DeliverPrompt
  <2>10. runState'[r] = runState[r] \/ <<runState[r], runState'[r]>> \in Lifecycle!Edges
    BY <1>43, <2>2, StateSet, RunEdges DEF DeliverPrompt
  <2>11. DOMAIN runState' = Runs
    BY <1>43 DEF DeliverPrompt, SetRun, Unmerging, TypeOK
  <2> QED BY <2>8, <2>9, <2>10, <2>11, RunsMove
<1>44. ASSUME NEW r \in Runs, AgentWorking(r) PROVE LifeStep
  <2>8. UNCHANGED <<taskState, winner>>
    BY <1>44 DEF AgentWorking
  <2>9. \A q \in Runs : q # r => runState'[q] = runState[q]
    BY <1>44, StateSet DEF AgentWorking
  <2>10. runState'[r] = runState[r] \/ <<runState[r], runState'[r]>> \in Lifecycle!Edges
    BY <1>44, StateSet, RunEdges DEF AgentWorking
  <2>11. DOMAIN runState' = Runs
    BY <1>44 DEF AgentWorking, SetRun, Unmerging, TypeOK
  <2> QED BY <2>8, <2>9, <2>10, <2>11, RunsMove
<1>45. ASSUME NEW r \in Runs, AgentStops(r) PROVE LifeStep
  BY <1>45, RecordsStay DEF AgentStops
<1>46. ASSUME NEW r \in Runs, EvaluateTurn(r) PROVE LifeStep
  <2>8. UNCHANGED <<taskState, winner>>
    BY <1>46 DEF EvaluateTurn
  <2>9. \A q \in Runs : q # r => runState'[q] = runState[q]
    BY <1>46, StateSet DEF EvaluateTurn
  <2>10. runState'[r] = runState[r] \/ <<runState[r], runState'[r]>> \in Lifecycle!Edges
    BY <1>46, StateSet, RunEdges DEF EvaluateTurn
  <2>11. DOMAIN runState' = Runs
    BY <1>46 DEF EvaluateTurn, SetRun, Unmerging, TypeOK
  <2> QED BY <2>8, <2>9, <2>10, <2>11, RunsMove
<1>47. ASSUME NEW r \in Runs, WorktreeLost(r) PROVE LifeStep
  BY <1>47, RecordsStay DEF WorktreeLost
<1>48. ASSUME NEW r \in Runs, AgentOpensPr(r) PROVE LifeStep
  BY <1>48, RecordsStay DEF AgentOpensPr
<1>49. ASSUME NEW r \in Runs, ReconcileOp(r) PROVE LifeStep
  <2>8. UNCHANGED <<taskState, winner>>
    BY <1>49 DEF ReconcileOp
  <2>9. \A q \in Runs : q # r => runState'[q] = runState[q]
    BY <1>49, StateUnmerged DEF ReconcileOp
  <2>10. runState'[r] = runState[r] \/ <<runState[r], runState'[r]>> \in Lifecycle!Edges
    BY <1>49, StateUnmerged, RunEdges DEF ReconcileOp
  <2>11. DOMAIN runState' = Runs
    BY <1>49 DEF ReconcileOp, SetRun, Unmerging, TypeOK
  <2> QED BY <2>8, <2>9, <2>10, <2>11, RunsMove
<1>50. ASSUME NEW r \in Runs, ReconcileState(r) PROVE LifeStep
  <2>8. UNCHANGED <<taskState, winner>>
    BY <1>50 DEF ReconcileState, Unlaunched
  <2>9. \A q \in Runs : q # r => runState'[q] = runState[q]
    BY <1>50, StateSet DEF ReconcileState, Unlaunched
  <2>10. runState'[r] = runState[r] \/ <<runState[r], runState'[r]>> \in Lifecycle!Edges
    BY <1>50, StateSet, RunEdges DEF ReconcileState, Unlaunched
  <2>11. DOMAIN runState' = Runs
    BY <1>50 DEF ReconcileState, SetRun, Unmerging, TypeOK, Unlaunched
  <2> QED BY <2>8, <2>9, <2>10, <2>11, RunsMove
<1>51. CASE Crash
  BY <1>51, RecordsStay DEF Crash
<1>52. CASE Restart
  BY <1>52, RecordsStay DEF Restart
<1>53. CASE BootDone
  BY <1>53, RecordsStay DEF BootDone
<1>54. CASE UNCHANGED vars
  BY <1>54, RecordsStay DEF vars
<1> QED
  BY <1>1, <1>2, <1>3, <1>4, <1>5, <1>6, <1>7, <1>8, <1>9, <1>10, <1>11, <1>12, <1>13,
     <1>14, <1>15, <1>16, <1>17, <1>18, <1>19, <1>20, <1>21, <1>22, <1>23, <1>24,
     <1>25, <1>26, <1>27, <1>28, <1>29, <1>30, <1>31, <1>32, <1>33, <1>34, <1>35,
     <1>36, <1>37, <1>38, <1>39, <1>40, <1>41, <1>42, <1>43, <1>44, <1>45, <1>46,
     <1>47, <1>48, <1>49, <1>50, <1>51, <1>52, <1>53, <1>54
  DEF Next, Request, OpStep, MergeStep, DiscardStep, PipelineStep, CreateStep, PostStep, Boot,
      Agent, World, RunsOf

-----------------------------------------------------------------------------
(* The steps keep the invariant *)

\* No body of the crew is at a run that postMerge discards, that rests without an
\* op, or whose pull request was merged on the web.
LEMMA NobodyAt ==
  ASSUME LifeInv, NEW r \in Runs,
         \/ \E q \in Runs : postAt[q] = r
         \/ runOp[r] = NoOp /\ (runState[r] \in Rested \/ pr[r] = "merged")
  PROVE  \A p \in Crew : ~Busy(<<p, r>>)
<1>1. ASSUME NEW p \in Ops, Busy(<<p, r>>) PROVE FALSE
  BY <1>1, OpAlone
<1>2. ASSUME Busy(<<Create, r>>) PROVE FALSE
  BY <1>2, CreateAlone DEF Rested
<1> QED BY <1>1, <1>2 DEF Crew

\* Only one body of the crew is at a run.
LEMMA OneAt ==
  ASSUME LifeInv, NEW o \in Crew, NEW r \in Runs, Busy(<<o, r>>)
  PROVE  \A p \in Crew : p # o => ~Busy(<<p, r>>)
  BY OpAlone, CreateAlone DEF Crew

\* What reconcile does to a run, and to the bodies.
LEMMA ReconcileOpTells ==
  ASSUME TypeOK, NEW r \in Runs, ReconcileOp(r)
  PROVE  /\ phase = "boot" /\ phase' = "boot" /\ recAt' = r /\ rec' = rec \ {r} /\ r \in rec
         /\ UNCHANGED <<postAt, deleted>>
         /\ \A q \in Runs : CrewStays(q) /\ OpStays(q)
         /\ \A q \in Runs : runState'[q] = runState[q] \/ runState[q] = "merging"
         /\ \A q \in Runs : runState'[q] \in {runState[q], "review_ready"}
<1>1. \A q \in Runs : CrewStays(q)
  BY CrewGoes, CrewIds DEF ReconcileOp, CrewStays
<1>2. \A q \in Runs : OpStays(q)
  <2>1. UNCHANGED runOp \/ runOp' = [runOp EXCEPT ![r] = NoOp]
    BY DEF ReconcileOp, Interrupt
  <2> QED BY <2>1 DEF OpStays, TypeOK
<1>3. \A q \in Runs : \/ runState'[q] = runState[q]
                      \/ runState[q] = "merging" /\ runState'[q] = "review_ready"
  BY StateUnmerged DEF ReconcileOp
<1>4. /\ phase = "boot" /\ phase' = phase /\ recAt' = r /\ rec' = rec \ {r} /\ r \in rec
      /\ UNCHANGED <<postAt, deleted>>
  BY DEF ReconcileOp, taskRec
<1> QED BY <1>1, <1>2, <1>3, <1>4

\* The second half of its turn fails a run or resumes its creation.
LEMMA ReconcileStateTells ==
  ASSUME TypeOK, NEW r \in Runs, ReconcileState(r)
  PROVE  /\ phase = "boot" /\ phase' = "boot" /\ recAt = r /\ recAt' = None /\ rec' = rec
         /\ UNCHANGED <<runOp, postAt, deleted>>
         /\ \A o \in Crew, q \in Runs : o # Create \/ q # r => pc'[<<o, q>>] = pc[<<o, q>>]
         /\ \A q \in Runs : q # r => runState'[q] = runState[q]
         /\ \/ pc'[<<Create, r>>] = pc[<<Create, r>>] /\ runState'[r] \in {runState[r], "failed"}
            \/ /\ pc'[<<Create, r>>] = "resume"
               /\ runState[r] = "creating" /\ runState'[r] = "creating"
<1>1. CASE /\ runState[r] = "creating" /\ Goto(<<Create, r>>, "resume") /\ UNCHANGED runState
  BY <1>1, CrewGoes, CrewIds DEF ReconcileState, posting, taskRec, opRec
<1>2. CASE UNCHANGED pc /\ (UNCHANGED runState \/ SetRun(r, "failed"))
  BY <1>2, StateSet DEF ReconcileState, posting, taskRec, opRec
<1> QED BY <1>1, <1>2 DEF ReconcileState

\* A dying daemon takes its bodies with it.
LEMMA CrashTells ==
  ASSUME Crash
  PROVE  /\ \A p \in Crew, r \in Runs : ~Busy(<<p, r>>)'
         /\ UNCHANGED <<runState, runOp, deleted, wt>>
         /\ phase' = "down" /\ \A r \in Runs : postAt'[r] = None
  BY CrewIds DEF Crash, Busy, records, opRec, taskRec

\* A restart leaves the records to reconcile.
LEMMA RestartTells ==
  ASSUME Restart
  PROVE  /\ UNCHANGED <<runState, runOp, deleted, wt, pc, postAt>>
         /\ phase = "down" /\ phase' = "boot" /\ recAt' = None
  BY DEF Restart, records, opRec, taskRec, world, volatile, posting

\* While the daemon reconciles, no body of an op is at work, and postMerge is not at
\* another run.
LEMMA BootTells ==
  ASSUME LifeInv, phase = "boot"
  PROVE  /\ \A o \in Ops, r \in Runs : ~Busy(<<o, r>>)
         /\ \A r \in Runs : postAt[r] = None
  BY DEF LifeInv, OpInv, Booting, Targets, Busy, OthersPcs

\* A body's place goes on telling the state of its run.
LEMMA StagedKept ==
  ASSUME LifeInv, StageMove
  PROVE  Staged'
<1> SUFFICES ASSUME NEW p \in Crew, NEW q \in Runs, Busy(<<p, q>>)'
             PROVE  Fits(p, pc'[<<p, q>>], runState'[q])
  BY DEF Staged, Busy
<1>a. Busy(<<p, q>>) => Fits(p, pc[<<p, q>>], runState[q])
  BY DEF LifeInv, StageInv, Staged
<1>b. pc'[<<p, q>>] = pc[<<p, q>>] => Busy(<<p, q>>)
  BY DEF Busy
<1>c. pc'[<<p, q>>] = pc[<<p, q>>] /\ runState'[q] = runState[q] =>
        Fits(p, pc'[<<p, q>>], runState'[q])
  BY <1>a, <1>b
<1>d. Steady(q) => Fits(p, pc'[<<p, q>>], runState'[q])
  BY <1>a, <1>b, FitsOn DEF Steady, CrewStays
<1>e. ASSUME NEW o \in Crew, Working(o, q)
      PROVE  Fits(p, pc'[<<p, q>>], runState'[q])
  BY <1>b, <1>e, OneAt DEF Working
<1>1. CASE Calm
  BY <1>1, <1>d DEF Calm
<1>2. CASE Starts
  <2>1. CASE Starting(q)
    BY <1>c, <2>1 DEF Starting, Crew
  <2> QED BY <1>2, <1>d, <2>1 DEF Starts
<1>3. CASE Creates
  BY <1>3, <1>d, <1>e, CrewIds DEF Creates
<1>4. CASE Crash
  BY <1>4, CrashTells
<1>5. CASE Restart
  BY <1>5, <1>c, RestartTells
<1>6. ASSUME NEW o \in Ops, NEW r \in Runs, OpWorks(o, r)
      PROVE  Fits(p, pc'[<<p, q>>], runState'[q])
  BY <1>6, <1>d, <1>e, CrewIds DEF OpWorks
<1>7. ASSUME NEW r \in Runs, NEW s \in Runs, TakesOther(r, s)
      PROVE  Fits(p, pc'[<<p, q>>], runState'[q])
  BY <1>7, <1>c DEF TakesOther, CrewStays
<1>8. ASSUME NEW r \in Runs, MergedOnWeb(r)
      PROVE  Fits(p, pc'[<<p, q>>], runState'[q])
  BY <1>8, <1>b, <1>d, NobodyAt DEF MergedOnWeb, CrewStays
<1>9. ASSUME NEW r \in Runs, DropsOther(r)
      PROVE  Fits(p, pc'[<<p, q>>], runState'[q])
  BY <1>9, <1>b, <1>d, NobodyAt DEF DropsOther, CrewStays
<1>10. ASSUME NEW r \in Runs, ReconcileOp(r)
       PROVE  Fits(p, pc'[<<p, q>>], runState'[q])
  <2>1. phase = "boot" /\ pc'[<<p, q>>] = pc[<<p, q>>]
        /\ (runState'[q] = runState[q] \/ runState[q] = "merging")
    BY <1>10, ReconcileOpTells DEF LifeInv, CrewStays
  <2>2. p = Create
    BY <1>b, <2>1, BootTells DEF Crew
  <2> QED BY <1>b, <1>c, <2>1, <2>2, CreateAlone
<1>11. ASSUME NEW r \in Runs, ReconcileState(r)
       PROVE  Fits(p, pc'[<<p, q>>], runState'[q])
  <2>1. phase = "boot" /\ recAt = r
    BY <1>11, ReconcileStateTells DEF LifeInv
  <2>2. ~Busy(<<Create, r>>) /\ (p # Create => ~Busy(<<p, q>>))
    BY <2>1, BootTells DEF Crew, LifeInv, StageInv, BootCreates
  <2> QED BY <1>11, <1>b, <1>c, <2>2, ReconcileStateTells, FitsAt DEF LifeInv
<1> QED BY <1>1, <1>2, <1>3, <1>4, <1>5, <1>6, <1>7, <1>8, <1>9, <1>10, <1>11 DEF StageMove

\* The creation of a run goes on working alone.
LEMMA CreatedAloneKept ==
  ASSUME LifeInv, StageMove
  PROVE  CreatedAlone'
<1> SUFFICES ASSUME NEW q \in Runs, Busy(<<Create, q>>)' PROVE runOp'[q] = NoOp
  BY DEF CreatedAlone, Busy
<1>a. Busy(<<Create, q>>) => runOp[q] = NoOp
  BY DEF LifeInv, StageInv, CreatedAlone
<1>b. pc'[<<Create, q>>] = pc[<<Create, q>>] => Busy(<<Create, q>>)
  BY DEF Busy
<1>c. CrewStays(q) /\ OpStays(q) => runOp'[q] = NoOp
  BY <1>a, <1>b, CrewIds DEF CrewStays, OpStays
<1>d. Steady(q) => runOp'[q] = NoOp
  BY <1>c DEF Steady
<1>1. CASE Calm
  BY <1>1, <1>d DEF Calm
<1>2. CASE Starts
  BY <1>2, <1>b, <1>d, NobodyAt, CrewIds DEF Starts, Starting
<1>3. CASE Creates
  BY <1>3, <1>a, <1>d DEF Creates, Working
<1>4. CASE Crash
  BY <1>4, CrashTells, CrewIds
<1>5. CASE Restart
  BY <1>5, <1>a, <1>b, RestartTells
<1>6. ASSUME NEW o \in Ops, NEW r \in Runs, OpWorks(o, r) PROVE runOp'[q] = NoOp
  BY <1>6, <1>b, <1>d, OneAt, CrewIds DEF OpWorks, Working
<1>7. ASSUME NEW r \in Runs, NEW s \in Runs, TakesOther(r, s) PROVE runOp'[q] = NoOp
  BY <1>7, <1>b, <1>c, NobodyAt, CrewIds DEF TakesOther, CrewStays
<1>8. ASSUME NEW r \in Runs, MergedOnWeb(r) PROVE runOp'[q] = NoOp
  BY <1>8, <1>b, <1>d, NobodyAt, CrewIds DEF MergedOnWeb, CrewStays
<1>9. ASSUME NEW r \in Runs, DropsOther(r) PROVE runOp'[q] = NoOp
  BY <1>9, <1>c, <1>d DEF DropsOther
<1>10. ASSUME NEW r \in Runs, ReconcileOp(r) PROVE runOp'[q] = NoOp
  BY <1>10, <1>c, ReconcileOpTells DEF LifeInv
<1>11. ASSUME NEW r \in Runs, ReconcileState(r) PROVE runOp'[q] = NoOp
  <2>1. phase = "boot" /\ recAt = r /\ runOp' = runOp
    BY <1>11, ReconcileStateTells DEF LifeInv
  <2>2. CASE Busy(<<Create, q>>)
    BY <1>a, <2>1, <2>2
  <2>3. CASE q = r /\ runState[r] = "creating"
    BY <2>1, <2>3 DEF LifeInv, OpInv, OpsCovered, StageInv, BootCreates, CleanUpsMerged
  <2> QED BY <1>11, <1>b, <2>2, <2>3, ReconcileStateTells, CrewIds DEF LifeInv
<1> QED BY <1>1, <1>2, <1>3, <1>4, <1>5, <1>6, <1>7, <1>8, <1>9, <1>10, <1>11 DEF StageMove

\* A run stays one that postMerge may discard until it is discarded.
LEMMA TargetsRestKept ==
  ASSUME LifeInv, StageMove
  PROVE  TargetsRest'
<1> SUFFICES ASSUME NEW s \in Runs, postAt'[s] # None PROVE runState'[postAt'[s]] \in Rested
  BY DEF TargetsRest
<1>a. postAt[s] # None => /\ postAt[s] \in Runs /\ runState[postAt[s]] \in Rested
                          /\ runOp[postAt[s]] # NoOp
  <2>1. postAt[s] # None => postAt[s] \in Runs /\ runOp[postAt[s]].id = Post
    BY TargetTells DEF LifeInv, TypeOK
  <2> QED BY <2>1, IdAssumption DEF LifeInv, StageInv, TargetsRest, NoOp
<1>b. ASSUME postAt'[s] = postAt[s], Steady(postAt[s])
      PROVE  runState'[postAt'[s]] \in Rested
  BY <1>a, <1>b DEF Steady, StateStays, Rested
<1>c. ASSUME NEW o \in Crew, postAt'[s] = postAt[s], Working(o, postAt[s])
      PROVE  FALSE
  BY <1>a, <1>c, NobodyAt DEF Working
<1>1. CASE Calm
  BY <1>1, <1>a, <1>b DEF Calm, InPlace
<1>2. CASE Starts
  BY <1>2, <1>a, <1>b DEF Starts, InPlace, Starting
<1>3. CASE Creates
  BY <1>3, <1>a, <1>b, <1>c, CrewIds DEF Creates
<1>4. CASE Crash
  BY <1>4, CrashTells
<1>5. CASE Restart
  BY <1>5, <1>a, RestartTells
<1>6. ASSUME NEW o \in Ops, NEW r \in Runs, OpWorks(o, r)
      PROVE  runState'[postAt'[s]] \in Rested
  BY <1>6, <1>a, <1>b, <1>c, CrewIds DEF OpWorks, InPlace
<1>7. ASSUME NEW r \in Runs, NEW q \in Runs, TakesOther(r, q)
      PROVE  runState'[postAt'[s]] \in Rested
  BY <1>7, <1>a DEF TakesOther, AtBecomes
<1>8. ASSUME NEW r \in Runs, MergedOnWeb(r)
      PROVE  runState'[postAt'[s]] \in Rested
  BY <1>8, <1>a, <1>b DEF MergedOnWeb, InPlace
<1>9. ASSUME NEW r \in Runs, DropsOther(r)
      PROVE  runState'[postAt'[s]] \in Rested
  <2>1. s # r /\ postAt'[s] = postAt[s]
    BY <1>9 DEF DropsOther, AtBecomes
  <2>2. postAt[s] # postAt[r]
    BY <1>9, <2>1 DEF DropsOther, LifeInv, OpInv, Targets
  <2> QED BY <1>9, <1>a, <1>b, <2>1, <2>2 DEF DropsOther
<1>10. ASSUME NEW r \in Runs, ReconcileOp(r) \/ ReconcileState(r) PROVE FALSE
  BY <1>10, BootTells, ReconcileOpTells, ReconcileStateTells DEF LifeInv
<1> QED BY <1>1, <1>2, <1>3, <1>4, <1>5, <1>6, <1>7, <1>8, <1>9, <1>10 DEF StageMove

\* Reconcile resumes a run's creation when it has done with the run.
LEMMA BootCreatesKept ==
  ASSUME LifeInv, StageMove
  PROVE  BootCreates'
<1> DEFINE Quiet == \A r \in Runs : Busy(<<Create, r>>)' => Busy(<<Create, r>>)
<1>a. ASSUME NEW r \in Runs, CrewStays(r) PROVE Busy(<<Create, r>>)' => Busy(<<Create, r>>)
  BY <1>a, CrewIds DEF CrewStays, Busy
<1>b. ASSUME NEW r \in Runs, Steady(r) \/ Working(Create, r) \/ Starting(r)
      PROVE  Busy(<<Create, r>>)' => Busy(<<Create, r>>)
  BY <1>a, <1>b DEF Steady, Working, Starting, Busy
<1>c. ASSUME NEW r \in Runs, NEW o \in Ops, Working(o, r)
      PROVE  Busy(<<Create, r>>)' => Busy(<<Create, r>>)
  BY <1>c, CrewIds DEF Working, Busy
<1>d. ASSUME Quiet, phase' \in {phase, "up"}, UNCHANGED <<rec, recAt>> PROVE BootCreates'
  BY <1>d DEF LifeInv, StageInv, BootCreates, Busy
<1> HIDE DEF Quiet
<1>1. CASE Calm \/ Starts
  <2>1. Quiet
    BY <1>1, <1>b DEF Quiet, Calm, Starts
  <2> QED BY <1>1, <1>d, <2>1 DEF Calm, Starts, InPlace
<1>2. CASE Creates
  <2>1. Quiet
    BY <1>2, <1>b DEF Quiet, Creates
  <2> QED BY <1>2, <1>d, <2>1 DEF Creates
<1>3. CASE Crash
  BY <1>3, CrashTells, CrewIds DEF BootCreates, Busy
<1>4. CASE Restart
  <2>1. \A r \in Runs : ~Busy(<<Create, r>>)'
    BY <1>4, RestartTells DEF LifeInv, StageInv, BootCreates, Busy
  <2>2. phase' = "boot" /\ recAt' \notin rec'
    BY <1>4, IdAssumption DEF Restart
  <2> QED BY <2>1, <2>2 DEF BootCreates, Busy
<1>5. ASSUME NEW o \in Ops, NEW r \in Runs, OpWorks(o, r) PROVE BootCreates'
  <2>1. Quiet
    BY <1>5, <1>b, <1>c DEF Quiet, OpWorks
  <2> QED BY <1>5, <1>d, <2>1 DEF OpWorks, InPlace
<1>6. ASSUME NEW r \in Runs, NEW q \in Runs, TakesOther(r, q) PROVE BootCreates'
  <2>1. Quiet
    BY <1>6, <1>a DEF Quiet, TakesOther
  <2> QED BY <1>6, <1>d, <2>1 DEF TakesOther
<1>7. ASSUME NEW r \in Runs, MergedOnWeb(r) \/ DropsOther(r) PROVE BootCreates'
  <2>1. Quiet
    BY <1>7, <1>a, <1>b DEF Quiet, MergedOnWeb, DropsOther
  <2> QED BY <1>7, <1>d, <2>1 DEF MergedOnWeb, DropsOther, InPlace
<1>8. ASSUME NEW r \in Runs, ReconcileOp(r) PROVE BootCreates'
  <2>1. /\ phase = "boot" /\ phase' = "boot" /\ recAt' = r /\ rec' = rec \ {r} /\ r \in rec
        /\ \A q \in Runs : Busy(<<Create, q>>)' => Busy(<<Create, q>>)
    BY <1>8, <1>a, ReconcileOpTells DEF LifeInv
  <2> QED BY <2>1 DEF LifeInv, StageInv, BootCreates, Busy
<1>9. ASSUME NEW r \in Runs, ReconcileState(r) PROVE BootCreates'
  <2>1. /\ phase = "boot" /\ phase' = "boot" /\ recAt = r /\ recAt' = None /\ rec' = rec
        /\ \A q \in Runs : q # r => pc'[<<Create, q>>] = pc[<<Create, q>>]
    BY <1>9, ReconcileStateTells, CrewIds DEF LifeInv
  <2>2. None \notin rec /\ r \notin rec /\ r # None
    BY <2>1, IdAssumption DEF LifeInv, TypeOK, StageInv, BootCreates
  <2> QED BY <2>1, <2>2, IdAssumption DEF LifeInv, StageInv, BootCreates, Busy
<1> QED BY <1>1, <1>2, <1>3, <1>4, <1>5, <1>6, <1>7, <1>8, <1>9 DEF StageMove

\* A body that begins to create a run's worktree or terminal finds it being created.
LEMMA CreatesLate ==
  ASSUME LifeInv, StageMove, NEW r \in Runs, Busy(<<Create, r>>)'
  PROVE  Busy(<<Create, r>>) \/ runState[r] = "creating"
<1>1. CASE pc'[<<Create, r>>] = pc[<<Create, r>>]
  BY <1>1 DEF Busy
<1>2. ASSUME NEW o \in Crew, Working(o, r)
      PROVE  pc'[<<Create, r>>] = pc[<<Create, r>>] \/ Busy(<<Create, r>>)
  BY <1>2, CrewIds DEF Working
<1>3. CASE Steady(r) \/ Starting(r) \/ CrewStays(r)
  BY <1>1, <1>3, CrewIds DEF Steady, Starting, CrewStays
<1>4. CASE Crash
  BY <1>4, CrashTells, CrewIds
<1>5. CASE Restart
  BY <1>1, <1>5, RestartTells
<1>6. CASE Calm \/ Starts \/ Creates
  BY <1>1, <1>2, <1>3, <1>6, CrewIds DEF Calm, Starts, Creates
<1>7. ASSUME NEW o \in Ops, NEW q \in Runs, OpWorks(o, q)
      PROVE  Busy(<<Create, r>>) \/ runState[r] = "creating"
  BY <1>1, <1>2, <1>3, <1>7, CrewIds DEF OpWorks
<1>8. ASSUME NEW q \in Runs, NEW s \in Runs, TakesOther(q, s)
      PROVE  Busy(<<Create, r>>) \/ runState[r] = "creating"
  BY <1>3, <1>8 DEF TakesOther
<1>9. ASSUME NEW q \in Runs, MergedOnWeb(q) \/ DropsOther(q) \/ ReconcileOp(q)
      PROVE  Busy(<<Create, r>>) \/ runState[r] = "creating"
  BY <1>3, <1>9, ReconcileOpTells DEF MergedOnWeb, DropsOther, LifeInv
<1>10. ASSUME NEW q \in Runs, ReconcileState(q)
       PROVE  Busy(<<Create, r>>) \/ runState[r] = "creating"
  BY <1>1, <1>10, ReconcileStateTells, CrewIds DEF LifeInv
<1> QED BY <1>4, <1>5, <1>6, <1>7, <1>8, <1>9, <1>10 DEF StageMove

\* A run without a worktree yet goes on without a pull request.
LEMMA PullRequestsKept ==
  ASSUME LifeInv, StageMove, WorldStep
  PROVE  PullRequests'
<1>1. wt' \subseteq based'
  BY DEF WorldStep
<1>2. ASSUME NEW r \in Runs, pr'[r] # "none" PROVE r \in based'
  BY <1>2 DEF WorldStep, LifeInv, StageInv, PullRequests
<1>3. ASSUME NEW r \in Runs, runState'[r] = "creating" \/ Busy(<<Create, r>>)'
      PROVE  pr'[r] = "none"
  <2>1. runState[r] = "creating" \/ Busy(<<Create, r>>) \/ r \notin based
    BY <1>3, CreatesLate DEF WorldStep
  <2> QED BY <2>1 DEF WorldStep, LifeInv, StageInv, PullRequests
<1>4. ASSUME NEW o \in Ops, NEW r \in Runs, pc'[<<o, r>>] = "ghmerge" PROVE pr'[r] # "none"
  <2>1. pr[r] # "none"
    BY <1>4 DEF WorldStep, LifeInv, StageInv, PullRequests
  <2> QED BY <2>1 DEF WorldStep
<1> QED BY <1>1, <1>2, <1>3, <1>4 DEF PullRequests, Busy

\* What TaskLifecycle's steps do to one run and one task.
LEMMA LifeTells ==
  ASSUME LifeInv, LifeStep
  PROVE  \/ /\ UNCHANGED <<taskState, winner>>
            /\ \A r \in Runs : \/ runState'[r] = runState[r]
                               \/ /\ runState[r] \notin Settled
                                  /\ runState'[r] \notin Settled
         \/ \E r \in Runs :
              /\ taskState[Task(r)] = "open" /\ runState[r] \notin Settled
              /\ \A q \in Runs : runState'[q] = IF q = r THEN "merged" ELSE runState[q]
              /\ \A t \in Tasks : taskState'[t] = IF t = Task(r) THEN "merged" ELSE taskState[t]
              /\ \A t \in Tasks : winner'[t] = IF t = Task(r) THEN r ELSE winner[t]
         \/ \E r \in Runs :
              /\ runState[r] \notin Settled /\ UNCHANGED winner
              /\ \A q \in Runs : runState'[q] = IF q = r THEN "discarded" ELSE runState[q]
              /\ \A t \in Tasks : taskState'[t] =
                   IF /\ t = Task(r) /\ taskState[t] = "open"
                      /\ \A q \in RunsOf(t) \ {r} : runState[q] = "discarded"
                   THEN "closed" ELSE taskState[t]
<1>1. /\ taskState \in [Tasks -> {"open", "merged", "closed"}]
      /\ winner \in [Tasks -> Runs \cup {None}] /\ DOMAIN runState = Runs
  BY DEF LifeInv, TypeOK
<1>2. CASE UNCHANGED Lifecycle!vars
  BY <1>2 DEF Lifecycle!vars
<1>3. CASE Lifecycle!RunsMove
  <2>1. \A s, u : <<s, u>> \in Lifecycle!Edges => s \notin Settled /\ u \notin Settled
    BY DEF Lifecycle!Edges, Settled
  <2> QED BY <1>3, <2>1 DEF Lifecycle!RunsMove
<1>4. ASSUME NEW r \in Runs, Lifecycle!Merge(r)
      PROVE  /\ taskState[Task(r)] = "open" /\ runState[r] \notin Settled
             /\ \A q \in Runs : runState'[q] = IF q = r THEN "merged" ELSE runState[q]
             /\ \A t \in Tasks : taskState'[t] = IF t = Task(r) THEN "merged" ELSE taskState[t]
             /\ \A t \in Tasks : winner'[t] = IF t = Task(r) THEN r ELSE winner[t]
  BY <1>1, <1>4 DEF Lifecycle!Merge, Task, Settled
<1>5. ASSUME NEW r \in Runs, Lifecycle!Discard(r)
      PROVE  /\ runState[r] \notin Settled /\ UNCHANGED winner
             /\ \A q \in Runs : runState'[q] = IF q = r THEN "discarded" ELSE runState[q]
             /\ \A t \in Tasks : taskState'[t] =
                  IF /\ t = Task(r) /\ taskState[t] = "open"
                     /\ \A q \in RunsOf(t) \ {r} : runState[q] = "discarded"
                  THEN "closed" ELSE taskState[t]
  <2>1. /\ runState[r] \in {"running", "review_ready", "failed"} /\ UNCHANGED winner
        /\ runState' = [runState EXCEPT ![r] = "discarded"]
        /\ taskState' = IF /\ taskState[Task(r)] = "open"
                           /\ \A q \in RunsOf(Task(r)) \ {r} : runState[q] = "discarded"
                        THEN [taskState EXCEPT ![Task(r)] = "closed"] ELSE taskState
    BY <1>5 DEF Lifecycle!Discard, Lifecycle!RunsOf, RunsOf, Task
  <2> QED BY <1>1, <2>1 DEF Settled
<1> QED BY <1>2, <1>3, <1>4, <1>5 DEF LifeStep, Lifecycle!Next

\* A settled run stays so, and so do a task that is settled and its winner.
LEMMA SettledStays ==
  ASSUME LifeInv, LifeStep
  PROVE  /\ \A r \in Runs : runState[r] \in Settled => runState'[r] = runState[r]
         /\ \A t \in Tasks : taskState[t] # "open" =>
              taskState'[t] = taskState[t] /\ winner'[t] = winner[t]
  BY LifeTells

\* The winner of a task stays its only merged run.
LEMMA WinnerKept ==
  ASSUME LifeInv, LifeStep
  PROVE  SingleWinner'
<1> USE OthersType DEF LifeInv, StageInv, SingleWinner
<1>1. CASE /\ UNCHANGED <<taskState, winner>>
           /\ \A r \in Runs : \/ runState'[r] = runState[r]
                              \/ runState[r] \notin Settled /\ runState'[r] \notin Settled
  BY <1>1 DEF Settled
<1>2. ASSUME NEW r \in Runs,
             taskState[Task(r)] = "open", runState[r] \notin Settled,
             \A q \in Runs : runState'[q] = IF q = r THEN "merged" ELSE runState[q],
             \A t \in Tasks : taskState'[t] = IF t = Task(r) THEN "merged" ELSE taskState[t],
             \A t \in Tasks : winner'[t] = IF t = Task(r) THEN r ELSE winner[t]
      PROVE  SingleWinner'
  <2>1. r \in RunsOf(Task(r)) /\ r # None /\ None \notin Runs /\ Task(r) \in Tasks
    BY IdAssumption DEF RunsOf, Task
  <2>2. \A q \in Runs : Task(q) = Task(r) => runState[q] # "merged"
    BY <1>2, <2>1
  <2>3. \A q \in Runs : runState'[q] = "merged" <=> winner'[Task(q)] = q
    BY <1>2, <2>1, <2>2
  <2> QED BY <1>2, <2>1, <2>3
<1>3. ASSUME NEW r \in Runs,
             runState[r] \notin Settled, UNCHANGED winner,
             \A q \in Runs : runState'[q] = IF q = r THEN "discarded" ELSE runState[q],
             \A t \in Tasks : taskState'[t] =
               IF /\ t = Task(r) /\ taskState[t] = "open"
                  /\ \A q \in RunsOf(t) \ {r} : runState[q] = "discarded"
               THEN "closed" ELSE taskState[t]
      PROVE  SingleWinner'
  BY <1>3 DEF Settled
<1> QED BY <1>1, <1>2, <1>3, LifeTells

\* A task stays open as long as one of its runs is not discarded.
LEMMA ClosedKept ==
  ASSUME LifeInv, LifeStep
  PROVE  ClosedWithLastRun'
<1> SUFFICES ASSUME NEW t \in Tasks
             PROVE  taskState'[t] = "closed" <=> \A r \in RunsOf(t) : runState'[r] = "discarded"
  BY DEF ClosedWithLastRun
<1>a. taskState[t] = "closed" <=> \A r \in RunsOf(t) : runState[r] = "discarded"
  BY DEF LifeInv, StageInv, ClosedWithLastRun
<1>b. \A r \in RunsOf(t) : r \in Runs /\ Task(r) = t
  BY DEF RunsOf, Task
<1>1. CASE /\ UNCHANGED <<taskState, winner>>
           /\ \A r \in Runs : \/ runState'[r] = runState[r]
                              \/ runState[r] \notin Settled /\ runState'[r] \notin Settled
  BY <1>1, <1>a, <1>b DEF Settled
<1>2. ASSUME NEW r \in Runs,
             taskState[Task(r)] = "open", runState[r] \notin Settled,
             \A q \in Runs : runState'[q] = IF q = r THEN "merged" ELSE runState[q],
             \A u \in Tasks : taskState'[u] = IF u = Task(r) THEN "merged" ELSE taskState[u]
      PROVE  taskState'[t] = "closed" <=> \A q \in RunsOf(t) : runState'[q] = "discarded"
  <2>1. CASE t = Task(r)
    BY <1>2, <2>1 DEF RunsOf, Task
  <2>2. CASE t # Task(r)
    BY <1>2, <1>a, <1>b, <2>2
  <2> QED BY <2>1, <2>2
<1>3. ASSUME NEW r \in Runs,
             runState[r] \notin Settled, UNCHANGED winner,
             \A q \in Runs : runState'[q] = IF q = r THEN "discarded" ELSE runState[q],
             \A u \in Tasks : taskState'[u] =
               IF /\ u = Task(r) /\ taskState[u] = "open"
                  /\ \A q \in RunsOf(u) \ {r} : runState[q] = "discarded"
               THEN "closed" ELSE taskState[u]
      PROVE  taskState'[t] = "closed" <=> \A q \in RunsOf(t) : runState'[q] = "discarded"
  <2>1. CASE t # Task(r)
    BY <1>3, <1>a, <1>b, <2>1
  <2>2. CASE t = Task(r) /\ taskState[t] = "open"
    <3>1. \A q \in RunsOf(t) : runState'[q] = IF q = r THEN "discarded" ELSE runState[q]
      BY <1>3, <1>b
    <3> QED BY <1>3, <2>2, <3>1
  <2>3. CASE t = Task(r) /\ taskState[t] = "merged"
    <3>1. winner[t] \in RunsOf(t) /\ winner[t] \in Runs /\ runState[winner[t]] = "merged"
      BY <1>b, <2>3 DEF LifeInv, StageInv, SingleWinner
    <3>2. winner[t] # r
      BY <1>3, <3>1 DEF Settled
    <3> QED BY <1>3, <2>3, <3>1, <3>2
  <2>4. CASE t = Task(r) /\ taskState[t] = "closed"
    BY <1>3, <1>a, <2>4 DEF RunsOf, Task, Settled
  <2> QED BY <2>1, <2>2, <2>3, <2>4 DEF LifeInv, TypeOK
<1> QED BY <1>1, <1>2, <1>3, LifeTells

\* The clean-ups are those of merged runs.
LEMMA CleanUpsKept ==
  ASSUME LifeInv, OpMove, LifeStep
  PROVE  CleanUpsMerged'
<1> SUFFICES ASSUME NEW q \in Runs, runOp'[q].kind = "cleanup"
             PROVE  runOp[q].kind = "cleanup" \/ runState'[q] = "merged"
  BY SettledStays DEF LifeInv, StageInv, CleanUpsMerged, Settled
<1>1. ASSUME runOp'[q] \in {runOp[q], NoOp} PROVE runOp[q].kind = "cleanup"
  BY <1>1, NoneIsNone
<1>2. CASE Aside \/ Crash \/ Restart \/ BootDone \/ \E t \in Tasks : Deletes(t)
  BY <1>1, <1>2 DEF Aside, Crash, Restart, BootDone, Deletes, records, opRec
<1>3. ASSUME NEW o \in Ops, NEW targets \in SUBSET Runs, Begins(o, targets)
      PROVE  runOp[q].kind = "cleanup"
  <2>1. KindOf[o] # "cleanup"
    BY RunsAssumption DEF Kinds
  <2> QED BY <1>3, <2>1 DEF Begins
<1>4. ASSUME NEW o \in Ops, NEW r \in Runs, Ends(o, r)
      PROVE  runOp[q].kind = "cleanup"
  BY <1>1, <1>4 DEF Ends, OpBecomes
<1>5. ASSUME NEW id \in Ops \cup {Web}, NEW r \in Runs, CleanUpStarts(id, r)
      PROVE  runOp[q].kind = "cleanup" \/ runState'[q] = "merged"
  BY <1>5 DEF CleanUpStarts, OpBecomes
<1>6. ASSUME NEW r \in Runs, NEW s \in Runs, Takes(r, s)
      PROVE  runOp[q].kind = "cleanup"
  BY <1>6 DEF Takes, OpBecomes
<1>7. ASSUME NEW r \in Runs, Drops(r) \/ CleanUpEnds(r)
      PROVE  runOp[q].kind = "cleanup"
  BY <1>1, <1>7 DEF Drops, CleanUpEnds, OpBecomes
<1>8. ASSUME NEW r \in Runs, ReconcileOp(r)
      PROVE  runOp[q].kind = "cleanup"
  BY <1>1, <1>8, ReconcileOpTells DEF LifeInv, OpStays
<1> QED BY <1>2, <1>3, <1>4, <1>5, <1>6, <1>7, <1>8 DEF OpMove

\* The op on a run stays one that is not answered.
LEMMA OpsRunKept ==
  ASSUME LifeInv, AnswerStep
  PROVE  OpsRun'
<1> SUFFICES ASSUME NEW o \in Ops, NEW r \in Runs, Bears(o, r)'
             PROVE  outcome'[<<o, r>>] = "running"
  BY DEF OpsRun, Bears
<1> QED BY DEF AnswerStep, LifeInv, StageInv, OpsRun

\* A run that nobody works on gets no worktree, and goes to no state of activity.
LEMMA IdleStays ==
  ASSUME LifeInv, StageMove, WorldStep, NEW r \in Runs, Task(r) \in deleted,
         runOp[r] = NoOp, runState[r] \notin ActiveRunStates, r \notin wt
  PROVE  runState'[r] \notin ActiveRunStates /\ r \notin wt'
<1>1. \A p \in Crew : ~Busy(<<p, r>>)
  <2>1. ~Busy(<<Create, r>>)
    BY CreateAlone DEF ActiveRunStates
  <2>2. \A p \in Ops : ~Busy(<<p, r>>)
    BY OpAlone
  <2> QED BY <2>1, <2>2 DEF Crew
<1>2. \A q \in Runs : postAt[q] # r
  BY TargetTells, IdAssumption DEF LifeInv
<1>3. /\ runState'[r] \in {runState[r], "merged", "failed"} => runState'[r] \notin ActiveRunStates
      /\ Steady(r) \/ Starting(r) => runState'[r] \notin ActiveRunStates
  BY DEF Steady, Starting, StateStays, ActiveRunStates
<1>4. \A o \in Crew : ~Working(o, r)
  BY <1>1 DEF Working
<1>5. ASSUME Calm \/ Starts \/ Creates PROVE runState'[r] \notin ActiveRunStates
  <2>1. Steady(r) \/ Starting(r) \/ Working(Create, r)
    BY <1>5 DEF Calm, Starts, Creates
  <2> QED BY <1>3, <1>4, <2>1, CrewIds
<1>6. CASE Crash \/ Restart
  BY <1>3, <1>6, CrashTells, RestartTells
<1>7. ASSUME NEW o \in Ops, NEW q \in Runs, OpWorks(o, q)
      PROVE  runState'[r] \notin ActiveRunStates
  BY <1>3, <1>4, <1>7, CrewIds DEF OpWorks
<1>8. ASSUME NEW q \in Runs, NEW s \in Runs, TakesOther(q, s)
      PROVE  runState'[r] \notin ActiveRunStates
  BY <1>3, <1>8 DEF TakesOther
<1>9. ASSUME NEW q \in Runs, MergedOnWeb(q) \/ DropsOther(q)
      PROVE  runState'[r] \notin ActiveRunStates
  BY <1>2, <1>3, <1>9 DEF MergedOnWeb, DropsOther
<1>10. ASSUME NEW q \in Runs, ReconcileOp(q)
       PROVE  runState'[r] \notin ActiveRunStates
  BY <1>10, ReconcileOpTells DEF LifeInv, ActiveRunStates
<1>11. ASSUME NEW q \in Runs, ReconcileState(q)
       PROVE  runState'[r] \notin ActiveRunStates
  <2>1. runState'[r] \in {runState[r], "failed"} \/ runState[r] = "creating"
    BY <1>11, ReconcileStateTells DEF LifeInv
  <2> QED BY <1>3, <2>1 DEF ActiveRunStates
<1>12. r \notin wt'
  BY <1>1 DEF WorldStep
<1> QED BY <1>5, <1>6, <1>7, <1>8, <1>9, <1>10, <1>11, <1>12 DEF StageMove

\* A deleted task stays without worktree and activity.
LEMMA GoneKept ==
  ASSUME LifeInv, OpMove, StageMove, WorldStep
  PROVE  DeletedGone'
<1>1. CASE deleted' = deleted
  <2> SUFFICES ASSUME NEW t \in deleted, NEW r \in RunsOf(t)
               PROVE  runState'[r] \notin ActiveRunStates /\ r \notin wt'
    BY <1>1 DEF DeletedGone
  <2>1. r \in Runs /\ Task(r) \in deleted
    BY DEF RunsOf, Task
  <2>2. runOp[r] = NoOp /\ runState[r] \notin ActiveRunStates /\ r \notin wt
    BY DEF LifeInv, OpInv, DeletedIdle, StageInv, DeletedGone
  <2> QED BY <2>1, <2>2, IdleStays
<1>2. ASSUME NEW t \in Tasks, Deletes(t) PROVE DeletedGone'
  BY <1>2 DEF Deletes, Deletable, DeletedGone, LifeInv, StageInv
<1>3. deleted' = deleted \/ \E t \in Tasks : Deletes(t)
  BY ReconcileOpTells DEF OpMove, Aside, Crash, Restart, BootDone, Begins, Ends, CleanUpStarts,
     Takes, Drops, CleanUpEnds, records, taskRec, LifeInv
<1> QED BY <1>1, <1>2, <1>3

-----------------------------------------------------------------------------
(* The theorems *)

\* The invariant at the start: every run waits for its worktree, and every task has one.
LEMMA StageInit == Init => StageInv
<1> SUFFICES ASSUME Init PROVE StageInv
  OBVIOUS
<1>1. \A r \in Runs : pc[<<Create, r>>] = "wtwait" /\ \A o \in Ops : pc[<<o, r>>] = "idle"
  BY CrewIds DEF Init
<1>2. \A r \in Runs : /\ runState[r] = "creating" /\ runOp[r] = NoOp /\ pr[r] = "none"
                      /\ postAt[r] = None
  BY DEF Init
<1>3. Staged
  BY <1>1, <1>2, FitsAt, CrewIds DEF Staged, Crew, Busy
<1>4. CreatedAlone /\ TargetsRest /\ CleanUpsMerged
  BY <1>2, NoneIsNone DEF CreatedAlone, TargetsRest, CleanUpsMerged
<1>5. BootCreates /\ DeletedGone
  BY DEF Init, BootCreates, DeletedGone
<1>6. PullRequests
  BY <1>1, <1>2 DEF Init, PullRequests
<1>7. OpsRun
  BY <1>2, NoneIsNone DEF OpsRun, Bears, Workers
<1>8. SingleWinner
  BY <1>2, IdAssumption, OthersType DEF Init, SingleWinner
<1>9. ClosedWithLastRun
  BY <1>2, FanOutAssumption DEF Init, ClosedWithLastRun, RunsOf
<1> QED BY <1>3, <1>4, <1>5, <1>6, <1>7, <1>8, <1>9 DEF StageInv

\* Every step keeps the invariant.
LEMMA StageStep ==
  ASSUME BootOverlap = FALSE, PasteRuns = {}, LifeInv, [Next]_vars
  PROVE  StageInv' /\ LifeStep /\ AnswerStep
<1>1. TypeOK /\ OpInv
  BY DEF LifeInv
<1>2. OpMove /\ StageMove /\ WorldStep /\ AnswerStep /\ LifeStep
  BY <1>1, OpMoves, StageMoves, WorldSteps, AnswerSteps, LifeSteps
<1>3. Staged' /\ CreatedAlone' /\ TargetsRest' /\ BootCreates' /\ PullRequests'
  BY <1>2, StagedKept, CreatedAloneKept, TargetsRestKept, BootCreatesKept, PullRequestsKept
<1>4. CleanUpsMerged' /\ OpsRun' /\ DeletedGone' /\ SingleWinner' /\ ClosedWithLastRun'
  BY <1>2, CleanUpsKept, OpsRunKept, GoneKept, WinnerKept, ClosedKept
<1> QED BY <1>2, <1>3, <1>4 DEF StageInv

\* So it holds of every reachable state.
LEMMA LifeInvariant ==
  ASSUME BootOverlap = FALSE, PasteRuns = {}
  PROVE  Spec => []LifeInv
<1>1. (TypeOK /\ OpInv) /\ (TypeOK /\ MergeInv) /\ StageInv <=> LifeInv
  BY DEF LifeInv
<1>2. LifeInv /\ [Next]_vars => StageInv'
  BY StageStep
<1> QED BY <1>1, <1>2, StageInit, OpInvariant, MergeInvariant, PTL DEF Spec

\* Whatever operations, crashes and late answers do, tasks.json walks the state machines
\* of the task and of the run: every step of every handler is a step of TaskLifecycle or
\* leaves its variables alone.
THEOREM Implements ==
  ASSUME BootOverlap = FALSE, PasteRuns = {}
  PROVE  Spec => ImplementsLifecycle
<1>1. Init => Lifecycle!Init
  BY DEF Init, Lifecycle!Init
<1>2. LifeInv /\ [Next]_vars => [Lifecycle!Next]_(Lifecycle!vars)
  BY StageStep DEF LifeStep
<1> QED BY <1>1, <1>2, LifeInvariant, PTL DEF Spec, ImplementsLifecycle, Lifecycle!Spec

\* However the local merge, the PR merge and the merge seen on the web interleave, a
\* merged task names one run, which is its only merged one (finishMerge, applyPrView).
THEOREM WinnersAreSingle ==
  ASSUME BootOverlap = FALSE, PasteRuns = {}
  PROVE  Spec => []SingleWinner
<1>1. LifeInv => SingleWinner
  BY DEF LifeInv, StageInv
<1> QED BY <1>1, LifeInvariant, PTL

\* However the discards of a task's runs overlap, it closes with the last of them and
\* not before (maybeCloseTask).
THEOREM TasksCloseWithTheirLastRun ==
  ASSUME BootOverlap = FALSE, PasteRuns = {}
  PROVE  Spec => []ClosedWithLastRun
<1>1. LifeInv => ClosedWithLastRun
  BY DEF LifeInv, StageInv
<1> QED BY <1>1, LifeInvariant, PTL

\* No late step of a body, of the agent or of reconcile changes a merged or discarded
\* run, or a task that was merged or closed.
THEOREM SettledStaysForever ==
  ASSUME BootOverlap = FALSE, PasteRuns = {}
  PROVE  Spec => SettledForever
<1>1. LifeInv /\ [Next]_vars =>
        [/\ \A r \in Runs : runState[r] \in Settled => runState'[r] = runState[r]
         /\ \A t \in Tasks : taskState[t] # "open" =>
              taskState'[t] = taskState[t] /\ winner'[t] = winner[t]]_vars
  BY StageStep, SettledStays
<1> QED BY <1>1, LifeInvariant, PTL DEF Spec, SettledForever

\* An op id that has been answered on a run is never executed on it again, nor is its
\* answer changed - by a retry, by the end of a body, or by a restart (replayFor, endOp).
THEOREM OpsRunOnce ==
  ASSUME BootOverlap = FALSE, PasteRuns = {}
  PROVE  Spec => OpOnce
<1>1. LifeInv /\ [Next]_vars =>
        [\A b \in Ops \X Runs :
           outcome[b] \in {"ok", "error"} => outcome'[b] = outcome[b]]_vars
  <2> SUFFICES ASSUME LifeInv, [Next]_vars, NEW o \in Ops, NEW r \in Runs,
                      outcome[<<o, r>>] \in {"ok", "error"}
               PROVE  outcome'[<<o, r>>] = outcome[<<o, r>>]
    OBVIOUS
  <2>1. AnswerStep
    BY StageStep
  <2> QED BY <2>1 DEF AnswerStep, LifeInv, StageInv, OpsRun
<1> QED BY <1>1, LifeInvariant, PTL DEF Spec, OpOnce

\* Nothing of a deleted task is left, or comes back: no worktree, op or body, although
\* bodies of its runs were at work when the request came (rpcDelete).
THEOREM DeletedLeaveNothing ==
  ASSUME BootOverlap = FALSE, PasteRuns = {}
  PROVE  Spec => []DeletedLeavesNothing
<1>1. LifeInv => DeletedLeavesNothing
  <2> SUFFICES ASSUME LifeInv, NEW t \in deleted, NEW r \in RunsOf(t)
               PROVE  /\ r \notin wt /\ runOp[r] = NoOp
                      /\ \A b \in Bodies : b[2] = r => ~Busy(b)
    BY DEF DeletedLeavesNothing
  <2>1. r \in Runs /\ r \notin wt /\ runState[r] \notin ActiveRunStates /\ runOp[r] = NoOp
    BY DEF RunsOf, LifeInv, OpInv, DeletedIdle, StageInv, DeletedGone
  <2>2. ~Busy(<<Create, r>>)
    BY <2>1, CreateAlone DEF ActiveRunStates
  <2>3. \A p \in Ops : ~Busy(<<p, r>>)
    BY <2>1, OpAlone
  <2>4. ~Busy(<<Post, r>>)
    BY <2>1, CleanUpTells DEF LifeInv
  <2>5. ASSUME NEW b \in Bodies, b[2] = r PROVE ~Busy(b)
    <3>1. b[1] \in Ops \cup {Create, Post} /\ b = <<b[1], r>>
      BY <2>5 DEF Bodies
    <3> QED BY <2>2, <2>3, <2>4, <3>1
  <2> QED BY <2>1, <2>5
<1> QED BY <1>1, LifeInvariant, PTL
=============================================================================
