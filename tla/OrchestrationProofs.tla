-------------------------- MODULE OrchestrationProofs --------------------------
(***************************************************************************)
(* Theorems about Orchestration: its type invariant, that a task and the   *)
(* dispatches that try it agree, that a settled dispatch stays settled,    *)
(* and that a task is ready exactly when what it waits for is done.  All   *)
(* hold for any number of tasks, dispatches, workers, calls and faults.    *)
(*                                                                         *)
(* Two things carry the argument.  Whoever is about to write a dispatch    *)
(* finds it active, or recorded as crossed (Watched).  And advanceDag,     *)
(* which is one pass in the order the tasks were created, computes what    *)
(* its recursion says, because a task waits only for earlier ones          *)
(* (DepsBefore): AdvancedFacts proves that by induction on the tasks.      *)
(***************************************************************************)
EXTENDS Orchestration, FiniteSetTheorems, WellFoundedInduction, TLAPS

-----------------------------------------------------------------------------
(* The inductive invariant *)

\* A task waits for tasks that were created before it.
DepsBefore == \A t \in Tasks : task[t].deps \subseteq 1..(t - 1)

\* A probe looks at a dispatch, and so does a run that is being closed; a crash is a fault.
AtHand ==
  /\ \A d \in Disps : start[d].at = "probe" => start[d].of \in Disps
  /\ closing.at # "no" => closing.cur \in Disps \ closing.left
  /\ crashes <= faults

\* What is going to be written is active, or was crossed; only a dispatch was crossed.
Watched ==
  /\ \A d \in Disps : Writers(d) # {} => Active(d) \/ d \in crossed
  /\ \A d \in crossed : disp[d].st # "none"

\* A task is dispatched while one dispatch of it is active, without counting them.
OneWorker ==
  \A t \in Tasks : Of(t) \cap crossed = {} =>
    /\ \A d, e \in Of(t) \cap Workers : d = e
    /\ task[t].st = "dispatched" <=> Of(t) \cap Workers # {}

Typed == TypeOK /\ DepsBefore /\ AtHand
IInv == Typed /\ Watched /\ OneWorker

-----------------------------------------------------------------------------
(* Numbers *)

LEMMA Numbers ==
  /\ MaxTasks \in Nat /\ MaxDisps \in Nat /\ MaxFaults \in Nat /\ MaxCalls \in Nat
  /\ Tasks = 1..MaxTasks /\ Disps = 1..MaxDisps
  /\ NoTid \notin Disps
BY OrchestrationAssumption DEF Tasks, Disps, NoTid

\* Every set of numbers has a least one.
LEMMA LeastOf ==
  ASSUME NEW S, S \subseteq Nat, S # {}
  PROVE  \E m \in S : \A j \in S : m <= j
<1> DEFINE R == OpToRel(<, Nat)
<1>1. IsWellFoundedOn(R, Nat)
  BY NatLessThanWellFounded
<1>2. \A j, m \in Nat : j < m => <<j, m>> \in R
  BY DEF OpToRel
<1> HIDE DEF R
<1>3. PICK m \in S : \A j \in S : ~ (<<j, m>> \in R)
  BY <1>1, WFMin
<1>4. \A j \in S : ~ (j < m)
  BY <1>2, <1>3
<1> QED
  BY <1>4

\* The first and the last of some dispatches are among them.
LEMMA ExtremesIn ==
  ASSUME NEW S \in SUBSET Disps, S # {}
  PROVE  Min(S) \in S /\ Max(S) \in S
<1>1. S \subseteq Nat
  BY Numbers
<1>2. \E x \in S : \A y \in S : x <= y
  BY <1>1, LeastOf
<1>3. \E x \in S : \A y \in S : x >= y
  <2> DEFINE T == {MaxDisps - y : y \in S}
  <2>1. T \subseteq Nat /\ T # {}
    <3>1. \A y \in S : MaxDisps - y \in Nat
      BY Numbers
    <3> QED
      BY <3>1
  <2>2. PICK m \in T : \A j \in T : m <= j
    BY <2>1, LeastOf
  <2>3. PICK x \in S : m = MaxDisps - x
    BY <2>2
  <2>4. ASSUME NEW y \in S
        PROVE  x >= y
    <3>1. MaxDisps - x <= MaxDisps - y
      BY <2>2, <2>3
    <3> QED
      BY <1>1, <3>1, Numbers
  <2> QED
    BY <2>4
<1>4. Min(S) \in S
  BY <1>2 DEF Min
<1>5. Max(S) \in S
  BY <1>3 DEF Max
<1> QED
  BY <1>4, <1>5

-----------------------------------------------------------------------------
(* advanceDag: the recursion has a solution, because tasks wait for earlier ones *)

Waiting(tasks, gates, t) == tasks[t].st \in {"pending", "blocked"} /\ ~Held(gates, t)

\* The status of t, if those of the tasks before it are new.
Body(tasks, gates, new, t) ==
  IF tasks[t].st \notin {"pending", "blocked"} \/ Held(gates, t) THEN tasks[t].st
  ELSE Readiness({new[u] : u \in tasks[t].deps})

Statuses(tasks, gates) == CHOOSE new : new = [t \in Tasks |-> Body(tasks, gates, new, t)]

LEMMA AdvancedIs ==
  ASSUME NEW tasks, NEW gates
  PROVE  Advanced(tasks, gates) =
           [t \in Tasks |-> [tasks[t] EXCEPT !.st = Statuses(tasks, gates)[t]]]
BY Zenon DEF Advanced, Statuses, Body

\* What is computed for t depends on the tasks it waits for only.
LEMMA BodyLocal ==
  ASSUME NEW tasks, NEW gates, NEW t, NEW f, NEW g, \A u \in tasks[t].deps : f[u] = g[u]
  PROVE  Body(tasks, gates, f, t) = Body(tasks, gates, g, t)
<1>1. {f[u] : u \in tasks[t].deps} = {g[u] : u \in tasks[t].deps}
  OBVIOUS
<1> QED
  BY <1>1 DEF Body

Ordered(tasks) == \A t \in Tasks : tasks[t].deps \subseteq 1..(t - 1)

LEMMA StatusesExist ==
  ASSUME NEW tasks, NEW gates, Ordered(tasks)
  PROVE  \E new : new = [t \in Tasks |-> Body(tasks, gates, new, t)]
<1> DEFINE Solved(n) == \E f : f = [t \in 1..n |-> Body(tasks, gates, f, t)]
           Open1 == {n \in 0..MaxTasks : ~Solved(n)}
<1>1. Solved(0)
  <2> DEFINE f == [t \in 1..0 |-> Body(tasks, gates, 0, t)]
  <2>1. f = [t \in 1..0 |-> Body(tasks, gates, f, t)]
    OBVIOUS
  <2> QED
    BY <2>1
<1>2. ASSUME NEW n \in 1..MaxTasks, Solved(n - 1)
      PROVE  Solved(n)
  <2>1. PICK f : f = [t \in 1..(n - 1) |-> Body(tasks, gates, f, t)]
    BY <1>2
  <2> DEFINE g == [t \in 1..n |-> IF t < n THEN f[t] ELSE Body(tasks, gates, f, t)]
  <2>2. ASSUME NEW t \in 1..n
        PROVE  g[t] = Body(tasks, gates, g, t)
    <3>1. tasks[t].deps \subseteq 1..(t - 1)
      BY Numbers DEF Ordered
    <3>2. \A u \in tasks[t].deps : g[u] = f[u]
      BY <3>1, Numbers
    <3>3. Body(tasks, gates, g, t) = Body(tasks, gates, f, t)
      BY <3>2, BodyLocal
    <3>4. t < n => f[t] = Body(tasks, gates, f, t)
      BY <2>1, Numbers
    <3> QED
      BY <3>3, <3>4
  <2>3. g = [t \in 1..n |-> Body(tasks, gates, g, t)]
    BY <2>2
  <2> QED
    BY <2>3
<1> HIDE DEF Solved
<1>3. Open1 = {}
  <2> SUFFICES ASSUME Open1 # {} PROVE FALSE
    OBVIOUS
  <2>1. Open1 \subseteq Nat
    BY Numbers
  <2>2. PICK n \in Open1 : \A j \in Open1 : n <= j
    BY <2>1, LeastOf
  <2>3. n \in 1..MaxTasks /\ n - 1 \in 0..MaxTasks
    BY <1>1, <2>2, Numbers
  <2>4. n - 1 \notin Open1
    BY <2>2, <2>3, Numbers
  <2>5. Solved(n - 1)
    BY <2>3, <2>4
  <2> QED
    BY <1>2, <2>2, <2>3, <2>5
<1>4. Solved(MaxTasks)
  BY <1>3, Numbers
<1> QED
  BY <1>4, Numbers DEF Solved

LEMMA StatusesAre ==
  ASSUME NEW tasks, NEW gates, Ordered(tasks)
  PROVE  Statuses(tasks, gates) = [t \in Tasks |-> Body(tasks, gates, Statuses(tasks, gates), t)]
<1>1. \E new : new = [t \in Tasks |-> Body(tasks, gates, new, t)]
  BY StatusesExist
<1> QED
  BY <1>1, Zenon DEF Statuses

TaskRec == [deps : SUBSET Tasks, st : {"none", "pending", "ready", "blocked", "dispatched",
                                       "completed", "failed"}]

\* What advanceDag does to the tasks: it looks at those that wait and no decision holds,
\* blocks, readies or leaves them by what they wait for, and touches nothing else.
LEMMA AdvancedFacts ==
  ASSUME NEW tasks \in [Tasks -> TaskRec], NEW gates, Ordered(tasks)
  PROVE  /\ Advanced(tasks, gates) \in [Tasks -> TaskRec]
         /\ \A t \in Tasks :
              /\ Advanced(tasks, gates)[t].deps = tasks[t].deps
              /\ ~Waiting(tasks, gates, t) => Advanced(tasks, gates)[t] = tasks[t]
              /\ Waiting(tasks, gates, t) =>
                   Advanced(tasks, gates)[t].st =
                     Readiness({Advanced(tasks, gates)[u].st : u \in tasks[t].deps})
<1> DEFINE new == Statuses(tasks, gates)
           adv == Advanced(tasks, gates)
<1>1. adv = [t \in Tasks |-> [tasks[t] EXCEPT !.st = new[t]]]
  BY AdvancedIs
<1>2. new = [t \in Tasks |-> Body(tasks, gates, new, t)]
  BY StatusesAre
<1> HIDE DEF new, adv
<1>3. ASSUME NEW t \in Tasks
      PROVE  /\ new[t] \in {"none", "pending", "ready", "blocked", "dispatched", "completed", "failed"}
             /\ ~Waiting(tasks, gates, t) => new[t] = tasks[t].st
             /\ Waiting(tasks, gates, t) => new[t] = Readiness({new[u] : u \in tasks[t].deps})
  <2>1. new[t] = Body(tasks, gates, new, t)
    BY <1>2
  <2>2. tasks[t].st \in {"none", "pending", "ready", "blocked", "dispatched", "completed", "failed"}
    BY DEF TaskRec
  <2>3. Readiness({new[u] : u \in tasks[t].deps}) \in {"pending", "ready", "blocked"}
    BY DEF Readiness
  <2> QED
    BY <2>1, <2>2, <2>3 DEF Body, Waiting
<1>4. ASSUME NEW t \in Tasks
      PROVE  adv[t] \in TaskRec /\ adv[t].deps = tasks[t].deps /\ adv[t].st = new[t]
  BY <1>1, <1>3, ZenonT(60) DEF TaskRec
<1>5. ASSUME NEW t \in Tasks, ~Waiting(tasks, gates, t)
      PROVE  adv[t] = tasks[t]
  BY <1>1, <1>3, <1>5 DEF TaskRec
<1>6. ASSUME NEW t \in Tasks, Waiting(tasks, gates, t)
      PROVE  adv[t].st = Readiness({adv[u].st : u \in tasks[t].deps})
  <2>1. tasks[t].deps \subseteq Tasks
    BY DEF TaskRec
  <2>2. {adv[u].st : u \in tasks[t].deps} = {new[u] : u \in tasks[t].deps}
    BY <1>4, <2>1
  <2> QED
    BY <1>3, <1>4, <1>6, <2>2
<1>7. adv \in [Tasks -> TaskRec]
  BY <1>1, <1>4
<1> QED
  BY <1>4, <1>5, <1>6, <1>7 DEF adv

\* Who waits, and what becomes of who waits.
LEMMA AdvancedStatus ==
  ASSUME NEW tasks \in [Tasks -> TaskRec], NEW gates, Ordered(tasks), NEW t \in Tasks
  PROVE  /\ tasks[t].st \notin {"pending", "blocked"} => Advanced(tasks, gates)[t] = tasks[t]
         /\ tasks[t].st \in {"pending", "blocked"} =>
              Advanced(tasks, gates)[t].st \in {"pending", "blocked", "ready"}
<1>1. \A S : Readiness(S) \in {"pending", "blocked", "ready"}
  BY DEF Readiness
<1>2. CASE Waiting(tasks, gates, t)
  <2>1. Advanced(tasks, gates)[t].st = Readiness({Advanced(tasks, gates)[u].st : u \in tasks[t].deps})
    BY <1>2, AdvancedFacts
  <2>2. Readiness({Advanced(tasks, gates)[u].st : u \in tasks[t].deps})
          \in {"pending", "blocked", "ready"}
    BY <1>1
  <2> QED
    BY <1>2, <2>1, <2>2 DEF Waiting
<1>3. CASE ~Waiting(tasks, gates, t)
  BY <1>3, AdvancedFacts, ZenonT(60) DEF Waiting
<1> QED
  BY <1>2, <1>3

-----------------------------------------------------------------------------
(* Type correctness, by groups of variables *)

TaskTyped == /\ task \in [Tasks -> TaskRec] /\ Ordered(task)
             /\ gate \in [Tasks -> {"none", "pending", "resolved"}]
DispRec == [t : Tasks, st : Live \cup Ended \cup {"none"}, place : {"new", "tree", "reuse"},
            tid : Disps \cup {NoTid},
            term : {"none", "owned", "retained", "transferred", "released"}, ref : BOOLEAN]
DispTyped == disp \in [Disps -> DispRec]
StartTyped ==
  /\ start \in [Disps -> [at : {"no", "make", "launch", "probe", "input", "tree"},
                          of : Disps \cup {NoTid}]]
  /\ \A d \in Disps : start[d].at = "probe" => start[d].of \in Disps
CallTyped == call \in [Disps -> SUBSET {"stop", "abandon", "release"}]
CloseTyped ==
  /\ run \in {"active", "closed"}
  /\ closing \in [at : {"no", "stop", "free"}, cur : Disps \cup {NoTid}, left : SUBSET Disps]
  /\ closing.at # "no" => closing.cur \in Disps \ closing.left
WorldTyped ==
  /\ tree \in [Disps -> {"none", "creating", "launching", "up", "failed"}]
  /\ up \in [Disps -> {"none", "shell", "agent", "gone"}]
CountTyped ==
  /\ crossed \subseteq Disps /\ undone \subseteq Tasks
  /\ calls \in 0..MaxCalls /\ faults \in 0..MaxFaults /\ crashes \in 0..MaxFaults
  /\ crashes <= faults

LEMMA TypeGroups ==
  Typed <=> /\ TaskTyped /\ DispTyped /\ StartTyped /\ CallTyped /\ CloseTyped /\ WorldTyped
            /\ CountTyped
BY DEF Typed, TypeOK, DepsBefore, AtHand, TaskTyped, Ordered, TaskRec, DispRec, DispTyped,
       StartTyped, CallTyped, CloseTyped, WorldTyped, CountTyped

LEMMA TypeGroupsNext ==
  Typed' <=> /\ TaskTyped' /\ DispTyped' /\ StartTyped' /\ CallTyped' /\ CloseTyped'
             /\ WorldTyped' /\ CountTyped'
BY DEF Typed, TypeOK, DepsBefore, AtHand, TaskTyped, Ordered, TaskRec, DispRec, DispTyped,
       StartTyped, CallTyped, CloseTyped, WorldTyped, CountTyped

TaskStatus == {"none", "pending", "ready", "blocked", "dispatched", "completed", "failed"}

LEMMA PutFacts ==
  ASSUME TaskTyped, NEW t \in Tasks, NEW st \in TaskStatus
  PROVE  /\ Put(t, st) \in [Tasks -> TaskRec] /\ Ordered(Put(t, st))
         /\ Put(t, st)[t].st = st
         /\ \A u \in Tasks : Put(t, st)[u].deps = task[u].deps
         /\ \A u \in Tasks \ {t} : Put(t, st)[u] = task[u]
BY DEF TaskTyped, TaskRec, TaskStatus, Ordered, Put

\* advanceDag on well-formed tasks gives well-formed tasks.
LEMMA AdvancedTyped ==
  ASSUME NEW tasks \in [Tasks -> TaskRec], NEW gates, Ordered(tasks)
  PROVE  Advanced(tasks, gates) \in [Tasks -> TaskRec] /\ Ordered(Advanced(tasks, gates))
<1>1. /\ Advanced(tasks, gates) \in [Tasks -> TaskRec]
      /\ \A t \in Tasks : Advanced(tasks, gates)[t].deps = tasks[t].deps
  BY AdvancedFacts
<1> QED
  BY <1>1 DEF Ordered

LEMMA SettleTyped ==
  ASSUME TaskTyped, DispTyped, CountTyped, gate' = gate, UNCHANGED counts,
         NEW d \in Disps, NEW st \in Ended,
         NEW term \in {"none", "owned", "retained", "transferred", "released"}, NEW by,
         Settle(d, st, term, by)
  PROVE  TaskTyped' /\ DispTyped'
<1>1. disp[d].t \in Tasks /\ Outcome(st) \in TaskStatus
  BY DEF DispTyped, DispRec, Outcome, TaskStatus
<1>2. TaskTyped'
  BY <1>1, PutFacts, AdvancedTyped DEF Settle, TaskTyped
<1>3. DispTyped'
  BY ZenonT(60) DEF Settle, DispTyped, DispRec
<1> QED
  BY <1>2, <1>3

\* The writes of the coordinator and of workers, each with what it settles.
LEMMA SettlesTyped ==
  ASSUME Typed, NEW d \in Disps,
         WorkerDone(d) \/ Stop(d) \/ StopDone(d) \/ AbandonDone(d)
           \/ (CloseStops /\ d = closing.cur)
  PROVE  \/ UNCHANGED <<disp, task, gate, crossed, undone>>
         \/ \E st \in Ended, by \in {"none", "stop", "abandon", "close"},
               term \in {"none", "owned", "retained", "transferred", "released"} :
              Settle(d, st, term, by) /\ gate' = gate
<1>1. disp[d].term \in {"none", "owned", "retained", "transferred", "released"}
  BY TypeGroups DEF DispTyped, DispRec
<1>2. {"succeeded", "failed", "stopped", "abandoned"} = Ended
  BY DEF Ended
<1>3. CASE WorkerDone(d)
  BY <1>1, <1>2, <1>3 DEF WorkerDone
<1>4. CASE Stop(d)
  BY <1>1, <1>2, <1>4 DEF Stop, history
<1>5. CASE StopDone(d)
  BY <1>1, <1>2, <1>5 DEF StopDone
<1>6. CASE AbandonDone(d)
  BY <1>1, <1>2, <1>6 DEF AbandonDone, history
<1>7. CASE CloseStops /\ d = closing.cur
  BY <1>1, <1>2, <1>7 DEF CloseStops
<1> QED
  BY <1>3, <1>4, <1>5, <1>6, <1>7

-----------------------------------------------------------------------------
(* Type correctness, group by group *)

LEMMA BeginTyped ==
  ASSUME Typed, NEW d \in Disps, NEW t \in Tasks, NEW place \in {"new", "tree", "reuse"},
         NEW x, place = "reuse" => \E e \in Disps : disp[e].tid = x,
         Begin(d, t, place, x), gate' = gate
  PROVE  TaskTyped' /\ DispTyped' /\ StartTyped'
<1>0. /\ TaskTyped /\ DispTyped /\ StartTyped /\ CallTyped /\ CloseTyped /\ WorldTyped
      /\ CountTyped
  BY TypeGroups
<1>1. TaskTyped'
  <2> DEFINE adv == Advanced(task, gate)
  <2>1. adv \in [Tasks -> TaskRec] /\ Ordered(adv)
    BY <1>0, AdvancedTyped DEF TaskTyped
  <2> HIDE DEF adv
  <2>2. task' = [adv EXCEPT ![t].st = "failed"] \/ task' = [adv EXCEPT ![t].st = "dispatched"]
    BY <1>0 DEF Begin, adv
  <2> QED
    <3>1. task' \in [Tasks -> TaskRec] /\ \A u \in Tasks : task'[u].deps = adv[u].deps
      BY <2>1, <2>2 DEF TaskRec
    <3>2. gate' \in [Tasks -> {"none", "pending", "resolved"}]
      BY <1>0 DEF TaskTyped
    <3> QED
      BY <2>1, <3>1, <3>2 DEF TaskTyped, Ordered
<1>2. DispTyped'
  BY <1>0 DEF Begin, DispTyped, DispRec, Unused, Live, Ended
<1>3. place = "reuse" => LastIn(x) \in Disps
  BY <1>0, ExtremesIn DEF LastIn
<1>4. StartTyped'
  BY <1>0, <1>3 DEF Begin, StartTyped, Idle
<1> QED
  BY <1>0, <1>1, <1>2, <1>4

LEMMA TaskTypedStep ==
  ASSUME Typed, Next
  PROVE  TaskTyped'
<1>0. /\ TaskTyped /\ DispTyped /\ StartTyped /\ CallTyped /\ CloseTyped /\ WorldTyped
      /\ CountTyped
  BY TypeGroups
<1>1. ASSUME UNCHANGED <<task, gate>>
      PROVE  TaskTyped'
  BY <1>0, <1>1 DEF TaskTyped
<1>2. ASSUME NEW base \in [Tasks -> TaskRec], Ordered(base), NEW gates, task' = Advanced(base, gates),
             gate' \in [Tasks -> {"none", "pending", "resolved"}]
      PROVE  TaskTyped'
  BY <1>0, <1>2, AdvancedTyped DEF TaskTyped
<1>3. ASSUME NEW t \in Tasks, TaskCreate(t)
      PROVE  TaskTyped'
  <2>1. PICK deps \in SUBSET (1..(t - 1)) :
          task' = Advanced([task EXCEPT ![t] = [deps |-> deps, st |-> "pending"]], gate)
    BY <1>0, <1>3 DEF TaskCreate
  <2>2. deps \subseteq Tasks
    BY <1>0, Numbers
  <2>3. /\ [task EXCEPT ![t] = [deps |-> deps, st |-> "pending"]] \in [Tasks -> TaskRec]
        /\ Ordered([task EXCEPT ![t] = [deps |-> deps, st |-> "pending"]])
    BY <1>0, <2>2 DEF TaskTyped, TaskRec, Ordered
  <2> QED
    BY <1>0, <1>2, <1>3, <2>1, <2>3 DEF TaskCreate, TaskTyped
<1>4. ASSUME NEW t \in Tasks, TaskUpdate(t)
      PROVE  TaskTyped'
  <2>1. PICK st \in {"pending", "completed", "failed", "blocked"} :
          task' = Advanced(Put(t, st), gate)
    BY <1>0, <1>4 DEF TaskUpdate
  <2>2. st \in TaskStatus
    BY <1>0 DEF TaskStatus
  <2> QED
    BY <1>0, <1>2, <1>4, <2>1, <2>2, PutFacts DEF TaskUpdate, TaskTyped
<1>5. ASSUME NEW t \in Tasks, GateCreate(t)
      PROVE  TaskTyped'
  <2>1. "pending" \in TaskStatus
    BY <1>0 DEF TaskStatus
  <2>2. task' \in [Tasks -> TaskRec] /\ Ordered(task)'
    BY <1>0, <1>5, <2>1, PutFacts DEF GateCreate, Ordered
  <2>3. gate' \in [Tasks -> {"none", "pending", "resolved"}]
    BY <1>0, <1>5 DEF GateCreate, TaskTyped
  <2> QED
    BY <1>0, <2>2, <2>3 DEF TaskTyped
<1>6. ASSUME NEW t \in Tasks, GateResolve(t) \/ StartRefused(t)
      PROVE  TaskTyped'
  BY <1>0, <1>2, <1>6 DEF GateResolve, StartRefused, TaskTyped
<1>7. ASSUME NEW d \in Disps, NEW t \in Tasks, WorkerStart(d, t)
      PROVE  TaskTyped'
  <2>1. gate' = gate
    BY <1>0, <1>7 DEF WorkerStart
  <2>2. \/ \E place \in {"new", "tree"} : Begin(d, t, place, NoTid)
        \/ \E e \in Disps : Begin(d, t, "reuse", disp[e].tid)
    BY <1>0, <1>7, OrchestrationAssumption DEF WorkerStart
  <2> QED
    BY <1>0, <2>1, <2>2, BeginTyped
<1>8. ASSUME NEW d \in Disps, StartFails(d)
      PROVE  TaskTyped'
  <2>1. disp[d].t \in Tasks /\ "failed" \in TaskStatus
    BY <1>0 DEF DispTyped, DispRec, TaskStatus
  <2>2. task' = Put(disp[d].t, "failed") /\ gate' = gate
    BY <1>0, <1>8 DEF StartFails
  <2>3. task' \in [Tasks -> TaskRec] /\ Ordered(Put(disp[d].t, "failed"))
    BY <1>0, <2>1, <2>2, PutFacts
  <2> QED
    BY <1>0, <2>2, <2>3 DEF TaskTyped, Ordered
<1>9. ASSUME NEW d \in Disps,
             WorkerDone(d) \/ Stop(d) \/ StopDone(d) \/ AbandonDone(d)
               \/ (CloseStops /\ d = closing.cur)
      PROVE  TaskTyped'
  <2>1. gate' = gate
    BY <1>0, <1>9 DEF WorkerDone, Stop, StopDone, AbandonDone, CloseStops
  <2>2. \/ UNCHANGED <<disp, task, gate, crossed, undone>>
        \/ \E st \in Ended, by \in {"none", "stop", "abandon", "close"},
               term \in {"none", "owned", "retained", "transferred", "released"} :
              Settle(d, st, term, by) /\ gate' = gate
    BY <1>0, <1>9, SettlesTyped
  <2>3. ASSUME NEW st \in Ended, NEW by, NEW term, Settle(d, st, term, by)
        PROVE  TaskTyped'
    <3>1. disp[d].t \in Tasks /\ Outcome(st) \in TaskStatus
      BY <1>0 DEF DispTyped, DispRec, Outcome, TaskStatus
    <3> QED
      BY <1>0, <1>2, <2>1, <2>3, <3>1, PutFacts DEF Settle, TaskTyped
  <2> QED
    BY <1>0, <1>1, <2>2, <2>3
<1>10. CASE CloseStops
  BY <1>0, <1>9, <1>10 DEF CloseStops, CloseTyped
<1>11. CASE LookAtTrees
  <2>1. ASSUME NEW t \in Tasks
        PROVE  task'[t] \in TaskRec /\ task'[t].deps = task[t].deps
    <3>1. task'[t] = [task[t] EXCEPT !.st = "failed"] \/ task'[t] = task[t]
      BY <1>11 DEF LookAtTrees
    <3>2. task[t] \in TaskRec
      BY <1>0 DEF TaskTyped
    <3> QED
      BY <3>1, <3>2 DEF TaskRec
  <2>2. task' \in [Tasks -> TaskRec] /\ gate' = gate
    BY <1>0, <1>11, <2>1 DEF LookAtTrees
  <2> QED
    BY <1>0, <2>1, <2>2 DEF TaskTyped, Ordered
<1> QED
  BY <1>0, <1>1, <1>3, <1>4, <1>5, <1>6, <1>7, <1>8, <1>9, <1>10, <1>11, ZenonT(60)
     DEF Next, Starting, Growing, TerminalMade, Probed, StartDone, TreeAccepted, AgentUp,
         TreeTerminal, TreeRuns, TreeFails, AgentEnds, Abandon, Release, ReleaseDone, Retain,
         RunClose, CloseFrees, Crash

LEMMA DispTypedStep ==
  ASSUME Typed, Next
  PROVE  DispTyped'
<1>0. /\ TaskTyped /\ DispTyped /\ StartTyped /\ CallTyped /\ CloseTyped /\ WorldTyped
      /\ CountTyped
  BY TypeGroups
<1>1. ASSUME UNCHANGED disp
      PROVE  DispTyped'
  BY <1>0, <1>1 DEF DispTyped
<1>2. ASSUME NEW d \in Disps, NEW t \in Tasks, WorkerStart(d, t)
      PROVE  DispTyped'
  <2>1. gate' = gate
    BY <1>0, <1>2 DEF WorkerStart
  <2>2. \/ \E place \in {"new", "tree"} : Begin(d, t, place, NoTid)
        \/ \E e \in Disps : Begin(d, t, "reuse", disp[e].tid)
    BY <1>0, <1>2, OrchestrationAssumption DEF WorkerStart
  <2> QED
    BY <1>0, <2>1, <2>2, BeginTyped
<1>3. ASSUME NEW d \in Disps, TerminalMade(d) \/ StartDone(d) \/ TreeAccepted(d) \/ StartFails(d)
      PROVE  DispTyped'
  <2>1. PICK st \in Live \cup Ended \cup {"none"}, ref \in BOOLEAN, tid \in Disps \cup {NoTid},
             term \in {"none", "owned", "retained", "transferred", "released"} :
          disp' = [disp EXCEPT ![d].st = st, ![d].ref = ref, ![d].tid = tid, ![d].term = term]
    <3> DEFINE New(st, ref, tid, term) ==
                 [disp EXCEPT ![d].st = st, ![d].ref = ref, ![d].tid = tid, ![d].term = term]
    <3>1. /\ disp \in [Disps -> DispRec]
          /\ disp[d].st \in Live \cup Ended \cup {"none"} /\ disp[d].ref \in BOOLEAN
          /\ disp[d].tid \in Disps \cup {NoTid}
          /\ disp[d].term \in {"none", "owned", "retained", "transferred", "released"}
      BY <1>0 DEF DispTyped, DispRec
    <3>2. "ready" \in Live /\ "failed" \in Ended
      BY DEF Live, Ended
    <3>3. CASE TerminalMade(d)
      <4>1. disp' = New(disp[d].st, disp[d].ref, d, "owned")
        BY <3>1, <3>3 DEF TerminalMade, DispRec
      <4> QED
        BY <3>1, <4>1
    <3>4. CASE StartDone(d)
      <4>1. disp' = New("ready", disp[d].ref, disp[d].tid, disp[d].term)
        BY <3>1, <3>4 DEF StartDone, DispRec
      <4> QED
        BY <3>1, <3>2, <4>1
    <3>5. CASE TreeAccepted(d)
      <4>1. disp' = New(disp[d].st, TRUE, disp[d].tid, "owned")
        BY <3>1, <3>5 DEF TreeAccepted, DispRec
      <4> QED
        BY <3>1, <4>1
    <3>6. CASE StartFails(d)
      <4>1. disp' = New("failed", disp[d].ref, disp[d].tid, disp[d].term)
        BY <3>1, <3>6 DEF StartFails, DispRec
      <4> QED
        BY <3>1, <3>2, <4>1
    <3> QED
      BY <1>3, <3>3, <3>4, <3>5, <3>6
  <2>2. disp \in [Disps -> DispRec] /\ disp[d] \in DispRec
    BY <1>0 DEF DispTyped
  <2>3. [disp[d] EXCEPT !.st = st, !.ref = ref, !.tid = tid, !.term = term] \in DispRec
    BY <2>2 DEF DispRec
  <2>4. disp' = [disp EXCEPT ![d] = [disp[d] EXCEPT !.st = st, !.ref = ref, !.tid = tid,
                                                    !.term = term]]
    BY <2>1, <2>2
  <2> QED
    BY <2>2, <2>3, <2>4 DEF DispTyped
<1>4. ASSUME NEW d \in Disps, Probed(d)
      PROVE  DispTyped'
  <2> DEFINE of == start[d].of
  <2>1. of \in Disps
    BY <1>0, <1>4 DEF Probed, StartTyped
  <2>2. /\ disp[of].tid \in Disps \cup {NoTid} /\ disp[of].place \in {"new", "tree", "reuse"}
        /\ disp[of].ref \in BOOLEAN
    BY <1>0, <2>1 DEF DispTyped, DispRec
  <2>3. disp' = [disp EXCEPT ![d].tid = disp[of].tid, ![d].place = disp[of].place,
                             ![d].ref = disp[of].ref, ![d].term = "owned",
                             ![of].term = "transferred"]
    BY <1>0, <1>4 DEF Probed
  <2> HIDE DEF of
  <2> QED
    BY <1>0, <2>1, <2>2, <2>3 DEF DispTyped, DispRec
<1>5. ASSUME NEW d \in Disps,
             WorkerDone(d) \/ Stop(d) \/ StopDone(d) \/ AbandonDone(d)
               \/ (CloseStops /\ d = closing.cur)
      PROVE  DispTyped'
  <2>1. \/ UNCHANGED <<disp, task, gate, crossed, undone>>
        \/ \E st \in Ended, by \in {"none", "stop", "abandon", "close"},
               term \in {"none", "owned", "retained", "transferred", "released"} :
              Settle(d, st, term, by) /\ gate' = gate
    BY <1>0, <1>5, SettlesTyped
  <2> QED
    <3>1. ASSUME NEW st \in Ended, NEW by,
                 NEW term \in {"none", "owned", "retained", "transferred", "released"},
                 Settle(d, st, term, by)
          PROVE  DispTyped'
      <4>1. disp' = [disp EXCEPT ![d].st = st, ![d].term = term]
        BY <3>1 DEF Settle
      <4>2. disp[d] \in DispRec
        BY <1>0 DEF DispTyped
      <4>3. [disp[d] EXCEPT !.st = st, !.term = term] \in DispRec
        BY <4>2 DEF DispRec
      <4> QED
        BY <1>0, <4>1, <4>3 DEF DispTyped
    <3> QED
      BY <1>1, <2>1, <3>1
<1>6. CASE CloseStops
  BY <1>0, <1>5, <1>6 DEF CloseStops, CloseTyped
<1>7. ASSUME NEW d \in Disps, Freed(d) \/ UNCHANGED <<disp, up>>
      PROVE  DispTyped'
  BY <1>0, <1>7 DEF Freed, DispTyped, DispRec
<1>8. ASSUME NEW d \in Disps, ReleaseDone(d) \/ Retain(d)
      PROVE  DispTyped'
  BY <1>0, <1>7, <1>8 DEF ReleaseDone, Retain, DispTyped, DispRec
<1>9. CASE CloseFrees
  BY <1>0, <1>7, <1>9 DEF CloseFrees, CloseTyped
<1>10. CASE LookAtTrees
  <2>1. ASSUME NEW d \in Disps
        PROVE  disp'[d] \in DispRec
    <3>1. disp[d] \in DispRec
      BY <1>0 DEF DispTyped
    <3>2. CASE d \notin Unseen
      BY <1>0, <1>10, <3>1, <3>2 DEF LookAtTrees
    <3>3. CASE d \in Unseen
      <4>1. disp'[d] = [disp[d] EXCEPT
               !.tid = IF up[d] # "none" THEN d ELSE NoTid,
               !.st = IF d \in Lost THEN "failed"
                      ELSE IF tree[d] = "up" /\ @ = "starting" THEN "ready" ELSE @,
               !.term = IF d \in Lost THEN "none" ELSE @]
        BY <1>0, <1>10, <3>3 DEF LookAtTrees
      <4> QED
        BY <1>0, <3>1, <4>1 DEF DispRec, Live, Ended
    <3> QED
      BY <1>0, <3>2, <3>3
  <2>2. DOMAIN disp' = Disps
    BY <1>0, <1>10 DEF LookAtTrees
  <2> QED
    BY <1>0, <1>10, <2>1 DEF LookAtTrees, DispTyped
<1> QED
  BY <1>0, <1>1, <1>2, <1>3, <1>4, <1>5, <1>6, <1>8, <1>9, <1>10
     DEF Next, Starting, Growing, AgentUp, TreeTerminal, TreeRuns, TreeFails, AgentEnds,
         Abandon, Release, RunClose, Crash, TaskCreate, TaskUpdate, GateCreate, GateResolve,
         StartRefused

LEMMA StartTypedStep ==
  ASSUME Typed, Next
  PROVE  StartTyped'
<1>0. TaskTyped /\ DispTyped /\ StartTyped
  BY TypeGroups
<1>1. ASSUME UNCHANGED start
      PROVE  StartTyped'
  BY <1>0, <1>1 DEF StartTyped
<1>2. ASSUME NEW d \in Disps, NEW t \in Tasks, WorkerStart(d, t)
      PROVE  StartTyped'
  <2>1. gate' = gate
    BY <1>2 DEF WorkerStart
  <2>2. \/ \E place \in {"new", "tree"} : Begin(d, t, place, NoTid)
        \/ \E e \in Disps : Begin(d, t, "reuse", disp[e].tid)
    BY <1>2, OrchestrationAssumption DEF WorkerStart
  <2> QED
    BY <2>1, <2>2, BeginTyped
<1>3. ASSUME NEW d \in Disps, TerminalMade(d) \/ Probed(d) \/ StartDone(d) \/ TreeAccepted(d)
                                \/ StartFails(d)
      PROVE  StartTyped'
  <2>1. \/ start' = [start EXCEPT ![d] = Idle]
        \/ start' = [start EXCEPT ![d].at = "launch"]
        \/ start' = [start EXCEPT ![d].at = "input"]
    BY <1>3 DEF TerminalMade, Probed, StartDone, TreeAccepted, StartFails, Started
  <2> QED
    BY <1>0, <2>1 DEF StartTyped, Idle
<1>4. CASE Crash
  BY <1>4 DEF Crash, StartTyped, Idle
<1> QED
  BY <1>1, <1>2, <1>3, <1>4
     DEF Next, Starting, Growing, AgentUp, TreeTerminal, TreeRuns, TreeFails, AgentEnds, WorkerDone,
         Stop, StopDone, Abandon, AbandonDone, Release, ReleaseDone, Retain, RunClose, CloseStops,
         CloseFrees, LookAtTrees, TaskCreate, TaskUpdate, GateCreate, GateResolve, StartRefused, work

LEMMA CallTypedStep ==
  ASSUME Typed, Next
  PROVE  CallTyped'
<1>0. CallTyped
  BY TypeGroups
<1>1. ASSUME UNCHANGED call
      PROVE  CallTyped'
  BY <1>0, <1>1 DEF CallTyped
<1>2. ASSUME NEW d \in Disps, NEW name \in {"stop", "abandon", "release"},
             Calls(d, name) \/ Returns(d, name)
      PROVE  CallTyped'
  BY <1>0, <1>2 DEF Calls, Returns, CallTyped
<1>3. ASSUME NEW d \in Disps,
             Stop(d) \/ StopDone(d) \/ Abandon(d) \/ AbandonDone(d) \/ Release(d) \/ ReleaseDone(d)
      PROVE  CallTyped'
  <2>1. UNCHANGED call \/ \E name \in {"stop", "abandon", "release"} :
                            Calls(d, name) \/ Returns(d, name)
    BY <1>3 DEF Stop, StopDone, Abandon, AbandonDone, Release, ReleaseDone
  <2> QED
    BY <1>1, <1>2, <2>1
<1>4. CASE Crash
  BY <1>4 DEF Crash, CallTyped
<1> QED
  BY <1>1, <1>3, <1>4, ZenonT(60)
     DEF Next, Starting, Growing, AgentUp, TreeTerminal, TreeRuns, TreeFails, AgentEnds, WorkerDone,
         WorkerStart, TerminalMade, Probed, StartDone, TreeAccepted, StartFails,
         Retain, RunClose, CloseStops,
         CloseFrees, LookAtTrees, TaskCreate, TaskUpdate, GateCreate, GateResolve, StartRefused, work

\* The one to come first is taken from those to come.
LEMMA FirstOfThem ==
  ASSUME NEW S \in SUBSET Disps, S # {}
  PROVE  First(S) \in S /\ After(S) = S \ {First(S)}
BY ExtremesIn DEF First, After

LEMMA FreesTyped ==
  ASSUME CloseTyped, NEW ds, NEW S \in SUBSET Disps, Frees(ds, S)
  PROVE  CloseTyped'
<1> DEFINE left == OwnedBy(ds, S)
<1>1. left \subseteq S
  BY DEF OwnedBy
<1>2. CASE left = {}
  BY <1>2, Numbers DEF Frees, CloseTyped, Open
<1>3. CASE left # {}
  <2>1. Min(left) \in left
    BY <1>1, <1>3, ExtremesIn
  <2>2. closing' = [at |-> "free", cur |-> Min(left), left |-> {d \in S : d > Min(left)}] /\ run' = run
    BY <1>3 DEF Frees
  <2> HIDE DEF left
  <2>3. Min(left) \in Nat /\ ~ (Min(left) > Min(left))
    <3>1. Min(left) \in 1..MaxDisps
      BY <1>1, <2>1, Numbers
    <3> QED
      BY <3>1, Numbers
  <2> QED
    BY <1>1, <2>1, <2>2, <2>3 DEF CloseTyped
<1> QED
  BY <1>2, <1>3

LEMMA CloseTypedStep ==
  ASSUME Typed, Next
  PROVE  CloseTyped'
<1>0. CloseTyped
  BY TypeGroups
<1>1. ASSUME UNCHANGED <<run, closing>>
      PROVE  CloseTyped'
  BY <1>0, <1>1 DEF CloseTyped
<1>2. CASE RunClose
  <2>1. Workers \subseteq Disps
    BY DEF Workers
  <2>2. CASE Workers = {}
    BY <1>0, <1>2, <2>2, FreesTyped DEF RunClose
  <2>3. CASE Workers # {}
    <3>1. First(Workers) \in Disps /\ After(Workers) \subseteq Disps
          /\ First(Workers) \notin After(Workers)
      BY <2>1, <2>3, FirstOfThem
    <3>2. closing' = [at |-> "stop", cur |-> First(Workers), left |-> After(Workers)] /\ run' = run
      BY <1>2, <2>3 DEF RunClose
    <3> QED
      BY <1>0, <3>1, <3>2 DEF CloseTyped
  <2> QED
    BY <2>2, <2>3
<1>3. CASE CloseStops
  <2>1. closing.left \subseteq Disps /\ closing.at = "stop"
    BY <1>0, <1>3 DEF CloseTyped, CloseStops
  <2>2. CASE closing.left = {}
    BY <1>0, <1>3, <2>2, FreesTyped DEF CloseStops
  <2>3. CASE closing.left # {}
    <3>1. First(closing.left) \in Disps /\ After(closing.left) \subseteq Disps
          /\ First(closing.left) \notin After(closing.left)
      BY <2>1, <2>3, FirstOfThem
    <3>2. /\ closing' = [closing EXCEPT !.cur = First(closing.left), !.left = After(closing.left)]
          /\ run' = run
      BY <1>3, <2>3 DEF CloseStops
    <3> QED
      BY <1>0, <3>1, <3>2 DEF CloseTyped
  <2> QED
    BY <2>2, <2>3
<1>4. CASE CloseFrees
  <2>1. closing.left \subseteq Disps
    BY <1>0 DEF CloseTyped
  <2> QED
    BY <1>0, <1>4, <2>1, FreesTyped DEF CloseFrees
<1>5. CASE Crash
  BY <1>0, <1>5, Numbers DEF Crash, CloseTyped, Open
<1> QED
  BY <1>1, <1>2, <1>3, <1>4, <1>5, ZenonT(60)
     DEF Next, Starting, Growing, AgentUp, TreeTerminal, TreeRuns, TreeFails, AgentEnds, WorkerDone,
         WorkerStart, TerminalMade, Probed, StartDone, TreeAccepted, StartFails,
         Stop, StopDone, Abandon, AbandonDone, Release, ReleaseDone, Retain,
         LookAtTrees, TaskCreate, TaskUpdate, GateCreate, GateResolve, StartRefused, work

LEMMA WorldTypedStep ==
  ASSUME Typed, Next
  PROVE  WorldTyped'
<1>0. WorldTyped
  BY TypeGroups
<1>1. ASSUME UNCHANGED world
      PROVE  WorldTyped'
  BY <1>0, <1>1 DEF WorldTyped, world
<1>2. ASSUME tree' \in [Disps -> {"none", "creating", "launching", "up", "failed"}],
             up' \in [Disps -> {"none", "shell", "agent", "gone"}]
      PROVE  WorldTyped'
  BY <1>2 DEF WorldTyped
<1>3. ASSUME NEW d \in Disps, TerminalMade(d) \/ StartDone(d) \/ TreeAccepted(d) \/ AgentUp(d)
                                \/ Growing(d) \/ AgentEnds(d)
      PROVE  WorldTyped'
  BY <1>0, <1>2, <1>3 DEF WorldTyped, TerminalMade, StartDone, TreeAccepted, AgentUp, Growing,
     TreeTerminal, TreeRuns, TreeFails, AgentEnds
<1>4. ASSUME NEW d \in Disps, Freed(d), UNCHANGED tree
      PROVE  WorldTyped'
  BY <1>0, <1>2, <1>4 DEF Freed, WorldTyped
<1>5. CASE CloseFrees
  <2>1. closing.cur \in Disps
    BY <1>5, TypeGroups DEF CloseFrees, CloseTyped
  <2> QED
    BY <1>1, <1>4, <1>5, <2>1 DEF CloseFrees, world
<1>6. ASSUME NEW d \in Disps, ReleaseDone(d)
      PROVE  WorldTyped'
  BY <1>1, <1>4, <1>6 DEF ReleaseDone, world
<1>7. CASE Crash
  BY <1>0, <1>7 DEF Crash, WorldTyped
<1> QED
  BY <1>1, <1>3, <1>5, <1>6, <1>7, ZenonT(60)
     DEF Next, Starting, WorkerDone, WorkerStart, Probed, StartFails,
         Stop, StopDone, Abandon, AbandonDone, Release, Retain, RunClose, CloseStops,
         LookAtTrees, TaskCreate, TaskUpdate, GateCreate, GateResolve, StartRefused

\* What was settled or undone is so for good, and the bounds are kept.
LEMMA CountTypedStep ==
  ASSUME Typed, Next
  PROVE  CountTyped'
<1>0. TaskTyped /\ DispTyped /\ CloseTyped /\ CountTyped
  BY TypeGroups
<1>1. calls' \in 0..MaxCalls
  <2>1. UNCHANGED calls \/ Called
    BY ZenonT(60)
       DEF Next, Starting, Growing, AgentUp, TreeTerminal, TreeRuns, TreeFails, AgentEnds, WorkerDone,
         WorkerStart, TerminalMade, Probed, StartDone, TreeAccepted, StartFails,
         Stop, StopDone, Abandon, AbandonDone, Release, ReleaseDone, Retain, RunClose, CloseStops,
         CloseFrees, Crash,
         LookAtTrees, TaskCreate, TaskUpdate, GateCreate, GateResolve, StartRefused, counts
  <2> QED
    BY <1>0, <2>1, Numbers DEF Called, CountTyped
<1>2. /\ faults' \in 0..MaxFaults /\ crashes' \in 0..MaxFaults
      /\ crashes' <= faults'
  <2>1. ((UNCHANGED faults \/ Fault) /\ UNCHANGED crashes) \/ (Fault /\ crashes' = crashes + 1)
    BY ZenonT(60)
       DEF Next, Starting, Growing, AgentUp, TreeTerminal, TreeRuns, TreeFails, AgentEnds, WorkerDone,
         WorkerStart, TerminalMade, Probed, StartDone, TreeAccepted, StartFails,
         Stop, StopDone, Abandon, AbandonDone, Release, ReleaseDone, Retain, RunClose, CloseStops,
         CloseFrees, Crash,
         LookAtTrees, TaskCreate, TaskUpdate, GateCreate, GateResolve, StartRefused, counts
  <2> QED
    BY <1>0, <2>1, Numbers DEF Fault, CountTyped
<1>3. ASSUME crossed' \subseteq Disps, undone' \subseteq Tasks
      PROVE  CountTyped'
  BY <1>1, <1>2, <1>3 DEF CountTyped
<1>4. ASSUME NEW tasks, Undoes(tasks)
      PROVE  undone' \subseteq Tasks
  BY <1>0, <1>4 DEF Undoes, CountTyped
<1>5. crossed' \subseteq Disps
  <2>1. ASSUME NEW d \in Disps, WorkerDone(d) \/ Stop(d) \/ StopDone(d) \/ AbandonDone(d)
                                   \/ (CloseStops /\ d = closing.cur)
        PROVE  crossed' \subseteq Disps
    <3>1. \/ UNCHANGED <<disp, task, gate, crossed, undone>>
          \/ \E st \in Ended, by \in {"none", "stop", "abandon", "close"},
               term \in {"none", "owned", "retained", "transferred", "released"} :
              Settle(d, st, term, by) /\ gate' = gate
      BY <2>1, SettlesTyped
    <3> QED
      BY <1>0, <3>1 DEF Settle, CountTyped
  <2>2. CASE CloseStops
    BY <1>0, <2>1, <2>2 DEF CloseStops, CloseTyped
  <2>3. CASE LookAtTrees
    BY <1>0, <2>3 DEF LookAtTrees, CountTyped, Lost, Unseen
  <2>4. ASSUME NEW d \in Disps, StartFails(d)
        PROVE  crossed' \subseteq Disps
    BY <1>0, <2>4 DEF StartFails, CountTyped
  <2>5. ASSUME UNCHANGED crossed
        PROVE  crossed' \subseteq Disps
    BY <1>0, <2>5 DEF CountTyped
  <2> QED
    BY <2>1, <2>2, <2>3, <2>4, <2>5, ZenonT(60)
     DEF Next, Starting, Growing, AgentUp, TreeTerminal, TreeRuns, TreeFails, AgentEnds,
         WorkerStart, TerminalMade, Probed, StartDone, TreeAccepted,
         Abandon, Release, ReleaseDone, Retain, RunClose, CloseFrees, Crash,
         TaskCreate, TaskUpdate, GateCreate, GateResolve, StartRefused, history
<1>6. undone' \subseteq Tasks
  <2>1. ASSUME NEW d \in Disps, WorkerDone(d) \/ Stop(d) \/ StopDone(d) \/ AbandonDone(d)
                                   \/ (CloseStops /\ d = closing.cur)
        PROVE  undone' \subseteq Tasks
    <3>1. \/ UNCHANGED <<disp, task, gate, crossed, undone>>
          \/ \E st \in Ended, by \in {"none", "stop", "abandon", "close"},
               term \in {"none", "owned", "retained", "transferred", "released"} :
              Settle(d, st, term, by) /\ gate' = gate
      BY <2>1, SettlesTyped
    <3> QED
      BY <1>0, <1>4, <3>1 DEF Settle, CountTyped
  <2>2. CASE CloseStops
    BY <1>0, <2>1, <2>2 DEF CloseStops, CloseTyped
  <2>3. CASE LookAtTrees
    BY <1>4, <2>3 DEF LookAtTrees
  <2>4. ASSUME NEW d \in Disps, StartFails(d)
        PROVE  undone' \subseteq Tasks
    BY <1>4, <2>4 DEF StartFails
  <2>5. ASSUME NEW d \in Disps, NEW t \in Tasks, WorkerStart(d, t)
        PROVE  undone' \subseteq Tasks
    BY <1>4, <2>5 DEF WorkerStart, Begin
  <2>6. ASSUME NEW t \in Tasks, TaskUpdate(t)
        PROVE  undone' \subseteq Tasks
    BY <1>4, <2>6 DEF TaskUpdate
  <2>7. ASSUME UNCHANGED undone
        PROVE  undone' \subseteq Tasks
    BY <1>0, <2>7 DEF CountTyped
  <2> QED
    BY <2>1, <2>2, <2>3, <2>4, <2>5, <2>6, <2>7, ZenonT(60)
     DEF Next, Starting, Growing, AgentUp, TreeTerminal, TreeRuns, TreeFails, AgentEnds,
         TerminalMade, Probed, StartDone, TreeAccepted,
         Abandon, Release, ReleaseDone, Retain, RunClose, CloseFrees, Crash,
         TaskCreate, GateCreate, GateResolve, StartRefused, history
<1> QED
  BY <1>3, <1>5, <1>6

LEMMA TypedStep ==
  ASSUME Typed, [Next]_vars
  PROVE  Typed'
<1>1. CASE Next
  BY <1>1, TaskTypedStep, DispTypedStep, StartTypedStep, CallTypedStep, CloseTypedStep,
     WorldTypedStep, CountTypedStep, TypeGroupsNext
<1>2. CASE UNCHANGED vars
  <2>1. TaskTyped' /\ DispTyped' /\ StartTyped'
    BY <1>2, TypeGroups DEF vars, work, TaskTyped, Ordered, DispTyped, StartTyped
  <2>2. CallTyped' /\ CloseTyped' /\ WorldTyped' /\ CountTyped'
    BY <1>2, TypeGroups
       DEF vars, work, world, history, counts, CallTyped, CloseTyped, WorldTyped, CountTyped
  <2> QED
    BY <2>1, <2>2, TypeGroupsNext
<1> QED
  BY <1>1, <1>2

LEMMA TypedInit ==
  ASSUME Init
  PROVE  Typed
<1>1. TaskTyped
  BY DEF Init, TaskTyped, TaskRec, Ordered
<1>2. DispTyped
  <2>1. 1 \in Tasks
    BY OrchestrationAssumption, Numbers
  <2> QED
    BY <2>1 DEF Init, DispTyped, DispRec, Unused
<1>3. StartTyped /\ CallTyped /\ CloseTyped /\ WorldTyped
  BY DEF Init, StartTyped, CallTyped, CloseTyped, WorldTyped, Idle, Open
<1>4. CountTyped
  BY Numbers DEF Init, CountTyped
<1> QED
  BY <1>1, <1>2, <1>3, <1>4, TypeGroups

LEMMA AlwaysTyped == Spec => []Typed
BY TypedInit, TypedStep, PTL DEF Spec

\* Every variable keeps its type through every interleaving of starts, stops, reports,
\* closes and crashes of orch.js.
THEOREM TypeCorrect == Spec => []TypeOK
<1>1. Typed => TypeOK
  BY DEF Typed
<1> QED
  BY <1>1, AlwaysTyped, PTL

-----------------------------------------------------------------------------
(* The tasks and what they wait for *)

\* What is ready waits for nothing ...
ReadySound(tasks, gates, und) ==
  \A t \in Tasks : tasks[t].st = "ready" =>
    /\ gates[t] # "pending"
    /\ \A u \in tasks[t].deps : tasks[u].st = "completed" \/ u \in und

\* ... and what waits has something to wait for.
WaitSound(tasks, gates) ==
  \A t \in Tasks : tasks[t].st \in {"pending", "blocked"} /\ gates[t] # "pending" =>
    \E u \in tasks[t].deps : tasks[u].st # "completed"

Sound(tasks, gates, und) == ReadySound(tasks, gates, und) /\ WaitSound(tasks, gates)

LEMMA DagIs == DagSound <=> Sound(task, gate, undone)
BY DEF DagSound, Sound, ReadySound, WaitSound

LEMMA DagIsNext == DagSound' <=> Sound(task', gate', undone')
BY DEF DagSound, Sound, ReadySound, WaitSound

\* advanceDag makes the waiting sound, if no task was made ready by hand.
LEMMA AdvancedSound ==
  ASSUME NEW base \in [Tasks -> TaskRec], Ordered(base), NEW gates, NEW und,
         ReadySound(base, gates, und)
  PROVE  Sound(Advanced(base, gates), gates, und)
<1> DEFINE adv == Advanced(base, gates)
<1>1. /\ adv \in [Tasks -> TaskRec]
      /\ \A t \in Tasks :
           /\ adv[t].deps = base[t].deps
           /\ ~Waiting(base, gates, t) => adv[t] = base[t]
           /\ Waiting(base, gates, t) => adv[t].st = Readiness({adv[u].st : u \in base[t].deps})
  BY AdvancedFacts
<1>2. \A t \in Tasks : base[t].st \notin {"pending", "blocked"} => adv[t] = base[t]
  BY AdvancedStatus
<1>3. \A t \in Tasks : base[t].deps \subseteq Tasks
  BY DEF TaskRec
<1> HIDE DEF adv
<1>4. \A S : /\ Readiness(S) = "ready" => S \subseteq {"completed"}
             /\ S \subseteq {"completed"} => Readiness(S) = "ready"
  BY DEF Readiness
<1>5. ASSUME NEW t \in Tasks, adv[t].st = "ready"
      PROVE  /\ gates[t] # "pending"
             /\ \A u \in adv[t].deps : adv[u].st = "completed" \/ u \in und
  <2>1. CASE Waiting(base, gates, t)
    <3>1. {adv[u].st : u \in base[t].deps} \subseteq {"completed"}
      BY <1>1, <1>4, <1>5, <2>1
    <3>2. \A u \in base[t].deps : adv[u].st = "completed"
      BY <3>1
    <3> QED
      BY <1>1, <2>1, <3>2 DEF Waiting, Held
  <2>2. CASE ~Waiting(base, gates, t)
    <3>1. /\ gates[t] # "pending"
          /\ \A u \in base[t].deps : base[u].st = "completed" \/ u \in und
      BY <1>1, <1>5, <2>2 DEF ReadySound
    <3>2. \A u \in base[t].deps : base[u].st = "completed" => adv[u].st = "completed"
      BY <1>2, <1>3
    <3> QED
      BY <1>1, <3>1, <3>2
  <2> QED
    BY <2>1, <2>2
<1>6. ASSUME NEW t \in Tasks, adv[t].st \in {"pending", "blocked"}, gates[t] # "pending"
      PROVE  \E u \in adv[t].deps : adv[u].st # "completed"
  <2>1. Waiting(base, gates, t)
    BY <1>1, <1>6 DEF Waiting, Held
  <2>2. ~ ({adv[u].st : u \in base[t].deps} \subseteq {"completed"})
    BY <1>1, <1>4, <1>6, <2>1, ZenonT(60)
  <2> QED
    BY <1>1, <2>2
<1> QED
  BY <1>5, <1>6 DEF Sound, ReadySound, WaitSound, adv

\* Tasks that fail, or are dispatched, leave the waiting sound.
LEMMA TakenSound ==
  ASSUME NEW old \in [Tasks -> TaskRec], NEW new, NEW gates, NEW und, NEW und2, NEW F \in SUBSET Tasks,
         Sound(old, gates, und), und \subseteq und2,
         \A t \in Tasks \ F : new[t] = old[t],
         \A t \in F : new[t].st \in {"failed", "dispatched"},
         \A t \in F : old[t].st = "completed" => t \in und2
  PROVE  Sound(new, gates, und2)
<1>1. \A t \in Tasks : old[t].deps \subseteq Tasks
  BY DEF TaskRec
<1>2. ASSUME NEW t \in Tasks, new[t].st = "ready"
      PROVE  /\ gates[t] # "pending"
             /\ \A u \in new[t].deps : new[u].st = "completed" \/ u \in und2
  BY <1>1, <1>2 DEF Sound, ReadySound
<1>3. ASSUME NEW t \in Tasks, new[t].st \in {"pending", "blocked"}, gates[t] # "pending"
      PROVE  \E u \in new[t].deps : new[u].st # "completed"
  <2>1. t \notin F /\ new[t] = old[t]
    BY <1>3
  <2>2. PICK u \in old[t].deps : old[u].st # "completed"
    BY <1>3, <2>1 DEF Sound, WaitSound
  <2> QED
    BY <1>1, <2>1, <2>2
<1> QED
  BY <1>2, <1>3 DEF Sound, ReadySound, WaitSound

\* A task that is given a status that is not "ready", and then all that wait.
LEMMA PutSound ==
  ASSUME TaskTyped, DagSound, NEW t \in Tasks, NEW st \in TaskStatus \ {"ready"},
         Undoes(Put(t, st))
  PROVE  Sound(Advanced(Put(t, st), gate), gate, undone')
<1>1. /\ Put(t, st) \in [Tasks -> TaskRec] /\ Ordered(Put(t, st))
      /\ Put(t, st)[t].st = st
      /\ \A u \in Tasks \ {t} : Put(t, st)[u] = task[u]
  BY PutFacts
<1>2. \A u \in Tasks : task[u].deps \subseteq Tasks
  BY DEF TaskTyped, TaskRec
<1>3. undone \subseteq undone' /\ (task[t].st = "completed" /\ st # "completed" => t \in undone')
  BY <1>1 DEF Undoes
<1>4. ReadySound(task, gate, undone)
  BY DagIs DEF Sound
<1>5. ReadySound(Put(t, st), gate, undone')
  <2> SUFFICES ASSUME NEW u \in Tasks, Put(t, st)[u].st = "ready"
               PROVE  /\ gate[u] # "pending"
                      /\ \A v \in Put(t, st)[u].deps : Put(t, st)[v].st = "completed" \/ v \in undone'
    BY DEF ReadySound
  <2>1. u # t /\ Put(t, st)[u] = task[u]
    BY <1>1
  <2>2. gate[u] # "pending" /\ \A v \in task[u].deps : task[v].st = "completed" \/ v \in undone
    BY <1>4, <2>1 DEF ReadySound
  <2>3. \A v \in task[u].deps : Put(t, st)[v].st = "completed" \/ v \in undone'
    BY <1>1, <1>2, <1>3, <2>2
  <2> QED
    BY <2>1, <2>2, <2>3
<1> QED
  BY <1>1, <1>5, AdvancedSound

LEMMA SettleSound ==
  ASSUME Typed, DagSound, NEW d \in Disps, NEW st \in Ended, NEW by, NEW term,
         Settle(d, st, term, by), gate' = gate
  PROVE  DagSound'
<1>1. disp[d].t \in Tasks /\ TaskTyped
  BY TypeGroups DEF DispTyped, DispRec
<1>2. Outcome(st) \in TaskStatus \ {"ready"}
  BY DEF Outcome, TaskStatus
<1>3. task' = Advanced(Put(disp[d].t, Outcome(st)), gate) /\ Undoes(Put(disp[d].t, Outcome(st)))
  BY DEF Settle
<1> QED
  BY <1>1, <1>2, <1>3, PutSound, DagIsNext

LEMMA BeginSound ==
  ASSUME Typed, DagSound, NEW d \in Disps, NEW t \in Tasks, NEW place, NEW x,
         Begin(d, t, place, x), gate' = gate
  PROVE  DagSound'
<1> DEFINE adv == Advanced(task, gate)
<1>1. TaskTyped
  BY TypeGroups
<1>2. adv \in [Tasks -> TaskRec]
  BY <1>1, AdvancedTyped DEF TaskTyped
<1>3. Sound(adv, gate, undone)
  BY <1>1, DagIs, AdvancedSound DEF TaskTyped, Sound
<1>4. \A u \in Tasks : adv[u].st = "completed" => task[u].st = "completed"
  BY <1>1, AdvancedStatus DEF TaskTyped
<1>5. /\ task' = [adv EXCEPT ![t].st = "failed"] \/ task' = [adv EXCEPT ![t].st = "dispatched"]
      /\ Undoes(task')
  BY DEF Begin
<1> HIDE DEF adv
<1>6. /\ \A u \in Tasks \ {t} : task'[u] = adv[u]
      /\ task'[t].st \in {"failed", "dispatched"}
  BY <1>2, <1>5 DEF TaskRec
<1>7. undone \subseteq undone' /\ (adv[t].st = "completed" => t \in undone')
  BY <1>4, <1>5, <1>6 DEF Undoes
<1> DEFINE F == {t}
<1>8. /\ F \in SUBSET Tasks /\ \A u \in Tasks \ F : task'[u] = adv[u]
      /\ \A u \in F : task'[u].st \in {"failed", "dispatched"}
      /\ \A u \in F : adv[u].st = "completed" => u \in undone'
  BY <1>6, <1>7
<1> HIDE DEF F
<1>9. Sound(task', gate, undone')
  BY <1>2, <1>3, <1>7, <1>8, TakenSound
<1> QED
  BY <1>9, DagIsNext

LEMMA DagStep ==
  ASSUME Typed, DagSound, [Next]_vars
  PROVE  DagSound'
<1>0. TaskTyped /\ DispTyped /\ Sound(task, gate, undone)
  BY TypeGroups, DagIs
<1>1. ASSUME UNCHANGED <<task, gate, undone>>
      PROVE  DagSound'
  BY <1>0, <1>1, DagIsNext
<1>2. ASSUME NEW t \in Tasks, TaskCreate(t)
      PROVE  DagSound'
  <2>1. PICK deps \in SUBSET (1..(t - 1)) :
          task' = Advanced([task EXCEPT ![t] = [deps |-> deps, st |-> "pending"]], gate)
    BY <1>2 DEF TaskCreate
  <2> DEFINE base == [task EXCEPT ![t] = [deps |-> deps, st |-> "pending"]]
  <2>2. deps \subseteq Tasks
    BY Numbers
  <2>3. base \in [Tasks -> TaskRec] /\ Ordered(base)
    BY <1>0, <2>2 DEF TaskTyped, TaskRec, Ordered
  <2>4. base[t].st = "pending" /\ \A u \in Tasks \ {t} : base[u] = task[u]
    BY <1>0 DEF TaskTyped
  <2>5. task[t].st = "none" /\ gate' = gate /\ undone' = undone
    BY <1>2 DEF TaskCreate, history
  <2>6. \A u \in Tasks : task[u].deps \subseteq Tasks
    BY <1>0 DEF TaskTyped, TaskRec
  <2> HIDE DEF base
  <2>7. ReadySound(base, gate, undone)
    BY <1>0, <2>4, <2>5, <2>6 DEF Sound, ReadySound
  <2>8. Sound(Advanced(base, gate), gate, undone)
    BY <2>3, <2>7, AdvancedSound
  <2> QED
    BY <2>1, <2>5, <2>8, DagIsNext DEF base
<1>3. ASSUME NEW t \in Tasks, TaskUpdate(t)
      PROVE  DagSound'
  <2>1. PICK st \in {"pending", "completed", "failed", "blocked"} :
          task' = Advanced(Put(t, st), gate) /\ Undoes(Put(t, st))
    BY <1>3 DEF TaskUpdate
  <2>2. st \in TaskStatus \ {"ready"} /\ gate' = gate
    BY <1>3 DEF TaskStatus, TaskUpdate
  <2>3. Sound(Advanced(Put(t, st), gate), gate, undone')
    BY <1>0, <2>1, <2>2, PutSound
  <2> QED
    BY <2>1, <2>2, <2>3, DagIsNext
<1>4. ASSUME NEW t \in Tasks, GateCreate(t)
      PROVE  DagSound'
  <2>1. "pending" \in TaskStatus
    BY DEF TaskStatus
  <2>2. /\ task'[t].st = "pending" /\ \A u \in Tasks \ {t} : task'[u] = task[u]
        /\ gate'[t] = "pending" /\ \A u \in Tasks \ {t} : gate'[u] = gate[u]
        /\ undone' = undone /\ task[t].st \in {"pending", "ready"}
    BY <1>0, <1>4, <2>1, PutFacts DEF GateCreate, TaskTyped, history
  <2>3. \A u \in Tasks : task[u].deps \subseteq Tasks
    BY <1>0 DEF TaskTyped, TaskRec
  <2>4. ReadySound(task', gate', undone')
    BY <1>0, <2>2, <2>3 DEF Sound, ReadySound
  <2>5. WaitSound(task', gate')
    <3> SUFFICES ASSUME NEW u \in Tasks, task'[u].st \in {"pending", "blocked"}, gate'[u] # "pending"
                 PROVE  \E v \in task'[u].deps : task'[v].st # "completed"
      BY DEF WaitSound
    <3>1. u # t
      BY <2>2
    <3>2. PICK v \in task[u].deps : task[v].st # "completed"
      BY <1>0, <2>2, <3>1 DEF Sound, WaitSound
    <3> QED
      BY <2>2, <2>3, <3>1, <3>2
  <2> QED
    BY <2>4, <2>5, DagIsNext DEF Sound
<1>5. ASSUME NEW t \in Tasks, GateResolve(t)
      PROVE  DagSound'
  <2>1. gate' = [gate EXCEPT ![t] = "resolved"] /\ task' = Advanced(task, gate') /\ undone' = undone
    BY <1>5 DEF GateResolve, history
  <2>2. \A u \in Tasks : gate'[u] = "pending" => gate[u] = "pending"
    BY <1>0, <2>1 DEF TaskTyped
  <2>3. ReadySound(task, gate', undone)
    BY <1>0, <2>2 DEF Sound, ReadySound
  <2>4. task \in [Tasks -> TaskRec] /\ Ordered(task)
    BY <1>0 DEF TaskTyped
  <2>5. Sound(Advanced(task, gate'), gate', undone)
    BY <2>3, <2>4, AdvancedSound
  <2> QED
    BY <2>1, <2>5, DagIsNext
<1>6. ASSUME NEW t \in Tasks, StartRefused(t)
      PROVE  DagSound'
  <2>1. task' = Advanced(task, gate) /\ gate' = gate /\ undone' = undone
    BY <1>6 DEF StartRefused, history
  <2>2. task \in [Tasks -> TaskRec] /\ Ordered(task) /\ ReadySound(task, gate, undone)
    BY <1>0 DEF TaskTyped, Sound
  <2>3. Sound(Advanced(task, gate), gate, undone)
    BY <2>2, AdvancedSound
  <2> QED
    BY <2>1, <2>3, DagIsNext
<1>7. ASSUME NEW d \in Disps, NEW t \in Tasks, WorkerStart(d, t)
      PROVE  DagSound'
  BY <1>7, BeginSound DEF WorkerStart
<1>8. ASSUME NEW d \in Disps, StartFails(d)
      PROVE  DagSound'
  <2> DEFINE t == disp[d].t
  <2>1. t \in Tasks /\ "failed" \in TaskStatus
    BY <1>0 DEF DispTyped, DispRec, TaskStatus
  <2>2. task' = Put(t, "failed") /\ gate' = gate /\ Undoes(Put(t, "failed"))
    BY <1>8 DEF StartFails
  <2> HIDE DEF t
  <2>3. task'[t].st = "failed" /\ \A u \in Tasks \ {t} : task'[u] = task[u]
    BY <1>0, <2>1, <2>2, PutFacts
  <2>4. undone \subseteq undone' /\ (task[t].st = "completed" => t \in undone')
    BY <2>1, <2>2, <2>3 DEF Undoes
  <2> DEFINE F == {t}
  <2>5. /\ F \in SUBSET Tasks /\ \A u \in Tasks \ F : task'[u] = task[u]
        /\ \A u \in F : task'[u].st \in {"failed", "dispatched"}
        /\ \A u \in F : task[u].st = "completed" => u \in undone'
    BY <2>1, <2>3, <2>4
  <2> HIDE DEF F
  <2>6. Sound(task', gate, undone')
    BY <1>0, <2>4, <2>5, TakenSound DEF TaskTyped
  <2> QED
    BY <2>2, <2>6, DagIsNext
<1>9. CASE LookAtTrees
  <2> DEFINE F == {t \in Tasks : \E d \in Lost : disp[d].t = t}
  <2>1. /\ gate' = gate /\ Undoes(task')
        /\ task' = [t \in Tasks |-> IF \E d \in Lost : disp[d].t = t
                                      THEN [task[t] EXCEPT !.st = "failed"] ELSE task[t]]
    BY <1>9 DEF LookAtTrees
  <2>2. task \in [Tasks -> TaskRec] /\ F \in SUBSET Tasks
    BY <1>0 DEF TaskTyped
  <2>3. /\ \A t \in Tasks \ F : task'[t] = task[t]
        /\ \A t \in F : task'[t].st = "failed"
    BY <2>1, <2>2 DEF TaskRec
  <2> HIDE DEF F
  <2>4. undone \subseteq undone' /\ \A t \in F : task[t].st = "completed" => t \in undone'
    BY <2>1, <2>2, <2>3 DEF Undoes
  <2>5. Sound(task', gate, undone')
    BY <1>0, <2>2, <2>3, <2>4, TakenSound, ZenonT(60)
  <2> QED
    BY <2>1, <2>5, DagIsNext
<1>10. ASSUME NEW d \in Disps,
              WorkerDone(d) \/ Stop(d) \/ StopDone(d) \/ AbandonDone(d)
                \/ (CloseStops /\ d = closing.cur)
       PROVE  DagSound'
  <2>1. \/ UNCHANGED <<disp, task, gate, crossed, undone>>
        \/ \E st \in Ended, by \in {"none", "stop", "abandon", "close"},
               term \in {"none", "owned", "retained", "transferred", "released"} :
              Settle(d, st, term, by) /\ gate' = gate
    BY <1>10, SettlesTyped
  <2> QED
    BY <1>1, <2>1, SettleSound
<1>11. CASE CloseStops
  <2>1. closing.cur \in Disps
    BY <1>11, TypeGroups DEF CloseStops, CloseTyped
  <2> QED
    BY <1>10, <1>11, <2>1
<1>12. CASE UNCHANGED vars
  BY <1>1, <1>12 DEF vars, history
<1> QED
  BY <1>1, <1>2, <1>3, <1>4, <1>5, <1>6, <1>7, <1>8, <1>9, <1>10, <1>11, <1>12, ZenonT(60)
     DEF Next, Starting, Growing, AgentUp, TreeTerminal, TreeRuns, TreeFails, AgentEnds,
         TerminalMade, Probed, StartDone, TreeAccepted,
         Abandon, Release, ReleaseDone, Retain, RunClose, CloseFrees, Crash, history

\* advanceDag: whatever starts, reports, decisions and updates are interleaved, a task is
\* ready only when its decision is taken and what it waits for is completed (or was and
\* was taken up again), and it does not wait when all that is so.
THEOREM DagIsSound == Spec => []DagSound
<1>1. Init => DagSound
  BY DEF Init, DagSound
<1>2. Typed /\ DagSound /\ [Next]_vars => DagSound'
  BY DagStep
<1> QED
  BY <1>1, <1>2, AlwaysTyped, PTL DEF Spec

-----------------------------------------------------------------------------
(* Dispatches, who writes them, and the tasks they try: what a step may do *)

LEMMA WriterFacts ==
  ASSUME NEW d
  PROVE  /\ Writers(d) \subseteq {"stop", "abandon", "start", "close"}
         /\ "stop" \in Writers(d) <=> "stop" \in call[d]
         /\ "abandon" \in Writers(d) <=> "abandon" \in call[d]
         /\ "start" \in Writers(d) <=> start[d].at # "no"
         /\ "close" \in Writers(d) <=> closing.at = "stop" /\ (d = closing.cur \/ d \in closing.left)
BY DEF Writers

LEMMA WriterFactsNext ==
  ASSUME NEW d
  PROVE  /\ Writers(d)' \subseteq {"stop", "abandon", "start", "close"}
         /\ "stop" \in Writers(d)' <=> "stop" \in call'[d]
         /\ "abandon" \in Writers(d)' <=> "abandon" \in call'[d]
         /\ "start" \in Writers(d)' <=> start'[d].at # "no"
         /\ "close" \in Writers(d)' <=>
              closing'.at = "stop" /\ (d = closing'.cur \/ d \in closing'.left)
BY DEF Writers

\* OneWorker without the sets: who is at a task that no crossed dispatch was made for.
At(d, t) == Active(d) /\ disp[d].t = t
Single ==
  \A t \in Tasks : (\A d \in crossed : disp[d].t # t) =>
    /\ \A d, e \in Disps : At(d, t) /\ At(e, t) => d = e
    /\ task[t].st = "dispatched" <=> \E d \in Disps : At(d, t)

LEMMA SingleIs == (Watched /\ crossed \subseteq Disps) => (OneWorker <=> Single)
<1> SUFFICES ASSUME Watched, crossed \subseteq Disps
             PROVE  OneWorker <=> Single
  OBVIOUS
<1>1. ASSUME NEW t \in Tasks
      PROVE  /\ (Of(t) \cap crossed = {}) <=> (\A d \in crossed : disp[d].t # t)
             /\ \A d \in Disps : d \in Of(t) \cap Workers <=> At(d, t)
             /\ Of(t) \cap Workers \subseteq Disps
  BY DEF Of, Watched, Workers, At, Active, Live
<1>2. ASSUME NEW t \in Tasks
      PROVE  /\ (\A d, e \in Of(t) \cap Workers : d = e)
                  <=> (\A d, e \in Disps : At(d, t) /\ At(e, t) => d = e)
             /\ (Of(t) \cap Workers # {}) <=> (\E d \in Disps : At(d, t))
  BY <1>1
<1> QED
  BY <1>1, <1>2 DEF OneWorker, Single

Kept(d) == disp'[d].st = disp[d].st \/ (Active(d) /\ disp'[d].st \in Live)
Ends(d) ==
  /\ Active(d) /\ disp'[d].st \in Ended /\ task'[disp[d].t].st # "dispatched"
  /\ d \in crossed' \/ Writers(d)' = {}
Untouched(t) == task'[t].st = "dispatched" <=> task[t].st = "dispatched"

\* A step lets dispatches be, moves active ones on, or ends them with their tasks; only
\* one that was crossed may do what it likes.
Moves ==
  /\ crossed \subseteq crossed'
  /\ \A d \in crossed' : disp[d].st # "none"
  /\ \A d \in Disps :
       /\ disp'[d].t = disp[d].t
       /\ disp'[d].st = "none" <=> disp[d].st = "none"
       /\ d \in crossed \/ Kept(d) \/ Ends(d)
       /\ Writers(d)' # {} => Writers(d) # {} \/ Active(d)
  /\ \A t \in Tasks :
       \/ Untouched(t)
       \/ \E d \in crossed : disp[d].t = t
       \/ task'[t].st # "dispatched" /\ \A d \in Disps : ~At(d, t)
       \/ task'[t].st # "dispatched" /\ \E d \in Disps : At(d, t) /\ Ends(d)

\* A start: a dispatch of a task that nobody is at.
Begins(d, t) ==
  /\ disp[d].st = "none" /\ crossed' = crossed
  /\ \A e \in Disps : ~At(e, t)
  /\ \A e \in Disps \ {d} : disp'[e] = disp[e] /\ Writers(e)' = Writers(e)
  /\ disp'[d].t = t
  /\ \/ disp'[d].st = "starting" /\ task'[t].st = "dispatched"
     \/ /\ disp'[d].st = "failed" /\ task'[t].st = "failed"
        /\ Writers(d)' # {} => Writers(d) # {}
  /\ \A u \in Tasks \ {t} : Untouched(u)

LEMMA MovesKeep ==
  ASSUME IInv, Typed', Moves
  PROVE  Watched' /\ OneWorker'
<1>1. crossed \subseteq Disps /\ crossed' \subseteq Disps /\ Watched /\ Single
  BY TypeGroups, TypeGroupsNext, SingleIs DEF IInv, CountTyped
<1>2. Live \cap Ended = {} /\ "none" \notin Live \cup Ended
  BY DEF Live, Ended
<1>3. Watched'
  <2>1. ASSUME NEW d \in Disps, Writers(d)' # {}
        PROVE  disp'[d].st \in Live \/ d \in crossed'
    <3>1. Active(d) \/ d \in crossed
      BY <1>1, <2>1 DEF Moves, Watched
    <3> QED
      BY <2>1, <3>1 DEF Moves, Kept, Ends, Active
  <2>2. ASSUME NEW d \in crossed'
        PROVE  disp'[d].st # "none"
    BY <1>1, <2>2 DEF Moves
  <2> QED
    BY <2>1, <2>2 DEF Watched, Active
<1>4. Single'
  <2> SUFFICES ASSUME NEW t \in Tasks, \A d \in crossed' : disp'[d].t # t
               PROVE  /\ \A d, e \in Disps : At(d, t)' /\ At(e, t)' => d = e
                      /\ task'[t].st = "dispatched" <=> \E d \in Disps : At(d, t)'
    BY DEF Single
  <2>1. \A d \in crossed : disp[d].t # t
    BY <1>1 DEF Moves
  <2>2. /\ \A d, e \in Disps : At(d, t) /\ At(e, t) => d = e
        /\ task[t].st = "dispatched" <=> \E d \in Disps : At(d, t)
    BY <1>1, <2>1 DEF Single
  <2>3. ASSUME NEW d \in Disps, At(d, t)'
        PROVE  At(d, t) /\ ~Ends(d)
    BY <1>2, <2>1, <2>3 DEF Moves, Kept, Ends, At, Active
  <2>4. ASSUME NEW d \in Disps, At(d, t)
        PROVE  At(d, t)' \/ (Ends(d) /\ task'[t].st # "dispatched")
    BY <1>2, <2>1, <2>4 DEF Moves, Kept, Ends, At, Active
  <2>5. task'[t].st = "dispatched" => \E d \in Disps : At(d, t)'
    <3> SUFFICES ASSUME task'[t].st = "dispatched"
                 PROVE  \E d \in Disps : At(d, t)'
      OBVIOUS
    <3>1. Untouched(t)
      BY <2>1 DEF Moves
    <3>2. PICK d \in Disps : At(d, t)
      BY <2>2, <3>1 DEF Untouched
    <3> QED
      BY <2>4, <3>2
  <2>6. ASSUME NEW d \in Disps, At(d, t)'
        PROVE  task'[t].st = "dispatched"
    <3>1. At(d, t) /\ ~Ends(d)
      BY <2>3, <2>6
    <3>2. \A e \in Disps : At(e, t) => ~Ends(e)
      BY <2>2, <3>1
    <3>3. Untouched(t)
      BY <2>1, <3>1, <3>2 DEF Moves
    <3> QED
      BY <2>2, <3>1, <3>3 DEF Untouched
  <2> QED
    BY <2>2, <2>3, <2>5, <2>6
<1>5. (Watched /\ crossed \subseteq Disps => (OneWorker <=> Single))'
  BY SingleIs, PTL
<1> QED
  BY <1>1, <1>3, <1>4, <1>5

LEMMA BeginsKeep ==
  ASSUME IInv, Typed', NEW d \in Disps, NEW t \in Tasks, Begins(d, t)
  PROVE  Watched' /\ OneWorker'
<1>1. crossed \subseteq Disps /\ crossed' = crossed /\ Watched /\ Single
  BY TypeGroups, SingleIs DEF IInv, CountTyped, Begins
<1>2. "starting" \in Live /\ "failed" \notin Live /\ "none" \notin Live
  BY DEF Live
<1>3. d \notin crossed /\ Writers(d) = {} /\ ~Active(d)
  BY <1>1, <1>2 DEF Begins, Watched, Active
<1>4. Watched'
  <2>1. ASSUME NEW e \in Disps, Writers(e)' # {}
        PROVE  disp'[e].st \in Live \/ e \in crossed'
    BY <1>1, <1>2, <1>3, <2>1 DEF Begins, Watched, Active
  <2>2. ASSUME NEW e \in crossed'
        PROVE  disp'[e].st # "none"
    BY <1>1, <1>3, <2>2 DEF Begins, Watched
  <2> QED
    BY <2>1, <2>2 DEF Watched, Active
<1>5. Single'
  <2> SUFFICES ASSUME NEW u \in Tasks, \A e \in crossed' : disp'[e].t # u
               PROVE  /\ \A e, f \in Disps : At(e, u)' /\ At(f, u)' => e = f
                      /\ task'[u].st = "dispatched" <=> \E e \in Disps : At(e, u)'
    BY DEF Single
  <2>1. \A e \in crossed : disp[e].t # u
    BY <1>1, <1>3 DEF Begins
  <2>2. /\ \A e, f \in Disps : At(e, u) /\ At(f, u) => e = f
        /\ task[u].st = "dispatched" <=> \E e \in Disps : At(e, u)
    BY <1>1, <2>1 DEF Single
  <2>3. \A e \in Disps \ {d} : At(e, u)' <=> At(e, u)
    BY DEF Begins, At, Active
  <2>4. CASE u = t
    <3>1. \A e \in Disps \ {d} : ~At(e, u)'
      BY <2>3, <2>4 DEF Begins
    <3>2. At(d, u)' <=> disp'[d].st \in Live
      BY <2>4 DEF Begins, At, Active
    <3>3. disp'[d].st \in Live <=> task'[u].st = "dispatched"
      BY <1>2, <2>4 DEF Begins
    <3> QED
      BY <3>1, <3>2, <3>3
  <2>5. CASE u # t
    <3>1. ~At(d, u)' /\ ~At(d, u)
      BY <1>3, <2>5 DEF Begins, At
    <3>2. \A e \in Disps : At(e, u)' <=> At(e, u)
      BY <2>3, <3>1
    <3>3. Untouched(u)
      BY <2>5 DEF Begins
    <3> QED
      BY <2>2, <3>2, <3>3 DEF Untouched
  <2> QED
    BY <2>4, <2>5
<1>6. (Watched /\ crossed \subseteq Disps => (OneWorker <=> Single))'
  BY SingleIs, PTL
<1> QED
  BY <1>1, <1>4, <1>5, <1>6

-----------------------------------------------------------------------------
(* Every step is a move, or begins a dispatch *)

\* advanceDag dispatches nothing and takes nothing back.
LEMMA AdvancedUntouched ==
  ASSUME NEW tasks \in [Tasks -> TaskRec], NEW gates, Ordered(tasks), NEW t \in Tasks
  PROVE  Advanced(tasks, gates)[t].st = "dispatched" <=> tasks[t].st = "dispatched"
<1>1. CASE tasks[t].st \notin {"pending", "blocked"}
  BY <1>1, AdvancedStatus
<1>2. CASE tasks[t].st \in {"pending", "blocked"}
  <2>1. Advanced(tasks, gates)[t].st \in {"pending", "blocked", "ready"}
    BY <1>2, AdvancedStatus
  <2> QED
    BY <1>2, <2>1
<1> QED
  BY <1>1, <1>2

SameSt == \A d \in Disps : disp'[d].st = disp[d].st /\ disp'[d].t = disp[d].t
Calm == \A d \in Disps : Writers(d)' \subseteq Writers(d)

\* A step that ends no dispatch is a move, if it takes no task from who is at it.
LEMMA QuietMoves ==
  ASSUME IInv, SameSt, crossed' = crossed,
         \A d \in Disps : Writers(d)' # {} => Writers(d) # {} \/ Active(d),
         \A t \in Tasks : \/ Untouched(t)
                          \/ task'[t].st # "dispatched" /\ \A d \in Disps : ~At(d, t)
  PROVE  Moves
<1>1. crossed \subseteq Disps /\ \A d \in crossed : disp[d].st # "none"
  BY TypeGroups DEF IInv, CountTyped, Watched
<1> QED
  BY <1>1 DEF Moves, SameSt, Kept

LEMMA SettleMoves ==
  ASSUME IInv, NEW d \in Disps, Active(d) \/ d \in crossed, NEW st \in Ended, NEW term, NEW by,
         Settle(d, st, term, by), Calm, Writers(d)' \subseteq Writers(d) \ {by}
  PROVE  Moves
<1> DEFINE t == disp[d].t
<1>0. /\ TaskTyped /\ disp \in [Disps -> DispRec] /\ t \in Tasks
      /\ crossed \subseteq Disps /\ Watched
  BY TypeGroups DEF IInv, DispTyped, DispRec, CountTyped
<1>1. Outcome(st) \in TaskStatus \ {"dispatched"}
  BY DEF Outcome, TaskStatus
<1>2. /\ \A e \in Disps \ {d} : disp'[e] = disp[e]
      /\ disp'[d].st = st /\ disp'[d].t = t
  <2>1. disp' = [disp EXCEPT ![d].st = st, ![d].term = term]
    BY DEF Settle
  <2> QED
    BY <1>0, <2>1 DEF DispRec
<1>3. task' = Advanced(Put(t, Outcome(st)), gate)
  BY DEF Settle
<1>4. crossed' = IF Writers(d) \ {by} # {} THEN crossed \cup {d} ELSE crossed
  BY DEF Settle
<1> HIDE DEF t
<1>5. task'[t].st # "dispatched" /\ \A u \in Tasks \ {t} : Untouched(u)
  <2>1. /\ Put(t, Outcome(st)) \in [Tasks -> TaskRec] /\ Ordered(Put(t, Outcome(st)))
        /\ Put(t, Outcome(st))[t].st = Outcome(st)
        /\ \A u \in Tasks \ {t} : Put(t, Outcome(st))[u] = task[u]
    BY <1>0, <1>1, PutFacts
  <2>2. \A u \in Tasks : task'[u].st = "dispatched" <=> Put(t, Outcome(st))[u].st = "dispatched"
    BY <1>3, <2>1, AdvancedUntouched
  <2> QED
    BY <1>0, <1>1, <2>1, <2>2 DEF Untouched
<1>6. crossed \subseteq crossed' /\ \A e \in crossed' : e = d \/ e \in crossed
  BY <1>4
<1>7. d \in crossed' \/ Writers(d)' = {}
  BY <1>4
<1>8. "none" \notin Live \cup Ended /\ st # "none"
  BY DEF Live, Ended
<1>9. \A e \in crossed' : disp[e].st # "none"
  BY <1>0, <1>6, <1>8 DEF Watched, Active
<1>10. disp[d].st # "none"
  BY <1>0, <1>8 DEF Watched, Active
<1>11. d \notin crossed => Ends(d)
  BY <1>2, <1>5, <1>7 DEF Ends, t
<1>12. ASSUME NEW e \in Disps
       PROVE  /\ disp'[e].t = disp[e].t
              /\ disp'[e].st = "none" <=> disp[e].st = "none"
              /\ e \in crossed \/ Kept(e) \/ Ends(e)
              /\ Writers(e)' # {} => Writers(e) # {} \/ Active(e)
  <2>1. Writers(e)' # {} => Writers(e) # {}
    BY DEF Calm
  <2>2. CASE e = d
    BY <1>2, <1>8, <1>10, <1>11, <2>1, <2>2 DEF t
  <2>3. CASE e # d
    BY <1>2, <2>1, <2>3 DEF Kept
  <2> QED
    BY <2>2, <2>3
<1>13. ASSUME NEW u \in Tasks
       PROVE  \/ Untouched(u)
              \/ \E e \in crossed : disp[e].t = u
              \/ task'[u].st # "dispatched" /\ \A e \in Disps : ~At(e, u)
              \/ task'[u].st # "dispatched" /\ \E e \in Disps : At(e, u) /\ Ends(e)
  <2>1. CASE u # t
    BY <1>5, <2>1
  <2>2. CASE u = t /\ d \in crossed
    BY <2>2 DEF t
  <2>3. CASE u = t /\ d \notin crossed
    BY <1>5, <1>11, <2>3 DEF t, At, Ends
  <2> QED
    BY <2>1, <2>2, <2>3
<1> QED
  BY <1>6, <1>9, <1>12, <1>13 DEF Moves

\* The steps that do not write a dispatch, or only its terminal.
LEMMA TaskMoves ==
  ASSUME IInv, NEW t \in Tasks,
         TaskCreate(t) \/ TaskUpdate(t) \/ GateCreate(t) \/ GateResolve(t) \/ StartRefused(t)
  PROVE  Moves
<1>0. TaskTyped /\ DispTyped
  BY TypeGroups DEF IInv
<1>1. SameSt /\ crossed' = crossed /\ \A d \in Disps : Writers(d)' = Writers(d)
  BY DEF TaskCreate, TaskUpdate, GateCreate, GateResolve, StartRefused, SameSt, history, work, Writers
<1>2. task \in [Tasks -> TaskRec] /\ Ordered(task)
  BY <1>0 DEF TaskTyped
<1>3. CASE TaskCreate(t)
  <2>1. PICK deps \in SUBSET (1..(t - 1)) :
          task' = Advanced([task EXCEPT ![t] = [deps |-> deps, st |-> "pending"]], gate)
    BY <1>3 DEF TaskCreate
  <2> DEFINE base == [task EXCEPT ![t] = [deps |-> deps, st |-> "pending"]]
  <2>2. deps \subseteq Tasks
    BY Numbers
  <2>3. base \in [Tasks -> TaskRec] /\ Ordered(base)
    BY <1>2, <2>2 DEF TaskRec, Ordered
  <2>4. task[t].st = "none" /\ base[t].st = "pending" /\ \A u \in Tasks \ {t} : base[u] = task[u]
    BY <1>2, <1>3 DEF TaskCreate
  <2> HIDE DEF base
  <2>5. \A u \in Tasks : task'[u].st = "dispatched" <=> base[u].st = "dispatched"
    BY <2>1, <2>3, AdvancedUntouched DEF base
  <2>6. \A u \in Tasks : Untouched(u)
    BY <2>4, <2>5 DEF Untouched
  <2> QED
    BY <1>1, <2>6, QuietMoves
<1>4. CASE TaskUpdate(t)
  <2>1. PICK st \in {"pending", "completed", "failed", "blocked"} : task' = Advanced(Put(t, st), gate)
    BY <1>4 DEF TaskUpdate
  <2>2. st \in TaskStatus
    BY DEF TaskStatus
  <2>3. /\ Put(t, st) \in [Tasks -> TaskRec] /\ Ordered(Put(t, st)) /\ Put(t, st)[t].st = st
        /\ \A u \in Tasks \ {t} : Put(t, st)[u] = task[u]
    BY <1>0, <2>2, PutFacts
  <2>4. \A u \in Tasks : task'[u].st = "dispatched" <=> Put(t, st)[u].st = "dispatched"
    BY <2>1, <2>3, AdvancedUntouched
  <2>5. task'[t].st # "dispatched" /\ \A u \in Tasks \ {t} : Untouched(u)
    BY <2>3, <2>4 DEF Untouched
  <2>6. \A d \in Disps : ~At(d, t)
    BY <1>4 DEF TaskUpdate, Of, Workers, At, Active, Live
  <2> QED
    BY <1>1, <2>5, <2>6, QuietMoves
<1>5. CASE GateCreate(t)
  <2>1. "pending" \in TaskStatus
    BY DEF TaskStatus
  <2>2. /\ task'[t].st = "pending" /\ \A u \in Tasks \ {t} : task'[u] = task[u]
        /\ task[t].st \in {"pending", "ready"}
    BY <1>0, <1>5, <2>1, PutFacts DEF GateCreate
  <2>3. \A u \in Tasks : Untouched(u)
    BY <2>2 DEF Untouched
  <2> QED
    BY <1>1, <2>3, QuietMoves
<1>6. CASE GateResolve(t) \/ StartRefused(t)
  <2>1. task' = Advanced(task, gate') \/ task' = Advanced(task, gate)
    BY <1>6 DEF GateResolve, StartRefused
  <2>2. \A u \in Tasks : Untouched(u)
    BY <1>2, <2>1, AdvancedUntouched DEF Untouched
  <2> QED
    BY <1>1, <2>2, QuietMoves
<1> QED
  BY <1>3, <1>4, <1>5, <1>6

\* A step that leaves tasks and states alone, and adds no writer but to who is active.
LEMMA StillMoves ==
  ASSUME IInv, SameSt, crossed' = crossed, task' = task,
         \A d \in Disps : Writers(d)' # {} => Writers(d) # {} \/ Active(d)
  PROVE  Moves
<1>1. \A t \in Tasks : Untouched(t)
  BY DEF Untouched
<1> QED
  BY <1>1, QuietMoves

LEMMA WaitMoves ==
  ASSUME IInv, NEW d \in Disps,
         \/ TerminalMade(d) \/ Probed(d) \/ TreeAccepted(d) \/ AgentUp(d) \/ Growing(d)
         \/ AgentEnds(d) \/ Abandon(d) \/ Release(d) \/ ReleaseDone(d) \/ Retain(d)
  PROVE  Moves
<1>0. /\ disp \in [Disps -> DispRec]
      /\ start \in [Disps -> [at : {"no", "make", "launch", "probe", "input", "tree"},
                              of : Disps \cup {NoTid}]]
      /\ call \in [Disps -> SUBSET {"stop", "abandon", "release"}]
      /\ start[d].at = "probe" => start[d].of \in Disps
  BY TypeGroups DEF IInv, DispTyped, StartTyped, CallTyped
<1>1. crossed' = crossed /\ task' = task /\ closing' = closing
  BY DEF TerminalMade, Probed, TreeAccepted, AgentUp, Growing, TreeTerminal, TreeRuns, TreeFails,
         AgentEnds, Abandon, Release, ReleaseDone, Retain, history, work
<1>2. SameSt
  <2>1. CASE disp' = disp
    BY <2>1 DEF SameSt
  <2>2. CASE TerminalMade(d) \/ TreeAccepted(d)
    BY <1>0, <2>2 DEF TerminalMade, TreeAccepted, DispRec, SameSt
  <2>3. CASE Probed(d)
    <3> DEFINE of == start[d].of
    <3>1. of \in Disps
      BY <1>0, <2>3 DEF Probed
    <3>2. disp' = [disp EXCEPT ![d].tid = disp[of].tid, ![d].place = disp[of].place,
                               ![d].ref = disp[of].ref, ![d].term = "owned",
                               ![of].term = "transferred"]
      BY <2>3 DEF Probed
    <3> HIDE DEF of
    <3> QED
      BY <1>0, <3>1, <3>2 DEF DispRec, SameSt
  <2>4. CASE ReleaseDone(d) \/ Retain(d)
    <3>1. disp' = disp \/ \E term : disp' = [disp EXCEPT ![d].term = term]
      BY <2>4 DEF ReleaseDone, Freed, Retain
    <3> QED
      BY <1>0, <2>1, <3>1 DEF DispRec, SameSt
  <2> QED
    BY <2>1, <2>2, <2>3, <2>4
       DEF AgentUp, Growing, TreeTerminal, TreeRuns, TreeFails, AgentEnds, Abandon, Release
<1>3. ASSUME NEW e \in Disps, Writers(e)' # {}
      PROVE  Writers(e) # {} \/ Active(e)
  <2>1. "close" \in Writers(e)' => "close" \in Writers(e)
    BY <1>1, WriterFacts, WriterFactsNext
  <2>2. "start" \in Writers(e)' => "start" \in Writers(e)
    <3>1. start'[e].at # "no" => start[e].at # "no"
      BY <1>0 DEF TerminalMade, Probed, TreeAccepted, Started, Idle, AgentUp, Growing, TreeTerminal,
         TreeRuns, TreeFails, AgentEnds, Abandon, Release, ReleaseDone, Retain, work
    <3> QED
      BY <3>1, WriterFacts, WriterFactsNext
  <2>3. call'[e] \cap {"stop", "abandon"} \subseteq call[e] \/ Active(e)
    <3>1. CASE call' = call
      BY <3>1
    <3>2. CASE Abandon(d)
      BY <1>0, <3>2 DEF Abandon, Calls
    <3>3. CASE Release(d) \/ ReleaseDone(d)
      BY <1>0, <3>3 DEF Release, ReleaseDone, Calls, Returns
    <3> QED
      BY <3>1, <3>2, <3>3 DEF TerminalMade, Probed, TreeAccepted, AgentUp, Growing, TreeTerminal,
         TreeRuns, TreeFails, AgentEnds, Retain, work
  <2>4. Active(e) \/ (/\ "stop" \in Writers(e)' => "stop" \in Writers(e)
                      /\ "abandon" \in Writers(e)' => "abandon" \in Writers(e))
    BY <2>3, WriterFacts, WriterFactsNext
  <2>5. Writers(e)' \subseteq {"stop", "abandon", "start", "close"}
    BY WriterFactsNext
  <2> QED
    BY <1>3, <2>1, <2>2, <2>4, <2>5
<1> QED
  BY <1>1, <1>2, <1>3, StillMoves

\* runClose goes over the workers there are; a crash forgets whoever was under way.
LEMMA RunMoves ==
  ASSUME IInv, RunClose \/ CloseFrees \/ Crash
  PROVE  Moves
<1>0. /\ disp \in [Disps -> DispRec]
      /\ closing.at # "no" => closing.cur \in Disps \ closing.left
  BY TypeGroups DEF IInv, DispTyped, CloseTyped
<1>1. crossed' = crossed /\ task' = task
  BY DEF RunClose, CloseFrees, Crash, history
<1>2. SameSt
  <2>1. disp' = disp \/ \E term : disp' = [disp EXCEPT ![closing.cur].term = term]
    BY DEF RunClose, CloseFrees, Crash, Freed
  <2>2. ASSUME NEW e \in Disps
        PROVE  disp'[e] = disp[e] \/ \E term : disp'[e] = [disp[e] EXCEPT !.term = term]
    BY <1>0, <2>1
  <2>3. ASSUME NEW e \in Disps
        PROVE  disp'[e].st = disp[e].st /\ disp'[e].t = disp[e].t
    <3>1. disp[e] \in DispRec
      BY <1>0
    <3>2. \A term : LET d == [disp[e] EXCEPT !.term = term]
                    IN  d.st = disp[e].st /\ d.t = disp[e].t
      BY <3>1 DEF DispRec
    <3> QED
      BY <2>2, <3>2, Zenon
  <2> QED
    BY <2>3 DEF SameSt
<1>3. ASSUME NEW ds, NEW S, Frees(ds, S)
      PROVE  closing'.at # "stop"
  BY <1>3 DEF Frees, Open
<1>4. ASSUME NEW e \in Disps, Writers(e)' # {}
      PROVE  Writers(e) # {} \/ Active(e)
  <2>1. CASE RunClose \/ CloseFrees
    <3>1. start' = start /\ call' = call
      BY <2>1 DEF RunClose, CloseFrees
    <3>2. "close" \in Writers(e)' => Active(e)
      <4>1. CASE CloseFrees
        BY <1>3, <4>1, WriterFactsNext DEF CloseFrees
      <4>2. CASE RunClose /\ Workers = {}
        BY <1>3, <4>2, WriterFactsNext DEF RunClose
      <4>3. CASE RunClose /\ Workers # {}
        <5>1. Workers \in SUBSET Disps
          BY DEF Workers
        <5>2. First(Workers) \in Workers /\ After(Workers) = Workers \ {First(Workers)}
          BY <4>3, <5>1, FirstOfThem
        <5>3. closing' = [at |-> "stop", cur |-> First(Workers), left |-> After(Workers)]
          BY <4>3 DEF RunClose
        <5>4. "close" \in Writers(e)' => e \in Workers
          BY <5>2, <5>3, WriterFactsNext
        <5> QED
          BY <5>4 DEF Workers
      <4> QED
        BY <2>1, <4>1, <4>2, <4>3
    <3>3. /\ "stop" \in Writers(e)' => "stop" \in Writers(e)
          /\ "abandon" \in Writers(e)' => "abandon" \in Writers(e)
          /\ "start" \in Writers(e)' => "start" \in Writers(e)
      BY <3>1, WriterFacts, WriterFactsNext
    <3>4. Writers(e)' \subseteq {"stop", "abandon", "start", "close"}
      BY WriterFactsNext
    <3> QED
      BY <1>4, <3>2, <3>3, <3>4
  <2>2. CASE Crash
    <3>1. start'[e].at = "no" /\ call'[e] = {} /\ closing'.at = "no"
      BY <2>2 DEF Crash, Idle, Open
    <3>2. Writers(e)' = {}
      BY <3>1, WriterFactsNext
    <3> QED
      BY <1>4, <3>2
  <2> QED
    BY <2>1, <2>2
<1> QED
  BY <1>1, <1>2, <1>4, StillMoves

\* Whoever settles a dispatch was a writer of it, or found it active.
LEMMA SettlesMove ==
  ASSUME IInv, NEW d \in Disps, WorkerDone(d) \/ Stop(d) \/ StopDone(d) \/ AbandonDone(d)
  PROVE  Moves
<1>0. /\ disp \in [Disps -> DispRec]
      /\ call \in [Disps -> SUBSET {"stop", "abandon", "release"}]
      /\ \A e \in Disps : Writers(e) # {} => Active(e) \/ e \in crossed
  BY TypeGroups DEF IInv, DispTyped, CallTyped, Watched
<1>1. {"succeeded", "failed", "stopped", "abandoned"} = Ended
  BY DEF Ended
<1>2. ASSUME work' = work, NEW st \in Ended, NEW term, Active(d), Settle(d, st, term, "none")
      PROVE  Moves
  <2>1. \A e \in Disps : Writers(e)' = Writers(e)
    BY <1>2 DEF work, Writers
  <2>2. Calm /\ "none" \notin Writers(d)
    BY <2>1, WriterFacts DEF Calm
  <2>3. Writers(d)' \subseteq Writers(d) \ {"none"}
    BY <2>1, <2>2
  <2> QED
    BY <1>2, <2>2, <2>3, SettleMoves
<1>3. ASSUME NEW name \in {"stop", "abandon"}, name \in call[d], Returns(d, name), UNCHANGED <<start, closing>>
      PROVE  /\ Calm /\ Writers(d)' \subseteq Writers(d) \ {name}
             /\ Active(d) \/ d \in crossed
  <2>1. /\ call'[d] = call[d] \ {name}
        /\ \A e \in Disps : call'[e] \subseteq call[e]
    BY <1>0, <1>3 DEF Returns
  <2>2. ASSUME NEW e \in Disps
        PROVE  Writers(e)' \subseteq Writers(e)
    BY <1>3, <2>1 DEF Writers
  <2>3. name \notin Writers(d)' /\ name \in Writers(d)
    BY <1>3, <2>1, WriterFacts, WriterFactsNext
  <2> QED
    BY <1>0, <2>2, <2>3 DEF Calm
<1>4. CASE WorkerDone(d)
  BY <1>1, <1>2, <1>4 DEF WorkerDone, Accepts
<1>5. CASE Stop(d)
  <2>1. CASE disp[d].tid = NoTid
    BY <1>1, <1>2, <1>5, <2>1 DEF Stop, work
  <2>2. CASE disp[d].tid # NoTid
    <3>1. /\ Calls(d, "stop") /\ Active(d)
          /\ disp' = disp /\ task' = task /\ crossed' = crossed /\ start' = start /\ closing' = closing
      BY <1>5, <2>2 DEF Stop, history
    <3>2. SameSt
      BY <3>1 DEF SameSt
    <3>3. ASSUME NEW e \in Disps
          PROVE  e = d \/ Writers(e)' = Writers(e)
      BY <1>0, <3>1 DEF Calls, Writers
    <3> QED
      BY <3>1, <3>2, <3>3, StillMoves
  <2> QED
    BY <2>1, <2>2
<1>6. CASE StopDone(d)
  <2>1. /\ "stop" \in call[d] /\ Returns(d, "stop") /\ UNCHANGED <<start, closing>>
        /\ Settle(d, "stopped", disp[d].term, "stop") /\ "stopped" \in Ended
    BY <1>1, <1>6 DEF StopDone
  <2>2. /\ Calm /\ Writers(d)' \subseteq Writers(d) \ {"stop"}
        /\ Active(d) \/ d \in crossed
    BY <1>3, <2>1
  <2> QED
    BY <2>1, <2>2, SettleMoves
<1>7. CASE AbandonDone(d)
  <2>1. /\ "abandon" \in call[d] /\ Returns(d, "abandon") /\ UNCHANGED <<start, closing>>
        /\ \/ \E term : Settle(d, "abandoned", term, "abandon")
           \/ UNCHANGED <<disp, task, history>>
    BY <1>7 DEF AbandonDone
  <2>2. /\ Calm /\ Writers(d)' \subseteq Writers(d) \ {"abandon"}
        /\ Active(d) \/ d \in crossed
    BY <1>3, <2>1
  <2>3. "abandoned" \in Ended
    BY DEF Ended
  <2>4. CASE \E term : Settle(d, "abandoned", term, "abandon")
    BY <2>2, <2>3, <2>4, SettleMoves
  <2>5. CASE UNCHANGED <<disp, task, history>>
    <3>1. SameSt /\ crossed' = crossed /\ task' = task
      BY <2>5 DEF SameSt, history
    <3>2. \A e \in Disps : Writers(e)' # {} => Writers(e) # {}
      BY <2>2 DEF Calm
    <3> QED
      BY <3>1, <3>2, StillMoves
  <2> QED
    BY <2>1, <2>4, <2>5
<1> QED
  BY <1>4, <1>5, <1>6, <1>7

LEMMA CloseStopsMoves ==
  ASSUME IInv, CloseStops
  PROVE  Moves
<1>1. closing.cur \in Disps
  BY TypeGroups DEF IInv, CloseTyped, CloseStops
<1>2. PICK d \in Disps : d = closing.cur
  BY <1>1
<1>3. /\ d \in Disps \ closing.left /\ closing.left \in SUBSET Disps /\ closing.at = "stop"
      /\ \A e \in Disps : Writers(e) # {} => Active(e) \/ e \in crossed
  BY <1>2, TypeGroups DEF IInv, CloseTyped, Watched, CloseStops
<1>4. /\ Settle(d, "stopped", disp[d].term, "close") /\ "stopped" \in Ended
      /\ start' = start /\ call' = call
  BY <1>2 DEF CloseStops, Ended
<1>5. "close" \in Writers(d)
  BY <1>3, <1>2, WriterFacts
<1>6. closing'.at # "stop" \/ {closing'.cur} \cup closing'.left = closing.left
  <2>1. CASE closing.left = {}
    BY <2>1 DEF CloseStops, Frees, Open
  <2>2. CASE closing.left # {}
    <3>1. First(closing.left) \in closing.left
          /\ After(closing.left) = closing.left \ {First(closing.left)}
      BY <1>3, <2>2, FirstOfThem
    <3>2. closing' = [closing EXCEPT !.cur = First(closing.left), !.left = After(closing.left)]
      BY <2>2 DEF CloseStops
    <3>3. closing \in [at : {"no", "stop", "free"}, cur : Disps \cup {NoTid}, left : SUBSET Disps]
      BY TypeGroups DEF IInv, CloseTyped
    <3> QED
      BY <3>1, <3>2, <3>3
  <2> QED
    BY <2>1, <2>2
<1>7. ASSUME NEW e \in Disps
      PROVE  /\ Writers(e)' \subseteq Writers(e)
             /\ "close" \in Writers(e)' => e # d
  <2>1. "close" \in Writers(e)' => e \in closing.left
    BY <1>6, WriterFactsNext
  <2>2. "close" \in Writers(e)' => "close" \in Writers(e)
    BY <1>3, <2>1, WriterFacts
  <2>3. \A w \in {"stop", "abandon", "start"} : w \in Writers(e)' => w \in Writers(e)
    BY <1>4, WriterFacts, WriterFactsNext
  <2>4. Writers(e)' \subseteq {"stop", "abandon", "start", "close"}
    BY WriterFactsNext
  <2> QED
    BY <1>3, <2>1, <2>2, <2>3, <2>4
<1>8. Calm /\ Writers(d)' \subseteq Writers(d) \ {"close"}
  BY <1>3, <1>7 DEF Calm
<1>9. Active(d) \/ d \in crossed
  BY <1>3, <1>5
<1> QED
  BY <1>3, <1>4, <1>8, <1>9, SettleMoves

\* launch or chatInput is back, or has failed: the caller was at it all the time.
LEMMA StartsMove ==
  ASSUME IInv, NEW d \in Disps, StartDone(d) \/ StartFails(d)
  PROVE  Moves
<1>0. /\ TaskTyped /\ disp \in [Disps -> DispRec] /\ crossed \subseteq Disps
      /\ \A e \in Disps : Writers(e) # {} => Active(e) \/ e \in crossed
      /\ \A e \in crossed : disp[e].st # "none"
      /\ start \in [Disps -> [at : {"no", "make", "launch", "probe", "input", "tree"},
                              of : Disps \cup {NoTid}]]
  BY TypeGroups DEF IInv, DispTyped, StartTyped, CountTyped, Watched
<1>1. start[d].at # "no" /\ Started(d) /\ call' = call /\ closing' = closing
  BY DEF StartDone, StartFails
<1>2. "ready" \in Live /\ "failed" \in Ended /\ "none" \notin Live
  BY DEF Live, Ended
<1>3. Active(d) \/ d \in crossed
  BY <1>0, <1>1, WriterFacts
<1>4. disp[d].st # "none"
  BY <1>0, <1>2, <1>3 DEF Active
<1>5. ASSUME NEW e \in Disps
      PROVE  /\ Writers(e)' \subseteq Writers(e)
             /\ e = d => "start" \notin Writers(e)'
  <2>1. start'[e].at # "no" => start[e].at # "no" /\ e # d
    BY <1>0, <1>1 DEF Started, Idle
  <2>2. \A w \in {"stop", "abandon", "start", "close"} : w \in Writers(e)' => w \in Writers(e)
    BY <1>1, <2>1, WriterFacts, WriterFactsNext
  <2>3. Writers(e)' \subseteq {"stop", "abandon", "start", "close"}
    BY WriterFactsNext
  <2> QED
    BY <2>1, <2>2, <2>3, WriterFactsNext
<1>6. CASE StartDone(d)
  <2>1. /\ disp' = [disp EXCEPT ![d].st = "ready"] /\ task' = task /\ crossed' = crossed
    BY <1>6 DEF StartDone, history
  <2>2. /\ disp'[d].st = "ready" /\ disp'[d].t = disp[d].t
        /\ \A e \in Disps \ {d} : disp'[e] = disp[e]
    BY <1>0, <2>1 DEF DispRec
  <2>3. ASSUME NEW e \in Disps
        PROVE  /\ disp'[e].t = disp[e].t
               /\ disp'[e].st = "none" <=> disp[e].st = "none"
               /\ e \in crossed \/ Kept(e)
               /\ Writers(e)' # {} => Writers(e) # {}
    <3>1. Writers(e)' # {} => Writers(e) # {}
      BY <1>5
    <3>2. CASE e = d
      BY <1>2, <1>3, <1>4, <2>2, <3>1, <3>2 DEF Kept
    <3>3. CASE e # d
      BY <2>2, <3>1, <3>3 DEF Kept
    <3> QED
      BY <3>2, <3>3
  <2>4. \A t \in Tasks : Untouched(t)
    BY <2>1 DEF Untouched
  <2> QED
    BY <1>0, <2>1, <2>3, <2>4 DEF Moves
<1>7. CASE StartFails(d)
  <2> DEFINE t == disp[d].t
  <2>1. /\ disp' = [disp EXCEPT ![d].st = "failed"] /\ task' = Put(t, "failed")
        /\ crossed' = IF Writers(d) \ {"start"} # {} THEN crossed \cup {d} ELSE crossed
    BY <1>7 DEF StartFails
  <2>2. /\ disp'[d].st = "failed" /\ disp'[d].t = t
        /\ \A e \in Disps \ {d} : disp'[e] = disp[e]
    BY <1>0, <2>1 DEF DispRec
  <2>3. t \in Tasks /\ "failed" \in TaskStatus
    BY <1>0 DEF DispRec, TaskStatus
  <2> HIDE DEF t
  <2>4. task'[t].st = "failed" /\ \A u \in Tasks \ {t} : task'[u] = task[u]
    BY <1>0, <2>1, <2>3, PutFacts
  <2>5. d \in crossed' \/ Writers(d)' = {}
    BY <1>5, <2>1
  <2>6. crossed \subseteq crossed' /\ \A e \in crossed' : disp[e].st # "none"
    BY <1>0, <1>4, <2>1
  <2>7. d \notin crossed => Ends(d)
    BY <1>2, <1>3, <2>2, <2>4, <2>5 DEF Ends, t
  <2>8. ASSUME NEW e \in Disps
        PROVE  /\ disp'[e].t = disp[e].t
               /\ disp'[e].st = "none" <=> disp[e].st = "none"
               /\ e \in crossed \/ Kept(e) \/ Ends(e)
               /\ Writers(e)' # {} => Writers(e) # {} \/ Active(e)
    <3>1. Writers(e)' # {} => Writers(e) # {}
      BY <1>5
    <3>2. CASE e = d
      BY <1>4, <2>2, <2>7, <3>1, <3>2 DEF t
    <3>3. CASE e # d
      BY <2>2, <3>1, <3>3 DEF Kept
    <3> QED
      BY <3>2, <3>3
  <2>9. ASSUME NEW u \in Tasks
        PROVE  \/ Untouched(u)
               \/ \E e \in crossed : disp[e].t = u
               \/ task'[u].st # "dispatched" /\ \E e \in Disps : At(e, u) /\ Ends(e)
    <3>1. CASE u # t
      BY <2>4, <3>1 DEF Untouched
    <3>2. CASE u = t /\ d \in crossed
      BY <3>2 DEF t
    <3>3. CASE u = t /\ d \notin crossed
      BY <2>4, <2>7, <3>3 DEF t, At, Ends
    <3> QED
      BY <3>1, <3>2, <3>3
  <2> QED
    BY <2>6, <2>8, <2>9 DEF Moves
<1> QED
  BY <1>6, <1>7

\* What resolveWorktreeSessions fails was active, and fails with its task.
LEMMA LookMoves ==
  ASSUME IInv, LookAtTrees
  PROVE  Moves
<1>0. /\ task \in [Tasks -> TaskRec] /\ disp \in [Disps -> DispRec]
      /\ \A e \in crossed : disp[e].st # "none"
  BY TypeGroups DEF IInv, TaskTyped, DispTyped, Watched
<1>1. "starting" \in Live /\ "ready" \in Live /\ "failed" \in Ended /\ "none" \notin Live \cup Ended
  BY DEF Live, Ended
<1>2. \A d \in Disps : Writers(d)' = Writers(d)
  BY DEF LookAtTrees, work, Writers
<1>3. ASSUME NEW d \in Disps
      PROVE  /\ disp'[d].t = disp[d].t
             /\ d \in Lost => disp'[d].st = "failed"
             /\ d \notin Lost => disp'[d].st = disp[d].st
                                  \/ (disp[d].st = "starting" /\ disp'[d].st = "ready")
  <2>1. CASE d \notin Unseen
    <3>1. disp'[d] = disp[d] /\ d \notin Lost
      BY <2>1 DEF LookAtTrees, Lost
    <3> QED
      BY <3>1
  <2>2. CASE d \in Unseen
    <3>1. disp'[d] = [disp[d] EXCEPT
             !.tid = IF up[d] # "none" THEN d ELSE NoTid,
             !.st = IF d \in Lost THEN "failed"
                    ELSE IF tree[d] = "up" /\ @ = "starting" THEN "ready" ELSE @,
             !.term = IF d \in Lost THEN "none" ELSE @]
      BY <2>2 DEF LookAtTrees
    <3>2. disp[d] \in DispRec
      BY <1>0
    <3> QED
      BY <3>1, <3>2 DEF DispRec
  <2> QED
    BY <2>1, <2>2
<1>4. \A t \in Tasks : task'[t] = IF \E d \in Lost : disp[d].t = t
                                   THEN [task[t] EXCEPT !.st = "failed"] ELSE task[t]
  BY DEF LookAtTrees
<1>5. \A d \in Lost : d \in Disps /\ Active(d) /\ disp[d].st # "none" /\ disp[d].t \in Tasks
  BY <1>0, <1>1 DEF Lost, Unseen, Active, DispRec
<1>6. \A d \in Lost : task'[disp[d].t].st = "failed"
  <2> SUFFICES ASSUME NEW d \in Lost
               PROVE  task'[disp[d].t].st = "failed"
    OBVIOUS
  <2>1. task'[disp[d].t] = [task[disp[d].t] EXCEPT !.st = "failed"] /\ task[disp[d].t] \in TaskRec
    BY <1>0, <1>4, <1>5
  <2> QED
    BY <2>1 DEF TaskRec
<1>7. crossed' = crossed \cup {d \in Lost : Writers(d) # {}}
  BY DEF LookAtTrees
<1>8. crossed \subseteq crossed' /\ \A d \in crossed' : disp[d].st # "none"
  BY <1>0, <1>5, <1>7
<1>9. \A d \in Lost : Ends(d)
  BY <1>1, <1>2, <1>3, <1>5, <1>6, <1>7 DEF Ends
<1>10. ASSUME NEW d \in Disps
       PROVE  /\ disp'[d].t = disp[d].t
              /\ disp'[d].st = "none" <=> disp[d].st = "none"
              /\ d \in crossed \/ Kept(d) \/ Ends(d)
              /\ Writers(d)' # {} => Writers(d) # {} \/ Active(d)
  <2>1. CASE d \in Lost
    BY <1>2, <1>3, <1>5, <1>9, <2>1
  <2>2. CASE d \notin Lost
    BY <1>1, <1>2, <1>3, <2>2 DEF Kept, Active
  <2> QED
    BY <2>1, <2>2
<1>11. ASSUME NEW t \in Tasks
       PROVE  \/ Untouched(t)
              \/ task'[t].st # "dispatched" /\ \E d \in Disps : At(d, t) /\ Ends(d)
  <2>1. CASE \E d \in Lost : disp[d].t = t
    <3>1. PICK d \in Lost : disp[d].t = t
      BY <2>1
    <3> QED
      BY <1>5, <1>6, <1>9, <3>1 DEF At
  <2>2. CASE ~ \E d \in Lost : disp[d].t = t
    BY <1>4, <2>2 DEF Untouched
  <2> QED
    BY <2>1, <2>2
<1> QED
  BY <1>8, <1>10, <1>11 DEF Moves

LEMMA StartBegins ==
  ASSUME IInv, NEW d \in Disps, NEW t \in Tasks, WorkerStart(d, t)
  PROVE  Begins(d, t)
<1>0. /\ task \in [Tasks -> TaskRec] /\ Ordered(task) /\ disp \in [Disps -> DispRec]
      /\ start \in [Disps -> [at : {"no", "make", "launch", "probe", "input", "tree"},
                              of : Disps \cup {NoTid}]]
  BY TypeGroups DEF IInv, TaskTyped, DispTyped, StartTyped
<1>1. PICK place, x : Begin(d, t, place, x)
  BY DEF WorkerStart
<1>2. /\ disp[d].st = "none" /\ crossed' = crossed /\ call' = call /\ closing' = closing
      /\ \A e \in Disps : ~At(e, t)
  BY DEF WorkerStart, Startable, Of, Workers, At, Active, Live
<1> DEFINE refused == place = "reuse" /\ ~Reusable(LastIn(x))
           adv == Advanced(task, gate)
<1>3. /\ disp'[d] = [Unused EXCEPT !.t = t, !.place = place,
                                   !.st = IF refused THEN "failed" ELSE "starting"]
      /\ \A e \in Disps \ {d} : disp'[e] = disp[e] /\ start'[e] = start[e]
      /\ refused => start'[d] = Idle
      /\ task' = [adv EXCEPT ![t].st = IF refused THEN "failed" ELSE "dispatched"]
  BY <1>0, <1>1 DEF Begin
<1>4. adv \in [Tasks -> TaskRec] /\ \A u \in Tasks : adv[u].st = "dispatched" <=> task[u].st = "dispatched"
  BY <1>0, AdvancedTyped, AdvancedUntouched
<1> HIDE DEF refused, adv
<1>5. /\ task'[t].st = (IF refused THEN "failed" ELSE "dispatched")
      /\ \A u \in Tasks \ {t} : Untouched(u)
  BY <1>3, <1>4 DEF TaskRec, Untouched
<1>6. disp'[d].t = t /\ disp'[d].st = (IF refused THEN "failed" ELSE "starting")
  BY <1>3 DEF Unused
<1>7. \A e \in Disps \ {d} : Writers(e)' = Writers(e)
  BY <1>2, <1>3 DEF Writers
<1>8. refused /\ Writers(d)' # {} => Writers(d) # {}
  <2> SUFFICES ASSUME refused
               PROVE  Writers(d)' \subseteq Writers(d)
    OBVIOUS
  <2>1. start'[d].at = "no"
    BY <1>3 DEF Idle
  <2>2. \A w \in {"stop", "abandon", "start", "close"} : w \in Writers(d)' => w \in Writers(d)
    BY <1>2, <2>1, WriterFacts, WriterFactsNext
  <2> QED
    BY <2>2, WriterFactsNext
<1> QED
  BY <1>2, <1>3, <1>5, <1>6, <1>7, <1>8 DEF Begins

LEMMA StepIs ==
  ASSUME IInv, [Next]_vars
  PROVE  Moves \/ \E d \in Disps, t \in Tasks : Begins(d, t)
<1>1. CASE UNCHANGED vars
  <2>1. SameSt /\ crossed' = crossed /\ task' = task
    BY <1>1 DEF vars, history, SameSt
  <2>2. \A d \in Disps : Writers(d)' = Writers(d)
    BY <1>1 DEF vars, work, Writers
  <2> QED
    BY <2>1, <2>2, StillMoves
<1>2. CASE Next
  BY <1>2, TaskMoves, WaitMoves, RunMoves, SettlesMove, CloseStopsMoves, StartsMove, LookMoves,
     StartBegins
     DEF Next, Starting
<1> QED
  BY <1>1, <1>2

-----------------------------------------------------------------------------
(* The theorems *)

LEMMA InductiveStep == IInv /\ [Next]_vars => IInv'
<1> SUFFICES ASSUME IInv, [Next]_vars
             PROVE  IInv'
  OBVIOUS
<1>1. Typed'
  BY TypedStep DEF IInv
<1>2. Watched' /\ OneWorker'
  BY <1>1, StepIs, MovesKeep, BeginsKeep
<1> QED
  BY <1>1, <1>2 DEF IInv

LEMMA InductiveInit == Init => IInv
<1> SUFFICES ASSUME Init
             PROVE  IInv
  OBVIOUS
<1>1. Typed
  BY TypedInit
<1>2. Watched
  BY DEF Init, Watched, Writers, Idle, Open
<1>3. OneWorker
  BY DEF Init, OneWorker, Of, Workers, Unused
<1> QED
  BY <1>1, <1>2, <1>3 DEF IInv

LEMMA Invariant == Spec => []IInv
BY InductiveInit, InductiveStep, PTL DEF Spec

\* workerStart, settle and resolveWorktreeSessions: a task is dispatched exactly while one
\* dispatch of it is active, however starts, stops, closes and crashes interleave; only
\* where two calls had looked at the same dispatch can it be otherwise.
THEOREM TasksAgree == Spec => []TaskAgrees
<1>1. IInv => TaskAgrees
  <2> SUFFICES ASSUME IInv, NEW t \in Tasks, Of(t) \cap crossed = {}
               PROVE  Cardinality(Of(t) \cap Workers) = (IF task[t].st = "dispatched" THEN 1 ELSE 0)
    BY DEF TaskAgrees
  <2> DEFINE S == Of(t) \cap Workers
  <2>1. /\ \A d, e \in S : d = e
        /\ task[t].st = "dispatched" <=> S # {}
    BY DEF IInv, OneWorker
  <2> HIDE DEF S
  <2>2. CASE S = {}
    <3>1. Cardinality(S) = 0
      BY <2>2, FS_EmptySet
    <3> QED
      BY <2>1, <2>2, <3>1 DEF S
  <2>3. CASE S # {}
    <3>1. PICK d \in S : S = {d}
      BY <2>1, <2>3
    <3>2. Cardinality({d}) = 1
      BY FS_Singleton
    <3> QED
      BY <2>1, <2>3, <3>1, <3>2 DEF S
  <2> QED
    BY <2>2, <2>3
<1> QED
  BY <1>1, Invariant, PTL

\* settle(): how a dispatch was settled stands.  No late report, no failure of its worktree
\* that is seen late and no later start of its task changes it, unless a call that had
\* looked at it before was still under way.
THEOREM SettledStaysSettled == Spec => SettledStays
<1>1. IInv /\ [Next]_vars =>
        [\A d \in Disps : Settled(d) /\ d \notin crossed => disp'[d].st = disp[d].st]_vars
  <2> SUFFICES ASSUME IInv, [Next]_vars, NEW d \in Disps, Settled(d), d \notin crossed
               PROVE  disp'[d].st = disp[d].st
    OBVIOUS
  <2>1. ~Active(d) /\ disp[d].st # "none"
    BY DEF Settled, Active, Live, Ended
  <2>2. CASE Moves
    BY <2>1, <2>2 DEF Moves, Kept, Ends
  <2>3. ASSUME NEW e \in Disps, NEW t \in Tasks, Begins(e, t)
        PROVE  disp'[d].st = disp[d].st
    BY <2>1, <2>3 DEF Begins
  <2> QED
    BY <2>2, <2>3, StepIs
<1> QED
  BY <1>1, Invariant, PTL DEF Spec, SettledStays
=============================================================================
