---------------------------- MODULE Orchestration ----------------------------
(***************************************************************************)
(* Orchestration (runner-core/orch.js): the tasks of one run, the          *)
(* dispatches that try them, and the terminals their workers live in.      *)
(*                                                                         *)
(* The store is written at once; orch.workerStart, workerStop,             *)
(* workerAbandon, workerRelease and runClose are coroutines that look at a *)
(* dispatch, wait for a terminal, and write to it without a second look.   *)
(* Messages are left to OrchMail.  A worktree of tasks.js is followed only *)
(* as far as resolveWorktreeSessions looks at it; agents and terminals are *)
(* not under src/ and do what they like.                                   *)
(***************************************************************************)
EXTENDS Integers, FiniteSets, FiniteSetsExt

CONSTANTS MaxTasks,    \* bound: tasks of the run
          MaxDisps,    \* bound: dispatches
          MaxWorkers,  \* maxWorkersPerRun (6 in the code)
          Places,      \* ways to start a worker: "new", "tree", "reuse"
          MaxCalls,    \* bound: stop, abandon, release, retain, close, update, force, gate
          MaxFaults    \* bound: failing starts and releases, agents that end, crashes

ASSUME OrchestrationAssumption ==
  /\ {MaxTasks, MaxDisps, MaxWorkers, MaxCalls, MaxFaults} \subseteq Nat /\ MaxTasks > 0
  /\ Places \subseteq {"new", "tree", "reuse"}

Tasks == 1..MaxTasks      \* in the order they were created
Disps == 1..MaxDisps      \* in the order they were started
NoTid == 0

VARIABLES
  run,      \* "active" or "closed"
  task,     \* t -> its status and what it waits for
  gate,     \* t -> the decision it waits for (bound: one per task)
  disp,     \* d -> the dispatch; a terminal has the number of the one it was made for
  start,    \* d -> where its workerStart waits, and whose terminal it takes over
  call,     \* d -> the calls under way on it
  closing,  \* runClose: the dispatch it waits for and those to come
  tree,     \* d -> the run of tasks.js made for it
  up,       \* x -> what is in the terminal made for dispatch x
  crossed,  \* dispatches settled while another call was about to write them (history)
  undone,   \* tasks that were completed and are not any more (history)
  calls, faults, crashes

history == <<crossed, undone>>
counts == <<calls, faults, crashes>>
work == <<start, call, closing>>
world == <<tree, up>>
vars == <<run, task, gate, disp, work, world, history, counts>>

Idle == [at |-> "no", of |-> NoTid]
Open == [at |-> "no", cur |-> NoTid, left |-> {}]
Unused == [t |-> 1, st |-> "none", place |-> "new", term |-> "none", tid |-> NoTid,
           ref |-> FALSE]
Live == {"starting", "ready"}
Ended == {"succeeded", "failed", "stopped", "abandoned"}

TypeOK ==
  /\ run \in {"active", "closed"}
  /\ task \in [Tasks -> [deps : SUBSET Tasks, st : {"none", "pending", "ready", "blocked",
                                                    "dispatched", "completed", "failed"}]]
  /\ gate \in [Tasks -> {"none", "pending", "resolved"}]
  /\ disp \in [Disps -> [t : Tasks, st : Live \cup Ended \cup {"none"},
                         place : {"new", "tree", "reuse"}, tid : Disps \cup {NoTid},
                         term : {"none", "owned", "retained", "transferred", "released"},
                         ref : BOOLEAN]]
  /\ start \in [Disps -> [at : {"no", "make", "launch", "probe", "input", "tree"},
                          of : Disps \cup {NoTid}]]
  /\ call \in [Disps -> SUBSET {"stop", "abandon", "release"}]
  /\ closing \in [at : {"no", "stop", "free"}, cur : Disps \cup {NoTid}, left : SUBSET Disps]
  /\ tree \in [Disps -> {"none", "creating", "launching", "up", "failed"}]
  /\ up \in [Disps -> {"none", "shell", "agent", "gone"}]
  /\ crossed \subseteq Disps /\ undone \subseteq Tasks
  /\ calls \in 0..MaxCalls /\ faults \in 0..MaxFaults /\ crashes \in 0..MaxFaults

Init ==
  /\ run = "active"
  /\ task = [t \in Tasks |-> [deps |-> {}, st |-> "none"]]
  /\ gate = [t \in Tasks |-> "none"]
  /\ disp = [d \in Disps |-> Unused]
  /\ start = [d \in Disps |-> Idle] /\ call = [d \in Disps |-> {}] /\ closing = Open
  /\ tree = [d \in Disps |-> "none"] /\ up = tree
  /\ crossed = {} /\ undone = {}
  /\ calls = 0 /\ faults = 0 /\ crashes = 0

Active(d) == disp[d].st \in Live
Settled(d) == disp[d].st \in Ended
Of(t) == {d \in Disps : disp[d].st # "none" /\ disp[d].t = t}
Workers == {d \in Disps : Active(d)}
Called == calls < MaxCalls /\ calls' = calls + 1
Fault == faults < MaxFaults /\ faults' = faults + 1

-----------------------------------------------------------------------------
(* advanceDag: one pass over the tasks in the order they were created, so that the *)
(* tasks a task waits for are settled before it.                                   *)

Readiness(waits) ==
  CASE waits \cap {"failed", "blocked"} # {} -> "blocked"
    [] waits \subseteq {"completed"} -> "ready"
    [] OTHER -> "pending"

\* Mutant: the decision a task waits for is not looked at.
MutHeld(gates, t) == FALSE
Held(gates, t) == gates[t] = "pending"

Advanced(tasks, gates) ==
  LET new[t \in Tasks] ==
        IF tasks[t].st \notin {"pending", "blocked"} \/ Held(gates, t) THEN tasks[t].st
        ELSE Readiness({new[u] : u \in tasks[t].deps})
  IN [t \in Tasks |-> [tasks[t] EXCEPT !.st = new[t]]]

Undoes(tasks) ==
  undone' = undone \cup {t \in Tasks : task[t].st = "completed" /\ tasks[t].st # "completed"}

Put(t, st) == [task EXCEPT ![t].st = st]

-----------------------------------------------------------------------------
(* settle() *)

\* The calls that are going to write the state of d.
Writers(d) ==
  (call[d] \cap {"stop", "abandon"})
    \cup (IF start[d].at # "no" THEN {"start"} ELSE {})
    \cup (IF closing.at = "stop" /\ d \in {closing.cur} \cup closing.left THEN {"close"} ELSE {})

Outcome(st) == IF st = "succeeded" THEN "completed" ELSE "failed"

\* Whoever settles d is the writer `by', or none of them.
Settle(d, st, term, by) ==
  LET tasks == Put(disp[d].t, Outcome(st)) IN
  /\ disp' = [disp EXCEPT ![d].st = st, ![d].term = term]
  /\ task' = Advanced(tasks, gate)
  /\ Undoes(tasks)
  /\ crossed' = IF Writers(d) \ {by} # {} THEN crossed \cup {d} ELSE crossed

-----------------------------------------------------------------------------
(* Tasks and decisions *)

TaskCreate(t) ==
  /\ run = "active" /\ task[t].st = "none" /\ \A u \in 1..(t - 1) : task[u].st # "none"
  /\ \E deps \in SUBSET (1..(t - 1)) :
       task' = Advanced([task EXCEPT ![t] = [deps |-> deps, st |-> "pending"]], gate)
  /\ UNCHANGED <<run, gate, disp, work, world, history, counts>>

\* The coordinator gives a task a status of its own.
TaskUpdate(t) ==
  /\ Called /\ task[t].st # "none" /\ Of(t) \cap Workers = {}
  /\ \E st \in {"pending", "completed", "failed", "blocked"} :
       /\ task' = Advanced(Put(t, st), gate)
       /\ Undoes(Put(t, st))
  /\ UNCHANGED <<run, gate, disp, work, world, crossed, faults, crashes>>

GateCreate(t) ==
  /\ Called /\ run = "active" /\ gate[t] = "none" /\ task[t].st \in {"pending", "ready"}
  /\ gate' = [gate EXCEPT ![t] = "pending"]
  /\ task' = Put(t, "pending")
  /\ UNCHANGED <<run, disp, work, world, history, faults, crashes>>

GateResolve(t) ==
  /\ gate[t] = "pending"
  /\ gate' = [gate EXCEPT ![t] = "resolved"]
  /\ task' = Advanced(task, gate')
  /\ UNCHANGED <<run, disp, work, world, history, counts>>

-----------------------------------------------------------------------------
(* orch.workerStart *)

\* Mutant: the worker that is at it already is not looked for.
MutStartable(t) == task[t].st # "none" /\ Cardinality(Workers) < MaxWorkers

Startable(t) ==
  /\ task[t].st # "none"
  /\ Of(t) \cap Workers = {}
  /\ Cardinality(Workers) < MaxWorkers

\* The last dispatch whose worker is in terminal x.
LastIn(x) == Max({d \in Disps : disp[d].tid = x})
Reusable(d) == Settled(d) /\ disp[d].term \in {"owned", "retained"}

\* The first wait of a start.  A terminal that is not free fails the dispatch at once,
\* without a look at the tasks that wait.
Begin(d, t, place, x) ==
  LET refused == place = "reuse" /\ ~Reusable(LastIn(x))
      tasks == [Advanced(task, gate) EXCEPT ![t].st = IF refused THEN "failed" ELSE "dispatched"]
  IN /\ disp' = [disp EXCEPT ![d] = [Unused EXCEPT !.t = t, !.place = place,
                                       !.st = IF refused THEN "failed" ELSE "starting"]]
     /\ start' = [start EXCEPT ![d] =
          CASE refused -> Idle
            [] place = "new" -> [at |-> "make", of |-> NoTid]
            [] place = "tree" -> [at |-> "tree", of |-> NoTid]
            [] OTHER -> [at |-> "probe", of |-> LastIn(x)]]
     /\ task' = tasks
     /\ Undoes(tasks)

\* --force and --retry-of start what is not ready.
WorkerStart(d, t) ==
  /\ disp[d].st = "none" /\ \A e \in 1..(d - 1) : disp[e].st # "none"
  /\ run = "active" /\ Startable(t)
  /\ \/ Advanced(task, gate)[t].st \in {"ready", "failed"} /\ UNCHANGED calls
     \/ Advanced(task, gate)[t].st \notin {"ready", "failed"} /\ Called
  /\ \/ \E place \in Places \ {"reuse"} : Begin(d, t, place, NoTid)
     \/ "reuse" \in Places /\ \E x \in {disp[e].tid : e \in Disps} \ {NoTid} : Begin(d, t, "reuse", x)
  /\ UNCHANGED <<run, gate, call, closing, world, crossed, faults, crashes>>

\* A start that is refused has still looked at what is ready.
StartRefused(t) ==
  /\ run = "active" /\ Startable(t)
  /\ task' = Advanced(task, gate) /\ task' # task /\ task'[t].st \notin {"ready", "failed"}
  /\ UNCHANGED <<run, gate, disp, work, world, history, counts>>

Started(d) == start' = [start EXCEPT ![d] = Idle]

TerminalMade(d) ==
  /\ start[d].at = "make"
  /\ disp' = [disp EXCEPT ![d].tid = d, ![d].term = "owned"]
  /\ up' = [up EXCEPT ![d] = "shell"]
  /\ start' = [start EXCEPT ![d].at = "launch"]
  /\ UNCHANGED <<run, task, gate, call, closing, tree, history, counts>>

\* The agent may be up, and at work on the prompt it was started with, before launch
\* returns.
AgentUp(d) ==
  /\ start[d].at = "launch" /\ up[d] = "shell"
  /\ up' = [up EXCEPT ![d] = "agent"]
  /\ UNCHANGED <<run, task, gate, disp, work, tree, history, counts>>

\* The agent of the terminal that is to be used again is still there.
Probed(d) ==
  LET of == start[d].of x == disp[of].tid IN
  /\ start[d].at = "probe" /\ up[x] = "agent"
  /\ disp' = [disp EXCEPT ![d].tid = x, ![d].place = disp[of].place, ![d].ref = disp[of].ref,
                          ![d].term = "owned", ![of].term = "transferred"]
  /\ start' = [start EXCEPT ![d].at = "input"]
  /\ UNCHANGED <<run, task, gate, call, closing, world, history, counts>>

\* launch or chatInput is back: the worker is ready, whatever became of the dispatch.
StartDone(d) ==
  /\ start[d].at \in {"launch", "input"} /\ up[disp[d].tid] # "gone"
  /\ disp' = [disp EXCEPT ![d].st = "ready"]
  /\ up' = IF start[d].at = "launch" THEN [up EXCEPT ![d] = "agent"] ELSE up
  /\ Started(d)
  /\ UNCHANGED <<run, task, gate, call, closing, tree, history, counts>>

\* tasks.internalCreate is back: the worktree is being made.
TreeAccepted(d) ==
  /\ start[d].at = "tree"
  /\ disp' = [disp EXCEPT ![d].ref = TRUE, ![d].term = "owned"]
  /\ tree' = [tree EXCEPT ![d] = "creating"]
  /\ Started(d)
  /\ UNCHANGED <<run, task, gate, call, closing, up, history, counts>>

\* Mutant: a failed start is left as it is.
MutStartFails(d) ==
  /\ start[d].at # "no"
  /\ Fault
  /\ Started(d)
  /\ UNCHANGED <<run, task, gate, disp, call, closing, world, history, calls, crashes>>

\* What fails a start for certain.
Doomed(d) ==
  \/ start[d].at = "probe" /\ up[disp[start[d].of].tid] # "agent"
  \/ start[d].at \in {"launch", "input"} /\ up[disp[d].tid] = "gone"

\* The dispatch and its task fail, whatever became of them; the tasks that wait are not
\* looked at.
StartFails(d) ==
  /\ start[d].at # "no"
  /\ Fault \/ (Doomed(d) /\ UNCHANGED faults)
  /\ disp' = [disp EXCEPT ![d].st = "failed"]
  /\ task' = Put(disp[d].t, "failed")
  /\ Undoes(Put(disp[d].t, "failed"))
  /\ crossed' = IF Writers(d) \ {"start"} # {} THEN crossed \cup {d} ELSE crossed
  /\ Started(d)
  /\ UNCHANGED <<run, gate, call, closing, world, calls, crashes>>

-----------------------------------------------------------------------------
(* Worktrees (tasks.js) and resolveWorktreeSessions *)

\* The run has a terminal from here on, but no agent in it yet.
TreeTerminal(d) ==
  /\ tree[d] = "creating"
  /\ tree' = [tree EXCEPT ![d] = "launching"] /\ up' = [up EXCEPT ![d] = "shell"]
  /\ UNCHANGED <<run, task, gate, disp, work, history, counts>>

TreeRuns(d) ==
  /\ tree[d] = "launching" /\ up[d] = "shell"
  /\ tree' = [tree EXCEPT ![d] = "up"] /\ up' = [up EXCEPT ![d] = "agent"]
  /\ UNCHANGED <<run, task, gate, disp, work, history, counts>>

TreeFails(d) ==
  /\ tree[d] \in {"creating", "launching"}
  /\ Fault \/ (up[d] = "gone" /\ UNCHANGED faults)
  /\ tree' = [tree EXCEPT ![d] = "failed"]
  /\ UNCHANGED <<run, task, gate, disp, work, up, history, calls, crashes>>

\* The dispatches it looks at: those whose worktree has no terminal yet that it knows.
Unseen == {d \in Disps : disp[d].ref /\ disp[d].tid = NoTid}
Lost == {d \in Unseen : tree[d] = "failed" /\ Active(d)}

\* Every call of the command line and every tick looks.
LookAtTrees ==
  /\ disp' = [d \in Disps |->
       IF d \notin Unseen THEN disp[d]
       ELSE [disp[d] EXCEPT
               !.tid = IF up[d] # "none" THEN d ELSE NoTid,
               !.st = IF d \in Lost THEN "failed"
                      ELSE IF tree[d] = "up" /\ @ = "starting" THEN "ready" ELSE @,
               !.term = IF d \in Lost THEN "none" ELSE @]]
  /\ disp' # disp
  /\ task' = [t \in Tasks |-> IF \E d \in Lost : disp[d].t = t
                                THEN [task[t] EXCEPT !.st = "failed"] ELSE task[t]]
  /\ Undoes(task')
  /\ crossed' = crossed \cup {d \in Lost : Writers(d) # {}}
  /\ UNCHANGED <<run, gate, work, world, counts>>

-----------------------------------------------------------------------------
(* The worker *)

\* Mutant: a report settles whatever state the dispatch is in.
MutAccepts(d) == disp[d].st # "none"
\* A late report of a dispatch that is settled changes nothing.
Accepts(d) == Active(d)

\* worker_done: from the terminal of the dispatch, by an agent that has its prompt.
WorkerDone(d) ==
  /\ disp[d].tid # NoTid /\ up[disp[d].tid] = "agent"
  /\ Accepts(d)
  /\ \E st \in {"succeeded", "failed"} : Settle(d, st, disp[d].term, "none")
  /\ UNCHANGED <<run, gate, work, world, counts>>

AgentEnds(x) ==
  /\ Fault
  /\ \/ up[x] = "agent" /\ up' = [up EXCEPT ![x] = "shell"]
     \/ up[x] \in {"shell", "agent"} /\ up' = [up EXCEPT ![x] = "gone"]
  /\ UNCHANGED <<run, task, gate, disp, work, tree, history, calls, crashes>>

-----------------------------------------------------------------------------
(* orch.workerStop, workerAbandon, workerRelease, workerRetain *)

Calls(d, name) == call' = [call EXCEPT ![d] = @ \cup {name}]
Returns(d, name) == call' = [call EXCEPT ![d] = @ \ {name}]

\* Without a terminal there is no key to press and nothing to wait for.
Stop(d) ==
  /\ Called /\ Active(d)
  /\ IF disp[d].tid = NoTid
       THEN Settle(d, "stopped", disp[d].term, "none") /\ UNCHANGED call
       ELSE Calls(d, "stop") /\ UNCHANGED <<disp, task, history>>
  /\ UNCHANGED <<run, gate, start, closing, world, faults, crashes>>

StopDone(d) ==
  /\ "stop" \in call[d]
  /\ Settle(d, "stopped", disp[d].term, "stop")
  /\ Returns(d, "stop")
  /\ UNCHANGED <<run, gate, start, closing, world, counts>>

Abandon(d) ==
  /\ Called /\ Active(d)
  /\ Calls(d, "abandon")
  /\ UNCHANGED <<run, task, gate, disp, start, closing, world, history, faults, crashes>>

\* livenessOf: the terminal is gone, or back at its shell some time after the launch.
Exited(d) ==
  /\ disp[d].tid # NoTid
  /\ \/ up[disp[d].tid] = "gone"
     \/ up[disp[d].tid] = "shell" /\ start[d].at # "launch"

\* Without proof of its end, and without --force, the worker is not abandoned.
AbandonDone(d) ==
  /\ "abandon" \in call[d]
  /\ \/ LET gone == Exited(d) /\ up[disp[d].tid] = "gone" /\ disp[d].term = "owned"
                    /\ disp[d].place # "tree"
        IN Settle(d, "abandoned", IF gone THEN "released" ELSE disp[d].term, "abandon")
     \/ ~Exited(d) /\ UNCHANGED <<disp, task, history>>
  /\ Returns(d, "abandon")
  /\ UNCHANGED <<run, gate, start, closing, world, counts>>

Release(d) ==
  /\ Called /\ Settled(d) /\ disp[d].term \in {"owned", "retained"}
  /\ Calls(d, "release")
  /\ UNCHANGED <<run, task, gate, disp, start, closing, world, history, faults, crashes>>

\* The terminal is closed, the worktree discarded or merged.
Freed(d) ==
  /\ disp' = [disp EXCEPT ![d].term = "released"]
  /\ up' = IF disp[d].tid = NoTid THEN up ELSE [up EXCEPT ![disp[d].tid] = "gone"]

ReleaseDone(d) ==
  /\ "release" \in call[d]
  /\ Returns(d, "release")
  /\ \/ Freed(d) /\ UNCHANGED faults
     \/ Fault /\ UNCHANGED <<disp, up>>
  /\ UNCHANGED <<run, task, gate, start, closing, tree, history, calls, crashes>>

Retain(d) ==
  /\ Called /\ Settled(d) /\ disp[d].term = "owned"
  /\ disp' = [disp EXCEPT ![d].term = "retained"]
  /\ UNCHANGED <<run, task, gate, work, world, history, faults, crashes>>

-----------------------------------------------------------------------------
(* orch.runClose: the workers are stopped one by one, then the terminals given back. *)

First(S) == IF S = {} THEN NoTid ELSE Min(S)
After(S) == S \ {First(S)}
OwnedBy(ds, S) == {d \in S : ds[d].term = "owned"}

\* From dispatch cur on: what is still to be given back, or the end.
Frees(ds, S) ==
  LET left == OwnedBy(ds, S) IN
  IF left = {} THEN run' = "closed" /\ closing' = Open
  ELSE /\ closing' = [at |-> "free", cur |-> Min(left), left |-> {d \in S : d > Min(left)}]
       /\ UNCHANGED run

\* --force where workers are active.
RunClose ==
  /\ Called /\ run = "active" /\ closing.at = "no"
  /\ IF Workers = {} THEN Frees(disp, Disps)
     ELSE /\ closing' = [at |-> "stop", cur |-> First(Workers), left |-> After(Workers)]
          /\ UNCHANGED run
  /\ UNCHANGED <<task, gate, disp, start, call, world, history, faults, crashes>>

\* (A worker without a terminal is settled without a wait; it takes a step here too.)
CloseStops ==
  /\ closing.at = "stop"
  /\ Settle(closing.cur, "stopped", disp[closing.cur].term, "close")
  /\ IF closing.left = {} THEN Frees(disp', Disps)
     ELSE /\ closing' = [closing EXCEPT !.cur = First(closing.left), !.left = After(closing.left)]
          /\ UNCHANGED run
  /\ UNCHANGED <<gate, start, call, world, counts>>

\* A terminal that cannot be given back is logged and left.
CloseFrees ==
  /\ closing.at = "free"
  /\ \/ Freed(closing.cur) /\ UNCHANGED faults
     \/ Fault /\ UNCHANGED <<disp, up>>
  /\ Frees(disp', closing.left)
  /\ UNCHANGED <<task, gate, start, call, tree, history, calls, crashes>>

-----------------------------------------------------------------------------
\* The daemon dies and starts again: what was under way is forgotten, the store and the
\* terminals are not, and tasks.js gives up a launch that was under way.  (What a start
\* has put into the store is taken as saved.)
Crash ==
  /\ Fault /\ crashes' = crashes + 1
  /\ start' = [d \in Disps |-> Idle] /\ call' = [d \in Disps |-> {}] /\ closing' = Open
  /\ tree' = [d \in Disps |-> IF tree[d] = "launching" THEN "failed" ELSE tree[d]]
  /\ UNCHANGED <<run, task, gate, disp, up, history, calls>>

Starting(d) ==
  TerminalMade(d) \/ Probed(d) \/ StartDone(d) \/ TreeAccepted(d) \/ StartFails(d)
Growing(d) == TreeTerminal(d) \/ TreeRuns(d) \/ TreeFails(d)

Next ==
  \/ \E t \in Tasks : TaskCreate(t) \/ TaskUpdate(t) \/ GateCreate(t) \/ GateResolve(t)
                      \/ StartRefused(t)
  \/ \E d \in Disps :
       \/ \E t \in Tasks : WorkerStart(d, t)
       \/ Starting(d) \/ AgentUp(d) \/ Growing(d) \/ WorkerDone(d) \/ AgentEnds(d)
       \/ Stop(d) \/ StopDone(d) \/ Abandon(d) \/ AbandonDone(d)
       \/ Release(d) \/ ReleaseDone(d) \/ Retain(d)
  \/ LookAtTrees \/ RunClose \/ CloseStops \/ CloseFrees \/ Crash

Spec == Init /\ [][Next]_vars

\* Every wait of a start ends, tasks.js goes on with a worktree, and the tick looks at it.
FairSpec ==
  /\ Spec /\ WF_vars(LookAtTrees)
  /\ \A d \in Disps : WF_vars(Starting(d)) /\ WF_vars(Growing(d))

-----------------------------------------------------------------------------
\* A dispatch that is settled stays as it was settled: no late report, no failure of its
\* worktree that is seen late and no later attempt changes it, unless a call that had
\* looked at it before was still under way.
SettledStays ==
  [][\A d \in Disps : Settled(d) /\ d \notin crossed => disp'[d].st = disp[d].st]_vars

\* A task is dispatched exactly while one attempt at it is active, however starts, stops,
\* reports and crashes interleave; attempts that were crossed excepted.
TaskAgrees ==
  \A t \in Tasks : Of(t) \cap crossed = {} =>
    Cardinality(Of(t) \cap Workers) = (IF task[t].st = "dispatched" THEN 1 ELSE 0)

\* A task is ready only if its decision is taken and what it waits for is completed (or
\* was, and was taken up again), and none is left waiting when all that is so.
DagSound ==
  \A t \in Tasks :
    LET free == gate[t] # "pending" IN
    /\ task[t].st = "ready" =>
         free /\ \A u \in task[t].deps : task[u].st = "completed" \/ u \in undone
    /\ task[t].st \in {"pending", "blocked"} =>
         ~(free /\ \A u \in task[t].deps : task[u].st = "completed")

\* A dispatch that was seen with its terminal while its worktree was still launching.
Overlooked(d) == start[d].at = "no" /\ disp[d].tid # NoTid

\* A start ends: the worker is ready, or the dispatch failed; unless the daemon died, or
\* the dispatch was looked at too early.
StartsEnd ==
  \A d \in Disps :
    disp[d].st = "starting" ~> (disp[d].st # "starting" \/ crashes > 0 \/ Overlooked(d))
=============================================================================
