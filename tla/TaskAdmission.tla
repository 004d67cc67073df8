---------------------------- MODULE TaskAdmission ----------------------------
(***************************************************************************)
(* Admission of task.create (createEntry and createSync of                 *)
(* codingpt_daemon/packages/runner-core/tasks.js).                         *)
(*                                                                         *)
(* A client that got no answer sends the same opId again, perhaps beside   *)
(* the first request or after a restart of the daemon; the task must be    *)
(* made once.  The limits on open tasks and active runs are looked at      *)
(* between two awaits and the task is recorded after others.  A call is    *)
(* one delivery of a request; the task it records goes by its name.        *)
(***************************************************************************)
EXTENDS Naturals, FiniteSetsExt

CONSTANTS
  Calls, OpIdOf, CountOf,    \* requests, their opId, the runs they ask for
  MaxOpenTasks, MaxRuns,     \* OPEN_TASKS_PER_REPO_MAX, OPEN_RUNS_MAX
  Keep,                      \* CREATE_OPS_KEEP
  MaxCrashes,                \* bound: how often the daemon may die
  None, Error

ASSUME CallsAssumption ==
  /\ CountOf \in [Calls -> Nat \ {0}]
  /\ {MaxOpenTasks, MaxRuns, MaxCrashes} \subseteq Nat /\ Keep \in Nat \ {0}
  /\ None \notin Calls /\ Error \notin Calls /\ None # Error

VARIABLES
  items, open, active, failed,              \* tasks.json: tasks and their runs
  createOps, born,                          \* the recent opIds, in order of creation
  inflight,                                 \* createInflight: the call at work on an opId
  pc, answer,                               \* every call: its place, and its reply
  crashes

table == <<createOps, born>>
store == <<items, open, active, failed, table>>
vars  == <<store, inflight, pc, answer, crashes>>

OpIds == {OpIdOf[c] : c \in Calls}

TypeOK ==
  /\ items \subseteq Calls /\ open \subseteq items
  /\ active \in [Calls -> Nat] /\ failed \in [Calls -> Nat]
  /\ \A c \in Calls : active[c] + failed[c] <= CountOf[c]
  /\ createOps \subseteq items /\ Cardinality(createOps) <= Keep
  /\ born \in [Calls -> Nat]
  /\ inflight \in [OpIds -> Calls \cup {None}]
  /\ pc \in [Calls -> {"new", "checks", "agents", "wait", "refresh", "answered"}]
  /\ answer \in [Calls -> Calls \cup {None, Error}]
  /\ crashes \in 0..MaxCrashes

Init ==
  /\ items = {} /\ open = {}
  /\ createOps = {} /\ born = [c \in Calls |-> 0]
  /\ active = [c \in Calls |-> 0] /\ failed = [c \in Calls |-> 0]
  /\ inflight = [o \in OpIds |-> None]
  /\ pc = [c \in Calls |-> "new"]
  /\ answer = [c \in Calls |-> None]
  /\ crashes = 0

-----------------------------------------------------------------------------
(* createEntry *)

\* s.createOps.find
Recorded(c) == {d \in createOps : OpIdOf[d] = OpIdOf[c]}

\* MUTANT: a request beside another of its opId is not noticed.
MutBusyOp(c) == FALSE

BusyOp(c) == inflight[OpIdOf[c]] # None

\* A recorded opId is answered with its task; one in flight waits for the first
\* request; any other starts createSync.
Arrive(c) ==
  /\ pc[c] = "new"
  /\ \/ \E d \in Recorded(c) :
          /\ pc' = [pc EXCEPT ![c] = "refresh"]
          /\ answer' = [answer EXCEPT ![c] = d]
          /\ UNCHANGED inflight
     \/ /\ Recorded(c) = {} /\ BusyOp(c)
        /\ pc' = [pc EXCEPT ![c] = "wait"]
        /\ UNCHANGED <<inflight, answer>>
     \/ /\ Recorded(c) = {} /\ ~BusyOp(c)
        /\ pc' = [pc EXCEPT ![c] = "checks"]
        /\ inflight' = [inflight EXCEPT ![OpIdOf[c]] = c]
        /\ UNCHANGED answer
  /\ UNCHANGED <<store, crashes>>

\* refreshLive before the replay is answered
Replay(c) ==
  /\ pc[c] = "refresh"
  /\ pc' = [pc EXCEPT ![c] = "answered"]
  /\ UNCHANGED <<store, inflight, answer, crashes>>

\* MUTANTS: only the first request is answered; the opId is left in flight.
MutSettleFirst(c, result) ==
  /\ pc' = [pc EXCEPT ![c] = "answered"]
  /\ answer' = [answer EXCEPT ![c] = result]
  /\ inflight' = [inflight EXCEPT ![OpIdOf[c]] = None]
MutSettleKeeps(c, result) ==
  LET waiters == {d \in Calls : pc[d] = "wait" /\ OpIdOf[d] = OpIdOf[c]}
  IN /\ pc' = [d \in Calls |-> IF d \in waiters \cup {c} THEN "answered" ELSE pc[d]]
     /\ answer' = [d \in Calls |-> IF d \in waiters \cup {c} THEN result ELSE answer[d]]
     /\ inflight' = [inflight EXCEPT ![OpIdOf[c]] = IF result = Error THEN c ELSE None]

\* The promise of createSync settles: the request and those that wait on it get
\* the same result, and the finally block ends the flight of the opId.
Settle(c, result) ==
  LET waiters == {d \in Calls : pc[d] = "wait" /\ OpIdOf[d] = OpIdOf[c]}
  IN /\ pc' = [d \in Calls |-> IF d \in waiters \cup {c} THEN "answered" ELSE pc[d]]
     /\ answer' = [d \in Calls |-> IF d \in waiters \cup {c} THEN result ELSE answer[d]]
     /\ inflight' = [inflight EXCEPT ![OpIdOf[c]] = None]

-----------------------------------------------------------------------------
(* createSync *)

ActiveRuns == MapThenSumSet(LAMBDA c : active[c], items)

WithinLimits(c) ==
  /\ Cardinality(open) < MaxOpenTasks
  /\ ActiveRuns + CountOf[c] <= MaxRuns

\* After the awaits on git: the limits, or an error of the repository or base.
CheckLimits(c) ==
  /\ pc[c] = "checks"
  /\ \/ Settle(c, Error)
     \/ /\ WithinLimits(c)
        /\ pc' = [pc EXCEPT ![c] = "agents"]
        /\ UNCHANGED <<inflight, answer>>
  /\ UNCHANGED <<store, crashes>>

Oldest(ops) == CHOOSE d \in ops : \A e \in ops : born[d] <= born[e]

\* createOps keeps the last CREATE_OPS_KEEP.
Remember(c) ==
  createOps' = (createOps \cup {c}) \
    (IF Cardinality(createOps) >= Keep THEN {Oldest(createOps)} ELSE {})

\* After the awaits on the installed agents and the remote: the task and its
\* opId are recorded in one save, and the request is answered.
RecordTask(c) ==
  /\ pc[c] = "agents"
  /\ items' = items \cup {c} /\ open' = open \cup {c}
  /\ active' = [active EXCEPT ![c] = CountOf[c]]
  /\ Remember(c)
  /\ born' = [born EXCEPT ![c] = 1 + Cardinality({d \in Calls : born[d] > 0})]
  /\ Settle(c, c)
  /\ UNCHANGED <<failed, crashes>>

AgentMissing(c) ==
  /\ pc[c] = "agents"
  /\ Settle(c, Error)
  /\ UNCHANGED <<store, crashes>>

-----------------------------------------------------------------------------
(* What other handlers do to the numbers that are limited *)

RunFails(c) ==
  /\ active[c] > 0
  /\ active' = [active EXCEPT ![c] = @ - 1]
  /\ failed' = [failed EXCEPT ![c] = @ + 1]
  /\ UNCHANGED <<items, open, table, inflight, pc, answer, crashes>>

\* reopen, or an agent that revives its failed run: without a look at the limits
RunRestarts(c) ==
  /\ failed[c] > 0
  /\ active' = [active EXCEPT ![c] = @ + 1]
  /\ failed' = [failed EXCEPT ![c] = @ - 1]
  /\ UNCHANGED <<items, open, table, inflight, pc, answer, crashes>>

\* A run is discarded or merged; the task ends with its last, or with the merge.
RunSettles(c) ==
  /\ c \in items
  /\ \/ /\ active[c] > 0 /\ active' = [active EXCEPT ![c] = @ - 1]
        /\ UNCHANGED failed
     \/ /\ failed[c] > 0 /\ failed' = [failed EXCEPT ![c] = @ - 1]
        /\ UNCHANGED active
  /\ \/ open' = open \ {c}
     \/ active'[c] + failed'[c] > 0 /\ UNCHANGED open
  /\ UNCHANGED <<items, table, inflight, pc, answer, crashes>>

\* task.delete forgets the task and its opId.
DeleteTask(c) ==
  /\ c \in items \ open /\ active[c] = 0
  /\ items' = items \ {c}
  /\ createOps' = createOps \ {c}
  /\ failed' = [failed EXCEPT ![c] = 0]
  /\ UNCHANGED <<open, active, born, inflight, pc, answer, crashes>>

\* The daemon dies and starts again; requests it was at work on get no answer.
Crash ==
  /\ crashes < MaxCrashes
  /\ crashes' = crashes + 1
  /\ inflight' = [o \in OpIds |-> None]
  /\ LET cut == {c \in Calls : pc[c] \notin {"new", "answered"}}
     IN /\ pc' = [c \in Calls |-> IF c \in cut THEN "answered" ELSE pc[c]]
        /\ answer' = [c \in Calls |-> IF c \in cut THEN Error ELSE answer[c]]
  /\ UNCHANGED store

-----------------------------------------------------------------------------
CreateStep(c) == Replay(c) \/ CheckLimits(c) \/ RecordTask(c) \/ AgentMissing(c)

Next ==
  \/ \E c \in Calls : Arrive(c) \/ CreateStep(c)
  \/ \E c \in Calls : RunFails(c) \/ RunRestarts(c) \/ RunSettles(c) \/ DeleteTask(c)
  \/ Crash

Spec == Init /\ [][Next]_vars

\* The awaits of createSync and of a replay end.
FairSpec == Spec /\ \A c \in Calls : WF_vars(CreateStep(c))

-----------------------------------------------------------------------------
\* An opId makes one task: the table of recent opIds never names two tasks for one,
\* whether the requests came together, one after the other
\* or around a restart (createOps, createInflight).
CreatedOnce ==
  \A c, d \in createOps : OpIdOf[c] = OpIdOf[d] => c = d

\* An opId in flight has a creation at work on it: an error leaves none behind,
\* so that sending the opId again can still make the task (finally).
InflightLive ==
  \A o \in OpIds : inflight[o] # None =>
    pc[inflight[o]] \in {"checks", "agents"} /\ OpIdOf[inflight[o]] = o

\* Every request is answered, also one that waits on another and one that the
\* daemon dies in.
CallsAnswered == \A c \in Calls : pc[c] # "new" ~> pc[c] = "answered"
=============================================================================
