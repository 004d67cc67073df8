------------------------------- MODULE TaskTurns -------------------------------
(***************************************************************************)
(* The end of an agent's turn: who is told, and when a run is up for       *)
(* review (evaluateTurn, scheduleTurnEval, onAgentState and shouldNotify   *)
(* of codingpt_daemon/packages/runner-core/tasks.js; applyHook, the exit   *)
(* branch of applyWatch and fire of agent-state.js).                       *)
(*                                                                         *)
(* One run, whose terminal is governed by hooks.  The end of a turn is     *)
(* heard on two paths at once: the state subscriber starts a debounce      *)
(* timer, and the notice of agent-state asks shouldNotify for its veto.    *)
(* Both count the diff (one count at a time, refreshRun) and either may    *)
(* send task_ready.  Instants are turn numbers: lastTurnEndedAt is the     *)
(* turn whose end was recorded, reviewNotifiedAt the value it had when     *)
(* task_ready was sent.  turn, on, alive, over and sent are what happens   *)
(* outside the daemon.                                                     *)
(***************************************************************************)
EXTENDS Naturals, FiniteSetsExt

CONSTANTS
  MaxTurns, MaxAsks,        \* bounds: turns, task.diff requests,
  MaxFails, MaxCrashes,     \* failures of git, daemon crashes
  Quick,       \* the user acts before the notices of a turn are decided
  Approvals,   \* the agent asks for permissions
  Slow         \* counting a diff may take longer than shouldNotifyMaxMs

ASSUME TurnsAssumption ==
  /\ {MaxTurns, MaxAsks, MaxFails, MaxCrashes} \subseteq Nat
  /\ {Quick, Approvals, Slow} \subseteq BOOLEAN

VARIABLES
  turn, on, alive, over, changed, sent,     \* the agent, its worktree, the user's notices
  agentState,                               \* rec.state of agent-state
  state, lastTurnEndedAt, reviewNotifiedAt, diff,   \* the run record
  timer, evals,                             \* the debounce timer, its evaluations at work
  refresh, sample, again,                   \* refreshRun
  gates,                                    \* the done notices that wait for shouldNotify
  refire, exitSeen,                         \* rec.fires of done; an exit in its quiet window
  asks, failures, crashes                   \* how often

agent   == <<turn, on, alive, over, changed>>
run     == <<state, lastTurnEndedAt, reviewNotifiedAt, diff>>
counter == <<refresh, sample, again>>
vars    == <<agent, sent, agentState, run, timer, evals, counter, gates, refire,
             exitSeen, asks, failures, crashes>>

Turns   == 1..MaxTurns
Gates   == Turns \X {"stop", "exit"}
Never   == MaxTurns + 1                    \* reviewNotifiedAt = null
Notices == [Turns -> Nat]                  \* how often one was sent for a turn
Unsent  == [k \in Turns |-> 0]
Pending == {"eval", "push", "late"}        \* a gate whose evaluation is at work

TypeOK ==
  /\ turn \in 0..MaxTurns /\ over \in 0..turn /\ {on, alive, changed} \subseteq BOOLEAN
  /\ sent \in [ready : Notices, done : Notices, error : Notices]
  /\ agentState \in {"launching", "idle", "working", "permission", "ended"}
  /\ state \in {"running", "review_ready", "failed", "settled"}
  /\ lastTurnEndedAt \in 0..over /\ reviewNotifiedAt \in (0..over) \cup {Never}
  /\ timer \in {"none", "notify", "quiet"} /\ evals \subseteq {"notify", "quiet"}
  /\ refresh \in {"off", "counting", "counted"}
  /\ {diff, sample, again, refire, exitSeen} \subseteq BOOLEAN
  /\ again => refresh # "off"
  /\ gates \in [Gates -> Pending \cup {"none", "closed"}]
  /\ asks \in 0..MaxAsks /\ failures \in 0..MaxFails /\ crashes \in 0..MaxCrashes

Init ==
  /\ turn = 0 /\ over = 0 /\ on = FALSE /\ alive = TRUE /\ changed = FALSE
  /\ sent = [ready |-> Unsent, done |-> Unsent, error |-> Unsent]
  /\ agentState = "idle"
  /\ state = "running" /\ lastTurnEndedAt = 0 /\ reviewNotifiedAt = Never /\ diff = FALSE
  /\ timer = "none" /\ evals = {}
  /\ refresh = "off" /\ sample = FALSE /\ again = FALSE
  /\ gates = [g \in Gates |-> "none"]
  /\ refire = FALSE /\ exitSeen = FALSE
  /\ asks = 0 /\ failures = 0 /\ crashes = 0

\* Nothing about an earlier turn is still being decided.
AtRest ==
  /\ timer = "none" /\ evals = {} /\ refresh = "off" /\ ~exitSeen /\ ~refire
  /\ \A g \in Gates : gates[g] \notin Pending

-----------------------------------------------------------------------------
(* refreshRun: one count at a time; a request beside it has it done again *)

\* MUTANT: a request beside a count is content with that count.
MutRefreshRun == IF refresh = "off" THEN refresh' = "counting" /\ UNCHANGED <<sample, again>>
                                    ELSE UNCHANGED counter

RefreshRun ==
  /\ refresh' = IF refresh = "off" THEN "counting" ELSE refresh
  /\ again' = (refresh # "off")
  /\ UNCHANGED sample

-----------------------------------------------------------------------------
(* onAgentState *)

Settled == state = "settled"

HearWorking ==
  /\ agentState' = "working"
  /\ state' = IF agentState # "working" /\ ~Settled THEN "running" ELSE state

\* The subscriber records the end of a turn and restarts the debounce timer.
HearTurnEnd(recorded, kind) ==
  IF Settled THEN UNCHANGED <<lastTurnEndedAt, timer>>
  ELSE /\ lastTurnEndedAt' = IF recorded THEN turn ELSE lastTurnEndedAt
       /\ timer' = kind

\* An exit counts as the end of a turn when the agent was at work.
HearEnded ==
  IF agentState = "ended" THEN UNCHANGED <<agentState, lastTurnEndedAt, timer>>
  ELSE /\ agentState' = "ended"
       /\ HearTurnEnd(agentState = "working", "notify")

-----------------------------------------------------------------------------
(* The agent and its hooks (applyHook) *)

Prompt ==
  /\ alive /\ ~on /\ turn < MaxTurns /\ (Quick \/ AtRest)
  /\ turn' = turn + 1 /\ on' = TRUE
  /\ HearWorking
  /\ UNCHANGED <<alive, over, changed, sent, lastTurnEndedAt, reviewNotifiedAt, diff, timer,
                 evals, counter, gates, refire, exitSeen, asks, failures, crashes>>

\* A stop with background tasks left: the turn goes on.
PauseInBackground ==
  /\ on /\ agentState # "working"
  /\ HearWorking
  /\ UNCHANGED <<agent, sent, lastTurnEndedAt, reviewNotifiedAt, diff, timer, evals, counter,
                 gates, refire, exitSeen, asks, failures, crashes>>

\* No hook tells that the permission was given: the state stays until the turn ends.
AskPermission ==
  /\ on /\ Approvals
  /\ agentState' = "permission"
  /\ UNCHANGED <<agent, sent, run, timer, evals, counter, gates, refire, exitSeen, asks,
                 failures, crashes>>

\* The work of a turn makes the diff to the base non-empty, or empties it.
Edit ==
  /\ on
  /\ changed' = ~changed
  /\ UNCHANGED <<turn, on, alive, over, sent, agentState, run, timer, evals, counter, gates,
                 refire, exitSeen, asks, failures, crashes>>

TurnOver == on /\ on' = FALSE /\ over' = turn

\* The stop hook: the subscriber first, then fire asks for the veto, which starts
\* an evaluation before its first await.
Stop ==
  /\ TurnOver
  /\ agentState' = "idle"
  /\ HearTurnEnd(TRUE, "notify")
  /\ gates' = [gates EXCEPT ![<<turn, "stop">>] = "eval"]
  /\ RefreshRun
  /\ UNCHANGED <<turn, alive, changed, sent, state, reviewNotifiedAt, diff, evals, refire,
                 exitSeen, asks, failures, crashes>>

\* The error notice needs no veto (two failures within REFIRE_MIN_MS, of which the second
\* would not be told, are left out).
StopFailure ==
  /\ TurnOver
  /\ agentState' = "idle"
  /\ HearTurnEnd(TRUE, "quiet")
  /\ sent' = [sent EXCEPT !.error[turn] = @ + 1]
  /\ UNCHANGED <<turn, alive, changed, state, reviewNotifiedAt, diff, evals, counter, gates,
                 refire, exitSeen, asks, failures, crashes>>

\* The process ends, with a session_end hook or without; the watcher sees it when
\* the title it polled last was that of an agent at work, which it takes anew after a
\* restart of the daemon.
AgentExits ==
  /\ alive /\ (on \/ Quick \/ AtRest)
  /\ alive' = FALSE /\ on' = FALSE
  /\ over' = IF on THEN turn ELSE over
  /\ exitSeen' = (on /\ crashes = 0)
  /\ \/ HearEnded
     \/ on /\ exitSeen' /\ UNCHANGED <<agentState, lastTurnEndedAt, timer>>
  /\ UNCHANGED <<turn, changed, sent, state, reviewNotifiedAt, diff, evals, counter, gates,
                 refire, asks, failures, crashes>>

\* The quiet window of the watcher is over (exit branch of applyWatch).
WatchExit ==
  /\ exitSeen /\ exitSeen' = FALSE
  /\ HearEnded
  /\ gates' = [gates EXCEPT ![<<turn, "exit">>] = "eval"]
  /\ RefreshRun
  /\ UNCHANGED <<agent, sent, state, reviewNotifiedAt, diff, evals, refire, asks, failures,
                 crashes>>

\* The agent is started again in the terminal (session_start), once the notices of its
\* exit are decided.
SessionStart ==
  /\ ~alive /\ AtRest
  /\ alive' = TRUE
  /\ agentState' = "idle"
  /\ UNCHANGED <<turn, on, over, changed, sent, run, timer, evals, counter, gates, refire,
                 exitSeen, asks, failures, crashes>>

-----------------------------------------------------------------------------
(* evaluateTurn and shouldNotify *)

\* The debounce is over.
TimerFires ==
  /\ timer # "none" /\ timer' = "none"
  /\ evals' = evals \cup {timer}
  /\ RefreshRun
  /\ UNCHANGED <<agent, sent, agentState, run, gates, refire, exitSeen, asks, failures, crashes>>

\* task.diff, or the check before an operation: a count that evaluates nothing
DiffAsked ==
  /\ asks < MaxAsks /\ asks' = asks + 1
  /\ RefreshRun
  /\ UNCHANGED <<agent, sent, agentState, run, timer, evals, gates, refire, exitSeen,
                 failures, crashes>>

\* git looks at the worktree.
Count ==
  /\ refresh = "counting" /\ refresh' = "counted"
  /\ sample' = changed
  /\ UNCHANGED <<agent, sent, agentState, run, timer, evals, again, gates, refire, exitSeen,
                 asks, failures, crashes>>

CountAgain ==
  /\ refresh = "counted" /\ again
  /\ refresh' = "counting" /\ again' = FALSE
  /\ diff' = sample
  /\ UNCHANGED <<agent, sent, agentState, state, lastTurnEndedAt, reviewNotifiedAt, timer,
                 evals, sample, gates, refire, exitSeen, asks, failures, crashes>>

\* MUTANT: what was sent is not looked at.
MutNotified(ended) == FALSE

\* reviewNotifiedAt >= lastTurnEndedAt
Notified(ended) == reviewNotifiedAt # Never /\ reviewNotifiedAt >= ended

\* MUTANT: the state of the run is not looked at.
MutCovered(st) == Notified(lastTurnEndedAt)

\* covered(): task_ready has told of this turn.
Covered(st) == Notified(lastTurnEndedAt) /\ st = "review_ready"

\* MUTANT: a failed turn is not reviewed.
MutReviewed(found) == IF found /\ state = "running" /\ evals # {"quiet"} THEN "review_ready"
                                                                        ELSE state

\* The state an evaluation leaves.
Reviewed(found) == IF found /\ state = "running" THEN "review_ready" ELSE state

Waiting == {g \in Gates : gates[g] = "eval"}

\* fire after the veto: the window of REFIRE_MIN_MS drops a second done.
Release(allowed) ==
  /\ sent' = IF refire \/ allowed = {} THEN sent
             ELSE [sent EXCEPT !.done[Min({g[1] : g \in allowed})] = @ + 1]
  /\ refire' = (refire \/ allowed # {})

\* The count is done and all evaluations that waited for it go on: the run is up for
\* review, and one of them that may notify sends task_ready unless that was done for
\* the turn.  A gate that sends it waits for the request; the others ask covered().
\* A gate that was decided by the cap ("late") only evaluates.
Evaluate ==
  /\ refresh = "counted" /\ ~again
  /\ refresh' = "off"
  /\ diff' = sample
  /\ evals' = {}
  /\ LET late     == {g \in Gates : gates[g] = "late"}
         judged   == evals # {} \/ Waiting # {} \/ late # {}
         notifies == "notify" \in evals \/ Waiting # {} \/ late # {}
         st       == IF judged THEN Reviewed(sample) ELSE state
         fires    == sample /\ notifies /\ st = "review_ready" /\ ~Notified(lastTurnEndedAt)
         Gate(g, busy) == CASE g \in busy -> "push"
                            [] g \in late \cup (Waiting \ busy) -> "closed"
                            [] OTHER -> gates[g]
     IN /\ state' = st
        /\ reviewNotifiedAt' = IF fires THEN lastTurnEndedAt ELSE reviewNotifiedAt
        /\ IF fires /\ Waiting # {}
             THEN \E busy \in {{g} : g \in Waiting} \cup {{}} :
                    /\ busy = {} => "notify" \in evals \/ late # {}
                    /\ gates' = [g \in Gates |-> Gate(g, busy)]
             ELSE gates' = [g \in Gates |-> Gate(g, {})]
        /\ IF fires
             THEN sent' = [sent EXCEPT !.ready[over] = @ + 1] /\ UNCHANGED refire
             ELSE Release(IF Covered(st) THEN {} ELSE Waiting)
  /\ UNCHANGED <<agent, agentState, lastTurnEndedAt, timer, sample, again, exitSeen, asks,
                 failures, crashes>>

\* The request of task_ready came back.
Pushed(g) ==
  /\ gates[g] = "push"
  /\ gates' = [gates EXCEPT ![g] = "closed"]
  /\ Release(IF Covered(state) THEN {} ELSE {g})
  /\ UNCHANGED <<agent, agentState, run, timer, evals, counter, exitSeen, asks, failures, crashes>>

\* predicted(): what the diff of an earlier count suggests
Predicted == diff /\ state \in {"running", "review_ready"}

\* shouldNotifyMaxMs is over before the evaluation.
Cap(g) ==
  /\ Slow /\ gates[g] \in {"eval", "push"}
  /\ gates' = [gates EXCEPT ![g] = IF @ = "eval" THEN "late" ELSE "closed"]
  /\ Release(IF Covered(state) \/ Predicted THEN {} ELSE {g})
  /\ UNCHANGED <<agent, agentState, run, timer, evals, counter, exitSeen, asks, failures, crashes>>

\* git fails: every evaluation is dropped, and the gates go by the prediction.
CountFails ==
  /\ failures < MaxFails /\ failures' = failures + 1 /\ refresh = "counting"
  /\ refresh' = "off" /\ again' = FALSE
  /\ evals' = {}
  /\ gates' = [g \in Gates |-> IF gates[g] \in {"eval", "late"} THEN "closed" ELSE gates[g]]
  /\ Release(IF Predicted THEN {} ELSE Waiting)
  /\ UNCHANGED <<agent, agentState, run, timer, sample, exitSeen, asks, crashes>>

\* REFIRE_MIN_MS is over, which an exit seen in time does not reach.
RefireExpires ==
  /\ refire /\ ~exitSeen /\ Waiting = {}
  /\ refire' = FALSE
  /\ UNCHANGED <<agent, sent, agentState, run, timer, evals, counter, gates, exitSeen, asks,
                 failures, crashes>>

-----------------------------------------------------------------------------
(* What else happens to the run, and the daemon *)

RunFails ==
  /\ state \in {"running", "review_ready"} /\ (Quick \/ AtRest)
  /\ state' = "failed"
  /\ UNCHANGED <<agent, sent, agentState, lastTurnEndedAt, reviewNotifiedAt, diff, timer,
                 evals, counter, gates, refire, exitSeen, asks, failures, crashes>>

\* Merged or discarded: its terminal may live on.
RunSettles ==
  /\ ~Settled /\ (Quick \/ AtRest)
  /\ state' = "settled"
  /\ UNCHANGED <<agent, sent, agentState, lastTurnEndedAt, reviewNotifiedAt, diff, timer,
                 evals, counter, gates, refire, exitSeen, asks, failures, crashes>>

\* The daemon dies and starts again: the run record is on disk, the rest is not.
Crash ==
  /\ crashes < MaxCrashes /\ crashes' = crashes + 1
  /\ agentState' = "launching"
  /\ timer' = "none" /\ evals' = {}
  /\ refresh' = "off" /\ again' = FALSE
  /\ gates' = [g \in Gates |-> IF gates[g] \in Pending THEN "closed" ELSE gates[g]]
  /\ refire' = FALSE /\ exitSeen' = FALSE
  /\ UNCHANGED <<agent, sent, run, sample, asks, failures>>

-----------------------------------------------------------------------------
Agent == Prompt \/ PauseInBackground \/ AskPermission \/ Edit \/ Stop \/ StopFailure
         \/ AgentExits \/ SessionStart

Daemon == TimerFires \/ Count \/ CountAgain \/ Evaluate \/ WatchExit \/ RefireExpires
          \/ \E g \in Gates : Pushed(g)

Next ==
  \/ Agent \/ Daemon \/ DiffAsked
  \/ \E g \in Gates : Cap(g)
  \/ CountFails \/ RunFails \/ RunSettles \/ Crash

Spec == Init /\ [][Next]_vars

\* Timers fire and the awaited git and network calls end.
FairSpec == Spec /\ WF_vars(TimerFires) /\ WF_vars(Count) /\ WF_vars(CountAgain \/ Evaluate)

-----------------------------------------------------------------------------
\* How often task_ready has been sent for the turns up to k.
Told[k \in 0..MaxTurns] == IF k = 0 THEN 0 ELSE sent.ready[k] + Told[k - 1]

\* task_ready is sent once for a turn: no more often than turns have ended, although both
\* paths evaluate each, counts are asked for beside them, and the agent and the daemon may
\* end in between (reviewNotifiedAt).
ReadyOncePerTurn == Told[MaxTurns] <= over

\* The end of a turn does not go unnoticed: when all is decided the user has been
\* told of each (shouldNotify).
NoSilentTurn ==
  AtRest => \A k \in 1..over : sent.ready[k] + sent.done[k] + sent.error[k] > 0

\* task_ready stands in for done: never both for a turn, and done once (shouldNotify and
\* the window of fire).
NoDoubleNotice == \A k \in Turns : sent.ready[k] + sent.done[k] <= 1

\* A turn whose end was recorded and that leaves changes gets its run up for review,
\* unless the agent goes on, the run ends otherwise, git fails or the daemon dies.
ReviewedTurn ==
  (timer # "none" /\ ~on /\ changed /\ state = "running") 
    ~> (state # "running" \/ on \/ failures > 0 \/ crashes > 0)
=============================================================================
