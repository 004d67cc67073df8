---------------------------- MODULE TaskLifecycle ----------------------------
(***************************************************************************)
(* What Agent Tasks promise of the life of a task and its runs: the two    *)
(* state machines that codingpt_daemon/docs/agent-tasks-design.md draws in *)
(* 1.4 and 1.5, as tasks.js has them.  No operation, lock, worktree or     *)
(* crash is visible here; TaskRuns implements this specification.          *)
(***************************************************************************)
EXTENDS FiniteSets

CONSTANTS Tasks, Runs, TaskOf, None

VARIABLES taskState, winner, runState

vars == <<taskState, winner, runState>>

RunsOf(t) == {r \in Runs : TaskOf[r] = t}

Init ==
  /\ taskState = [t \in Tasks |-> "open"]
  /\ winner = [t \in Tasks |-> None]
  /\ runState = [r \in Runs |-> "creating"]

\* The steps a single run takes.  Failed is not an end: reopen creates the run
\* anew or relaunches it, and an agent that turns out to work revives it.
Edges ==
  ({"creating"}     \X {"launching", "failed"}) \cup
  ({"launching"}    \X {"running", "failed"}) \cup
  ({"running"}      \X {"review_ready", "merging", "launching", "creating", "failed"}) \cup
  ({"review_ready"} \X {"running", "merging", "launching", "creating", "failed"}) \cup
  ({"merging"}      \X {"review_ready"}) \cup
  ({"failed"}       \X {"creating", "launching", "running"})

\* The runs of a group are launched together, so several may step at once.
RunsMove ==
  /\ \A r \in Runs : runState'[r] = runState[r] \/ <<runState[r], runState'[r]>> \in Edges
  /\ DOMAIN runState' = Runs
  /\ UNCHANGED <<taskState, winner>>

\* A run in work wins an open task, and the task is merged in the same step.
Merge(r) ==
  /\ taskState[TaskOf[r]] = "open"
  /\ runState[r] \notin {"merged", "discarded"}
  /\ runState' = [runState EXCEPT ![r] = "merged"]
  /\ taskState' = [taskState EXCEPT ![TaskOf[r]] = "merged"]
  /\ winner' = [winner EXCEPT ![TaskOf[r]] = r]

\* A run is discarded, and an open task closes with the last of its runs.
Discard(r) ==
  LET t == TaskOf[r]
      last == \A q \in RunsOf(t) \ {r} : runState[q] = "discarded"
  IN /\ runState[r] \in {"running", "review_ready", "failed"}
     /\ runState' = [runState EXCEPT ![r] = "discarded"]
     /\ taskState' = IF taskState[t] = "open" /\ last
                     THEN [taskState EXCEPT ![t] = "closed"] ELSE taskState
     /\ UNCHANGED winner

Next ==
  \/ RunsMove
  \/ \E r \in Runs : Merge(r) \/ Discard(r)

Spec == Init /\ [][Next]_vars
=============================================================================
