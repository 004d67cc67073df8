--------------------------- MODULE TaskTurnsProofs ---------------------------
(***************************************************************************)
(* Theorems about TaskTurns, for any number of turns and of failures.      *)
(*                                                                         *)
(* First, under every constant: task_ready is sent no more often than      *)
(* turns have ended.  The last instant at which it was sent bounds their   *)
(* number (SentInv): it is sent only when a later end of a turn has been   *)
(* recorded, and only ends are.                                            *)
(*                                                                         *)
(* Then, where the user waits for the notices of a turn and neither git    *)
(* nor the daemon fails (Calm): each turn is told of, and by one notice.   *)
(* All that is to be decided is about the turn that ended last (QuietInv,  *)
(* GateInv), and what was sent for it is what an evaluation finds recorded *)
(* (LastInv), so that the two paths cannot tell of it twice, nor leave it  *)
(* to one another.                                                         *)
(***************************************************************************)
EXTENDS TaskTurns, FiniteSetTheorems, WellFoundedInduction, TLAPS

LEMMA Numbers == MaxTurns \in Nat /\ MaxAsks \in Nat /\ MaxFails \in Nat /\ MaxCrashes \in Nat
BY TurnsAssumption

LEMMA LeastOf ==
  ASSUME NEW S, S \subseteq Nat, S # {}
  PROVE  \E m \in S : \A j \in S : m <= j
<1> DEFINE R == OpToRel(<, Nat)
<1>1. IsWellFoundedOn(R, Nat)
  BY NatLessThanWellFounded
<1>2. \A j, m \in Nat : j < m => <<j, m>> \in R
  BY DEF OpToRel
<1> HIDE DEF R
<1>3. PICK m \in S : \A j \in S : ~ (<<j, m>> \in R)
  BY <1>1, WFMin
<1>4. \A j \in S : ~ (j < m)
  BY <1>2, <1>3
<1> QED
  BY <1>4

-----------------------------------------------------------------------------
(* How often task_ready was sent *)

\* Told is the sum of what was sent; Total(s) is that of s.
Body(s, f, k) == IF k = 0 THEN 0 ELSE s[k] + f[k - 1]
Sums(s) == CHOOSE f : f = [k \in 0..MaxTurns |-> Body(s, f, k)]
Total(s) == Sums(s)[MaxTurns]

LEMMA SumsExist ==
  ASSUME NEW s
  PROVE  \E f : f = [k \in 0..MaxTurns |-> Body(s, f, k)]
<1> DEFINE Solved(n) == \E f : f = [k \in 0..n |-> Body(s, f, k)]
           Unsolved == {n \in 0..MaxTurns : ~Solved(n)}
<1>1. Solved(0)
  <2> DEFINE f == [k \in 0..0 |-> Body(s, 0, k)]
  <2>1. f = [k \in 0..0 |-> Body(s, f, k)]
    BY DEF Body
  <2> QED
    BY <2>1
<1>2. ASSUME NEW n \in 1..MaxTurns, Solved(n - 1)
      PROVE  Solved(n)
  <2>1. PICK f : f = [k \in 0..(n - 1) |-> Body(s, f, k)]
    BY <1>2
  <2> DEFINE g == [k \in 0..n |-> IF k < n THEN f[k] ELSE Body(s, f, k)]
  <2>2. ASSUME NEW k \in 0..n
        PROVE  g[k] = Body(s, g, k)
    <3>1. k # 0 => k - 1 \in 0..n /\ k - 1 < n
      BY Numbers
    <3>2. k # 0 => g[k - 1] = f[k - 1]
      BY <3>1
    <3>3. Body(s, g, k) = Body(s, f, k)
      BY <3>2 DEF Body
    <3>4. k < n => f[k] = Body(s, f, k)
      BY <2>1, Numbers
    <3> QED
      BY <3>3, <3>4
  <2>3. g = [k \in 0..n |-> Body(s, g, k)]
    BY <2>2
  <2> QED
    BY <2>3
<1> HIDE DEF Solved
<1>3. Unsolved = {}
  <2> SUFFICES ASSUME Unsolved # {} PROVE FALSE
    OBVIOUS
  <2>1. Unsolved \subseteq Nat
    BY Numbers
  <2>2. PICK n \in Unsolved : \A j \in Unsolved : n <= j
    BY <2>1, LeastOf
  <2>3. n \in 1..MaxTurns /\ n - 1 \in 0..MaxTurns
    BY <1>1, <2>2, Numbers
  <2>4. n - 1 \notin Unsolved
    BY <2>2, <2>3, Numbers
  <2>5. Solved(n - 1)
    BY <2>3, <2>4
  <2> QED
    BY <1>2, <2>2, <2>3, <2>5
<1>4. Solved(MaxTurns)
  BY <1>3, Numbers
<1> QED
  BY <1>4, Numbers DEF Solved

LEMMA SumsAre ==
  ASSUME NEW s
  PROVE  \A k \in 0..MaxTurns : Sums(s)[k] = Body(s, Sums(s), k)
<1>1. \E f : f = [k \in 0..MaxTurns |-> Body(s, f, k)]
  BY SumsExist
<1>2. Sums(s) = [k \in 0..MaxTurns |-> Body(s, Sums(s), k)]
  BY <1>1, Zenon DEF Sums
<1> QED
  BY <1>2, Zenon

LEMMA ToldTotal == Told[MaxTurns] = Total(sent.ready) /\ Told'[MaxTurns] = Total(sent'.ready)
<1>1. Told = Sums(sent.ready)
  BY Zenon DEF Told, Sums, Body
<1>2. Told' = Sums(sent'.ready)
  BY Zenon DEF Told, Sums, Body
<1> QED
  BY <1>1, <1>2, Zenon DEF Total

Counts(s) == \A k \in Turns : s[k] \in Nat

\* One more notice for turn j, or for none when j is Never.
LEMMA SumGains ==
  ASSUME NEW s, NEW u, Counts(s), NEW j \in Turns \cup {Never},
         \A k \in Turns : u[k] = s[k] + (IF k = j THEN 1 ELSE 0)
  PROVE  /\ Total(s) \in Nat
         /\ j # Never => Total(u) = Total(s) + 1
         /\ j = Never => Total(u) = Total(s)
<1> DEFINE Good(k) == /\ Sums(s)[k] \in Nat
                      /\ Sums(u)[k] = Sums(s)[k] + (IF j <= k THEN 1 ELSE 0)
           Bad == {k \in 0..MaxTurns : ~Good(k)}
<1>1. j \in Nat /\ j >= 1 /\ j <= MaxTurns + 1
  BY Numbers DEF Turns, Never
<1>2. Good(0)
  <2>1. Sums(s)[0] = 0 /\ Sums(u)[0] = 0
    BY SumsAre, Numbers DEF Body
  <2> QED
    BY <1>1, <2>1
<1>3. ASSUME NEW k \in 1..MaxTurns, Good(k - 1)
      PROVE  Good(k)
  <2>1. Sums(s)[k] = s[k] + Sums(s)[k - 1]
    BY SumsAre, Numbers DEF Body
  <2>2. Sums(u)[k] = u[k] + Sums(u)[k - 1]
    BY SumsAre, Numbers DEF Body
  <2>3. s[k] \in Nat /\ u[k] = s[k] + (IF k = j THEN 1 ELSE 0)
    BY DEF Counts, Turns
  <2> HIDE DEF Bad
  <2> QED
    BY <1>1, <1>3, <2>1, <2>2, <2>3
<1> HIDE DEF Good
<1>4. Bad = {}
  <2> SUFFICES ASSUME Bad # {} PROVE FALSE
    OBVIOUS
  <2>1. Bad \subseteq Nat
    BY Numbers
  <2>2. PICK n \in Bad : \A i \in Bad : n <= i
    BY <2>1, LeastOf
  <2>3. n \in 1..MaxTurns /\ n - 1 \in 0..MaxTurns
    BY <1>2, <2>2, Numbers
  <2>4. n - 1 \notin Bad
    BY <2>2, <2>3, Numbers
  <2>5. Good(n - 1)
    BY <2>3, <2>4
  <2> QED
    BY <1>3, <2>2, <2>3, <2>5
<1>5. Good(MaxTurns)
  BY <1>4, Numbers
<1>6. j <= MaxTurns <=> j # Never
  BY <1>1, Numbers DEF Never
<1>7. /\ Total(s) \in Nat
      /\ Total(u) = Total(s) + (IF j <= MaxTurns THEN 1 ELSE 0)
  BY <1>5, Zenon DEF Good, Total
<1> QED
  BY <1>6, <1>7

LEMMA SumStays ==
  ASSUME NEW s, NEW u, Counts(s), \A k \in Turns : u[k] = s[k]
  PROVE  Total(u) = Total(s) /\ Total(s) \in Nat
<1>1. Never \notin Turns /\ \A k \in Turns : s[k] \in Nat
  BY Numbers DEF Turns, Never, Counts
<1>2. \A k \in Turns : u[k] = s[k] + (IF k = Never THEN 1 ELSE 0)
  BY <1>1
<1>3. Never \in Turns \cup {Never}
  BY Zenon
<1> QED
  BY <1>2, <1>3, SumGains, Zenon

\* Before anything is sent the sum is 0.
LEMMA SumStarts ==
  ASSUME NEW s, \A k \in Turns : s[k] = 0
  PROVE  Total(s) = 0
<1> DEFINE Bad == {k \in 0..MaxTurns : Sums(s)[k] # 0}
<1>1. Bad = {}
  <2> SUFFICES ASSUME Bad # {} PROVE FALSE
    OBVIOUS
  <2>1. Bad \subseteq Nat
    BY Numbers
  <2>2. PICK n \in Bad : \A i \in Bad : n <= i
    BY <2>1, LeastOf
  <2>3. n # 0
    BY <2>2, SumsAre, Numbers DEF Body
  <2>4. n \in Turns /\ n - 1 \in 0..MaxTurns /\ n - 1 \notin Bad
    BY <2>2, <2>3, Numbers DEF Turns
  <2>5. Sums(s)[n] = s[n] + Sums(s)[n - 1]
    BY <2>3, <2>4, SumsAre, Numbers DEF Body
  <2> QED
    BY <2>2, <2>4, <2>5
<1> QED
  BY <1>1, Numbers DEF Total

-----------------------------------------------------------------------------
(* The inductive invariant *)

\* A notice of the end of a turn is to be decided.
Judging == \/ timer = "notify" \/ "notify" \in evals
           \/ \E g \in Gates : gates[g] \in {"eval", "late"}

\* The agent of a turn lives; an exit that is still to be heard has ended one, and only
\* such an exit leaves the state of an agent that works no more.
TurnInv ==
  /\ on => turn = over + 1 /\ alive
  /\ ~on => turn = over
  /\ exitSeen => ~alive /\ ~on
  /\ agentState = "working" => on \/ exitSeen

\* Before the first turn nothing has changed, and before it ends only an exit is judged;
\* when that exit is of the first turn it is not judged before it is heard.
FirstInv ==
  /\ turn = 0 => ~changed /\ ~sample
  /\ over = 0 /\ Judging => ~alive
  /\ turn = 1 /\ exitSeen /\ agentState = "working" => ~Judging

\* task_ready has been sent no more often than turns had been recorded when it was sent
\* last; once before any was, and then the first turn is over without a record.
SentInv ==
  /\ reviewNotifiedAt = Never => Told[MaxTurns] = 0
  /\ reviewNotifiedAt \in Turns => Told[MaxTurns] <= reviewNotifiedAt
  /\ reviewNotifiedAt = 0 => /\ Told[MaxTurns] <= 1 /\ over > 0 /\ lastTurnEndedAt # 1
                             /\ ~(turn = 1 /\ exitSeen /\ agentState = "working")

IInv == TypeOK /\ TurnInv /\ FirstInv /\ SentInv

\* The types, part by part.
Instants == /\ turn \in 0..MaxTurns /\ over \in 0..turn
            /\ lastTurnEndedAt \in 0..over /\ reviewNotifiedAt \in (0..over) \cup {Never}
Flags    == /\ on \in BOOLEAN /\ alive \in BOOLEAN /\ changed \in BOOLEAN /\ diff \in BOOLEAN
            /\ sample \in BOOLEAN /\ refire \in BOOLEAN /\ exitSeen \in BOOLEAN
States   == /\ agentState \in {"launching", "idle", "working", "permission", "ended"}
            /\ state \in {"running", "review_ready", "failed", "settled"}
            /\ timer \in {"none", "notify", "quiet"} /\ evals \subseteq {"notify", "quiet"}
Counter  == /\ refresh \in {"off", "counting", "counted"} /\ again \in BOOLEAN
            /\ again => refresh # "off"
SentTyped    == sent \in [ready : Notices, done : Notices, error : Notices]
GatesTyped    == gates \in [Gates -> Pending \cup {"none", "closed"}]
Bounded  == asks \in 0..MaxAsks /\ failures \in 0..MaxFails /\ crashes \in 0..MaxCrashes

LEMMA TypeParts ==
  /\ TypeOK <=> Instants /\ Flags /\ States /\ Counter /\ SentTyped /\ GatesTyped /\ Bounded
  /\ TypeOK' <=> Instants' /\ Flags' /\ States' /\ Counter' /\ SentTyped' /\ GatesTyped' /\ Bounded'
BY Zenon DEF TypeOK, Instants, Flags, States, Counter, SentTyped, GatesTyped, Bounded

LEMMA InitInv == Init => IInv
<1> SUFFICES ASSUME Init PROVE IInv
  OBVIOUS
<1>1. Instants /\ Bounded
  BY Numbers DEF Init, Instants, Bounded, Never
<1>2. Flags /\ States /\ Counter
  BY DEF Init, Flags, States, Counter
<1>3. SentTyped /\ GatesTyped
  BY DEF Init, SentTyped, GatesTyped, Notices, Unsent, Gates
<1>4. TypeOK
  BY <1>1, <1>2, <1>3, TypeParts
<1>5. TurnInv /\ FirstInv
  BY Numbers DEF Init, TurnInv, FirstInv, Judging, Gates
<1>6. SentInv
  <2>1. \A k \in Turns : sent.ready[k] = 0
    BY DEF Init, Unsent
  <2>2. Told[MaxTurns] = 0
    BY <2>1, SumStarts, ToldTotal
  <2>3. reviewNotifiedAt = Never /\ Never \notin Turns /\ Never # 0
    BY Numbers DEF Init, Never, Turns
  <2> QED
    BY <2>2, <2>3 DEF SentInv
<1> QED
  BY <1>4, <1>5, <1>6 DEF IInv

\* Counting a notice keeps the types.
LEMMA OneMore ==
  ASSUME NEW f \in Notices, NEW j, NEW g, g = [f EXCEPT ![j] = @ + 1]
  PROVE  g \in Notices /\ \A k \in Turns : g[k] = f[k] + (IF k = j THEN 1 ELSE 0)
<1>1. g = [k \in Turns |-> IF k = j THEN f[k] + 1 ELSE f[k]]
  BY DEF Notices
<1>2. \A k \in Turns : f[k] \in Nat /\ g[k] = IF k = j THEN f[k] + 1 ELSE f[k]
  BY <1>1 DEF Notices
<1>3. \A k \in Turns : g[k] \in Nat
  BY <1>2
<1>4. g \in [Turns -> Nat]
  BY <1>1, <1>3
<1>5. \A k \in Turns : g[k] = f[k] + (IF k = j THEN 1 ELSE 0)
  BY <1>2
<1> QED
  BY <1>4, <1>5, Zenon DEF Notices

\* One more notice of a kind.
LEMMA SentMore ==
  ASSUME SentTyped, NEW j
  PROVE  /\ [sent EXCEPT !.ready[j] = @ + 1] \in [ready : Notices, done : Notices, error : Notices]
         /\ [sent EXCEPT !.done[j] = @ + 1] \in [ready : Notices, done : Notices, error : Notices]
         /\ [sent EXCEPT !.error[j] = @ + 1] \in [ready : Notices, done : Notices, error : Notices]
         /\ [sent EXCEPT !.done[j] = @ + 1].ready = sent.ready
         /\ [sent EXCEPT !.error[j] = @ + 1].ready = sent.ready
<1> DEFINE More(f) == [f EXCEPT ![j] = @ + 1]
<1>1. /\ sent.ready \in Notices /\ sent.done \in Notices /\ sent.error \in Notices
      /\ sent = [ready |-> sent.ready, done |-> sent.done, error |-> sent.error]
  BY DEF SentTyped
<1>2. ASSUME NEW f \in Notices PROVE More(f) \in Notices
  BY OneMore
<1>3. /\ [sent EXCEPT !.ready[j] = @ + 1]
           = [ready |-> More(sent.ready), done |-> sent.done, error |-> sent.error]
      /\ [sent EXCEPT !.done[j] = @ + 1]
           = [ready |-> sent.ready, done |-> More(sent.done), error |-> sent.error]
      /\ [sent EXCEPT !.error[j] = @ + 1]
           = [ready |-> sent.ready, done |-> sent.done, error |-> More(sent.error)]
  BY <1>1
<1> HIDE DEF More
<1> QED
  BY <1>1, <1>2, <1>3

LEMMA ReleaseTypes ==
  ASSUME SentTyped, refire \in BOOLEAN, NEW allowed, Release(allowed)
  PROVE  SentTyped' /\ refire' \in BOOLEAN /\ sent'.ready = sent.ready
<1> DEFINE j == Min({g[1] : g \in allowed})
<1>1. sent' = sent \/ sent' = [sent EXCEPT !.done[j] = @ + 1]
  BY Zenon DEF Release
<1>2. refire' \in BOOLEAN
  BY Zenon DEF Release
<1> HIDE DEF j
<1>3. CASE sent' = sent
  BY <1>2, <1>3 DEF SentTyped
<1>4. CASE sent' = [sent EXCEPT !.done[j] = @ + 1]
  BY <1>2, <1>4, SentMore, Zenon DEF SentTyped
<1> QED
  BY <1>1, <1>3, <1>4

-----------------------------------------------------------------------------
(* Type correctness *)

\* Who writes what.
LEMMA Writers ==
  ASSUME Next
  PROVE  /\ \/ UNCHANGED <<turn, over, lastTurnEndedAt, reviewNotifiedAt>>
            \/ Prompt \/ Stop \/ StopFailure \/ AgentExits \/ WatchExit \/ Evaluate
         /\ UNCHANGED sent \/ StopFailure \/ Evaluate \/ CountFails
            \/ \E g \in Gates : Pushed(g) \/ Cap(g)
         /\ UNCHANGED counter \/ RefreshRun \/ Count \/ CountAgain \/ Evaluate \/ CountFails
            \/ Crash
         /\ UNCHANGED gates \/ Stop \/ WatchExit \/ Evaluate \/ CountFails \/ Crash
            \/ \E g \in Gates : Pushed(g) \/ Cap(g)
<1>1. \/ UNCHANGED <<turn, over, lastTurnEndedAt, reviewNotifiedAt>>
      \/ Prompt \/ Stop \/ StopFailure \/ AgentExits \/ WatchExit \/ Evaluate
  BY ZenonT(60) DEF Next, Agent, Daemon, Prompt, PauseInBackground, AskPermission, Edit, Stop,
     StopFailure, AgentExits, SessionStart, TimerFires, Count, CountAgain, Evaluate, WatchExit,
     RefireExpires, Pushed, DiffAsked, Cap, CountFails, RunFails, RunSettles, Crash, agent, run
<1>2. UNCHANGED sent \/ StopFailure \/ Evaluate \/ CountFails
      \/ \E g \in Gates : Pushed(g) \/ Cap(g)
  BY ZenonT(60) DEF Next, Agent, Daemon, Prompt, PauseInBackground, AskPermission, Edit, Stop,
     StopFailure, AgentExits, SessionStart, TimerFires, Count, CountAgain, Evaluate, WatchExit,
     RefireExpires, Pushed, DiffAsked, Cap, CountFails, RunFails, RunSettles, Crash
<1>3. UNCHANGED counter \/ RefreshRun \/ Count \/ CountAgain \/ Evaluate \/ CountFails \/ Crash
  BY ZenonT(60) DEF Next, Agent, Daemon, Prompt, PauseInBackground, AskPermission, Edit, Stop,
     StopFailure, AgentExits, SessionStart, TimerFires, Count, CountAgain, Evaluate, WatchExit,
     RefireExpires, Pushed, DiffAsked, Cap, CountFails, RunFails, RunSettles, Crash
<1>4. UNCHANGED gates \/ Stop \/ WatchExit \/ Evaluate \/ CountFails \/ Crash
      \/ \E g \in Gates : Pushed(g) \/ Cap(g)
  BY ZenonT(60) DEF Next, Agent, Daemon, Prompt, PauseInBackground, AskPermission, Edit, Stop,
     StopFailure, AgentExits, SessionStart, TimerFires, Count, CountAgain, Evaluate, WatchExit,
     RefireExpires, Pushed, DiffAsked, Cap, CountFails, RunFails, RunSettles, Crash
<1> QED
  BY <1>1, <1>2, <1>3, <1>4, Zenon

\* What hearing of the end of a turn records.
LEMMA HeardEnd ==
  ASSUME NEW r, NEW kind, HearTurnEnd(r, kind)
  PROVE  /\ lastTurnEndedAt' # lastTurnEndedAt => r /\ lastTurnEndedAt' = turn
         /\ timer' \in {timer, kind}
BY Zenon DEF HearTurnEnd

LEMMA HeardExit ==
  ASSUME HearEnded
  PROVE  /\ lastTurnEndedAt' # lastTurnEndedAt => agentState = "working" /\ lastTurnEndedAt' = turn
         /\ timer' \in {timer, "notify"}
         /\ agentState' = "ended"
<1>1. CASE agentState = "ended"
  BY <1>1, Zenon DEF HearEnded
<1>2. CASE agentState # "ended"
  <2>1. agentState' = "ended" /\ HearTurnEnd(agentState = "working", "notify")
    BY <1>2, Zenon DEF HearEnded
  <2> QED
    BY <2>1, Zenon DEF HearTurnEnd
<1> QED
  BY <1>1, <1>2

LEMMA InstantsNext ==
  ASSUME Instants, TurnInv, Next
  PROVE  Instants'
<1>1. CASE UNCHANGED <<turn, over, lastTurnEndedAt, reviewNotifiedAt>>
  BY <1>1 DEF Instants
<1>2. CASE Prompt
  BY <1>2, Numbers DEF Prompt, Instants, TurnInv
<1>3. CASE Stop
  <2>1. lastTurnEndedAt' \in {lastTurnEndedAt, turn}
    BY <1>3, HeardEnd, Zenon DEF Stop
  <2> QED
    BY <1>3, <2>1, Numbers DEF Stop, TurnOver, Instants, TurnInv
<1>4. CASE StopFailure
  <2>1. lastTurnEndedAt' \in {lastTurnEndedAt, turn}
    BY <1>4, HeardEnd, Zenon DEF StopFailure
  <2> QED
    BY <1>4, <2>1, Numbers DEF StopFailure, TurnOver, Instants, TurnInv
<1>5. CASE AgentExits
  <2>1. lastTurnEndedAt' \in {lastTurnEndedAt, turn}
    BY <1>5, HeardExit, Zenon DEF AgentExits
  <2>2. over' = turn
    BY <1>5 DEF AgentExits, TurnInv
  <2> QED
    BY <1>5, <2>1, <2>2, Numbers DEF AgentExits, Instants
<1>6. CASE WatchExit
  <2>1. lastTurnEndedAt' \in {lastTurnEndedAt, turn}
    BY <1>6, HeardExit, Zenon DEF WatchExit
  <2>2. over = turn
    BY <1>6 DEF WatchExit, TurnInv
  <2> QED
    BY <1>6, <2>1, <2>2, Numbers DEF WatchExit, Instants, agent
<1>7. CASE Evaluate
  <2>1. reviewNotifiedAt' \in {reviewNotifiedAt, lastTurnEndedAt}
    BY <1>7, Zenon DEF Evaluate
  <2> QED
    BY <1>7, <2>1 DEF Evaluate, Instants, agent
<1> QED
  BY <1>1, <1>2, <1>3, <1>4, <1>5, <1>6, <1>7, Writers, Zenon

\* An evaluation sends task_ready or releases notices; no gate is left to be judged.
Late == {g \in Gates : gates[g] = "late"}
Notifies == "notify" \in evals \/ Waiting # {} \/ Late # {}
After == IF evals # {} \/ Waiting # {} \/ Late # {} THEN Reviewed(sample) ELSE state
Fires == sample /\ Notifies /\ After = "review_ready" /\ ~Notified(lastTurnEndedAt)

LEMMA Evaluated ==
  ASSUME Evaluate
  PROVE  /\ refresh = "counted" /\ ~again /\ refresh' = "off" /\ diff' = sample /\ evals' = {}
         /\ UNCHANGED <<agent, agentState, lastTurnEndedAt, timer, sample, again, exitSeen, asks,
                        failures, crashes>>
         /\ state' = After
         /\ Fires => /\ reviewNotifiedAt' = lastTurnEndedAt /\ UNCHANGED refire
                     /\ sent' = [sent EXCEPT !.ready[over] = @ + 1]
         /\ ~Fires => /\ UNCHANGED reviewNotifiedAt
                      /\ Release(IF Covered(After) THEN {} ELSE Waiting)
BY Zenon DEF Evaluate, Late, Notifies, After, Fires

LEMMA EvaluatedGates ==
  ASSUME Evaluate
  PROVE  \E push \in SUBSET Waiting :
           /\ gates' = [g \in Gates |-> IF g \in push THEN "push"
                                      ELSE IF g \in Late \cup Waiting THEN "closed" ELSE gates[g]]
           /\ push # {} => Fires
           /\ Fires /\ push = {} => Waiting = {} \/ "notify" \in evals \/ Late # {}
           /\ \A g, h \in push : g = h
<1> DEFINE Gate(g, busy) == CASE g \in busy -> "push"
                              [] g \in Late \cup (Waiting \ busy) -> "closed"
                              [] OTHER -> gates[g]
<1>1. PICK push \in {{g} : g \in Waiting} \cup {{}} :
           /\ gates' = [g \in Gates |-> Gate(g, push)]
           /\ push # {} => Fires
           /\ Fires /\ push = {} => Waiting = {} \/ "notify" \in evals \/ Late # {}
  BY Zenon DEF Evaluate, Late, Notifies, After, Fires
<1>2. push \in SUBSET Waiting /\ \A g, h \in push : g = h
  BY Zenon
<1>3. \A g \in push : g \notin Late
  BY <1>2 DEF Waiting, Late
<1>4. \A g \in Gates : Gate(g, push) = IF g \in push THEN "push"
                                ELSE IF g \in Late \cup Waiting THEN "closed" ELSE gates[g]
  BY <1>2, <1>3
<1> HIDE DEF Gate
<1>5. gates' = [g \in Gates |-> IF g \in push THEN "push"
                            ELSE IF g \in Late \cup Waiting THEN "closed" ELSE gates[g]]
  BY <1>1, <1>4
<1> QED
  BY <1>1, <1>2, <1>5, Zenon

LEMMA BoundedNext ==
  ASSUME Bounded, Next
  PROVE  Bounded'
<1>1. /\ asks' # asks => asks < MaxAsks /\ asks' = asks + 1
      /\ failures' # failures => failures < MaxFails /\ failures' = failures + 1
      /\ crashes' # crashes => crashes < MaxCrashes /\ crashes' = crashes + 1
  BY ZenonT(60) DEF Next, Agent, Daemon, Prompt, PauseInBackground, AskPermission, Edit, Stop,
     StopFailure, AgentExits, SessionStart, TimerFires, Count, CountAgain, Evaluate, WatchExit,
     RefireExpires, Pushed, DiffAsked, Cap, CountFails, RunFails, RunSettles, Crash
<1> QED
  BY <1>1, Numbers DEF Bounded

LEMMA CounterNext ==
  ASSUME Counter, Next
  PROVE  Counter'
<1>1. CASE UNCHANGED counter
  BY <1>1 DEF Counter, counter
<1>2. CASE RefreshRun
  BY <1>2 DEF Counter, RefreshRun
<1>3. CASE Count \/ CountAgain
  BY <1>3 DEF Counter, Count, CountAgain
<1>4. CASE Evaluate
  BY <1>4, Evaluated DEF Counter
<1>5. CASE CountFails \/ Crash
  BY <1>5 DEF Counter, CountFails, Crash
<1> QED
  BY <1>1, <1>2, <1>3, <1>4, <1>5, Writers, Zenon

LEMMA SentNext ==
  ASSUME SentTyped, Flags, Next
  PROVE  SentTyped'
<1>1. CASE UNCHANGED sent
  BY <1>1 DEF SentTyped
<1>2. CASE StopFailure
  BY <1>2, SentMore, Zenon DEF StopFailure, SentTyped
<1>3. CASE Evaluate /\ Fires
  BY <1>3, Evaluated, SentMore, Zenon DEF SentTyped
<1>4. CASE Evaluate /\ ~Fires
  BY <1>4, Evaluated, ReleaseTypes, Zenon DEF Flags
<1>5. CASE CountFails
  BY <1>5, ReleaseTypes, Zenon DEF CountFails, Flags
<1>6. CASE \E g \in Gates : Pushed(g) \/ Cap(g)
  BY <1>6, ReleaseTypes, Zenon DEF Pushed, Cap, Flags
<1> QED
  BY <1>1, <1>2, <1>3, <1>4, <1>5, <1>6, Writers, Zenon

LEMMA GatesNext ==
  ASSUME GatesTyped, Next
  PROVE  GatesTyped'
<1>1. CASE UNCHANGED gates
  BY <1>1 DEF GatesTyped
<1>2. CASE Stop \/ WatchExit
  <2>1. \E h : gates' = [gates EXCEPT ![h] = "eval"]
    BY <1>2, Zenon DEF Stop, WatchExit
  <2> QED
    BY <2>1 DEF GatesTyped, Pending
<1>3. CASE Evaluate
  BY <1>3, EvaluatedGates DEF GatesTyped, Pending
<1>4. CASE CountFails \/ Crash
  BY <1>4 DEF CountFails, Crash, GatesTyped, Pending
<1>5. CASE \E g \in Gates : Pushed(g) \/ Cap(g)
  <2>1. PICK h \in Gates : Pushed(h) \/ Cap(h)
    BY <1>5
  <2>2. gates' = [gates EXCEPT ![h] = "closed"] \/ gates' = [gates EXCEPT ![h] = "late"]
    BY <2>1, Zenon DEF Pushed, Cap
  <2> QED
    BY <2>2 DEF GatesTyped, Pending
<1> QED
  BY <1>1, <1>2, <1>3, <1>4, <1>5, Writers, Zenon

LEMMA FlagsNext ==
  ASSUME Flags, SentTyped, Next
  PROVE  Flags'
<1>1. CASE Evaluate
  <2>1. refire' \in BOOLEAN
    BY <1>1, Evaluated, ReleaseTypes, Zenon DEF Flags
  <2> QED
    BY <1>1, <2>1, Evaluated, Zenon DEF Flags, agent
<1>2. CASE CountFails \/ \E g \in Gates : Pushed(g) \/ Cap(g)
  <2>1. refire' \in BOOLEAN
    BY <1>2, ReleaseTypes, Zenon DEF CountFails, Pushed, Cap, Flags
  <2>2. UNCHANGED <<on, alive, changed, diff, sample, exitSeen>>
    BY <1>2, Zenon DEF CountFails, Pushed, Cap, agent, run, counter
  <2> QED
    BY <2>1, <2>2, Zenon DEF Flags
<1>3. CASE Prompt \/ PauseInBackground \/ AskPermission \/ Edit \/ Stop \/ StopFailure
  BY <1>3, Zenon DEF Prompt, PauseInBackground, AskPermission, Edit, Stop, StopFailure, TurnOver,
     RefreshRun, Flags, agent, run, counter
<1>4. CASE AgentExits \/ SessionStart \/ TimerFires \/ Count \/ CountAgain \/ WatchExit
  BY <1>4, Zenon DEF AgentExits, SessionStart, TimerFires, Count, CountAgain, WatchExit, RefreshRun,
     Flags, agent, run, counter
<1>5. CASE RefireExpires \/ DiffAsked \/ RunFails \/ RunSettles \/ Crash
  BY <1>5, Zenon DEF RefireExpires, DiffAsked, RunFails, RunSettles, Crash, RefreshRun, Flags,
     agent, run, counter
<1> QED
  BY <1>1, <1>2, <1>3, <1>4, <1>5, Zenon DEF Next, Agent, Daemon

LEMMA StatesNext ==
  ASSUME States, Next
  PROVE  States'
<1>1. CASE UNCHANGED <<agentState, state, timer, evals>>
  BY <1>1 DEF States
<1>2. CASE Prompt \/ PauseInBackground \/ AskPermission
  BY <1>2 DEF Prompt, PauseInBackground, AskPermission, HearWorking, States, run
<1>3. CASE Stop \/ StopFailure
  <2>1. agentState' = "idle" /\ timer' \in {timer, "notify", "quiet"} /\ UNCHANGED <<state, evals>>
    BY <1>3, HeardEnd, Zenon DEF Stop, StopFailure
  <2> QED
    BY <2>1 DEF States
<1>4. CASE AgentExits \/ WatchExit
  <2>1. /\ agentState' \in {agentState, "ended"} /\ timer' \in {timer, "notify"}
        /\ UNCHANGED <<state, evals>>
    BY <1>4, HeardExit, Zenon DEF AgentExits, WatchExit
  <2> QED
    BY <2>1 DEF States
<1>5. CASE SessionStart \/ TimerFires \/ CountFails \/ RunFails \/ RunSettles \/ Crash
  BY <1>5 DEF SessionStart, TimerFires, CountFails, RunFails, RunSettles, Crash, States, run
<1>6. CASE Evaluate
  <2>1. state' \in {state, "review_ready"}
    BY <1>6, Evaluated, Zenon DEF After, Reviewed
  <2> QED
    BY <1>6, <2>1, Evaluated DEF States
<1> QED
  <2>1. \/ UNCHANGED <<agentState, state, timer, evals>>
        \/ Prompt \/ PauseInBackground \/ AskPermission \/ Stop \/ StopFailure
        \/ AgentExits \/ WatchExit \/ SessionStart \/ TimerFires \/ CountFails
        \/ RunFails \/ RunSettles \/ Crash \/ Evaluate
    BY ZenonT(60) DEF Next, Agent, Daemon, Prompt, PauseInBackground, AskPermission, Edit, Stop,
       StopFailure, AgentExits, SessionStart, TimerFires, Count, CountAgain, Evaluate, WatchExit,
       RefireExpires, Pushed, DiffAsked, Cap, CountFails, RunFails, RunSettles, Crash, run
  <2> QED
    BY <1>1, <1>2, <1>3, <1>4, <1>5, <1>6, <2>1, Zenon

LEMMA TypeNext ==
  ASSUME TypeOK, TurnInv, Next
  PROVE  TypeOK'
<1>1. Instants' /\ Flags' /\ States'
  BY TypeParts, InstantsNext, FlagsNext, StatesNext
<1>2. Counter' /\ SentTyped' /\ GatesTyped' /\ Bounded'
  BY TypeParts, CounterNext, SentNext, GatesNext, BoundedNext
<1> QED
  BY <1>1, <1>2, TypeParts

-----------------------------------------------------------------------------
(* task_ready once per turn *)

LEMMA TurnNext ==
  ASSUME TypeOK, TurnInv, Next
  PROVE  TurnInv'
<1> USE TypeParts DEF Instants
<1>1. CASE UNCHANGED <<turn, over, on, alive, exitSeen, agentState>>
  BY <1>1, Zenon DEF TurnInv
<1>2. CASE Prompt
  BY <1>2 DEF Prompt, HearWorking, TurnInv
<1>3. CASE PauseInBackground
  BY <1>3 DEF PauseInBackground, HearWorking, TurnInv, agent
<1>4. CASE AskPermission
  BY <1>4 DEF AskPermission, TurnInv, agent
<1>5. CASE Stop \/ StopFailure
  <2>1. /\ on /\ ~on' /\ over' = turn /\ agentState' = "idle"
        /\ UNCHANGED <<turn, alive, exitSeen>>
    BY <1>5, Zenon DEF Stop, StopFailure, TurnOver
  <2> QED
    BY <2>1 DEF TurnInv
<1>6. CASE AgentExits
  <2>1. agentState' # "ended" => agentState' = agentState /\ exitSeen'
    BY <1>6, HeardExit, Zenon DEF AgentExits
  <2> QED
    BY <1>6, <2>1 DEF AgentExits, TurnInv
<1>7. CASE WatchExit
  <2>1. agentState' = "ended"
    BY <1>7, HeardExit, Zenon DEF WatchExit
  <2> QED
    BY <1>7, <2>1 DEF WatchExit, TurnInv, agent
<1>8. CASE SessionStart
  BY <1>8 DEF SessionStart, AtRest, TurnInv
<1>9. CASE Crash
  BY <1>9 DEF Crash, TurnInv, agent
<1> QED
  <2>1. \/ UNCHANGED <<turn, over, on, alive, exitSeen, agentState>>
        \/ Prompt \/ PauseInBackground \/ AskPermission \/ Stop \/ StopFailure
        \/ AgentExits \/ WatchExit \/ SessionStart \/ Crash
    BY ZenonT(60), Evaluated DEF Next, Agent, Daemon, Prompt, PauseInBackground, AskPermission,
       Edit, Stop, StopFailure, AgentExits, SessionStart, TimerFires, Count, CountAgain, Evaluate,
       WatchExit, RefireExpires, Pushed, DiffAsked, Cap, CountFails, RunFails, RunSettles, Crash,
       agent
  <2> QED
    BY <1>1, <1>2, <1>3, <1>4, <1>5, <1>6, <1>7, <1>8, <1>9, <2>1, Zenon

\* What comes to be judged is the end of a turn, or an exit.
LEMMA JudgingNext ==
  ASSUME TypeOK, Next, Judging', ~Judging
  PROVE  \/ Stop \/ WatchExit
         \/ AgentExits /\ timer' # timer
<1>0. GatesTyped
  BY TypeParts
<1>1. CASE UNCHANGED <<timer, evals, gates>>
  BY <1>1, Zenon DEF Judging
<1>2. CASE StopFailure
  <2>1. timer' \in {timer, "quiet"}
    BY <1>2, HeardEnd, Zenon DEF StopFailure
  <2> QED
    BY <1>2, <2>1 DEF StopFailure, Judging
<1>3. CASE TimerFires
  BY <1>3 DEF TimerFires, Judging
<1>4. CASE Evaluate
  BY <1>0, <1>4, Evaluated, EvaluatedGates DEF Judging, GatesTyped, Waiting, Late
<1>5. CASE CountFails \/ Crash
  BY <1>0, <1>5 DEF CountFails, Crash, Judging, GatesTyped, Pending
<1>6. CASE \E h \in Gates : Pushed(h) \/ Cap(h)
  <2>1. PICK h \in Gates : Pushed(h) \/ Cap(h)
    BY <1>6
  <2>2. UNCHANGED <<timer, evals>> /\ \E v \in {"late", "closed"} :
          gates' = [gates EXCEPT ![h] = v] /\ (v = "late" => gates[h] = "eval")
    BY <2>1, Zenon DEF Pushed, Cap
  <2> QED
    BY <1>0, <2>2 DEF Judging, GatesTyped
<1>7. CASE AgentExits
  BY <1>7, Zenon DEF AgentExits, Judging
<1> QED
  <2>1. \/ UNCHANGED <<timer, evals, gates>>
        \/ Stop \/ WatchExit \/ AgentExits \/ StopFailure \/ TimerFires \/ Evaluate
        \/ CountFails \/ Crash \/ \E h \in Gates : Pushed(h) \/ Cap(h)
    BY ZenonT(60) DEF Next, Agent, Daemon, Prompt, PauseInBackground, AskPermission, Edit, Stop,
       StopFailure, AgentExits, SessionStart, TimerFires, Count, CountAgain, Evaluate, WatchExit,
       RefireExpires, Pushed, DiffAsked, Cap, CountFails, RunFails, RunSettles, Crash
  <2> QED
    BY <1>1, <1>2, <1>3, <1>4, <1>5, <1>6, <1>7, <2>1, Zenon

LEMMA FirstNext ==
  ASSUME TypeOK, TurnInv, FirstInv, Next
  PROVE  FirstInv'
<1>0. Instants /\ Instants' /\ TurnInv'
  BY TypeParts, TypeNext, TurnNext
<1>1. turn' = 0 => ~changed' /\ ~sample'
  <2>1. SUFFICES ASSUME turn' = 0 PROVE ~changed' /\ ~sample'
    OBVIOUS
  <2>2. turn = 0 /\ ~on
    <3>1. turn' = turn \/ Prompt
      BY ZenonT(60), Evaluated DEF Next, Agent, Daemon, Prompt, PauseInBackground, AskPermission,
         Edit, Stop, StopFailure,
      AgentExits, SessionStart, TimerFires, Count, CountAgain, Evaluate, WatchExit,
      RefireExpires, Pushed, DiffAsked, Cap, CountFails, RunFails, RunSettles, Crash, agent
    <3>2. ~Prompt
      BY <1>0, <2>1 DEF Prompt, Instants
    <3> QED
      BY <1>0, <2>1, <3>1, <3>2 DEF TurnInv, Instants
  <2>3. changed' = changed \/ Edit
    BY ZenonT(60), Evaluated DEF Next, Agent, Daemon, Prompt, PauseInBackground, AskPermission,
       Edit, Stop, StopFailure, AgentExits, SessionStart, TimerFires, Count, CountAgain, Evaluate,
       WatchExit, RefireExpires, Pushed, DiffAsked, Cap, CountFails, RunFails, RunSettles, Crash,
       agent
  <2>4. sample' # sample => sample' = changed
    BY ZenonT(60), Evaluated DEF Next, Agent, Daemon, Prompt, PauseInBackground, AskPermission,
       Edit, Stop, StopFailure, AgentExits, SessionStart, TimerFires, Count, CountAgain, Evaluate,
       WatchExit, RefireExpires, Pushed, DiffAsked, Cap, CountFails, RunFails, RunSettles, Crash,
       RefreshRun, counter
  <2> QED
    BY <2>2, <2>3, <2>4 DEF FirstInv, Edit
<1>2. over' = 0 /\ Judging' => ~alive'
  <2>1. SUFFICES ASSUME over' = 0, Judging' PROVE ~alive'
    OBVIOUS
  <2>2. over = 0
    <3>1. over' # over => over' = turn /\ on
      BY ZenonT(60), Evaluated DEF Next, Agent, Daemon, Prompt, PauseInBackground, AskPermission,
         Edit, Stop, StopFailure,
      AgentExits, SessionStart, TimerFires, Count, CountAgain, Evaluate, WatchExit,
      RefireExpires, Pushed, DiffAsked, Cap, CountFails, RunFails, RunSettles, Crash, TurnOver,
         agent
    <3> QED
      BY <1>0, <2>1, <3>1 DEF TurnInv, Instants, AgentExits
  <2>3. CASE Judging
    <3>1. ~alive
      BY <2>2, <2>3 DEF FirstInv
    <3>2. alive' = alive \/ AgentExits \/ SessionStart
      BY ZenonT(60), Evaluated DEF Next, Agent, Daemon, Prompt, PauseInBackground, AskPermission,
         Edit, Stop, StopFailure,
      AgentExits, SessionStart, TimerFires, Count, CountAgain, Evaluate, WatchExit,
      RefireExpires, Pushed, DiffAsked, Cap, CountFails, RunFails, RunSettles, Crash, agent, TurnOver
    <3>3. ~SessionStart
      BY <2>3, Zenon DEF SessionStart, AtRest, Judging, Pending
    <3> QED
      BY <3>1, <3>2, <3>3 DEF AgentExits
  <2>4. CASE ~Judging
    <3>1. Stop \/ WatchExit \/ AgentExits
      BY <2>1, <2>4, JudgingNext
    <3>2. ~Stop
      <4>1. on => turn = over + 1 /\ over \in Nat
        BY <1>0 DEF TurnInv, Instants
      <4>2. Stop => on /\ over' = turn
        BY Zenon DEF Stop, TurnOver
      <4> QED
        BY <2>1, <4>1, <4>2
    <3> QED
      BY <3>1, <3>2 DEF WatchExit, AgentExits, TurnInv, agent
  <2> QED
    BY <2>3, <2>4
<1>3. turn' = 1 /\ exitSeen' /\ agentState' = "working" => ~Judging'
  <2>1. SUFFICES ASSUME turn' = 1, exitSeen', agentState' = "working" PROVE ~Judging'
    OBVIOUS
  <2>2. CASE AgentExits
    <3>1. ~HearEnded
      BY <2>1, HeardExit
    <3>2. on /\ timer' = timer /\ turn' = turn /\ alive
      BY <2>2, <3>1 DEF AgentExits
    <3>3. ~Judging
      <4>1. over = 0
        BY <1>0, <2>1, <3>2 DEF TurnInv, Instants
      <4> QED
        BY <3>2, <4>1, Zenon DEF FirstInv
    <3>4. alive /\ alive' = FALSE
      BY <2>2, Zenon DEF AgentExits
    <3>5. ~Stop /\ ~WatchExit
      BY <3>4 DEF Stop, WatchExit, agent
    <3> QED
      BY <3>2, <3>3, <3>5, JudgingNext, Zenon
  <2>3. CASE ~AgentExits
    <3>1. exitSeen /\ ~WatchExit /\ ~on
      <4>1. exitSeen' => exitSeen \/ AgentExits
        BY ZenonT(60), Evaluated DEF Next, Agent, Daemon, Prompt, PauseInBackground, AskPermission,
           Edit, Stop, StopFailure,
      AgentExits, SessionStart, TimerFires, Count, CountAgain, Evaluate, WatchExit,
      RefireExpires, Pushed, DiffAsked, Cap, CountFails, RunFails, RunSettles, Crash
      <4> QED
        BY <2>1, <2>3, <4>1 DEF WatchExit, TurnInv
    <3>2. turn = 1 /\ agentState = "working"
      <4>1. ~Prompt /\ ~PauseInBackground
        BY <3>1 DEF Prompt, PauseInBackground, TurnInv
      <4>2. turn' = turn /\ (agentState' = "working" => agentState = "working")
        BY <2>3, <3>1, <4>1, ZenonT(60), Evaluated DEF Next, Agent, Daemon, Prompt,
           PauseInBackground, AskPermission, Edit, Stop, StopFailure,
      AgentExits, SessionStart, TimerFires, Count, CountAgain, Evaluate, WatchExit,
      RefireExpires, Pushed, DiffAsked, Cap, CountFails, RunFails, RunSettles, Crash, agent
      <4> QED
        BY <2>1, <4>2
    <3>3. ~Stop
      BY <3>1 DEF Stop, TurnOver
    <3> QED
      BY <2>3, <3>1, <3>2, <3>3, JudgingNext, Zenon DEF FirstInv
  <2> QED
    BY <2>2, <2>3
<1> QED
  BY <1>1, <1>2, <1>3, Zenon DEF FirstInv

\* Only an evaluation sends task_ready.
LEMMA ReadySent ==
  ASSUME TypeOK, Next, ~(Evaluate /\ Fires)
  PROVE  sent'.ready = sent.ready /\ reviewNotifiedAt' = reviewNotifiedAt
<1>0. SentTyped /\ refire \in BOOLEAN
  BY TypeParts DEF Flags
<1>1. reviewNotifiedAt' = reviewNotifiedAt
  BY ZenonT(60), Evaluated DEF Next, Agent, Daemon, Prompt, PauseInBackground, AskPermission, Edit,
     Stop, StopFailure, AgentExits, SessionStart, TimerFires, Count, CountAgain, Evaluate,
     WatchExit, RefireExpires, Pushed, DiffAsked, Cap, CountFails, RunFails, RunSettles, Crash, run
<1>2. CASE UNCHANGED sent
  BY <1>1, <1>2
<1>3. CASE StopFailure
  BY <1>0, <1>1, <1>3, SentMore, Zenon DEF StopFailure
<1>4. CASE Evaluate
  BY <1>0, <1>1, <1>4, Evaluated, ReleaseTypes, Zenon
<1>5. CASE CountFails \/ \E g \in Gates : Pushed(g) \/ Cap(g)
  BY <1>0, <1>1, <1>5, ReleaseTypes, Zenon DEF CountFails, Pushed, Cap
<1> QED
  BY <1>2, <1>3, <1>4, <1>5, Writers, Zenon

\* An evaluation that sends task_ready follows the end of a turn; when the end of the
\* first one is not recorded, it will not be.
LEMMA FiresLate ==
  ASSUME TypeOK, TurnInv, FirstInv, Evaluate, Fires
  PROVE  /\ over \in Turns
         /\ ~(turn = 1 /\ exitSeen /\ agentState = "working")
         /\ reviewNotifiedAt = Never \/ reviewNotifiedAt < lastTurnEndedAt
<1>0. Instants
  BY TypeParts
<1>1. Judging
  BY DEF Fires, Notifies, Judging, Waiting, Late
<1>2. sample
  BY DEF Fires
<1>3. over # 0
  BY <1>0, <1>1, <1>2 DEF FirstInv, TurnInv, Instants
<1>4. over \in Turns
  BY <1>0, <1>3, Numbers DEF Instants, Turns
<1>5. reviewNotifiedAt = Never \/ reviewNotifiedAt < lastTurnEndedAt
  BY <1>0, Numbers DEF Fires, Notified, Instants
<1> QED
  BY <1>1, <1>4, <1>5, Zenon DEF FirstInv

\* The end of a turn is recorded at the end of the turn, or when its exit is heard.
LEMMA Recorded ==
  ASSUME TypeOK, TurnInv, Next, lastTurnEndedAt' # lastTurnEndedAt
  PROVE  lastTurnEndedAt' = turn /\ (on \/ (exitSeen /\ agentState = "working"))
<1>1. CASE Stop \/ StopFailure
  BY <1>1, HeardEnd, Zenon DEF Stop, StopFailure, TurnOver
<1>2. CASE AgentExits \/ WatchExit
  BY <1>2, HeardExit, Zenon DEF AgentExits, WatchExit, TurnInv
<1> QED
  <2>1. Stop \/ StopFailure \/ AgentExits \/ WatchExit
    BY ZenonT(60), Evaluated DEF Next, Agent, Daemon, Prompt, PauseInBackground, AskPermission,
       Edit, Stop, StopFailure, AgentExits, SessionStart, TimerFires, Count, CountAgain, Evaluate,
       WatchExit, RefireExpires, Pushed, DiffAsked, Cap, CountFails, RunFails, RunSettles, Crash,
       run
  <2> QED
    BY <1>1, <1>2, <2>1

LEMMA SentNextInv ==
  ASSUME TypeOK, TurnInv, FirstInv, SentInv, Next
  PROVE  SentInv'
<1> DEFINE T == Total(sent.ready)
           U == Total(sent'.ready)
<1>0. /\ Instants /\ Instants' /\ SentTyped /\ TurnInv'
      /\ Told[MaxTurns] = T /\ Told'[MaxTurns] = U
  BY TypeParts, TypeNext, TurnNext, ToldTotal
<1>1. Counts(sent.ready)
  BY <1>0 DEF SentTyped, Notices, Counts
<1>2. T \in Nat
  BY <1>1, SumStays, Zenon
<1>3. CASE Evaluate /\ Fires
  <2>1. /\ over \in Turns /\ ~(turn = 1 /\ exitSeen /\ agentState = "working")
        /\ reviewNotifiedAt = Never \/ reviewNotifiedAt < lastTurnEndedAt
    BY <1>3, FiresLate
  <2>2. /\ reviewNotifiedAt' = lastTurnEndedAt
        /\ UNCHANGED <<over, turn, exitSeen, agentState, lastTurnEndedAt>>
        /\ sent' = [sent EXCEPT !.ready[over] = @ + 1]
    BY <1>3, Evaluated, Zenon DEF agent
  <2>3. \A k \in Turns : sent'.ready[k] = sent.ready[k] + (IF k = over THEN 1 ELSE 0)
    <3> DEFINE f == sent.ready
               g == sent'.ready
    <3>1. f \in Notices /\ g = [f EXCEPT ![over] = @ + 1]
      BY <1>0, <2>2 DEF SentTyped
    <3> HIDE DEF f, g
    <3>2. \A k \in Turns : g[k] = f[k] + (IF k = over THEN 1 ELSE 0)
      BY <3>1 DEF Notices
    <3> QED
      BY <3>2 DEF f, g
  <2>4. over # Never
    BY <2>1, Numbers DEF Turns, Never
  <2>5. U = T + 1
    BY <1>1, <2>1, <2>3, <2>4, SumGains, Zenon
  <2> HIDE DEF T, U
  <2>6. \/ reviewNotifiedAt = Never /\ T = 0
        \/ reviewNotifiedAt = 0 /\ T <= 1 /\ lastTurnEndedAt # 1
        \/ reviewNotifiedAt \in Turns /\ T <= reviewNotifiedAt
    BY <1>0, Numbers DEF SentInv, Instants, Turns, Never
  <2>7. \/ U <= lastTurnEndedAt
        \/ lastTurnEndedAt = 0 /\ U = 1
    BY <1>0, <1>2, <2>1, <2>5, <2>6, Numbers DEF Instants, Turns, Never
  <2> QED
    <3>1. U \in Nat /\ lastTurnEndedAt \in 0..MaxTurns /\ over > 0 /\ Never # lastTurnEndedAt
      BY <1>0, <1>2, <2>1, <2>5, Numbers DEF Instants, Turns, Never
    <3>2. reviewNotifiedAt' \in Turns => U <= reviewNotifiedAt'
      BY <2>2, <2>7, <3>1, Numbers DEF Turns
    <3>3. reviewNotifiedAt' = 0 => U <= 1 /\ lastTurnEndedAt' # 1
      BY <2>2, <2>7, <3>1
    <3>4. reviewNotifiedAt' # Never /\ over' > 0
          /\ ~(turn' = 1 /\ exitSeen' /\ agentState' = "working")
      BY <2>1, <2>2, <3>1
    <3> QED
      BY <1>0, <3>2, <3>3, <3>4, Zenon DEF SentInv
<1>4. CASE ~(Evaluate /\ Fires)
  <2>1. reviewNotifiedAt' = reviewNotifiedAt /\ U = T
    BY <1>1, <1>4, ReadySent, SumStays
  <2> HIDE DEF T, U
  <2>2. SUFFICES ASSUME reviewNotifiedAt = 0
                 PROVE  over' > 0 /\ lastTurnEndedAt' # 1
                        /\ ~(turn' = 1 /\ exitSeen' /\ agentState' = "working")
    BY <1>0, <2>1 DEF SentInv
  <2>3. over > 0 /\ lastTurnEndedAt # 1 /\ ~(turn = 1 /\ exitSeen /\ agentState = "working")
    BY <2>2 DEF SentInv
  <2>4. ~(turn = 1 /\ on)
    BY <1>0, <2>3 DEF TurnInv, Instants
  <2>5. over' > 0
    <3>1. over' # over => over' = turn /\ on
      BY ZenonT(60), Evaluated DEF Next, Agent, Daemon, Prompt, PauseInBackground, AskPermission,
         Edit, Stop, StopFailure,
      AgentExits, SessionStart, TimerFires, Count, CountAgain, Evaluate, WatchExit,
      RefireExpires, Pushed, DiffAsked, Cap, CountFails, RunFails, RunSettles, Crash, TurnOver,
         agent
    <3> QED
      BY <1>0, <2>3, <3>1 DEF TurnInv, Instants
  <2>6. lastTurnEndedAt' # 1
    BY <2>3, <2>4, Recorded
  <2>7. ~(turn' = 1 /\ exitSeen' /\ agentState' = "working")
    <3>1. SUFFICES ASSUME turn' = 1, exitSeen', agentState' = "working" PROVE FALSE
      OBVIOUS
    <3>2. turn = 1
      <4>1. turn' # turn => turn' = turn + 1 /\ ~on
        BY ZenonT(60), Evaluated DEF Next, Agent, Daemon, Prompt, PauseInBackground, AskPermission,
           Edit, Stop, StopFailure,
      AgentExits, SessionStart, TimerFires, Count, CountAgain, Evaluate, WatchExit,
      RefireExpires, Pushed, DiffAsked, Cap, CountFails, RunFails, RunSettles, Crash, agent
      <4> QED
        BY <1>0, <2>3, <3>1, <4>1 DEF TurnInv, Instants
    <3>3. exitSeen
      <4>1. exitSeen' => exitSeen \/ on
        BY ZenonT(60), Evaluated DEF Next, Agent, Daemon, Prompt, PauseInBackground, AskPermission,
           Edit, Stop, StopFailure,
      AgentExits, SessionStart, TimerFires, Count, CountAgain, Evaluate, WatchExit,
      RefireExpires, Pushed, DiffAsked, Cap, CountFails, RunFails, RunSettles, Crash
      <4> QED
        BY <2>4, <3>1, <3>2, <4>1
    <3>4. agentState = "working"
      <4>1. agentState' = "working" => agentState = "working" \/ on \/ on'
        BY ZenonT(60), Evaluated, HeardExit DEF Next, Agent, Daemon, Prompt, PauseInBackground,
           AskPermission, Edit, Stop, StopFailure, AgentExits, SessionStart, TimerFires, Count,
           CountAgain, Evaluate, WatchExit, RefireExpires, Pushed, DiffAsked, Cap, CountFails,
           RunFails, RunSettles, Crash, agent
      <4> QED
        BY <1>0, <2>4, <3>1, <3>2, <4>1 DEF TurnInv
    <3> QED
      BY <2>3, <3>2, <3>3, <3>4
  <2> QED
    BY <2>5, <2>6, <2>7
<1> QED
  BY <1>3, <1>4

LEMMA StutterInv ==
  ASSUME IInv, UNCHANGED vars
  PROVE  IInv'
<1>1. Told' = Told
  BY Zenon DEF Told, vars
<1>2. UNCHANGED Judging
  BY Zenon DEF vars, Judging
<1>3. UNCHANGED <<turn, on, alive, over, changed, sent, agentState, state, lastTurnEndedAt,
                  reviewNotifiedAt, diff, timer, evals, refresh, sample, again, gates, refire,
                  exitSeen, asks, failures, crashes>>
  BY Zenon DEF vars, agent, run, counter
<1>4. TypeOK' /\ TurnInv'
  BY <1>3, SMTT(30) DEF IInv, TypeOK, TurnInv
<1>5. FirstInv' /\ SentInv'
  BY <1>3, <1>1, <1>2, Zenon DEF IInv, FirstInv, SentInv
<1> QED
  BY <1>4, <1>5 DEF IInv

THEOREM Invariant == Spec => []IInv
<1>1. IInv /\ [Next]_vars => IInv'
  BY StutterInv, TypeNext, TurnNext, FirstNext, SentNextInv, Zenon DEF IInv
<1> QED
  BY InitInv, <1>1, PTL DEF Spec

\* The run record, the timer, the evaluations at work and the gates stay in the shape
\* tasks.js and agent-state.js give them; a turn is recorded only when it has ended.
THEOREM TypeCorrect == Spec => []TypeOK
<1>1. IInv => TypeOK
  BY DEF IInv
<1> QED
  BY <1>1, Invariant, PTL

\* task_ready is sent once for a turn: no more often than turns have ended, whatever the
\* debounce, the veto of shouldNotify and a dying agent or daemon do at the same time.
THEOREM ReadyIsSentOnce == Spec => []ReadyOncePerTurn
<1>1. IInv => ReadyOncePerTurn
  <2>1. SUFFICES ASSUME IInv PROVE ReadyOncePerTurn
    OBVIOUS
  <2>2. Instants /\ SentInv
    BY <2>1, TypeParts DEF IInv
  <2> QED
    <3>1. Told[MaxTurns] \in Nat
      <4>1. Counts(sent.ready)
        BY <2>1, TypeParts DEF IInv, SentTyped, Notices, Counts
      <4> QED
        BY <4>1, SumStays, ToldTotal, Zenon
    <3> QED
      BY <2>2, <3>1, Numbers DEF Instants, SentInv, ReadyOncePerTurn, Turns, Never
<1> QED
  BY <1>1, Invariant, PTL

-----------------------------------------------------------------------------
(* One notice for every turn, where all is calm *)

\* The user acts when the notices of a turn are decided, no permission is asked for, git
\* is quick and does not fail, and the daemon lives.
Calm == ~Quick /\ ~Approvals /\ ~Slow /\ MaxFails = 0 /\ MaxCrashes = 0

\* A notice of the turn that ended last is to be decided, or its exit is to be heard.
Deciding == exitSeen \/ \E g \in Gates : gates[g] \in Pending
Unheard  == exitSeen /\ agentState = "working"
LastGates == {g \in Gates : g[1] = over /\ gates[g] # "none"}

\* A turn begins when all is decided, so nothing is judged before it ends; an exit that is
\* not heard has judged nothing.
QuietInv ==
  /\ on => agentState = "working" /\ ~Deciding /\ ~refire /\ state # "review_ready"
  /\ on \/ Unheard => timer = "none" /\ evals = {}
  /\ Deciding => ~refire

\* A turn has one gate, after the exit was heard.
GateInv ==
  /\ \A g \in Gates : gates[g] # "none" => g[1] <= over /\ gates[g] # "late"
  /\ \A g \in Gates : gates[g] \in Pending => g[1] = over
  /\ \A g, h \in LastGates : g = h
  /\ exitSeen => LastGates = {}

\* What an evaluation goes by is what the turn has left.
FreshInv == evals # {} \/ Waiting # {} =>
  refresh # "off" /\ (refresh = "counted" /\ ~again => sample = changed)

\* What was sent for the turn that ended last, and what follows from it.
LastInv ==
  /\ ~on /\ over > 0 => lastTurnEndedAt = over \/ state = "settled" \/ Unheard
  /\ over > 0 => (sent.ready[over] > 0 <=> reviewNotifiedAt = over)
  /\ over > 0 /\ sent.ready[over] > 0 /\ Deciding => state = "review_ready" /\ ~Unheard
  /\ over > 0 /\ ~on /\ sent.done[over] > 0 =>
       ~Deciding /\ (changed => state \in {"failed", "settled"})
  /\ \A g \in Gates : gates[g] = "push" => sent.ready[over] > 0

\* No turn is told of twice, nor before it ends; each but the last has been told of.
OnceInv ==
  \A k \in Turns : /\ sent.ready[k] + sent.done[k] <= 1
                   /\ k > over => sent.ready[k] = 0 /\ sent.done[k] = 0
SpokenInv ==
  \A k \in 1..over : \/ sent.ready[k] + sent.done[k] + sent.error[k] > 0
                     \/ k = over /\ (exitSeen \/ Waiting # {})

CalmInv == QuietInv /\ GateInv /\ FreshInv /\ LastInv /\ OnceInv /\ SpokenInv

\* What does not happen.
LEMMA CalmSteps ==
  ASSUME Calm, TypeOK, TurnInv, QuietInv, Next
  PROVE  \/ Prompt \/ Edit \/ Stop \/ StopFailure \/ AgentExits \/ SessionStart
         \/ TimerFires \/ Count \/ CountAgain \/ Evaluate \/ WatchExit \/ RefireExpires
         \/ DiffAsked \/ RunFails \/ RunSettles \/ \E g \in Gates : Pushed(g)
<1>1. ~AskPermission /\ \A g \in Gates : ~Cap(g)
  BY Zenon DEF Calm, AskPermission, Cap
<1>2. ~CountFails /\ ~Crash
  <2>1. failures = 0 /\ crashes = 0 /\ MaxFails = 0 /\ MaxCrashes = 0
    BY TypeParts DEF Bounded, Calm
  <2> QED
    BY <2>1 DEF CountFails, Crash
<1>3. ~PauseInBackground
  BY DEF PauseInBackground, QuietInv
<1> QED
  BY <1>1, <1>2, <1>3, Zenon DEF Next, Agent, Daemon

LEMMA QuietNext ==
  ASSUME Calm, TypeOK, TurnInv, FirstInv, QuietInv, GateInv, LastInv, Next
  PROVE  QuietInv'
<1>0. Instants /\ Flags /\ GatesTyped
  BY TypeParts
<1>1. CASE UNCHANGED <<on, agentState, exitSeen, gates, refire, state, timer, evals>>
  <2>1. UNCHANGED <<Deciding, Unheard>>
    BY <1>1, Zenon DEF Deciding, Unheard
  <2> QED
    BY <1>1, <2>1, Zenon DEF QuietInv
<1>2. CASE Prompt
  <2>1. AtRest /\ ~on /\ ~exitSeen /\ agentState # "working"
    BY <1>2, Zenon DEF Prompt, Calm, AtRest, TurnInv
  <2>2. ~Deciding'
    BY <1>2, <2>1, Zenon DEF Prompt, AtRest, Deciding
  <2>3. agentState' = "working" /\ state' # "review_ready"
    BY <1>2, <2>1 DEF Prompt, HearWorking, Settled
  <2>4. timer' = "none" /\ evals' = {} /\ ~refire'
    BY <1>2, <2>1, Zenon DEF Prompt, AtRest
  <2> QED
    BY <2>2, <2>3, <2>4, Zenon DEF QuietInv
<1>3. CASE Stop \/ StopFailure
  <2>1. on /\ ~on' /\ UNCHANGED <<exitSeen, refire>> /\ ~exitSeen /\ ~refire
    BY <1>3, Zenon DEF Stop, StopFailure, TurnOver, TurnInv, QuietInv
  <2> QED
    BY <2>1, Zenon DEF QuietInv, Unheard
<1>4. CASE AgentExits
  <2>1. ~on' /\ ~refire'
    <3>1. ~refire
      BY <1>4, Zenon DEF AgentExits, QuietInv, Calm, AtRest
    <3> QED
      BY <1>4, <3>1, Zenon DEF AgentExits
  <2>2. Unheard' => timer' = "none" /\ evals' = {}
    <3>1. Unheard' => on /\ UNCHANGED <<timer, evals>>
      BY <1>4, HeardExit, Zenon DEF AgentExits, Unheard
    <3> QED
      BY <3>1, Zenon DEF QuietInv
  <2> QED
    BY <2>1, <2>2, Zenon DEF QuietInv
<1>5. CASE WatchExit
  <2>1. ~on' /\ ~refire' /\ ~exitSeen'
    BY <1>5, Zenon DEF WatchExit, TurnInv, QuietInv, Deciding, agent
  <2> QED
    BY <2>1, Zenon DEF QuietInv, Unheard
<1>6. CASE SessionStart
  <2>1. ~on' /\ ~exitSeen' /\ ~refire'
    BY <1>6, Zenon DEF SessionStart, AtRest, TurnInv
  <2> QED
    BY <2>1, Zenon DEF QuietInv, Unheard
<1>7. CASE TimerFires
  <2>1. ~on /\ ~Unheard /\ UNCHANGED <<on, exitSeen, agentState, gates, refire>>
    BY <1>7, Zenon DEF TimerFires, QuietInv, agent
  <2> QED
    BY <2>1, Zenon DEF QuietInv, Unheard, Deciding
<1>8. CASE Evaluate
  <2>1. UNCHANGED <<on, exitSeen, agentState, timer>> /\ evals' = {}
    BY <1>8, Evaluated, Zenon DEF agent
  <2>2. PICK push \in SUBSET Waiting :
           /\ gates' = [g \in Gates |-> IF g \in push THEN "push"
                                      ELSE IF g \in Late \cup Waiting THEN "closed" ELSE gates[g]]
           /\ push # {} => Fires
    BY <1>8, EvaluatedGates, Zenon
  <2>3. Deciding' => Deciding
    BY <2>1, <2>2 DEF Deciding, Waiting, Pending
  <2>4. on => state' # "review_ready"
    <3>1. SUFFICES ASSUME on PROVE state' = state
      BY Zenon DEF QuietInv
    <3>2. evals = {} /\ Waiting = {} /\ Late = {}
      BY <3>1 DEF QuietInv, Deciding, Waiting, Late, Pending
    <3> QED
      BY <1>8, <3>2, Evaluated, Zenon DEF After
  <2>5. on \/ Deciding' => ~refire'
    <3>1. SUFFICES ASSUME on \/ Deciding' PROVE ~refire'
      OBVIOUS
    <3>2. ~refire
      BY <2>3, <3>1, Zenon DEF QuietInv
    <3>3. Waiting # {} => ~exitSeen /\ (~Fires => ~Deciding')
      <4>1. SUFFICES ASSUME NEW g \in Waiting PROVE ~exitSeen /\ (~Fires => ~Deciding')
        BY Zenon
      <4>2. g \in LastGates /\ ~exitSeen
        BY DEF Waiting, GateInv, LastGates, Pending
      <4>3. \A h \in Gates : gates[h] \in Pending => h = g
        BY <4>2 DEF GateInv, LastGates, Pending
      <4>4. ~Fires => gates'[g] = "closed"
        BY <2>2 DEF Waiting
      <4>5. \A h \in Gates : gates'[h] \in Pending => gates[h] \in Pending
        BY <2>2 DEF Waiting, Pending
      <4>6. ~Fires => \A h \in Gates : gates'[h] \notin Pending
        BY <4>3, <4>4, <4>5 DEF Pending
      <4> QED
        BY <2>1, <4>2, <4>6, Zenon DEF Deciding
    <3>4. CASE Fires
      BY <1>8, <3>2, <3>4, Evaluated, Zenon
    <3>5. CASE ~Fires /\ Waiting = {}
      BY <1>8, <3>2, <3>5, Evaluated, Zenon DEF Release
    <3>6. CASE ~Fires /\ Waiting # {}
      BY <2>1, <3>1, <3>3, <3>6, Zenon DEF QuietInv, Deciding, Waiting, Pending
    <3> QED
      BY <3>4, <3>5, <3>6
  <2> QED
    BY <2>1, <2>3, <2>4, <2>5, Zenon DEF QuietInv, Unheard
<1>9. CASE \E g \in Gates : Pushed(g)
  <2>1. PICK g \in Gates : Pushed(g)
    BY <1>9
  <2>2. /\ UNCHANGED <<on, exitSeen, agentState, timer, evals, state>>
        /\ gates[g] = "push" /\ gates' = [gates EXCEPT ![g] = "closed"]
    BY <2>1, Zenon DEF Pushed, agent, run
  <2>3. Deciding /\ ~on /\ ~exitSeen
    BY <1>0, <2>2 DEF Deciding, QuietInv, GateInv, LastGates, Pending
  <2>4. ~Deciding'
    BY <1>0, <2>2, <2>3 DEF Deciding, GateInv, LastGates, Pending, GatesTyped
  <2> QED
    BY <2>2, <2>3, <2>4, Zenon DEF QuietInv, Unheard
<1>10. CASE RefireExpires
  <2>1. ~refire' /\ UNCHANGED <<on, agentState, exitSeen, gates, state, timer, evals>>
    BY <1>10, Zenon DEF RefireExpires, agent, run
  <2> QED
    BY <2>1, Zenon DEF QuietInv, Unheard, Deciding
<1>11. CASE RunFails \/ RunSettles
  <2>1. /\ state' \in {"failed", "settled"}
        /\ UNCHANGED <<on, agentState, exitSeen, gates, refire, timer, evals>>
    BY <1>11, Zenon DEF RunFails, RunSettles, agent
  <2>2. state' # "review_ready"
    BY <2>1
  <2> QED
    BY <2>1, <2>2, Zenon DEF QuietInv, Unheard, Deciding
<1> QED
  <2>1. Edit \/ Count \/ CountAgain \/ DiffAsked =>
          UNCHANGED <<on, agentState, exitSeen, gates, refire, state, timer, evals>>
    BY Zenon DEF Edit, Count, CountAgain, DiffAsked, agent, run
  <2> QED
    BY <1>1, <1>2, <1>3, <1>4, <1>5, <1>6, <1>7, <1>8, <1>9, <1>10, <1>11, <2>1, CalmSteps, Zenon

LEMMA GateNext ==
  ASSUME Calm, TypeOK, TurnInv, QuietInv, GateInv, Next
  PROVE  GateInv'
<1>0. Instants /\ GatesTyped
  BY TypeParts
<1>1. \A g \in Gates : g[1] \in Nat
  BY Numbers DEF Gates, Turns
<1>2. CASE UNCHANGED <<over, exitSeen, gates>>
  BY <1>2, Zenon DEF GateInv, LastGates
<1>3. CASE Stop
  <2>1. /\ on /\ over' = turn /\ UNCHANGED exitSeen
        /\ gates' = [gates EXCEPT ![<<turn, "stop">>] = "eval"]
    BY <1>3, Zenon DEF Stop, TurnOver
  <2>2. turn = over + 1 /\ ~exitSeen /\ <<turn, "stop">> \in Gates
    BY <1>0, <2>1, Numbers DEF TurnInv, Instants, Gates, Turns
  <2>3. \A g \in Gates : gates[g] \notin Pending
    BY <2>1, Zenon DEF QuietInv, Deciding
  <2>4. \A g \in Gates : gates'[g] = IF g = <<turn, "stop">> THEN "eval" ELSE gates[g]
    BY <1>0, <2>1 DEF GatesTyped
  <2>5. \A g \in Gates : gates'[g] # "none" => g[1] <= over' /\ gates'[g] # "late"
    BY <1>0, <1>1, <2>1, <2>2, <2>4 DEF GateInv, Instants
  <2>6. \A g \in Gates : gates'[g] \in Pending => g[1] = over'
    BY <2>1, <2>3, <2>4
  <2>7. \A g \in LastGates' : g = <<turn, "stop">>
    BY <1>0, <1>1, <2>1, <2>2, <2>4 DEF GateInv, LastGates, Instants
  <2> QED
    BY <2>1, <2>2, <2>5, <2>6, <2>7, Zenon DEF GateInv
<1>4. CASE (StopFailure \/ AgentExits) /\ on
  <2>1. over' = turn /\ UNCHANGED gates
    BY <1>4 DEF StopFailure, AgentExits, TurnOver
  <2>2. turn = over + 1 /\ ~exitSeen /\ over \in Nat
    BY <1>0, <1>4 DEF TurnInv, Instants
  <2>3. \A g \in Gates : gates[g] \notin Pending
    BY <1>4, Zenon DEF QuietInv, Deciding
  <2>4. \A g \in Gates : gates[g] # "none" => g[1] <= over' /\ g[1] # over' /\ gates[g] # "late"
    BY <1>1, <2>1, <2>2 DEF GateInv
  <2> QED
    BY <2>1, <2>3, <2>4, Zenon DEF GateInv, LastGates
<1>5. CASE AgentExits /\ ~on
  <2>1. ~exitSeen' /\ UNCHANGED <<over, gates>>
    BY <1>5, Zenon DEF AgentExits
  <2> QED
    BY <2>1, Zenon DEF GateInv, LastGates
<1>6. CASE WatchExit
  <2>1. /\ exitSeen /\ ~exitSeen' /\ UNCHANGED over
        /\ gates' = [gates EXCEPT ![<<turn, "exit">>] = "eval"]
    BY <1>6, Zenon DEF WatchExit, agent
  <2>2. turn = over /\ LastGates = {}
    BY <2>1 DEF TurnInv, GateInv
  <2>3. \A g \in Gates : gates'[g] = IF g = <<turn, "exit">> THEN "eval" ELSE gates[g]
    BY <1>0, <2>1 DEF GatesTyped
  <2>4. \A g \in Gates : gates'[g] # "none" => g[1] <= over' /\ gates'[g] # "late"
    BY <1>0, <1>1, <2>1, <2>2, <2>3 DEF GateInv, Instants
  <2>5. \A g \in Gates : gates'[g] \in Pending => g[1] = over'
    BY <2>1, <2>2, <2>3 DEF GateInv
  <2>6. \A g \in LastGates' : g = <<turn, "exit">>
    BY <2>1, <2>2, <2>3 DEF LastGates
  <2> QED
    BY <2>1, <2>4, <2>5, <2>6, Zenon DEF GateInv
<1>7. CASE Evaluate \/ \E h \in Gates : Pushed(h)
  <2>1. UNCHANGED <<over, exitSeen>>
    BY <1>7, Evaluated, Zenon DEF Pushed, agent
  <2>2. \A g \in Gates : /\ gates'[g] # "none" => gates[g] # "none"
                         /\ gates'[g] \in Pending => gates[g] \in Pending
                         /\ gates'[g] = "late" => gates[g] = "late"
    <3>1. CASE Evaluate
      <4>1. PICK push \in SUBSET Waiting :
              gates' = [g \in Gates |-> IF g \in push THEN "push"
                                      ELSE IF g \in Late \cup Waiting THEN "closed" ELSE gates[g]]
        BY <3>1, EvaluatedGates, Zenon
      <4> QED
        BY <4>1 DEF Waiting, Late, Pending
    <3>2. ASSUME NEW h \in Gates, Pushed(h)
          PROVE  \A g \in Gates : /\ gates'[g] # "none" => gates[g] # "none"
                                  /\ gates'[g] \in Pending => gates[g] \in Pending
                                  /\ gates'[g] = "late" => gates[g] = "late"
      <4>1. gates[h] = "push" /\ gates' = [gates EXCEPT ![h] = "closed"]
        BY <3>2, Zenon DEF Pushed
      <4> QED
        BY <1>0, <4>1 DEF GatesTyped, Pending
    <3> QED
      BY <1>7, <3>1, <3>2
  <2>3. \A g \in LastGates' : g \in LastGates
    BY <2>1, <2>2 DEF LastGates
  <2> QED
    BY <2>1, <2>2, <2>3, Zenon DEF GateInv
<1> QED
  <2>1. Prompt \/ Edit \/ SessionStart \/ TimerFires \/ Count \/ CountAgain \/ RefireExpires
        \/ DiffAsked \/ RunFails \/ RunSettles => UNCHANGED <<over, exitSeen, gates>>
    BY Zenon DEF Prompt, Edit, SessionStart, TimerFires, Count, CountAgain, RefireExpires,
       DiffAsked, RunFails, RunSettles, agent
  <2>2. StopFailure => on
    BY Zenon DEF StopFailure, TurnOver
  <2> QED
    BY <1>2, <1>3, <1>4, <1>5, <1>6, <1>7, <2>1, <2>2, CalmSteps, Zenon

LEMMA FreshNext ==
  ASSUME Calm, TypeOK, TurnInv, QuietInv, FreshInv, Next
  PROVE  FreshInv'
<1>1. CASE UNCHANGED <<evals, gates, refresh, again, sample, changed>>
  <2>1. UNCHANGED Waiting
    BY <1>1, Zenon DEF Waiting
  <2> QED
    BY <1>1, <2>1, Zenon DEF FreshInv
<1>2. CASE Edit
  <2>1. evals' = {} /\ Waiting' = {}
    BY <1>2, Zenon DEF Edit, QuietInv, Deciding, Waiting, Pending
  <2> QED
    BY <2>1, Zenon DEF FreshInv
<1>3. CASE Stop \/ WatchExit \/ TimerFires \/ DiffAsked
  <2>1. RefreshRun
    BY <1>3, Zenon DEF Stop, WatchExit, TimerFires, DiffAsked
  <2>2. refresh' # "off" /\ (refresh' = "counted" => again')
    BY <2>1, TypeParts DEF RefreshRun, Counter
  <2> QED
    BY <2>2, Zenon DEF FreshInv
<1>4. CASE Count
  BY <1>4 DEF Count, FreshInv, agent
<1>5. CASE CountAgain
  BY <1>5 DEF CountAgain, FreshInv
<1>6. CASE Evaluate
  <2>1. evals' = {}
    BY <1>6, Evaluated
  <2>2. Waiting' = {}
    BY <1>6, EvaluatedGates DEF Waiting
  <2> QED
    BY <2>1, <2>2, Zenon DEF FreshInv
<1>7. CASE \E h \in Gates : Pushed(h)
  <2>1. PICK h \in Gates : Pushed(h)
    BY <1>7
  <2>2. /\ UNCHANGED <<evals, refresh, again, sample, changed>>
        /\ gates' = [gates EXCEPT ![h] = "closed"]
    BY <2>1, Zenon DEF Pushed, counter, agent
  <2>3. Waiting' # {} => Waiting # {}
    BY <2>2, TypeParts DEF Waiting, GatesTyped
  <2> QED
    BY <2>2, <2>3, Zenon DEF FreshInv
<1> QED
  <2>1. Prompt \/ StopFailure \/ AgentExits \/ SessionStart \/ RefireExpires \/ RunFails
        \/ RunSettles => UNCHANGED <<evals, gates, refresh, again, sample, changed>>
    BY Zenon DEF Prompt, StopFailure, AgentExits, SessionStart, RefireExpires, RunFails, RunSettles,
       TurnOver, agent, counter
  <2> QED
    BY <1>1, <1>2, <1>3, <1>4, <1>5, <1>6, <1>7, <2>1, CalmSteps, Zenon

\* A task_ready for a turn has covered it.
LEMMA ReadyCovers ==
  ASSUME TypeOK, LastInv, over > 0, sent.ready[over] > 0
  PROVE  Notified(lastTurnEndedAt) /\ (Deciding => Covered(state))
<1>1. reviewNotifiedAt = over /\ (Deciding => state = "review_ready")
  BY DEF LastInv
<1>2. Notified(lastTurnEndedAt)
  BY <1>1, TypeParts, Numbers DEF Instants, Never, Notified
<1> QED
  BY <1>1, <1>2, Zenon DEF Covered

\* An evaluation tells of the turn that ended last, once, or finds that it was told of.
LEMMA EvaluatedCalm ==
  ASSUME Calm, TypeOK, TurnInv, FirstInv, QuietInv, GateInv, FreshInv, LastInv, Evaluate
  PROVE  \/ /\ Fires /\ over \in Turns /\ lastTurnEndedAt = over /\ reviewNotifiedAt' = over
            /\ state' = "review_ready" /\ ~Unheard /\ ~on
            /\ sent.ready[over] = 0 /\ sent.done[over] = 0
            /\ sent' = [sent EXCEPT !.ready[over] = @ + 1]
         \/ /\ ~Fires /\ UNCHANGED <<sent, reviewNotifiedAt>>
            /\ Waiting # {} => over \in Turns /\ sent.ready[over] > 0
         \/ /\ ~Fires /\ over \in Turns /\ UNCHANGED reviewNotifiedAt
            /\ ~on /\ ~Deciding' /\ sent.ready[over] = 0 /\ sent.done[over] = 0
            /\ changed => state' \in {"failed", "settled"}
            /\ sent' = [sent EXCEPT !.done[over] = @ + 1]
<1>0. /\ Instants /\ States /\ SentTyped /\ GatesTyped
      /\ \A k \in Turns : sent.ready[k] \in Nat /\ sent.done[k] \in Nat
  BY TypeParts DEF SentTyped, Notices
<1>1. /\ refresh = "counted" /\ ~again /\ state' = After
      /\ UNCHANGED <<over, on, changed, agentState, lastTurnEndedAt, exitSeen, sample>>
  BY Evaluated, Zenon DEF agent
<1>2. CASE Fires
  <2>1. over \in Turns /\ (reviewNotifiedAt = Never \/ reviewNotifiedAt < lastTurnEndedAt)
    BY <1>2, FiresLate
  <2>2. After = "review_ready" /\ sample /\ state # "settled" /\ state # "failed"
    BY <1>2 DEF Fires, After, Reviewed
  <2>3. (evals # {} \/ Waiting # {}) /\ Late = {}
    BY <1>2 DEF Fires, Notifies, Late, GateInv
  <2>4. ~on /\ ~Unheard
    BY <2>3 DEF QuietInv, Unheard, GateInv, LastGates, Waiting, Deciding, Pending
  <2>5. lastTurnEndedAt = over
    BY <2>1, <2>2, <2>4 DEF LastInv, Turns
  <2>6. reviewNotifiedAt # over
    BY <1>0, <2>1, <2>5, Numbers DEF Turns, Never, Instants
  <2>7. sent.ready[over] = 0
    BY <1>0, <2>1, <2>6 DEF LastInv, Turns
  <2>8. changed
    BY <1>1, <2>2, <2>3 DEF FreshInv
  <2>9. sent.done[over] = 0
    BY <1>0, <2>1, <2>2, <2>4, <2>8 DEF LastInv, Turns
  <2> QED
    BY <1>1, <1>2, <2>1, <2>2, <2>4, <2>5, <2>7, <2>9, Evaluated, Zenon
<1>3. CASE ~Fires /\ Waiting = {}
  <2>1. Release({})
    BY <1>3, Evaluated, Zenon
  <2> QED
    BY <1>3, <2>1, Evaluated, Zenon DEF Release
<1>4. CASE ~Fires /\ Waiting # {}
  <2>1. PICK g \in Waiting : TRUE
    BY <1>4
  <2>2. g \in Gates /\ gates[g] = "eval" /\ Deciding
    BY <2>1 DEF Waiting, Deciding, Pending
  <2>3. over \in Turns /\ g[1] = over
    BY <2>2 DEF GateInv, Gates, Pending
  <2>4. Waiting = {g} /\ ~exitSeen /\ \A h \in Gates : gates[h] \in Pending => h = g
    BY <2>2, <2>3 DEF GateInv, LastGates, Waiting, Pending
  <2>5. ~on /\ ~refire /\ ~Unheard
    BY <2>2, <2>4, Zenon DEF QuietInv, Unheard
  <2>6. CASE Covered(After)
    <3>1. Notified(lastTurnEndedAt) /\ After = "review_ready"
      BY <2>6, Zenon DEF Covered
    <3>2. lastTurnEndedAt = over
      BY <2>3, <2>5, <3>1 DEF LastInv, After, Reviewed, Turns
    <3>3. reviewNotifiedAt = over
      BY <1>0, <3>1, <3>2, Numbers DEF Notified, Instants, Never
    <3>4. sent.ready[over] > 0
      BY <2>3, <3>3 DEF LastInv, Turns
    <3>5. Release({})
      BY <1>4, <2>6, Evaluated, Zenon
    <3> QED
      BY <1>4, <2>3, <3>4, <3>5, Evaluated, Zenon DEF Release
  <2>7. CASE ~Covered(After)
    <3>1. Release({g}) /\ UNCHANGED reviewNotifiedAt
      BY <1>4, <2>4, <2>7, Evaluated, Zenon
    <3>2. Min({h[1] : h \in {g}}) = over
      <4>1. {h[1] : h \in {g}} = {over}
        BY <2>3
      <4> QED
        BY <1>0, <2>3, <4>1 DEF Min, Turns
    <3>3. sent' = [sent EXCEPT !.done[over] = @ + 1]
      BY <2>5, <3>1, <3>2, Zenon DEF Release
    <3>4. sent.ready[over] = 0
      <4>1. SUFFICES ASSUME sent.ready[over] > 0 PROVE FALSE
        BY <1>0, <2>3
      <4>2. Covered(state) /\ state = "review_ready"
        BY <2>2, <2>3, <4>1, ReadyCovers DEF Turns, Covered
      <4>3. After = state
        BY <4>2 DEF After, Reviewed
      <4> QED
        BY <2>7, <4>2, <4>3, Zenon
    <3>5. sent.done[over] = 0
      BY <1>0, <2>2, <2>3, <2>5 DEF LastInv, Turns
    <3>6. changed => After \in {"failed", "settled"}
      <4>1. SUFFICES ASSUME changed PROVE After \in {"failed", "settled"}
        OBVIOUS
      <4>2. sample
        BY <1>1, <2>1, <4>1 DEF FreshInv
      <4>3. After # "review_ready"
        BY <1>4, <2>7, <4>2, Zenon DEF Fires, Notifies, Covered
      <4> QED
        BY <1>0, <2>1, <4>2, <4>3 DEF After, Reviewed, States
    <3>7. ~Deciding'
      <4>1. \A h \in Gates : gates'[h] \notin Pending
        <5>1. PICK push \in SUBSET Waiting :
                 /\ gates' = [h \in Gates |-> IF h \in push THEN "push"
                                            ELSE IF h \in Late \cup Waiting THEN "closed" ELSE gates[h]]
                 /\ push # {} => Fires
          BY EvaluatedGates, Zenon
        <5> QED
          BY <1>4, <2>4, <5>1 DEF Pending
      <4> QED
        BY <1>1, <2>4, <4>1, Zenon DEF Deciding
    <3> QED
      BY <1>1, <1>4, <2>3, <2>5, <3>1, <3>3, <3>4, <3>5, <3>6, <3>7, Zenon
  <2> QED
    BY <2>6, <2>7
<1> QED
  BY <1>2, <1>3, <1>4

\* When a turn ends its end is recorded, and nothing has been sent for it yet.
LEMMA TurnEnds ==
  ASSUME Calm, TypeOK, TurnInv, QuietInv, OnceInv, on, Stop \/ StopFailure \/ AgentExits
  PROVE  /\ over' = turn /\ turn = over + 1 /\ turn \in Turns /\ over \in Nat
         /\ ~on' /\ UNCHANGED <<reviewNotifiedAt, state, changed>> /\ reviewNotifiedAt # turn
         /\ lastTurnEndedAt' = turn \/ state = "settled" \/ Unheard'
         /\ sent'.ready = sent.ready /\ sent'.done = sent.done
         /\ sent.ready[turn] = 0 /\ sent.done[turn] = 0
         /\ \A g \in Gates : gates'[g] # "push"
<1>0. Instants /\ SentTyped /\ GatesTyped
  BY TypeParts
<1>1. /\ over' = turn /\ ~on' /\ UNCHANGED <<reviewNotifiedAt, state, changed>>
  BY Zenon DEF Stop, StopFailure, AgentExits, TurnOver
<1>2. turn = over + 1 /\ turn \in Turns /\ over \in Nat /\ reviewNotifiedAt # turn
  <2>1. turn = over + 1
    BY DEF TurnInv
  <2>2. over \in Nat /\ turn \in 0..MaxTurns /\ MaxTurns \in Nat
    BY <1>0, Numbers DEF Instants
  <2>3. turn \in Turns
    BY <2>1, <2>2 DEF Turns
  <2>4. reviewNotifiedAt # turn
    BY <1>0, <2>1, <2>2 DEF Instants, Never
  <2> QED
    BY <2>1, <2>2, <2>3, <2>4
<1>3. sent.ready[turn] = 0 /\ sent.done[turn] = 0
  BY <1>2 DEF OnceInv
<1>4. sent'.ready = sent.ready /\ sent'.done = sent.done
  <2>1. sent' = sent \/ sent' = [sent EXCEPT !.error[turn] = @ + 1]
    BY Zenon DEF Stop, StopFailure, AgentExits
  <2> QED
    BY <1>0, <2>1 DEF SentTyped
<1>5. \A g \in Gates : gates'[g] # "push"
  <2>1. \A g \in Gates : gates[g] # "push"
    BY Zenon DEF QuietInv, Deciding, Pending
  <2>2. gates' = gates \/ gates' = [gates EXCEPT ![<<turn, "stop">>] = "eval"]
    BY Zenon DEF Stop, StopFailure, AgentExits
  <2> QED
    BY <1>0, <2>1, <2>2 DEF GatesTyped
<1>6. lastTurnEndedAt' = turn \/ state = "settled" \/ Unheard'
  <2>1. CASE Stop \/ StopFailure
    BY <2>1, Zenon DEF Stop, StopFailure, HearTurnEnd, Settled
  <2>2. CASE AgentExits
    <3>1. agentState = "working" /\ agentState # "ended"
      BY DEF QuietInv
    <3>2. HearEnded => lastTurnEndedAt' = turn \/ state = "settled"
      BY <3>1, Zenon DEF HearEnded, HearTurnEnd, Settled
    <3>3. ~HearEnded => Unheard'
      BY <2>2, <3>1, Zenon DEF AgentExits, Unheard
    <3> QED
      BY <3>2, <3>3
  <2> QED
    BY <2>1, <2>2
<1> QED
  BY <1>1, <1>2, <1>3, <1>4, <1>5, <1>6, Zenon

\* What does not touch the turn that ended last.
LEMMA LastKept ==
  ASSUME TypeOK, LastInv, UNCHANGED <<over, lastTurnEndedAt, reviewNotifiedAt, changed>>,
         sent'.ready = sent.ready, sent'.done = sent.done, on' \/ ~on,
         Unheard => Unheard', Deciding' => Deciding /\ (Unheard' => Unheard),
         state' # state => state' \in {"failed", "settled"} /\ ~Deciding' /\ state # "settled",
         \A g \in Gates : gates'[g] = "push" => gates[g] = "push"
  PROVE  LastInv'
<1>1. ~on' /\ over' > 0 => lastTurnEndedAt' = over' \/ state' = "settled" \/ Unheard'
  BY Zenon DEF LastInv
<1>2. over' > 0 => (sent'.ready[over'] > 0 <=> reviewNotifiedAt' = over')
  BY Zenon DEF LastInv
<1>3. over' > 0 /\ sent'.ready[over'] > 0 /\ Deciding' => state' = "review_ready" /\ ~Unheard'
  BY Zenon DEF LastInv
<1>4. over' > 0 /\ ~on' /\ sent'.done[over'] > 0 =>
        ~Deciding' /\ (changed' => state' \in {"failed", "settled"})
  BY Zenon DEF LastInv
<1>5. \A g \in Gates : gates'[g] = "push" => sent'.ready[over'] > 0
  BY Zenon DEF LastInv
<1> QED
  BY <1>1, <1>2, <1>3, <1>4, <1>5, Zenon DEF LastInv

\* A gate that has sent task_ready is covered by it.
LEMMA PushedCalm ==
  ASSUME TypeOK, GateInv, LastInv, NEW g \in Gates, Pushed(g)
  PROVE  UNCHANGED sent
<1>1. gates[g] = "push"
  BY DEF Pushed
<1>2. Deciding /\ over > 0 /\ sent.ready[over] > 0
  BY <1>1, Numbers DEF GateInv, LastInv, Deciding, Pending, Gates, Turns
<1>3. Covered(state)
  BY <1>2, ReadyCovers
<1>4. Release({})
  BY <1>3, Zenon DEF Pushed
<1> QED
  BY <1>4, Zenon DEF Release

LEMMA LastNext ==
  ASSUME Calm, TypeOK, TurnInv, FirstInv, QuietInv, GateInv, FreshInv, LastInv, OnceInv, Next
  PROVE  LastInv'
<1>0. Instants /\ SentTyped /\ GatesTyped
  BY TypeParts
<1>1. CASE on /\ (Stop \/ StopFailure \/ AgentExits)
  <2>1. /\ over' = turn /\ ~on' /\ reviewNotifiedAt' # over' /\ state' = state
        /\ lastTurnEndedAt' = turn \/ state = "settled" \/ Unheard'
        /\ sent'.ready[over'] = 0 /\ sent'.done[over'] = 0
        /\ \A g \in Gates : gates'[g] # "push"
    BY <1>1, TurnEnds, Zenon
  <2> QED
    BY <2>1 DEF LastInv
<1>2. CASE AgentExits /\ ~on
  <2>1. AtRest /\ ~exitSeen /\ ~exitSeen' /\ agentState # "working"
    BY <1>2, Zenon DEF AgentExits, Calm, AtRest, TurnInv
  <2>2. UNCHANGED <<over, lastTurnEndedAt, reviewNotifiedAt, changed, state, sent, gates>> /\ ~on'
    BY <1>2, <2>1, HeardExit, Zenon DEF AgentExits
  <2>3. ~Deciding' /\ ~Unheard' /\ ~Unheard
    BY <2>1, <2>2, Zenon DEF AtRest, Deciding, Unheard
  <2>4. on' \/ ~on
    BY <1>2
  <2> QED
    BY <2>2, <2>3, <2>4, LastKept, Zenon
<1>3. CASE WatchExit
  <2>1. exitSeen /\ ~exitSeen' /\ ~on /\ over = turn /\ Deciding
    BY <1>3 DEF WatchExit, TurnInv, Deciding
  <2>2. UNCHANGED <<on, over, reviewNotifiedAt, changed, state, sent>> /\ ~Unheard'
    BY <1>3, <2>1, Zenon DEF WatchExit, agent, Unheard
  <2>3. over > 0 => lastTurnEndedAt' = over \/ state = "settled"
    <3>1. CASE agentState = "working"
      BY <1>3, <2>1, <3>1, Zenon DEF WatchExit, HearEnded, HearTurnEnd, Settled
    <3>2. CASE agentState # "working"
      BY <1>3, <2>1, <3>2, HeardExit DEF WatchExit, LastInv, Unheard
    <3> QED
      BY <3>1, <3>2
  <2>4. \A g \in Gates : gates'[g] = "push" => gates[g] = "push"
    <3>1. gates' = [gates EXCEPT ![<<turn, "exit">>] = "eval"]
      BY <1>3, Zenon DEF WatchExit
    <3> QED
      BY <1>0, <3>1 DEF GatesTyped
  <2>5. over' > 0 => (sent'.ready[over'] > 0 <=> reviewNotifiedAt' = over')
    BY <2>2, Zenon DEF LastInv
  <2>6. over' > 0 /\ sent'.ready[over'] > 0 => state' = "review_ready"
    BY <2>1, <2>2, Zenon DEF LastInv
  <2>7. ~(over' > 0 /\ sent'.done[over'] > 0)
    BY <2>1, <2>2, Zenon DEF LastInv
  <2>8. \A g \in Gates : gates'[g] = "push" => sent'.ready[over'] > 0
    BY <2>2, <2>4, Zenon DEF LastInv
  <2> QED
    BY <2>2, <2>3, <2>5, <2>6, <2>7, <2>8, Zenon DEF LastInv
<1>4. CASE Prompt
  <2>1. AtRest /\ ~exitSeen
    BY <1>4, Zenon DEF Prompt, Calm, AtRest
  <2>2. /\ UNCHANGED <<over, lastTurnEndedAt, reviewNotifiedAt, changed, sent, gates, exitSeen>>
        /\ on'
    BY <1>4, Zenon DEF Prompt
  <2>3. ~Deciding' /\ ~Unheard'
    BY <2>1, <2>2, Zenon DEF AtRest, Deciding, Unheard
  <2>4. over' > 0 => (sent'.ready[over'] > 0 <=> reviewNotifiedAt' = over')
    BY <2>2, Zenon DEF LastInv
  <2>5. \A g \in Gates : gates'[g] = "push" => sent'.ready[over'] > 0
    BY <2>2, Zenon DEF LastInv
  <2> QED
    BY <2>2, <2>3, <2>4, <2>5, Zenon DEF LastInv
<1>5. CASE Edit
  <2>1. on' /\ on /\ UNCHANGED <<over, reviewNotifiedAt, sent, gates, exitSeen, agentState, state>>
    BY <1>5, Zenon DEF Edit, run
  <2>2. UNCHANGED <<Deciding, Unheard>>
    BY <2>1, Zenon DEF Deciding, Unheard
  <2> QED
    BY <2>1, <2>2, Zenon DEF LastInv
<1>6. CASE SessionStart \/ TimerFires \/ Count \/ CountAgain \/ RefireExpires \/ DiffAsked
  <2>1. /\ UNCHANGED <<over, lastTurnEndedAt, reviewNotifiedAt, changed, sent, on, state, gates,
                       exitSeen>>
        /\ UNCHANGED agentState \/ ~exitSeen
    BY <1>6, Zenon DEF SessionStart, TimerFires, Count, CountAgain, RefireExpires, DiffAsked,
       AtRest, agent, run
  <2>2. (Unheard <=> Unheard') /\ (Deciding' <=> Deciding)
    BY <2>1, Zenon DEF Deciding, Unheard
  <2>3. on' \/ ~on
    BY <2>1
  <2> QED
    BY <2>1, <2>2, <2>3, LastKept, Zenon
<1>7. CASE RunFails \/ RunSettles
  <2>1. /\ UNCHANGED <<over, lastTurnEndedAt, reviewNotifiedAt, changed, sent, on, gates,
                       exitSeen, agentState>>
        /\ AtRest /\ state' \in {"failed", "settled"} /\ state # "settled"
    BY <1>7 DEF RunFails, RunSettles, Calm, Settled, agent
  <2>2. (Unheard <=> Unheard') /\ ~Deciding'
    BY <2>1, Zenon DEF Deciding, Unheard, AtRest
  <2>3. on' \/ ~on
    BY <2>1
  <2> QED
    BY <2>1, <2>2, <2>3, LastKept, Zenon
<1>8. CASE \E g \in Gates : Pushed(g)
  <2>1. PICK g \in Gates : Pushed(g)
    BY <1>8
  <2>2. /\ UNCHANGED <<over, lastTurnEndedAt, reviewNotifiedAt, changed, on, state,
                       exitSeen, agentState>>
        /\ gates[g] = "push" /\ gates' = [gates EXCEPT ![g] = "closed"]
    BY <2>1, Zenon DEF Pushed, agent, run
  <2>3. UNCHANGED sent
    BY <2>1, PushedCalm
  <2>4. \A h \in Gates : /\ gates'[h] = "push" => gates[h] = "push"
                         /\ gates'[h] \in Pending => gates[h] \in Pending
    BY <1>0, <2>2 DEF GatesTyped, Pending
  <2>5. (Unheard <=> Unheard') /\ (Deciding' => Deciding)
    BY <2>2, <2>4, Zenon DEF Deciding, Unheard
  <2>6. on' \/ ~on
    BY <2>2
  <2> QED
    BY <2>2, <2>3, <2>4, <2>5, <2>6, LastKept, Zenon
<1>9. CASE Evaluate
  <2>1. /\ UNCHANGED <<over, on, changed, agentState, lastTurnEndedAt, exitSeen>> /\ state' = After
    BY <1>9, Evaluated, Zenon DEF agent
  <2>2. PICK push \in SUBSET Waiting :
           /\ gates' = [g \in Gates |-> IF g \in push THEN "push"
                                      ELSE IF g \in Late \cup Waiting THEN "closed" ELSE gates[g]]
           /\ push # {} => Fires
    BY <1>9, EvaluatedGates, Zenon
  <2>3. /\ \A g \in Gates : gates'[g] \in Pending => gates[g] \in Pending
        /\ ~Fires => \A g \in Gates : gates'[g] = "push" => gates[g] = "push"
    BY <2>2 DEF Waiting, Late, Pending
  <2>4. (Unheard <=> Unheard') /\ (Deciding' => Deciding)
    BY <2>1, <2>3, Zenon DEF Deciding, Unheard
  <2>5. CASE /\ Fires /\ over \in Turns /\ lastTurnEndedAt = over /\ reviewNotifiedAt' = over
             /\ state' = "review_ready" /\ ~Unheard /\ ~on
             /\ sent.ready[over] = 0 /\ sent.done[over] = 0
             /\ sent' = [sent EXCEPT !.ready[over] = @ + 1]
    <3>1. sent'.ready[over] = 1 /\ sent'.done[over] = 0
      BY <1>0, <2>5 DEF SentTyped, Notices
    <3> QED
      BY <2>1, <2>4, <2>5, <3>1 DEF LastInv
  <2>6. CASE ~Fires /\ UNCHANGED <<sent, reviewNotifiedAt>>
    <3>1. state' # state => state = "running" /\ state' = "review_ready" /\ sample
      BY <2>1 DEF After, Reviewed
    <3>2. over > 0 /\ sent.ready[over] > 0 /\ Deciding' => state' = "review_ready" /\ ~Unheard'
      BY <2>4, <3>1 DEF LastInv
    <3>3. over > 0 /\ ~on /\ sent.done[over] > 0 =>
            ~Deciding' /\ (changed => state' \in {"failed", "settled"})
      BY <2>4, <3>1 DEF LastInv
    <3>4. ~on /\ over > 0 => lastTurnEndedAt = over \/ state' = "settled" \/ Unheard'
      BY <2>4, <3>1 DEF LastInv
    <3>5. \A g \in Gates : gates'[g] = "push" => sent.ready[over] > 0
      BY <2>3, <2>6, Zenon DEF LastInv
    <3>6. over > 0 => (sent.ready[over] > 0 <=> reviewNotifiedAt' = over)
      BY <2>6, Zenon DEF LastInv
    <3> QED
      BY <2>1, <2>6, <3>2, <3>3, <3>4, <3>5, <3>6, Zenon DEF LastInv
  <2>7. CASE /\ ~Fires /\ over \in Turns /\ UNCHANGED reviewNotifiedAt
             /\ ~on /\ ~Deciding' /\ sent.ready[over] = 0 /\ sent.done[over] = 0
             /\ changed => state' \in {"failed", "settled"}
             /\ sent' = [sent EXCEPT !.done[over] = @ + 1]
    <3>1. sent'.ready = sent.ready
      BY <1>0, <2>7 DEF SentTyped
    <3>2. ~on /\ over > 0 => lastTurnEndedAt = over \/ state' = "settled" \/ Unheard'
      BY <2>1, <2>4 DEF LastInv, After, Reviewed
    <3>3. \A g \in Gates : gates'[g] = "push" => sent.ready[over] > 0
      BY <2>3, <2>7, Zenon DEF LastInv
    <3>4. over > 0 => (sent.ready[over] > 0 <=> reviewNotifiedAt' = over)
      BY <2>7, Zenon DEF LastInv
    <3> QED
      BY <2>1, <2>7, <3>1, <3>2, <3>3, <3>4, Zenon DEF LastInv
  <2> QED
    BY <1>9, <2>5, <2>6, <2>7, EvaluatedCalm, Zenon
<1> QED
  <2>1. Stop \/ StopFailure => on
    BY Zenon DEF Stop, StopFailure, TurnOver
  <2> QED
    BY <1>1, <1>2, <1>3, <1>4, <1>5, <1>6, <1>7, <1>8, <1>9, <2>1, CalmSteps, Zenon

LEMMA OnceNext ==
  ASSUME Calm, TypeOK, TurnInv, FirstInv, QuietInv, GateInv, FreshInv, LastInv, OnceInv, Next
  PROVE  OnceInv'
<1>0. /\ Instants /\ SentTyped
      /\ \A k \in Turns : sent.ready[k] \in Nat /\ sent.done[k] \in Nat
  BY TypeParts DEF SentTyped, Notices
<1>1. CASE sent'.ready = sent.ready /\ sent'.done = sent.done /\ over' \in Nat /\ over <= over'
  BY <1>0, <1>1 DEF OnceInv, Turns, Instants
<1>2. CASE on /\ (Stop \/ StopFailure \/ AgentExits)
  <2>1. over' = turn /\ turn = over + 1 /\ over \in Nat
        /\ sent'.ready = sent.ready /\ sent'.done = sent.done
    BY <1>2, TurnEnds, Zenon
  <2> QED
    BY <1>1, <2>1
<1>3. CASE Evaluate
  <2>1. over' = over
    BY <1>3, Evaluated, Zenon DEF agent
  <2>2. CASE UNCHANGED sent
    BY <1>0, <1>1, <2>1, <2>2 DEF Instants
  <2>3. CASE /\ over \in Turns /\ sent.ready[over] = 0 /\ sent.done[over] = 0
             /\ \/ sent' = [sent EXCEPT !.ready[over] = @ + 1]
                \/ sent' = [sent EXCEPT !.done[over] = @ + 1]
    <3>1. \A k \in Turns : k # over =>
            sent'.ready[k] = sent.ready[k] /\ sent'.done[k] = sent.done[k]
      BY <1>0, <2>3 DEF SentTyped, Notices
    <3>2. sent'.ready[over] + sent'.done[over] = 1
      BY <1>0, <2>3 DEF SentTyped, Notices
    <3>3. over \in Nat
      BY <2>3 DEF Turns
    <3> QED
      BY <2>1, <3>1, <3>2, <3>3 DEF OnceInv, Turns
  <2> QED
    BY <1>3, <2>2, <2>3, EvaluatedCalm, Zenon
<1>4. CASE \E g \in Gates : Pushed(g)
  <2>1. UNCHANGED <<over, sent>>
    BY <1>4, PushedCalm, Zenon DEF Pushed, agent
  <2> QED
    BY <1>0, <1>1, <2>1 DEF Instants
<1>5. CASE UNCHANGED <<over, sent>>
  BY <1>0, <1>1, <1>5 DEF Instants
<1> QED
  <2>1. Prompt \/ Edit \/ (AgentExits /\ ~on) \/ SessionStart \/ TimerFires \/ Count \/ CountAgain
        \/ WatchExit \/ RefireExpires \/ DiffAsked \/ RunFails \/ RunSettles
        => UNCHANGED <<over, sent>>
    BY Zenon DEF Prompt, Edit, AgentExits, SessionStart, TimerFires, Count, CountAgain, WatchExit,
       RefireExpires, DiffAsked, RunFails, RunSettles, agent
  <2>2. Stop \/ StopFailure => on
    BY Zenon DEF Stop, StopFailure, TurnOver
  <2> QED
    BY <1>2, <1>3, <1>4, <1>5, <2>1, <2>2, CalmSteps, Zenon

\* What was said stays said.
LEMMA SpokenStays ==
  ASSUME TypeOK, SpokenInv, over' = over,
         \A k \in Turns : /\ sent'.ready[k] \in Nat /\ sent'.ready[k] >= sent.ready[k]
                          /\ sent'.done[k] \in Nat /\ sent'.done[k] >= sent.done[k]
                          /\ sent'.error[k] = sent.error[k],
         over \in Turns /\ (exitSeen \/ Waiting # {}) =>
           exitSeen' \/ Waiting' # {} \/ sent'.ready[over] > 0 \/ sent'.done[over] > 0
  PROVE  SpokenInv'
<1>0. /\ Instants /\ MaxTurns \in Nat
      /\ \A k \in Turns : sent.ready[k] \in Nat /\ sent.done[k] \in Nat /\ sent.error[k] \in Nat
  BY TypeParts, Numbers DEF SentTyped, Notices
<1> SUFFICES ASSUME NEW k \in 1..over
             PROVE  \/ sent'.ready[k] + sent'.done[k] + sent'.error[k] > 0
                    \/ k = over /\ (exitSeen' \/ Waiting' # {})
  BY DEF SpokenInv
<1>1. k \in Turns
  BY <1>0 DEF Turns, Instants
<1>2. CASE sent.ready[k] + sent.done[k] + sent.error[k] > 0
  BY <1>0, <1>1, <1>2
<1>3. CASE k = over /\ (exitSeen \/ Waiting # {})
  BY <1>0, <1>1, <1>3
<1> QED
  BY <1>2, <1>3 DEF SpokenInv

\* A turn that ends is told of, or is going to be.
LEMMA SpokenEnds ==
  ASSUME Calm, TypeOK, TurnInv, QuietInv, OnceInv, SpokenInv, on,
         Stop \/ StopFailure \/ AgentExits
  PROVE  SpokenInv'
<1>0. /\ Instants /\ SentTyped /\ GatesTyped /\ MaxTurns \in Nat
      /\ \A k \in Turns : sent.ready[k] \in Nat /\ sent.done[k] \in Nat /\ sent.error[k] \in Nat
  BY TypeParts, Numbers DEF SentTyped, Notices
<1>1. /\ over' = turn /\ turn = over + 1 /\ turn \in Turns /\ over \in Nat
      /\ sent'.ready = sent.ready /\ sent'.done = sent.done
  BY TurnEnds, Zenon
<1>2. \A k \in Turns : sent'.error[k] = sent.error[k] \/ sent'.error[k] = sent.error[k] + 1
  <2>1. sent' = sent \/ sent' = [sent EXCEPT !.error[turn] = @ + 1]
    BY Zenon DEF Stop, StopFailure, AgentExits
  <2> QED
    BY <1>0, <2>1 DEF SentTyped, Notices
<1>3. \A k \in 1..over : sent.ready[k] + sent.done[k] + sent.error[k] > 0
  <2>1. ~exitSeen /\ Waiting = {}
    BY DEF QuietInv, Deciding, Waiting, Pending
  <2> QED
    BY <2>1 DEF SpokenInv
<1>4. sent'.error[turn] > 0 \/ exitSeen' \/ Waiting' # {}
  <2>1. CASE Stop
    <3>1. <<turn, "stop">> \in Gates
      BY <1>1 DEF Gates
    <3>2. gates'[<<turn, "stop">>] = "eval"
      BY <1>0, <2>1, <3>1 DEF Stop, GatesTyped
    <3> QED
      BY <3>1, <3>2 DEF Waiting
  <2>2. CASE StopFailure
    <3>1. sent' = [sent EXCEPT !.error[turn] = @ + 1]
      BY <2>2 DEF StopFailure
    <3> QED
      BY <1>0, <1>1, <3>1 DEF SentTyped, Notices
  <2>3. CASE AgentExits
    <3>1. crashes = 0
      BY TypeParts DEF Bounded, Calm
    <3> QED
      BY <2>3, <3>1, Zenon DEF AgentExits
  <2> QED
    BY <2>1, <2>2, <2>3
<1>5. ASSUME NEW k \in 1..over, k \in Turns
      PROVE  sent'.ready[k] + sent'.done[k] + sent'.error[k] > 0
  <2>1. sent'.ready[k] = sent.ready[k] /\ sent'.done[k] = sent.done[k]
    BY <1>1
  <2>2. sent.ready[k] \in Nat /\ sent.done[k] \in Nat /\ sent.error[k] \in Nat
    BY <1>0, <1>5
  <2>3. sent.ready[k] + sent.done[k] + sent.error[k] > 0
    BY <1>3
  <2>4. sent'.error[k] = sent.error[k] \/ sent'.error[k] = sent.error[k] + 1
    BY <1>2, <1>5
  <2> QED
    BY <2>1, <2>2, <2>3, <2>4
<1>6. sent'.error[turn] > 0 => sent'.ready[turn] + sent'.done[turn] + sent'.error[turn] > 0
  BY <1>0, <1>1, <1>2
<1>7. \A k \in 1..turn : k \in Turns /\ (k = turn \/ k \in 1..over)
  BY <1>0, <1>1 DEF Turns
<1> QED
  BY <1>1, <1>4, <1>5, <1>6, <1>7, Zenon DEF SpokenInv

LEMMA SpokenNext ==
  ASSUME Calm, TypeOK, TurnInv, FirstInv, QuietInv, GateInv, FreshInv, LastInv, OnceInv, SpokenInv,
         Next
  PROVE  SpokenInv'
<1>0. /\ Instants /\ SentTyped /\ GatesTyped
      /\ \A k \in Turns : sent.ready[k] \in Nat /\ sent.done[k] \in Nat /\ sent.error[k] \in Nat
  BY TypeParts DEF SentTyped, Notices
<1>same. \A n \in Nat : n >= n
  OBVIOUS
<1>1. CASE /\ UNCHANGED <<over, sent>>
           /\ exitSeen \/ Waiting # {} => exitSeen' \/ Waiting' # {} \/ over \notin Turns
  BY <1>0, <1>same, <1>1, SpokenStays, Zenon
<1>2. CASE on /\ (Stop \/ StopFailure \/ AgentExits)
  BY <1>2, SpokenEnds, Zenon
<1>3. CASE AgentExits /\ ~on
  <2>1. AtRest /\ UNCHANGED <<over, sent>>
    BY <1>3, Zenon DEF AgentExits, Calm
  <2>2. ~exitSeen /\ Waiting = {}
    BY <2>1 DEF AtRest, Waiting, Pending
  <2> QED
    BY <1>1, <2>1, <2>2, Zenon
<1>4. CASE WatchExit
  <2>1. over = turn /\ UNCHANGED <<over, sent>>
    BY <1>4 DEF WatchExit, TurnInv, agent
  <2>2. ASSUME over \in Turns PROVE Waiting' # {}
    <3>1. <<turn, "exit">> \in Gates
      BY <2>1, <2>2 DEF Gates
    <3>2. gates'[<<turn, "exit">>] = "eval"
      BY <1>0, <1>4, <3>1 DEF WatchExit, GatesTyped
    <3> QED
      BY <3>1, <3>2 DEF Waiting
  <2> QED
    BY <1>1, <2>1, <2>2, Zenon
<1>5. CASE \E g \in Gates : Pushed(g)
  <2>1. PICK g \in Gates : Pushed(g)
    BY <1>5
  <2>2. UNCHANGED <<over, sent, exitSeen>>
    BY <2>1, PushedCalm, Zenon DEF Pushed, agent
  <2>3. Waiting' = Waiting
    BY <1>0, <2>1 DEF Pushed, Waiting, GatesTyped
  <2> QED
    BY <1>1, <2>2, <2>3, Zenon
<1>6. CASE Evaluate
  <2>1. UNCHANGED <<over, exitSeen>>
    BY <1>6, Evaluated, Zenon DEF agent
  <2>2. CASE UNCHANGED sent /\ (Waiting # {} => over \in Turns /\ sent.ready[over] > 0)
    BY <1>0, <1>same, <2>1, <2>2, SpokenStays, Zenon
  <2>3. CASE /\ over \in Turns
             /\ \/ sent' = [sent EXCEPT !.ready[over] = @ + 1]
                \/ sent' = [sent EXCEPT !.done[over] = @ + 1]
    <3>1. \A k \in Turns : /\ sent'.ready[k] \in Nat /\ sent'.ready[k] >= sent.ready[k]
                           /\ sent'.done[k] \in Nat /\ sent'.done[k] >= sent.done[k]
                           /\ sent'.error[k] = sent.error[k]
      BY <1>0, <2>3 DEF SentTyped, Notices
    <3>2. sent'.ready[over] > 0 \/ sent'.done[over] > 0
      BY <1>0, <2>3 DEF SentTyped, Notices
    <3> QED
      BY <2>1, <3>1, <3>2, SpokenStays, Zenon
  <2> QED
    BY <1>6, <2>2, <2>3, EvaluatedCalm, Zenon
<1>7. CASE UNCHANGED <<over, sent, exitSeen, gates>>
  <2>1. Waiting' = Waiting
    BY <1>7, Zenon DEF Waiting
  <2> QED
    BY <1>1, <1>7, <2>1, Zenon
<1> QED
  <2>1. Prompt \/ Edit \/ SessionStart \/ TimerFires \/ Count \/ CountAgain \/ RefireExpires
        \/ DiffAsked \/ RunFails \/ RunSettles => UNCHANGED <<over, sent, exitSeen, gates>>
    BY Zenon DEF Prompt, Edit, SessionStart, TimerFires, Count, CountAgain, RefireExpires,
       DiffAsked, RunFails, RunSettles, agent
  <2>2. Stop \/ StopFailure => on
    BY Zenon DEF Stop, StopFailure, TurnOver
  <2> QED
    BY <1>2, <1>3, <1>4, <1>5, <1>6, <1>7, <2>1, <2>2, CalmSteps, Zenon

LEMMA InitCalm == Init => CalmInv
<1> SUFFICES ASSUME Init PROVE CalmInv
  OBVIOUS
<1>1. \A g \in Gates : gates[g] = "none"
  BY DEF Init
<1>2. ~exitSeen /\ ~on /\ over = 0 /\ evals = {} /\ timer = "none"
  BY DEF Init
<1>3. ~Deciding /\ ~Unheard /\ Waiting = {} /\ LastGates = {}
  BY <1>1, <1>2 DEF Deciding, Unheard, Waiting, LastGates, Pending
<1>4. QuietInv /\ GateInv /\ FreshInv
  BY <1>1, <1>2, <1>3 DEF QuietInv, GateInv, FreshInv, Pending
<1>5. LastInv
  BY <1>1, <1>2, <1>3 DEF LastInv
<1>6. OnceInv
  BY DEF Init, OnceInv, Unsent
<1>7. SpokenInv
  BY <1>2 DEF SpokenInv
<1> QED
  BY <1>4, <1>5, <1>6, <1>7 DEF CalmInv

LEMMA StutterCalm ==
  ASSUME CalmInv, UNCHANGED vars
  PROVE  CalmInv'
<1>1. UNCHANGED <<over, on, changed, sent, agentState, state, lastTurnEndedAt, reviewNotifiedAt,
                  timer, evals, refresh, sample, again, gates, refire, exitSeen>>
  BY Zenon DEF vars, agent, run, counter
<1>2. UNCHANGED <<Deciding, Unheard, LastGates, Waiting>>
  BY <1>1, Zenon DEF Deciding, Unheard, LastGates, Waiting
<1>3. QuietInv' /\ GateInv' /\ FreshInv'
  BY <1>1, <1>2, Zenon DEF CalmInv, QuietInv, GateInv, FreshInv
<1>4. LastInv' /\ OnceInv' /\ SpokenInv'
  BY <1>1, <1>2, Zenon DEF CalmInv, LastInv, OnceInv, SpokenInv
<1> QED
  BY <1>3, <1>4 DEF CalmInv

THEOREM CalmInvariant ==
  ASSUME Calm
  PROVE  Spec => [](IInv /\ CalmInv)
<1>1. IInv /\ CalmInv /\ [Next]_vars => CalmInv'
  <2>1. IInv /\ CalmInv /\ Next => CalmInv'
    BY QuietNext, GateNext, FreshNext, LastNext, OnceNext, SpokenNext, Zenon DEF IInv, CalmInv
  <2> QED
    BY <2>1, StutterCalm, Zenon
<1> QED
  BY Invariant, InitCalm, <1>1, PTL DEF Spec

\* Where the user lets the notices of a turn be decided before acting, the agent asks for
\* nothing, git is quick and the daemon lives, no turn ends unnoticed, however the hooks, the
\* watcher of the title, the debounce and the veto of shouldNotify interleave.
THEOREM NoTurnIsSilent ==
  ASSUME Calm
  PROVE  Spec => []NoSilentTurn
<1>1. IInv /\ CalmInv => NoSilentTurn
  <2>1. AtRest => ~exitSeen /\ Waiting = {}
    BY DEF AtRest, Waiting, Pending
  <2> QED
    BY <2>1, Zenon DEF CalmInv, SpokenInv, NoSilentTurn
<1> QED
  BY <1>1, CalmInvariant, PTL

\* There, task_ready and done are never both sent for a turn, and neither is sent twice.
THEOREM NoNoticeIsDoubled ==
  ASSUME Calm
  PROVE  Spec => []NoDoubleNotice
<1>1. IInv /\ CalmInv => NoDoubleNotice
  BY Zenon DEF CalmInv, OnceInv, NoDoubleNotice
<1> QED
  BY <1>1, CalmInvariant, PTL

=============================================================================
