---------------------------- MODULE Conversations ----------------------------
(***************************************************************************)
(* Chat conversations (runner-core/conv.js, conv-store.js): the process of *)
(* an agent behind each thread, the messages devices send to it, what it   *)
(* asks back, and the log that outlives the process and the daemon.        *)
(*                                                                         *)
(* The log (the .jsonl file of a thread) is written at once; it is kept    *)
(* here as its fold: the status of every message, the open turns and the   *)
(* open requests.  conv.send is a coroutine: between the look at the live  *)
(* process and the start of a new one it waits for a process that leaves,  *)
(* for the agent's binary, for its environment and for the spawn.  The     *)
(* agent itself is not under src/: it is modelled by the events it emits.  *)
(***************************************************************************)
EXTENDS Integers, FiniteSets, Sequences

CONSTANTS Threads,     \* conversations
          PerThread,   \* bound: messages (clientIds) per conversation
          MaxLive,     \* MAX_LIVE: processes at a time (4 in the code)
          MaxProcs,    \* bound: processes started
          MaxSends,    \* bound: calls of conv.send, retries included
          MaxFaults    \* bound: restarts, processes that die or fail to start, refusals

ASSUME ConversationsAssumption ==
  /\ {PerThread, MaxLive, MaxProcs, MaxSends, MaxFaults} \subseteq Nat
  /\ Threads # {} /\ PerThread > 0

Msgs == Threads \X (1..PerThread)
Of(m) == m[1]
Procs == 1..MaxProcs
Calls == 1..MaxSends
NoProc == 0

VARIABLES
  there,    \* threads in the index
  proc,     \* p -> a process: its thread, its state and what the daemon knows of it
  live,     \* t -> the process that sends to t go to, NoProc
  leaving,  \* t -> the process that is being taken down, NoProc
  sends,    \* n -> the n-th call of conv.send: its message and where it waits
  removing, \* t -> the process conv.remove waits for, NoProc
  healed,   \* threads whose log this daemon has cleaned up
  msg,      \* m -> its status in the log
  turns,    \* t -> turns that the log has started and not ended
  asked,    \* t -> requests that the log has as pending
  shown,    \* t -> the state devices are shown
  crowded,  \* threads for whose process two sends have waited together (history)
  tries, faults

books == <<msg, turns, asked, shown>>
table == <<live, leaving>>
bounds == <<tries, faults>>
vars == <<there, proc, table, sends, removing, healed, books, crowded, bounds>>

\* st: "stopping" once its input is closed.
\* does: what the agent does; turn, ask, unacked: what the daemon has noted.
Unused == [th |-> CHOOSE t \in Threads : TRUE, st |-> "gone", does |-> "rest",
           turn |-> FALSE, ask |-> FALSE, unacked |-> <<>>]
Started(t) == [Unused EXCEPT !.th = t, !.st = "up"]
NotSending == [at |-> "none", m |-> CHOOSE m \in Msgs : TRUE, p |-> NoProc]

TypeOK ==
  /\ there \subseteq Threads /\ healed \subseteq Threads /\ crowded \subseteq Threads
  /\ proc \in [Procs -> [th : Threads, st : {"up", "stopping", "gone"},
                         does : {"rest", "works", "waits"}, turn : BOOLEAN,
                         ask : BOOLEAN, unacked : Seq(Msgs)]]
  /\ live \in [Threads -> Procs \cup {NoProc}]
  /\ leaving \in [Threads -> Procs \cup {NoProc}]
  /\ removing \in [Threads -> Procs \cup {NoProc}]
  /\ sends \in [Calls -> [at : {"none", "leaving", "locate", "env", "spawn"},
                          m : Msgs, p : Procs \cup {NoProc}]]
  /\ msg \in [Msgs -> {"none", "queued", "sent", "failed"}]
  /\ turns \in [Threads -> Nat]
  /\ asked \in [Threads -> Nat]
  /\ shown \in [Threads -> {"idle", "working", "waiting"}]
  /\ tries \in 0..MaxSends /\ faults \in 0..MaxFaults

Init ==
  /\ there = Threads /\ healed = Threads /\ crowded = {}
  /\ proc = [p \in Procs |-> Unused]
  /\ live = [t \in Threads |-> NoProc] /\ leaving = live /\ removing = live
  /\ sends = [n \in Calls |-> NotSending]
  /\ msg = [m \in Msgs |-> "none"]
  /\ turns = [t \in Threads |-> 0]
  /\ asked = [t \in Threads |-> 0]
  /\ shown = [t \in Threads |-> "idle"]
  /\ tries = 0 /\ faults = 0

Fault == faults < MaxFaults /\ faults' = faults + 1

Free == {p \in Procs : /\ proc[p].st = "gone"
                       /\ \A n \in Calls : sends[n].p # p
                       /\ \A t \in Threads : removing[t] # p}
Spawning(p) == \E n \in Calls : sends[n].at = "spawn" /\ sends[n].p = p
Busy(p) == proc[p].turn \/ proc[p].ask
Th(p) == proc[p].th
Has(p, m) == \E i \in DOMAIN proc[p].unacked : proc[p].unacked[i] = m
Pending(m) == msg[m] \in {"queued", "sent"}

-----------------------------------------------------------------------------
(* The books.  Those of a thread that was removed are not followed: patch() *)
(* changes nothing, and what is appended to its log belongs to no thread.   *)

Shows(t, s) == shown' = IF t \in there THEN [shown EXCEPT ![t] = s] ELSE shown
Logs(t, new, old) == IF t \in there THEN new ELSE old
Doing(pr) == IF pr.ask THEN "waiting" ELSE IF pr.turn THEN "working" ELSE "idle"

\* beginTurn().
Opens(p) == IF proc[p].turn THEN 0 ELSE 1
Begins(p) ==
  /\ turns' = Logs(Th(p), [turns EXCEPT ![Th(p)] = @ + Opens(p)], turns)
  /\ IF proc[p].turn THEN UNCHANGED shown
     ELSE Shows(Th(p), IF proc[p].ask THEN "waiting" ELSE "working")

\* heal(): once per daemon, and only while no process is live, what an earlier
\* daemon left open is closed.
MustHeal(t) == t \notin healed /\ live[t] = NoProc
\* Mutant: the messages nobody confirmed are left as they are.
MutHealedMsg(t) == msg
HealedMsg(t) ==
  [m \in Msgs |-> IF MustHeal(t) /\ Of(m) = t /\ msg[m] = "queued" THEN "failed" ELSE msg[m]]
HealedTurns(t) == IF MustHeal(t) THEN [turns EXCEPT ![t] = 0] ELSE turns
HealedAsked(t) == IF MustHeal(t) THEN [asked EXCEPT ![t] = 0] ELSE asked
Heals(t) == healed' = IF MustHeal(t) THEN healed \cup {t} ELSE healed

-----------------------------------------------------------------------------
(* conv.send.                                                               *)

\* The message is recorded and written to the process; a process whose input is
\* closed does not take it.
Deliver(m, p) ==
  LET taken == proc[p].st # "stopping" IN
  /\ Begins(p)
  /\ msg' = Logs(Of(m), [msg EXCEPT ![m] = IF taken THEN "queued" ELSE "failed"], msg)
  /\ proc' = [proc EXCEPT ![p].turn = TRUE,
                          ![p].unacked = IF taken THEN Append(@, m) ELSE @]

Msg(n) == sends[n].m
At(n, at, p) == sends' = [sends EXCEPT ![n].at = at, ![n].p = p]
Ends(n) == sends' = [sends EXCEPT ![n] = NotSending]
Waiting(t) == {n \in Calls : sends[n].at # "none" /\ Of(Msg(n)) = t}

\* Mutant: a retry does not see the call with its clientId that still waits.
MutJoins(m) == FALSE
\* A call whose clientId is on its way already is joined to that call (sending).
Joins(m) == \E n \in Calls : sends[n].at # "none" /\ Msg(n) = m

\* conv.send, up to the first wait: a message that is on its way, or has arrived, is
\* not sent again; a live process gets the message at once.
Send(m) ==
  LET t == Of(m) n == tries + 1 IN
  /\ ~Joins(m) /\ t \in there
  /\ tries < MaxSends /\ tries' = n
  /\ Heals(t)
  /\ IF live[t] # NoProc
       THEN /\ UNCHANGED <<sends, asked>>
            /\ IF Pending(m) THEN UNCHANGED <<proc, msg, turns, shown>>
               ELSE Deliver(m, live[t])
       ELSE /\ sends' = IF HealedMsg(t)[m] \in {"queued", "sent"} THEN sends
                        ELSE [sends EXCEPT ![n] =
                               [at |-> IF leaving[t] # NoProc THEN "leaving" ELSE "locate",
                                m |-> m, p |-> leaving[t]]]
            /\ msg' = HealedMsg(t) /\ turns' = HealedTurns(t) /\ asked' = HealedAsked(t)
            /\ UNCHANGED <<proc, shown>>
  /\ crowded' = IF Cardinality(Waiting(t)') > 1 THEN crowded \cup {t} ELSE crowded
  /\ UNCHANGED <<there, table, removing, faults>>

\* Mutant: the new process does not wait until the old one has ended.
MutHasLeft(n) ==
  /\ sends[n].at = "leaving" /\ At(n, "locate", NoProc)
  /\ UNCHANGED <<there, proc, table, removing, healed, books, crowded, bounds>>
\* The process that was leaving has exited.
HasLeft(n) ==
  /\ sends[n].at = "leaving" /\ proc[sends[n].p].st = "gone"
  /\ At(n, "locate", NoProc)
  /\ UNCHANGED <<there, proc, table, removing, healed, books, crowded, bounds>>

\* stopProc(): the process leaves the table at once and its input is closed.
Stops(p) ==
  /\ live' = [live EXCEPT ![Th(p)] = IF @ = p THEN NoProc ELSE @]
  /\ leaving' = [leaving EXCEPT ![Th(p)] = p]
  /\ proc' = [proc EXCEPT ![p].st = "stopping"]

LiveProcs == {p \in Procs : p = live[Th(p)]}

\* The binary is known: the send is refused (in use elsewhere), or room is made
\* (makeRoom), which may take an idle process down, or fails.
MakeRoom(n) ==
  /\ sends[n].at = "locate"
  /\ \/ /\ Cardinality(LiveProcs) < MaxLive
        /\ At(n, "env", NoProc) /\ UNCHANGED <<proc, table, faults>>
     \/ /\ Cardinality(LiveProcs) >= MaxLive
        /\ \E p \in LiveProcs : ~Busy(p) /\ Stops(p)
        /\ At(n, "env", NoProc) /\ UNCHANGED faults
     \/ /\ Cardinality(LiveProcs) >= MaxLive /\ \A p \in LiveProcs : Busy(p)
        /\ Ends(n) /\ UNCHANGED <<proc, table, faults>>
     \/ Fault /\ Ends(n) /\ UNCHANGED <<proc, table>>
  /\ UNCHANGED <<there, removing, healed, books, crowded, tries>>

\* The environment is known: the process is started and becomes the live one.
Start(n) ==
  LET t == Of(Msg(n)) IN
  /\ sends[n].at = "env"
  /\ \E p \in Free :
       /\ \A q \in Free : p <= q
       /\ proc' = [proc EXCEPT ![p] = Started(t)]
       /\ live' = [live EXCEPT ![t] = p]
       /\ At(n, "spawn", p)
  /\ UNCHANGED <<there, leaving, removing, healed, books, crowded, bounds>>

\* The spawn is confirmed; conv.stop may have closed the input meanwhile.
Spawned(n) ==
  /\ sends[n].at = "spawn" /\ Deliver(Msg(n), sends[n].p)
  /\ Ends(n)
  /\ UNCHANGED <<there, table, removing, healed, asked, crowded, bounds>>

-----------------------------------------------------------------------------
(* The end of a process.                                                    *)

\* Mutant: the messages it had not confirmed are forgotten with it.
MutFailed(p) == msg
\* failUnacked().
Failed(p) == [m \in Msgs |-> IF Has(p, m) /\ msg[m] # "none" THEN "failed" ELSE msg[m]]

\* onExit(): what it had open is closed in the log.
Exits(p) ==
  LET t == Th(p) IN
  /\ proc' = [proc EXCEPT ![p] = Unused]
  /\ live' = [live EXCEPT ![t] = IF @ = p THEN NoProc ELSE @]
  /\ leaving' = [leaving EXCEPT ![t] = IF @ = p THEN NoProc ELSE @]
  /\ IF t \in there
       THEN /\ msg' = Failed(p)
            /\ turns' = [turns EXCEPT ![t] = @ - (IF proc[p].turn THEN 1 ELSE 0)]
            /\ asked' = [asked EXCEPT ![t] = @ - (IF proc[p].ask THEN 1 ELSE 0)]
            /\ Shows(t, "idle")
       ELSE UNCHANGED books

\* A process whose input is closed ends, or is killed; another may die.
Exit(p) ==
  /\ \/ proc[p].st = "stopping" /\ UNCHANGED faults
     \/ proc[p].st = "up" /\ Fault
  /\ ~Spawning(p)
  /\ Exits(p)
  /\ UNCHANGED <<there, sends, removing, healed, crowded, tries>>

\* The spawn fails: the process is cleaned up, and the message is recorded as failed.
SpawnFails(n) ==
  LET p == sends[n].p t == Of(Msg(n)) IN
  /\ sends[n].at = "spawn" /\ Fault
  /\ proc' = [proc EXCEPT ![p] = Unused]
  /\ live' = [live EXCEPT ![t] = IF @ = p THEN NoProc ELSE @]
  /\ leaving' = [leaving EXCEPT ![t] = IF @ = p THEN NoProc ELSE @]
  /\ msg' = Logs(t, [Failed(p) EXCEPT ![Msg(n)] = "failed"], msg)
  /\ turns' = Logs(t, [turns EXCEPT ![t] = @ - (IF proc[p].turn THEN 1 ELSE 0)], turns)
  /\ Shows(t, "idle")
  /\ Ends(n)
  /\ UNCHANGED <<there, removing, healed, asked, crowded, tries>>

-----------------------------------------------------------------------------
(* What the agent emits (onEngine).  A thread that was removed no longer    *)
(* hears anything but the exit.                                             *)

Emits(p) == proc[p].st \in {"up", "stopping"} /\ ~Spawning(p)
Hears(p) == Emits(p) /\ Th(p) \in there
Does(p, what) == [proc EXCEPT ![p].does = what]

\* It reads the message that was written first, at the start of a turn or at a tool's
\* end, and confirms it (onAck).
Reads(p) ==
  /\ Hears(p) /\ proc[p].does # "waits" /\ proc[p].unacked # <<>>
  /\ Begins(p)
  /\ msg' = [msg EXCEPT ![Head(proc[p].unacked)] = IF @ = "none" THEN @ ELSE "sent"]
  /\ proc' = [proc EXCEPT ![p].does = "works", ![p].turn = TRUE, ![p].unacked = Tail(@)]
  /\ UNCHANGED <<there, table, sends, removing, healed, asked, crowded, bounds>>

\* It starts to work without a message; its first output opens the turn.
Works(p) ==
  /\ Hears(p) /\ proc[p].does = "rest"
  /\ \/ Begins(p) /\ proc' = [proc EXCEPT ![p].does = "works", ![p].turn = TRUE]
     \/ proc' = Does(p, "works") /\ UNCHANGED <<turns, shown>>
  /\ UNCHANGED <<there, table, sends, removing, healed, msg, asked, crowded, bounds>>

\* It asks (onRequest).
Asks(p) ==
  /\ Hears(p) /\ proc[p].does = "works"
  /\ turns' = [turns EXCEPT ![Th(p)] = @ + Opens(p)]
  /\ asked' = [asked EXCEPT ![Th(p)] = @ + 1]
  /\ proc' = [proc EXCEPT ![p].does = "waits", ![p].turn = TRUE, ![p].ask = TRUE]
  /\ Shows(Th(p), "waiting")
  /\ UNCHANGED <<there, table, sends, removing, healed, msg, crowded, bounds>>

\* It no longer wants the answer (request_gone).
Withdraws(p) ==
  /\ Hears(p) /\ proc[p].does = "waits"
  /\ asked' = [asked EXCEPT ![Th(p)] = @ - (IF proc[p].ask THEN 1 ELSE 0)]
  /\ proc' = [proc EXCEPT ![p].does = "works", ![p].ask = FALSE]
  /\ Shows(Th(p), IF proc[p].turn THEN "working" ELSE "idle")
  /\ UNCHANGED <<there, table, sends, removing, healed, msg, turns, crowded, bounds>>

\* Mutant: a turn whose start was not seen ends without one.
MutUnseen(p) ==
  /\ Hears(p) /\ proc[p].does # "rest"
  /\ turns' = [turns EXCEPT ![Th(p)] = @ - 1]
  /\ asked' = [asked EXCEPT ![Th(p)] = @ - (IF proc[p].ask THEN 1 ELSE 0)]
  /\ proc' = [proc EXCEPT ![p].does = "rest", ![p].turn = FALSE, ![p].ask = FALSE]
  /\ Shows(Th(p), "idle")
  /\ UNCHANGED <<there, table, sends, removing, healed, msg, crowded, bounds>>
\* Mutant: a turn that ends leaves its request to be answered.
MutResult(p) ==
  /\ Hears(p) /\ proc[p].does # "rest"
  /\ turns' = [turns EXCEPT ![Th(p)] = @ + Opens(p) - 1]
  /\ proc' = [proc EXCEPT ![p].does = "rest", ![p].turn = FALSE]
  /\ Shows(Th(p), "idle")
  /\ UNCHANGED <<there, table, sends, removing, healed, msg, asked, crowded, bounds>>
\* The turn ends (onResult): its requests are cancelled; a turn whose start was not
\* seen is opened first.
Result(p) ==
  /\ Hears(p) /\ proc[p].does # "rest"
  /\ turns' = [turns EXCEPT ![Th(p)] = @ + Opens(p) - 1]
  /\ asked' = [asked EXCEPT ![Th(p)] = @ - (IF proc[p].ask THEN 1 ELSE 0)]
  /\ proc' = [proc EXCEPT ![p].does = "rest", ![p].turn = FALSE, ![p].ask = FALSE]
  /\ Shows(Th(p), "idle")
  /\ UNCHANGED <<there, table, sends, removing, healed, msg, crowded, bounds>>

-----------------------------------------------------------------------------
(* The other calls.                                                         *)

\* conv.respond: the request is taken out first, so one answer reaches the agent.
Respond(t) ==
  LET p == live[t] IN
  /\ p # NoProc /\ t \in there /\ proc[p].ask
  /\ proc' = [proc EXCEPT ![p].ask = FALSE, ![p].does = "works"]
  /\ asked' = [asked EXCEPT ![t] = @ - 1]
  /\ Shows(t, "working")
  /\ UNCHANGED <<there, table, sends, removing, healed, msg, turns, crowded, bounds>>

\* conv.interrupt: the cards are closed at once, the turn when the agent ends it.
Interrupt(t) ==
  LET p == live[t] IN
  /\ p # NoProc /\ t \in there /\ proc[p].ask
  /\ proc' = [proc EXCEPT ![p].ask = FALSE]
  /\ asked' = [asked EXCEPT ![t] = @ - 1]
  /\ Shows(t, "working")
  /\ UNCHANGED <<there, table, sends, removing, healed, msg, turns, crowded, bounds>>

\* conv.stop; toTerminal and the sweep of idle processes do the same to one that
\* is not busy.
Stop(t) ==
  /\ live[t] # NoProc /\ t \in there
  /\ Stops(live[t])
  /\ UNCHANGED <<there, sends, removing, healed, books, crowded, bounds>>

\* conv.open, conv.since.
Open(t) ==
  /\ t \in there /\ MustHeal(t) /\ Heals(t)
  /\ msg' = HealedMsg(t) /\ turns' = HealedTurns(t) /\ asked' = HealedAsked(t)
  /\ UNCHANGED <<there, proc, table, sends, removing, shown, crowded, bounds>>

\* removeThread(): the thread and its log are gone, whatever is on its way to them.
Removes(t) ==
  /\ there' = there \ {t} /\ healed' = healed \ {t}
  /\ msg' = [m \in Msgs |-> IF Of(m) = t THEN "none" ELSE msg[m]]
  /\ turns' = [turns EXCEPT ![t] = 0] /\ asked' = [asked EXCEPT ![t] = 0]
  /\ shown' = [shown EXCEPT ![t] = "idle"]

\* conv.remove: a live process is stopped first, one that leaves is waited for.
RemoveThread(t) ==
  /\ t \in there /\ removing[t] = NoProc
  /\ \/ /\ live[t] # NoProc /\ Stops(live[t])
        /\ removing' = [removing EXCEPT ![t] = live[t]]
        /\ UNCHANGED <<there, healed, books>>
     \/ /\ live[t] = NoProc /\ leaving[t] # NoProc
        /\ removing' = [removing EXCEPT ![t] = leaving[t]]
        /\ UNCHANGED <<there, healed, books, proc, table>>
     \/ /\ live[t] = NoProc /\ leaving[t] = NoProc
        /\ Removes(t) /\ UNCHANGED <<removing, proc, table>>
  /\ UNCHANGED <<sends, crowded, bounds>>

RemoveGoesOn(t) ==
  /\ removing[t] # NoProc /\ proc[removing[t]].st = "gone"
  /\ removing' = [removing EXCEPT ![t] = NoProc]
  /\ Removes(t)
  /\ UNCHANGED <<proc, table, sends, crowded, bounds>>

\* The daemon dies, or is told to end and closes the books of its live processes
\* first (closeBooks).  The processes end with their input; the log stays, and the
\* state of every thread is reset when the index is read.
Restart ==
  /\ Fault
  /\ \/ UNCHANGED <<msg, turns, asked>>
     \/ LET open(t) == t \in there /\ live[t] # NoProc IN
        /\ msg' = [m \in Msgs |-> IF open(Of(m)) THEN Failed(live[Of(m)])[m] ELSE msg[m]]
        /\ turns' = [t \in Threads |->
                      turns[t] - IF open(t) /\ proc[live[t]].turn THEN 1 ELSE 0]
        /\ asked' = [t \in Threads |->
                      asked[t] - IF open(t) /\ proc[live[t]].ask THEN 1 ELSE 0]
  /\ proc' = [p \in Procs |-> Unused]
  /\ live' = [t \in Threads |-> NoProc] /\ leaving' = live' /\ removing' = live'
  /\ sends' = [n \in Calls |-> NotSending]
  /\ healed' = {}
  /\ shown' = [t \in Threads |-> "idle"]
  /\ UNCHANGED <<there, crowded, tries>>

-----------------------------------------------------------------------------

Next ==
  \/ \E m \in Msgs : Send(m)
  \/ \E n \in Calls : \/ HasLeft(n) \/ MakeRoom(n) \/ Start(n) \/ Spawned(n)
                      \/ SpawnFails(n)
  \/ \E p \in Procs : \/ Exit(p) \/ Reads(p) \/ Works(p) \/ Asks(p) \/ Withdraws(p)
                      \/ Result(p)
  \/ \E t \in Threads : \/ Respond(t) \/ Interrupt(t) \/ Stop(t) \/ Open(t)
                        \/ RemoveThread(t) \/ RemoveGoesOn(t)
  \/ Restart

\* Waits end; an agent reads what it is sent and ends once its input is closed.
Fairness ==
  /\ \A n \in Calls : /\ WF_vars(HasLeft(n)) /\ WF_vars(MakeRoom(n))
                      /\ WF_vars(Start(n)) /\ WF_vars(Spawned(n))
  /\ \A p \in Procs : WF_vars(Reads(p)) /\ WF_vars(Exit(p) /\ proc[p].st = "stopping")
  /\ \A t \in Threads : WF_vars(RemoveGoesOn(t))

Spec == Init /\ [][Next]_vars /\ Fairness

-----------------------------------------------------------------------------
(* Properties.                                                              *)

Mine(t) == {p \in Procs : proc[p].st # "gone" /\ Th(p) = t}

\* The log of a conversation is never left with something open that nobody will close:
\* with no process behind it, and once this daemon has touched it, it has no turn, no
\* request and no unconfirmed message open, whichever of the process, the send and the
\* daemon ended first (onExit, closeBooks, heal).
BooksClosed ==
  \A t \in there \cap healed : Mine(t) = {} =>
    turns[t] = 0 /\ asked[t] = 0 /\ \A m \in Msgs : Of(m) = t => msg[m] # "queued"

\* In the log a turn starts only after the one before has ended, and ends only if it has
\* started, also for a turn the agent began by itself and across restarts.
TurnsPaired == \A t \in there \ crowded : turns[t] \in {0, 1}

\* Devices are shown what the process of a thread is doing, and rest when it has none.
ShownIsDone ==
  \A t \in there \ crowded :
    /\ Mine(t) = {} => shown[t] = "idle"
    /\ live[t] # NoProc => shown[t] = Doing(proc[live[t]])

\* A message is written to a process only if no process has it and none has confirmed it:
\* a retry with the same clientId never reaches the agent twice unless the first try was
\* recorded as failed, also when both wait for the process together.
NotSentTwice ==
  [][\A m \in Msgs : (\E p \in Procs : ~Has(p, m) /\ Has(p, m)') =>
       msg[m] \in {"none", "failed"} /\ \A p \in Procs : ~Has(p, m)]_vars

\* A message that is queued is confirmed or fails, unless its process waits for an answer
\* or its conversation is never touched after a restart.
Settles ==
  \A m \in Msgs :
    msg[m] = "queued" /\ Of(m) \in healed ~>
      msg[m] # "queued" \/ Of(m) \notin healed \/ \E p \in Mine(Of(m)) : proc[p].does = "waits"

\* As long as no two sends have waited for its process together, a thread has one process
\* or none, also when it is stopped, evicted or removed and sent to again at once.
OneProcessUncrowded == \A t \in there \ crowded : Cardinality(Mine(t)) <= 1
=============================================================================
