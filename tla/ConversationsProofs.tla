------------------------- MODULE ConversationsProofs -------------------------
(***************************************************************************)
(* Theorems about Conversations, for every set of threads and every bound. *)
(*                                                                         *)
(* Every step but a restart changes at most one process (Moves): it talks, *)
(* is stopped, is started or ends.  The log of its thread gains and loses  *)
(* exactly what the process does (Logged), so what the log counts as open  *)
(* is what the processes have open (CountInv).  A message is written to a  *)
(* process only when nobody has it (HolderInv, WaiterInv), and while no    *)
(* two sends wait together, the table names the only process of a thread   *)
(* (AloneInv).  Restarts empty the memory of the daemon; until a thread is *)
(* cleaned up it has neither a process nor a send (UnhealedInv).           *)
(***************************************************************************)
EXTENDS Conversations, FiniteSetTheorems, TLAPS

-----------------------------------------------------------------------------
(* The inductive invariant *)

States == {"up", "stopping", "gone"}
ProcRec == [th : Threads, st : States, does : {"rest", "works", "waits"}, turn : BOOLEAN,
            ask : BOOLEAN, unacked : Seq(Msgs)]
SendRec == [at : {"none", "leaving", "locate", "env", "spawn"}, m : Msgs,
            p : Procs \cup {NoProc}]

\* What is open in the memory of the daemon.
Turning(t) == {p \in Procs : Th(p) = t /\ proc[p].turn}
Asking(t) == {p \in Procs : Th(p) = t /\ proc[p].ask}

\* A process that is gone has left nothing; a request is asked in a turn.
ProcInv ==
  \A p \in Procs : /\ proc[p].st = "gone" => proc[p] = Unused
                   /\ proc[p].ask => proc[p].turn /\ proc[p].does = "waits"

\* The table of processes names processes of the thread, in the state it gives them.
TableInv ==
  \A t \in Threads :
    /\ live[t] # NoProc => proc[live[t]].st = "up" /\ Th(live[t]) = t
    /\ leaving[t] # NoProc => proc[leaving[t]].st = "stopping" /\ Th(leaving[t]) = t

\* A send that waits for a process waits for one of its thread, and alone for its spawn.
SendInv ==
  \A n \in Calls :
    /\ n > tries => sends[n].at = "none"
    /\ sends[n].at = "leaving" => sends[n].p \in Procs
    /\ sends[n].at = "spawn" =>
         /\ sends[n].p \in Procs
         /\ proc[sends[n].p].st # "gone" /\ ~proc[sends[n].p].ask
         /\ Th(sends[n].p) = Of(Msg(n))
         /\ \A k \in Calls : sends[k].at = "spawn" /\ sends[k].p = sends[n].p => k = n

\* One process has a message that is written and not confirmed; the log has it as open.
HolderInv ==
  \A m \in Msgs :
    /\ \A p \in Procs : Has(p, m) => /\ Th(p) = Of(m) /\ proc[p].st # "gone"
                                     /\ Of(m) \in there => Pending(m)
    /\ \A p, q \in Procs : Has(p, m) /\ Has(q, m) => p = q
    /\ Of(m) \in there \cap healed /\ msg[m] = "queued" => \E p \in Procs : Has(p, m)
    /\ Of(m) \notin there => msg[m] = "none"

\* One send waits for a message, which no process has.
WaiterInv ==
  \A n \in Calls : sends[n].at # "none" =>
    /\ \A p \in Procs : ~Has(p, Msg(n))
    /\ ~Pending(Msg(n))
    /\ \A k \in Calls : sends[k].at # "none" /\ Msg(k) = Msg(n) => k = n

\* This daemon has a process or a send only for threads whose log it has cleaned up.
UnhealedInv == \A t \in there \ healed : Mine(t) = {} /\ Waiting(t) = {}

\* The log has open what the daemon knows to be open.
CountInv ==
  \A t \in there \cap healed : /\ turns[t] = Cardinality(Turning(t))
                               /\ asked[t] = Cardinality(Asking(t))

\* While no two sends have waited together a thread has one process: the send that
\* waits will start one only when it has none.
AloneInv ==
  \A t \in there \ crowded :
    /\ Mine(t) \subseteq {live[t], leaving[t]}
    /\ live[t] = NoProc \/ leaving[t] = NoProc
    /\ \A n, k \in Waiting(t) : n = k
    /\ \A n \in Waiting(t) :
         /\ sends[n].at \in {"locate", "env"} => live[t] = NoProc /\ leaving[t] = NoProc
         /\ sends[n].at = "leaving" => live[t] = NoProc /\ leaving[t] \in {NoProc, sends[n].p}

\* An earlier daemon has left no more than one turn open.
LeftPaired == \A t \in there \ (healed \cup crowded) : turns[t] \in {0, 1}

IInv == /\ TypeOK /\ ProcInv /\ TableInv /\ SendInv /\ HolderInv /\ WaiterInv
        /\ UnhealedInv /\ CountInv /\ AloneInv /\ ShownIsDone /\ LeftPaired

-----------------------------------------------------------------------------
(* Types *)

LEMMA Numbers ==
  /\ MaxProcs \in Nat /\ MaxSends \in Nat /\ MaxFaults \in Nat
  /\ Procs = 1..MaxProcs /\ Calls = 1..MaxSends
  /\ NoProc \notin Procs
BY ConversationsAssumption DEF Procs, Calls, NoProc

LEMMA Records ==
  /\ Unused \in ProcRec
  /\ \A t \in Threads : Started(t) \in ProcRec
  /\ NotSending \in SendRec
<1>1. (CHOOSE t \in Threads : TRUE) \in Threads
  BY ConversationsAssumption
<1>2. (CHOOSE m \in Msgs : TRUE) \in Msgs
  <2>1. PICK t \in Threads : TRUE
    BY ConversationsAssumption
  <2>2. <<t, 1>> \in Msgs
    BY <2>1, ConversationsAssumption DEF Msgs
  <2> QED
    BY <2>2
<1>3. <<>> \in Seq(Msgs)
  OBVIOUS
<1> QED
  BY <1>1, <1>2, <1>3 DEF Unused, Started, NotSending, ProcRec, SendRec, States

LEMMA Types ==
  ASSUME TypeOK
  PROVE  /\ proc \in [Procs -> ProcRec]
         /\ live \in [Threads -> Procs \cup {NoProc}]
         /\ leaving \in [Threads -> Procs \cup {NoProc}]
         /\ removing \in [Threads -> Procs \cup {NoProc}]
         /\ sends \in [Calls -> SendRec]
         /\ msg \in [Msgs -> {"none", "queued", "sent", "failed"}]
         /\ turns \in [Threads -> Nat] /\ asked \in [Threads -> Nat]
         /\ shown \in [Threads -> {"idle", "working", "waiting"}]
         /\ there \subseteq Threads /\ healed \subseteq Threads /\ crowded \subseteq Threads
         /\ tries \in 0..MaxSends /\ faults \in 0..MaxFaults
BY DEF TypeOK, ProcRec, SendRec, States

\* What is written to a process is added at the end; it reads at the head.
LEMMA Written ==
  ASSUME NEW s \in Seq(Msgs), NEW m \in Msgs, NEW x
  PROVE  /\ Append(s, m) \in Seq(Msgs)
         /\ (\E i \in DOMAIN Append(s, m) : Append(s, m)[i] = x)
              <=> (\E i \in DOMAIN s : s[i] = x) \/ x = m
<1>1. /\ Append(s, m) \in Seq(Msgs) /\ Len(Append(s, m)) = Len(s) + 1
      /\ \A i \in 1..Len(s) : Append(s, m)[i] = s[i]
      /\ Append(s, m)[Len(s) + 1] = m
  OBVIOUS
<1>2. DOMAIN s = 1..Len(s) /\ DOMAIN Append(s, m) = 1..(Len(s) + 1) /\ Len(s) \in Nat
  BY <1>1
<1> QED
  BY <1>1, <1>2

LEMMA Read ==
  ASSUME NEW s \in Seq(Msgs), s # <<>>, NEW x
  PROVE  /\ Tail(s) \in Seq(Msgs) /\ Head(s) \in Msgs
         /\ \E i \in DOMAIN s : s[i] = Head(s)
         /\ (\E i \in DOMAIN Tail(s) : Tail(s)[i] = x) => (\E i \in DOMAIN s : s[i] = x)
         /\ (\E i \in DOMAIN s : s[i] = x)
              => (\E i \in DOMAIN Tail(s) : Tail(s)[i] = x) \/ x = Head(s)
<1>1. /\ Tail(s) \in Seq(Msgs) /\ Len(Tail(s)) = Len(s) - 1 /\ Len(s) \in Nat \ {0}
      /\ \A i \in 1..(Len(s) - 1) : Tail(s)[i] = s[i + 1]
      /\ Head(s) = s[1] /\ Head(s) \in Msgs
  OBVIOUS
<1>2. DOMAIN s = 1..Len(s) /\ DOMAIN Tail(s) = 1..(Len(s) - 1)
  BY <1>1
<1>3. ASSUME NEW i \in DOMAIN Tail(s), Tail(s)[i] = x
      PROVE  \E j \in DOMAIN s : s[j] = x
  <2>1. i + 1 \in DOMAIN s /\ s[i + 1] = x
    BY <1>1, <1>2, <1>3
  <2> QED
    BY <2>1
<1>4. ASSUME NEW i \in DOMAIN s, s[i] = x, x # Head(s)
      PROVE  \E j \in DOMAIN Tail(s) : Tail(s)[j] = x
  <2>1. i - 1 \in DOMAIN Tail(s) /\ Tail(s)[i - 1] = x
    BY <1>1, <1>2, <1>4
  <2> QED
    BY <2>1
<1> QED
  BY <1>1, <1>2, <1>3, <1>4

-----------------------------------------------------------------------------
(* The moves of a process.  Every step but a restart of the daemon leaves   *)
(* all processes as they are or changes one, p, to r, and then the log      *)
(* gains and loses exactly what p does.                                     *)

\* What is open more when old becomes new.
Gain(old, new) == IF new THEN IF old THEN 0 ELSE 1 ELSE IF old THEN -1 ELSE 0

Logged(p, r) ==
  /\ there' = there /\ healed' = healed
  /\ turns' \in [Threads -> Int] /\ asked' \in [Threads -> Int]
  /\ \A t \in Threads :
       /\ turns'[t] = IF t \in there /\ t = Th(p) THEN turns[t] + Gain(proc[p].turn, r.turn)
                                                  ELSE turns[t]
       /\ asked'[t] = IF t \in there /\ t = Th(p) THEN asked[t] + Gain(proc[p].ask, r.ask)
                                                  ELSE asked[t]

\* It goes on, in its state, for its thread.
Talks(p, r) ==
  /\ proc[p].st # "gone" /\ r.st = proc[p].st /\ r.th = Th(p)
  /\ r.ask => r.turn /\ r.does = "waits" /\ (proc[p].ask \/ ~Spawning(p))
  /\ live' = live /\ leaving' = leaving

\* It is stopped.
Halts(p, r) ==
  /\ proc[p].st = "up" /\ live[Th(p)] = p
  /\ r = [proc[p] EXCEPT !.st = "stopping"]
  /\ live' = [live EXCEPT ![Th(p)] = NoProc] /\ leaving' = [leaving EXCEPT ![Th(p)] = p]

\* It is started.
Begun(p, r) ==
  /\ p \in Free
  /\ \E n \in Calls : /\ sends[n].at = "env" /\ At(n, "spawn", p)
                      /\ r = Started(Of(Msg(n)))
                      /\ live' = [live EXCEPT ![Of(Msg(n))] = p] /\ leaving' = leaving
  /\ UNCHANGED <<msg, shown, crowded, tries>>

\* It ends, and with it the send that waits for its spawn.
Ended(p, r) ==
  /\ proc[p].st # "gone" /\ r = Unused
  /\ \A n \in Calls : sends[n].at = "spawn" /\ sends[n].p = p => sends'[n].at = "none"
  /\ \A t \in Threads : /\ live'[t] = IF live[t] = p THEN NoProc ELSE live[t]
                        /\ leaving'[t] = IF leaving[t] = p THEN NoProc ELSE leaving[t]
  /\ live' \in [Threads -> Procs \cup {NoProc}] /\ leaving' \in [Threads -> Procs \cup {NoProc}]

Moves(p, r) ==
  /\ r \in ProcRec /\ proc' = [proc EXCEPT ![p] = r]
  /\ Logged(p, r)
  /\ Talks(p, r) \/ Halts(p, r) \/ Begun(p, r) \/ Ended(p, r)

Rests == UNCHANGED <<proc, live, leaving>>

LEMMA OfMsgs == \A m \in Msgs : Of(m) \in Threads
BY DEF Of, Msgs

LEMMA TableTypes ==
  ASSUME TypeOK, NEW p \in Procs
  PROVE  /\ proc \in [Procs -> ProcRec] /\ proc[p] \in ProcRec /\ Th(p) \in Threads
         /\ turns \in [Threads -> Int] /\ asked \in [Threads -> Int]
         /\ turns = [turns EXCEPT ![Th(p)] = turns[Th(p)]]
         /\ asked = [asked EXCEPT ![Th(p)] = asked[Th(p)]]
         /\ turns[Th(p)] \in Int /\ asked[Th(p)] \in Int
<1>1. proc \in [Procs -> ProcRec] /\ turns \in [Threads -> Nat] /\ asked \in [Threads -> Nat]
  BY Types
<1>2. proc[p] \in ProcRec /\ Th(p) \in Threads
  BY <1>1 DEF Th, ProcRec
<1> QED
  BY <1>1, <1>2

LEMMA Gains ==
  \A old, new : /\ Gain(old, new) \in Int
                /\ old /\ new => Gain(old, new) = 0
                /\ ~old /\ ~new => Gain(old, new) = 0
                /\ old /\ ~new => Gain(old, new) = -1
                /\ ~old /\ new => Gain(old, new) = 1
<1>1. 0 \in Int /\ 1 \in Int /\ -1 \in Int
  OBVIOUS
<1> QED
  BY <1>1, Zenon DEF Gain

LEMMA Sums ==
  /\ \A x \in Int : x + 0 = x /\ x - 0 = x /\ x - 1 = x + (-1)
  /\ \A x, a \in Int : x + a \in Int
OBVIOUS

\* The log of the thread of p has v turns and w requests open after the step.
LEMMA LogsOf ==
  ASSUME TypeOK, NEW p \in Procs, NEW r \in ProcRec, UNCHANGED <<there, healed>>,
         NEW v \in Int, NEW w \in Int,
         turns' = [turns EXCEPT ![Th(p)] = v], asked' = [asked EXCEPT ![Th(p)] = w],
         Th(p) \in there => /\ v = turns[Th(p)] + Gain(proc[p].turn, r.turn)
                            /\ w = asked[Th(p)] + Gain(proc[p].ask, r.ask),
         Th(p) \notin there => v = turns[Th(p)] /\ w = asked[Th(p)]
  PROVE  Logged(p, r)
<1>1. Th(p) \in Threads /\ turns \in [Threads -> Int] /\ asked \in [Threads -> Int]
  BY TableTypes
<1>2. turns' \in [Threads -> Int] /\ asked' \in [Threads -> Int]
  BY <1>1
<1>3. \A t \in Threads : /\ turns'[t] = IF t = Th(p) THEN v ELSE turns[t]
                         /\ asked'[t] = IF t = Th(p) THEN w ELSE asked[t]
  BY <1>1
<1>4. ASSUME NEW t \in Threads
      PROVE  /\ turns'[t] = IF t \in there /\ t = Th(p)
                            THEN turns[t] + Gain(proc[p].turn, r.turn) ELSE turns[t]
             /\ asked'[t] = IF t \in there /\ t = Th(p)
                            THEN asked[t] + Gain(proc[p].ask, r.ask) ELSE asked[t]
  BY <1>3, Zenon
<1>5. there' = there /\ healed' = healed
  OBVIOUS
<1> QED
  BY <1>2, <1>4, <1>5, Zenon DEF Logged

\* beginTurn in a step that opens the turn of p.
LEMMA BeginsLogs ==
  ASSUME TypeOK, NEW p \in Procs, NEW r \in ProcRec, Begins(p), r.turn, r.ask = proc[p].ask,
         UNCHANGED <<there, healed, asked>>
  PROVE  Logged(p, r)
<1> DEFINE v == IF Th(p) \in there THEN turns[Th(p)] + Opens(p) ELSE turns[Th(p)]
<1>0. /\ turns = [turns EXCEPT ![Th(p)] = turns[Th(p)]]
      /\ asked = [asked EXCEPT ![Th(p)] = asked[Th(p)]]
      /\ turns[Th(p)] \in Int /\ asked[Th(p)] \in Int
  BY TableTypes
<1>1. Opens(p) = Gain(proc[p].turn, r.turn) /\ Opens(p) \in Int /\ Gain(proc[p].ask, r.ask) = 0
  BY Gains, Zenon DEF Opens
<1>2. v \in Int
  BY <1>0, <1>1, Sums, Zenon
<1>3. Th(p) \in there => /\ v = turns[Th(p)] + Gain(proc[p].turn, r.turn)
                         /\ asked[Th(p)] = asked[Th(p)] + Gain(proc[p].ask, r.ask)
  BY <1>0, <1>1, Sums, Zenon
<1>4. turns' = [turns EXCEPT ![Th(p)] = v]
  BY <1>0 DEF Begins, Logs
<1>5. asked' = [asked EXCEPT ![Th(p)] = asked[Th(p)]]
  BY <1>0
<1>6. UNCHANGED <<there, healed>>
  OBVIOUS
<1>7. Th(p) \notin there => v = turns[Th(p)]
  OBVIOUS
<1> HIDE DEF v
<1> QED
  BY <1>0, <1>2, <1>3, <1>4, <1>5, <1>6, <1>7, LogsOf

LEMMA DeliverMoves ==
  ASSUME TypeOK, ProcInv, NEW m \in Msgs, NEW p \in Procs, proc[p].st # "gone", Deliver(m, p),
         UNCHANGED <<there, live, leaving, healed, asked>>
  PROVE  \E r \in ProcRec : Moves(p, r) /\ Talks(p, r)
<1> DEFINE u == IF proc[p].st # "stopping" THEN Append(proc[p].unacked, m) ELSE proc[p].unacked
           r == [proc[p] EXCEPT !.turn = TRUE, !.unacked = u]
<1>1. proc \in [Procs -> ProcRec]
  BY Types
<1>2. u \in Seq(Msgs)
  BY <1>1, Written DEF ProcRec
<1>3. /\ r \in ProcRec /\ r.turn /\ r.ask = proc[p].ask /\ r.st = proc[p].st /\ r.th = Th(p)
      /\ r.does = proc[p].does
  BY <1>1, <1>2 DEF ProcRec, Th
<1>4. proc' = [proc EXCEPT ![p] = r]
  BY <1>1 DEF Deliver
<1>5. Logged(p, r)
  BY <1>3, BeginsLogs DEF Deliver
<1>6. Talks(p, r)
  BY <1>3 DEF Talks, ProcInv
<1> QED
  BY <1>3, <1>4, <1>5, <1>6 DEF Moves

\* A step that leaves what is open in the log and in memory.
LEMMA SameLogs ==
  ASSUME TypeOK, NEW p \in Procs, NEW r \in ProcRec, UNCHANGED <<there, healed, turns, asked>>,
         r.turn = proc[p].turn, r.ask = proc[p].ask
  PROVE  Logged(p, r)
<1>0. /\ turns' = [turns EXCEPT ![Th(p)] = turns[Th(p)]]
      /\ asked' = [asked EXCEPT ![Th(p)] = asked[Th(p)]]
      /\ turns[Th(p)] \in Int /\ asked[Th(p)] \in Int
  BY TableTypes
<1>1. /\ turns[Th(p)] = turns[Th(p)] + Gain(proc[p].turn, r.turn)
      /\ asked[Th(p)] = asked[Th(p)] + Gain(proc[p].ask, r.ask)
  <2>1. Gain(proc[p].turn, r.turn) = 0 /\ Gain(proc[p].ask, r.ask) = 0
    BY Gains, Zenon
  <2> QED
    BY <1>0, <2>1, Sums, Zenon
<1>2. UNCHANGED <<there, healed>>
  OBVIOUS
<1> DEFINE v == turns[Th(p)]
           w == asked[Th(p)]
<1>3. /\ v \in Int /\ w \in Int
      /\ turns' = [turns EXCEPT ![Th(p)] = v] /\ asked' = [asked EXCEPT ![Th(p)] = w]
      /\ Th(p) \in there => /\ v = turns[Th(p)] + Gain(proc[p].turn, r.turn)
                            /\ w = asked[Th(p)] + Gain(proc[p].ask, r.ask)
      /\ Th(p) \notin there => v = turns[Th(p)] /\ w = asked[Th(p)]
  BY <1>0, <1>1, Zenon
<1> HIDE DEF v, w
<1> QED
  BY <1>2, <1>3, LogsOf

LEMMA ReadsMoves ==
  ASSUME TypeOK, ProcInv, NEW p \in Procs, Reads(p)
  PROVE  \E r \in ProcRec : Moves(p, r) /\ Talks(p, r)
<1> DEFINE r == [proc[p] EXCEPT !.does = "works", !.turn = TRUE, !.unacked = Tail(@)]
<1>1. proc \in [Procs -> ProcRec] /\ proc[p] \in ProcRec
  BY TableTypes
<1>2. Tail(proc[p].unacked) \in Seq(Msgs)
  BY <1>1, Read DEF ProcRec, Reads
<1>3. r \in ProcRec /\ r.turn /\ r.ask = proc[p].ask /\ r.st = proc[p].st /\ r.th = Th(p)
  BY <1>1, <1>2 DEF ProcRec, Th
<1>4. proc' = [proc EXCEPT ![p] = r] /\ proc[p].st # "gone" /\ live' = live /\ leaving' = leaving
  BY <1>1 DEF Reads, Hears, Emits, table
<1>5. Logged(p, r)
  BY <1>3, BeginsLogs DEF Reads
<1>6. Talks(p, r)
  BY <1>3, <1>4 DEF Talks, ProcInv, Reads
<1> QED
  BY <1>3, <1>4, <1>5, <1>6 DEF Moves

LEMMA WorksMoves ==
  ASSUME TypeOK, ProcInv, NEW p \in Procs, Works(p)
  PROVE  \E r \in ProcRec : Moves(p, r) /\ Talks(p, r)
<1>1. proc \in [Procs -> ProcRec] /\ proc[p] \in ProcRec
  BY TableTypes
<1>2. /\ proc[p].st # "gone" /\ live' = live /\ leaving' = leaving
      /\ UNCHANGED <<there, healed, asked>>
  BY DEF Works, Hears, Emits, table
<1>3. CASE Begins(p) /\ proc' = [proc EXCEPT ![p].does = "works", ![p].turn = TRUE]
  <2> DEFINE r == [proc[p] EXCEPT !.does = "works", !.turn = TRUE]
  <2>1. r \in ProcRec /\ r.turn /\ r.ask = proc[p].ask /\ r.st = proc[p].st /\ r.th = Th(p)
    BY <1>1 DEF ProcRec, Th
  <2>2. proc' = [proc EXCEPT ![p] = r]
    BY <1>1, <1>3
  <2>3. Logged(p, r)
    BY <1>2, <1>3, <2>1, BeginsLogs
  <2>4. Talks(p, r)
    BY <1>2, <2>1 DEF Talks, ProcInv, Works
  <2> QED
    BY <2>1, <2>2, <2>3, <2>4 DEF Moves
<1>4. CASE proc' = Does(p, "works") /\ UNCHANGED <<turns, shown>>
  <2> DEFINE r == [proc[p] EXCEPT !.does = "works"]
  <2>1. /\ r \in ProcRec /\ r.turn = proc[p].turn /\ r.ask = proc[p].ask /\ r.st = proc[p].st
        /\ r.th = Th(p)
    BY <1>1 DEF ProcRec, Th
  <2>2. proc' = [proc EXCEPT ![p] = r]
    BY <1>1, <1>4 DEF Does
  <2>3. Logged(p, r)
    BY <1>2, <1>4, <2>1, SameLogs
  <2>4. Talks(p, r)
    BY <1>2, <2>1 DEF Talks, ProcInv, Works
  <2> QED
    BY <2>1, <2>2, <2>3, <2>4 DEF Moves
<1> QED
  BY <1>3, <1>4 DEF Works

LEMMA AsksMoves ==
  ASSUME TypeOK, ProcInv, NEW p \in Procs, Asks(p)
  PROVE  \E r \in ProcRec : Moves(p, r) /\ Talks(p, r)
<1> DEFINE r == [proc[p] EXCEPT !.does = "waits", !.turn = TRUE, !.ask = TRUE]
<1>1. /\ proc \in [Procs -> ProcRec] /\ proc[p] \in ProcRec
      /\ turns[Th(p)] \in Int /\ asked[Th(p)] \in Int
  BY TableTypes
<1>2. r \in ProcRec /\ r.turn /\ r.ask /\ r.st = proc[p].st /\ r.th = Th(p)
  BY <1>1 DEF ProcRec, Th
<1>3. /\ proc' = [proc EXCEPT ![p] = r] /\ proc[p].st # "gone" /\ ~Spawning(p)
      /\ live' = live /\ leaving' = leaving /\ UNCHANGED <<there, healed>>
      /\ Th(p) \in there
  BY <1>1 DEF Asks, Hears, Emits, table
<1>4. Logged(p, r)
  <2> DEFINE v == turns[Th(p)] + Opens(p)
             w == asked[Th(p)] + 1
  <2>1. turns' = [turns EXCEPT ![Th(p)] = v] /\ asked' = [asked EXCEPT ![Th(p)] = w]
    BY Zenon DEF Asks
  <2>2. proc[p].ask = FALSE
    BY <1>1 DEF Asks, ProcRec, ProcInv
  <2>3. Opens(p) = Gain(proc[p].turn, r.turn) /\ Opens(p) \in Int
    BY <1>2, Gains, Zenon DEF Opens
  <2>4. Gain(proc[p].ask, r.ask) = 1 /\ 1 \in Int
    BY <1>2, <2>2, Gains
  <2>5. /\ v \in Int /\ w \in Int
        /\ v = turns[Th(p)] + Gain(proc[p].turn, r.turn)
        /\ w = asked[Th(p)] + Gain(proc[p].ask, r.ask)
    BY <1>1, <2>3, <2>4, Sums, Zenon
  <2> HIDE DEF v, w, r
  <2> QED
    BY <1>2, <1>3, <2>1, <2>5, LogsOf
<1>5. Talks(p, r)
  BY <1>2, <1>3 DEF Talks
<1> QED
  BY <1>2, <1>3, <1>4, <1>5 DEF Moves

\* The request of p is gone, in the log too.
LEMMA AnsweredLogs ==
  ASSUME TypeOK, NEW p \in Procs, NEW r \in ProcRec, UNCHANGED <<there, healed, turns>>,
         proc[p].ask, ~r.ask, r.turn = proc[p].turn,
         Th(p) \in there, asked' = [asked EXCEPT ![Th(p)] = @ - 1]
  PROVE  Logged(p, r)
<1> DEFINE v == turns[Th(p)]
           w == asked[Th(p)] - 1
<1>0. /\ turns' = [turns EXCEPT ![Th(p)] = turns[Th(p)]]
      /\ turns[Th(p)] \in Int /\ asked[Th(p)] \in Int
  BY TableTypes
<1>1. Gain(proc[p].turn, r.turn) = 0 /\ Gain(proc[p].ask, r.ask) = -1
  BY Gains, Zenon
<1>2. v = turns[Th(p)] + Gain(proc[p].turn, r.turn)
  BY <1>0, <1>1, Sums, Zenon
<1>3. w = asked[Th(p)] + Gain(proc[p].ask, r.ask)
  BY <1>0, <1>1, Sums, Zenon
<1>4. v \in Int /\ w \in Int
  BY <1>0
<1>5. /\ UNCHANGED <<there, healed>> /\ turns' = [turns EXCEPT ![Th(p)] = v]
      /\ asked' = [asked EXCEPT ![Th(p)] = w]
  BY <1>0
<1> HIDE DEF v, w
<1> QED
  BY <1>2, <1>3, <1>4, <1>5, LogsOf

\* What p has open is closed in the log with p.
LEMMA ClosedLogs ==
  ASSUME TypeOK, NEW p \in Procs, NEW r \in ProcRec, UNCHANGED <<there, healed>>,
         ~r.turn, ~r.ask, Th(p) \in there,
         turns' = [turns EXCEPT ![Th(p)] = @ - (IF proc[p].turn THEN 1 ELSE 0)],
         asked' = [asked EXCEPT ![Th(p)] = @ - (IF proc[p].ask THEN 1 ELSE 0)]
  PROVE  Logged(p, r)
<1> DEFINE v == turns[Th(p)] - (IF proc[p].turn THEN 1 ELSE 0)
           w == asked[Th(p)] - (IF proc[p].ask THEN 1 ELSE 0)
<1>0. turns[Th(p)] \in Int /\ asked[Th(p)] \in Int
  BY TableTypes
<1>1. v \in Int /\ w \in Int
  BY <1>0
<1>2. v = turns[Th(p)] + Gain(proc[p].turn, r.turn)
  BY <1>0, Sums, Zenon DEF Gain
<1>3. w = asked[Th(p)] + Gain(proc[p].ask, r.ask)
  BY <1>0, Sums, Zenon DEF Gain
<1>4. /\ UNCHANGED <<there, healed>> /\ turns' = [turns EXCEPT ![Th(p)] = v]
      /\ asked' = [asked EXCEPT ![Th(p)] = w]
  BY Zenon
<1>5. /\ Th(p) \in there => /\ v = turns[Th(p)] + Gain(proc[p].turn, r.turn)
                             /\ w = asked[Th(p)] + Gain(proc[p].ask, r.ask)
      /\ Th(p) \notin there => v = turns[Th(p)] /\ w = asked[Th(p)]
  BY <1>2, <1>3, Zenon
<1> HIDE DEF v, w
<1> QED
  BY <1>1, <1>4, <1>5, LogsOf, ZenonT(60)

LEMMA WithdrawsMoves ==
  ASSUME TypeOK, ProcInv, NEW p \in Procs, Withdraws(p)
  PROVE  \E r \in ProcRec : Moves(p, r) /\ Talks(p, r)
<1> DEFINE r == [proc[p] EXCEPT !.does = "works", !.ask = FALSE]
<1>1. proc \in [Procs -> ProcRec] /\ proc[p] \in ProcRec
  BY TableTypes
<1>2. r \in ProcRec /\ r.turn = proc[p].turn /\ ~r.ask /\ r.st = proc[p].st /\ r.th = Th(p)
  BY <1>1 DEF ProcRec, Th
<1>3. /\ proc' = [proc EXCEPT ![p] = r] /\ proc[p].st # "gone"
      /\ live' = live /\ leaving' = leaving /\ UNCHANGED <<there, healed, turns>>
      /\ Th(p) \in there
  BY <1>1 DEF Withdraws, Hears, Emits, table
<1>4. Talks(p, r)
  BY <1>2, <1>3 DEF Talks
<1>5. asked' = [asked EXCEPT ![Th(p)] = @ - (IF proc[p].ask THEN 1 ELSE 0)]
  BY DEF Withdraws
<1>6. Logged(p, r)
  <2>1. CASE proc[p].ask
    <3>1. asked' = [asked EXCEPT ![Th(p)] = @ - 1]
      BY <1>5, <2>1, Zenon
    <3> HIDE DEF r
    <3> QED
      BY <1>2, <1>3, <2>1, <3>1, AnsweredLogs
  <2>2. CASE ~proc[p].ask
    <3>1. asked[Th(p)] \in Int /\ asked = [asked EXCEPT ![Th(p)] = asked[Th(p)]]
      BY TableTypes
    <3>2. asked[Th(p)] - (IF proc[p].ask THEN 1 ELSE 0) = asked[Th(p)]
      BY <2>2, <3>1, Sums, Zenon
    <3>3. asked' = asked
      BY <1>5, <3>1, <3>2, Zenon
    <3>4. proc[p].ask = FALSE /\ r.ask = FALSE
      BY <1>1, <1>2, <2>2 DEF ProcRec
    <3> HIDE DEF r
    <3> QED
      BY <1>2, <1>3, <3>3, <3>4, SameLogs
  <2> QED
    BY <2>1, <2>2
<1> QED
  BY <1>2, <1>3, <1>4, <1>6 DEF Moves

LEMMA ResultMoves ==
  ASSUME TypeOK, ProcInv, NEW p \in Procs, Result(p)
  PROVE  \E r \in ProcRec : Moves(p, r) /\ Talks(p, r)
<1> DEFINE r == [proc[p] EXCEPT !.does = "rest", !.turn = FALSE, !.ask = FALSE]
<1>1. /\ proc \in [Procs -> ProcRec] /\ proc[p] \in ProcRec
      /\ turns[Th(p)] \in Int /\ asked[Th(p)] \in Int
  BY TableTypes
<1>2. r \in ProcRec /\ ~r.turn /\ ~r.ask /\ r.st = proc[p].st /\ r.th = Th(p)
  BY <1>1 DEF ProcRec, Th
<1>3. /\ proc' = [proc EXCEPT ![p] = r] /\ proc[p].st # "gone"
      /\ live' = live /\ leaving' = leaving /\ UNCHANGED <<there, healed>>
      /\ Th(p) \in there
  BY <1>1 DEF Result, Hears, Emits, table
<1>4. Talks(p, r)
  BY <1>2, <1>3 DEF Talks
<1>5. turns[Th(p)] + Opens(p) - 1 = turns[Th(p)] - (IF proc[p].turn THEN 1 ELSE 0)
  <2>1. \A x \in Int : x + 1 - 1 = x - 0 /\ x + 0 - 1 = x - 1
    OBVIOUS
  <2> QED
    BY <1>1, <2>1, Zenon DEF Opens
<1>6. /\ turns' = [turns EXCEPT ![Th(p)] = @ - (IF proc[p].turn THEN 1 ELSE 0)]
      /\ asked' = [asked EXCEPT ![Th(p)] = @ - (IF proc[p].ask THEN 1 ELSE 0)]
  BY <1>5, Zenon DEF Result
<1>7. Logged(p, r)
  <2> HIDE DEF r
  <2> QED
    BY <1>2, <1>3, <1>6, ClosedLogs
<1> QED
  BY <1>2, <1>3, <1>4, <1>7 DEF Moves

LEMMA AnswersMove ==
  ASSUME TypeOK, ProcInv, TableInv, NEW t \in Threads, Respond(t) \/ Interrupt(t)
  PROVE  /\ live[t] \in Procs /\ Th(live[t]) = t
         /\ \E r \in ProcRec : Moves(live[t], r) /\ Talks(live[t], r)
<1> DEFINE p == live[t]
           r == IF Respond(t) THEN [proc[p] EXCEPT !.ask = FALSE, !.does = "works"]
                              ELSE [proc[p] EXCEPT !.ask = FALSE]
<1>1. p \in Procs /\ p # NoProc /\ t \in there /\ proc[p].ask
  BY Types DEF Respond, Interrupt
<1>2. proc \in [Procs -> ProcRec] /\ proc[p] \in ProcRec /\ Th(p) = t /\ proc[p].st # "gone"
  BY <1>1, TableTypes DEF TableInv
<1>3. r \in ProcRec /\ r.turn = proc[p].turn /\ ~r.ask /\ r.st = proc[p].st /\ r.th = Th(p)
  BY <1>2 DEF ProcRec, Th
<1>4. /\ proc' = [proc EXCEPT ![p] = r] /\ live' = live /\ leaving' = leaving
      /\ UNCHANGED <<there, healed, turns>> /\ asked' = [asked EXCEPT ![Th(p)] = @ - 1]
  BY <1>2 DEF Respond, Interrupt, table
<1>5. Talks(p, r)
  BY <1>2, <1>3, <1>4 DEF Talks
<1>6. Logged(p, r)
  <2> HIDE DEF r, p
  <2> QED
    BY <1>1, <1>2, <1>3, <1>4, AnsweredLogs
<1>7. p = live[t]
  OBVIOUS
<1> HIDE DEF r, p
<1> QED
  BY <1>1, <1>2, <1>3, <1>4, <1>5, <1>6, <1>7 DEF Moves

LEMMA StopsMoves ==
  ASSUME TypeOK, ProcInv, TableInv, NEW p \in Procs, p = live[Th(p)], Stops(p),
         UNCHANGED <<there, healed, turns, asked>>
  PROVE  \E r \in ProcRec : Moves(p, r) /\ Halts(p, r)
<1> DEFINE r == [proc[p] EXCEPT !.st = "stopping"]
<1>1. proc \in [Procs -> ProcRec] /\ proc[p] \in ProcRec /\ Th(p) \in Threads
  BY TableTypes
<1>2. r \in ProcRec /\ r.turn = proc[p].turn /\ r.ask = proc[p].ask
  BY <1>1 DEF ProcRec, States
<1>3. proc' = [proc EXCEPT ![p] = r]
  BY <1>1 DEF Stops
<1>4. proc[p].st = "up"
  BY <1>1, Numbers DEF TableInv
<1>5. Halts(p, r)
  BY <1>4 DEF Halts, Stops
<1>6. Logged(p, r)
  <2> HIDE DEF r
  <2> QED
    BY <1>2, SameLogs
<1> QED
  BY <1>2, <1>3, <1>5, <1>6 DEF Moves

LEMMA StartMoves ==
  ASSUME TypeOK, ProcInv, NEW n \in Calls, Start(n)
  PROVE  \E p \in Procs, r \in ProcRec : Moves(p, r) /\ Begun(p, r)
<1>0. Of(Msg(n)) \in Threads
  BY Types, OfMsgs DEF Msg, SendRec
<1>1. PICK p \in Free : /\ proc' = [proc EXCEPT ![p] = Started(Of(Msg(n)))]
                        /\ live' = [live EXCEPT ![Of(Msg(n))] = p]
                        /\ At(n, "spawn", p)
  BY Zenon DEF Start
<1> DEFINE r == Started(Of(Msg(n)))
<1>2. r \in ProcRec
  BY <1>0, Records
<1>3. p \in Procs /\ proc[p].st = "gone"
  BY DEF Free
<1>4. proc[p] = Unused
  BY <1>3 DEF ProcInv
<1>5. r.turn = proc[p].turn /\ r.ask = proc[p].ask
  BY <1>4 DEF Started, Unused
<1>6. UNCHANGED <<there, healed, turns, asked, leaving, msg, shown, crowded, tries>>
  BY DEF Start, books, bounds
<1>7. Begun(p, r)
  BY <1>1, <1>6 DEF Begun, Start
<1>8. Logged(p, r)
  <2> HIDE DEF r
  <2> QED
    BY <1>2, <1>3, <1>5, <1>6, SameLogs
<1> QED
  BY <1>1, <1>2, <1>3, <1>7, <1>8 DEF Moves

\* The table forgets a process that ends.
LEMMA TableForgets ==
  ASSUME TypeOK, TableInv, NEW p \in Procs,
         live' = [live EXCEPT ![Th(p)] = IF @ = p THEN NoProc ELSE @],
         leaving' = [leaving EXCEPT ![Th(p)] = IF @ = p THEN NoProc ELSE @]
  PROVE  /\ \A t \in Threads : /\ live'[t] = IF live[t] = p THEN NoProc ELSE live[t]
                               /\ leaving'[t] = IF leaving[t] = p THEN NoProc ELSE leaving[t]
         /\ live' \in [Threads -> Procs \cup {NoProc}]
         /\ leaving' \in [Threads -> Procs \cup {NoProc}]
<1>1. /\ live \in [Threads -> Procs \cup {NoProc}] /\ leaving \in [Threads -> Procs \cup {NoProc}]
      /\ Th(p) \in Threads
  BY Types, TableTypes
<1>2. \A t \in Threads : (live[t] = p => t = Th(p)) /\ (leaving[t] = p => t = Th(p))
  BY Numbers DEF TableInv
<1> QED
  BY <1>1, <1>2

LEMMA ExitMoves ==
  ASSUME TypeOK, ProcInv, TableInv, NEW p \in Procs, Exit(p)
  PROVE  Moves(p, Unused) /\ Ended(p, Unused)
<1>1. Unused \in ProcRec /\ ~Unused.turn /\ ~Unused.ask
  BY Records DEF Unused
<1>2. /\ proc' = [proc EXCEPT ![p] = Unused] /\ UNCHANGED <<there, healed>> /\ proc[p].st # "gone"
      /\ live' = [live EXCEPT ![Th(p)] = IF @ = p THEN NoProc ELSE @]
      /\ leaving' = [leaving EXCEPT ![Th(p)] = IF @ = p THEN NoProc ELSE @]
  BY DEF Exit, Exits
<1>3. Ended(p, Unused)
  <2>1. ~Spawning(p)
    BY DEF Exit
  <2> QED
    BY <1>2, <2>1, TableForgets DEF Ended, Spawning
<1>4. Logged(p, Unused)
  <2>1. CASE Th(p) \in there
    <3>1. /\ turns' = [turns EXCEPT ![Th(p)] = @ - (IF proc[p].turn THEN 1 ELSE 0)]
          /\ asked' = [asked EXCEPT ![Th(p)] = @ - (IF proc[p].ask THEN 1 ELSE 0)]
      BY <2>1, Zenon DEF Exit, Exits
    <3> QED
      BY <1>1, <1>2, <2>1, <3>1, ClosedLogs
  <2>2. CASE Th(p) \notin there
    <3>1. turns' = turns /\ asked' = asked
      BY <2>2 DEF Exit, Exits, books
    <3> DEFINE v == turns[Th(p)]
               w == asked[Th(p)]
    <3>2. /\ v \in Int /\ w \in Int
          /\ turns' = [turns EXCEPT ![Th(p)] = v] /\ asked' = [asked EXCEPT ![Th(p)] = w]
          /\ v = turns[Th(p)] /\ w = asked[Th(p)]
      BY <3>1, TableTypes
    <3> HIDE DEF v, w
    <3> QED
      BY <1>1, <1>2, <2>2, <3>2, LogsOf
  <2> QED
    BY <2>1, <2>2
<1> QED
  BY <1>1, <1>2, <1>3, <1>4 DEF Moves

LEMMA SpawnFailsMoves ==
  ASSUME TypeOK, ProcInv, TableInv, SendInv, NEW n \in Calls, SpawnFails(n)
  PROVE  /\ sends[n].p \in Procs /\ Th(sends[n].p) = Of(Msg(n)) /\ proc[sends[n].p].st # "gone"
         /\ Moves(sends[n].p, Unused) /\ Ended(sends[n].p, Unused)
<1> DEFINE p == sends[n].p
<1>0. /\ p \in Procs /\ proc[p].st # "gone" /\ ~proc[p].ask /\ Th(p) = Of(Msg(n))
  BY DEF SpawnFails, SendInv
<1>1. Unused \in ProcRec /\ ~Unused.turn /\ ~Unused.ask
  BY Records DEF Unused
<1>2. /\ proc' = [proc EXCEPT ![p] = Unused] /\ UNCHANGED <<there, healed, asked>>
      /\ live' = [live EXCEPT ![Th(p)] = IF @ = p THEN NoProc ELSE @]
      /\ leaving' = [leaving EXCEPT ![Th(p)] = IF @ = p THEN NoProc ELSE @]
      /\ turns' = Logs(Th(p), [turns EXCEPT ![Th(p)] = @ - (IF proc[p].turn THEN 1 ELSE 0)],
                       turns)
  BY <1>0, Zenon DEF SpawnFails
<1>5. sends[n].at = "spawn" /\ sends[n].p = p
  BY DEF SpawnFails
<1> HIDE DEF p
<1>3. Ended(p, Unused)
  <2>1. ASSUME NEW k \in Calls, sends[k].at = "spawn", sends[k].p = p
        PROVE  sends'[k].at = "none"
    <3>1. k = n
      BY <1>5, <2>1 DEF SendInv
    <3>2. sends' = [sends EXCEPT ![n] = NotSending] /\ sends \in [Calls -> SendRec]
      BY Types DEF SpawnFails, Ends
    <3> QED
      BY <3>1, <3>2 DEF NotSending
  <2> QED
    BY <1>0, <1>2, <2>1, TableForgets DEF Ended
<1>4. Logged(p, Unused)
  <2>1. /\ turns[Th(p)] \in Int /\ asked[Th(p)] \in Int
        /\ asked = [asked EXCEPT ![Th(p)] = asked[Th(p)]]
        /\ turns = [turns EXCEPT ![Th(p)] = turns[Th(p)]]
    BY <1>0, TableTypes
  <2>2. Gain(proc[p].ask, Unused.ask) = 0
    BY <1>0, <1>1, Gains, Zenon
  <2> DEFINE v == IF Th(p) \in there THEN turns[Th(p)] - (IF proc[p].turn THEN 1 ELSE 0)
                                     ELSE turns[Th(p)]
             w == asked[Th(p)]
  <2>3. v \in Int /\ w \in Int
    BY <2>1
  <2>4. Th(p) \in there => v = turns[Th(p)] + Gain(proc[p].turn, Unused.turn)
    BY <1>1, <2>1, Sums, Zenon DEF Gain
  <2>5. Th(p) \in there => w = asked[Th(p)] + Gain(proc[p].ask, Unused.ask)
    BY <2>1, <2>2, Sums, Zenon
  <2>6. Th(p) \notin there => v = turns[Th(p)] /\ w = asked[Th(p)]
    OBVIOUS
  <2>7. turns' = [turns EXCEPT ![Th(p)] = v]
    BY <1>2, <2>1, Zenon DEF Logs
  <2>8. asked' = [asked EXCEPT ![Th(p)] = w] /\ UNCHANGED <<there, healed>>
    BY <1>2, <2>1
  <2> HIDE DEF v, w
  <2> QED
    BY <1>0, <1>1, <2>3, <2>4, <2>5, <2>6, <2>7, <2>8, LogsOf
<1>6. p = sends[n].p
  BY DEF p
<1> QED
  BY <1>0, <1>1, <1>2, <1>3, <1>4, <1>6, Zenon DEF Moves

\* heal() finds something to do.
Healing(t) ==
  /\ t \in there /\ MustHeal(t) /\ healed' = healed \cup {t} /\ there' = there
  /\ turns' = [turns EXCEPT ![t] = 0] /\ asked' = [asked EXCEPT ![t] = 0]

Calm == UNCHANGED <<there, healed, turns, asked>>

\* What a step is that changes no process.
Quiet == Rests /\ (Calm \/ \E t \in Threads : Healing(t) \/ Removes(t))

\* conv.send, by what it finds.
SendsNothing(m) ==
  /\ ~Joins(m) /\ Of(m) \in there /\ Rests
  /\ sends' = sends
  /\ \/ Calm /\ UNCHANGED <<msg, shown>>
     \/ MustHeal(Of(m)) /\ Healing(Of(m)) /\ msg' = HealedMsg(Of(m)) /\ shown' = shown

SendsWaiting(m) ==
  LET n == tries + 1 t == Of(m) IN
  /\ ~Joins(m) /\ t \in there /\ tries < MaxSends /\ Rests /\ live[t] = NoProc
  /\ sends' = [sends EXCEPT ![n] = [at |-> IF leaving[t] # NoProc THEN "leaving" ELSE "locate",
                                    m |-> m, p |-> leaving[t]]]
  /\ HealedMsg(t)[m] \notin {"queued", "sent"}
  /\ \/ Calm /\ t \in healed /\ msg' = msg
     \/ MustHeal(t) /\ Healing(t) /\ msg' = HealedMsg(t)
  /\ shown' = shown
  /\ crowded' = IF Cardinality(Waiting(t)') > 1 THEN crowded \cup {t} ELSE crowded

SendsAtOnce(m) ==
  /\ ~Joins(m) /\ Of(m) \in there /\ live[Of(m)] # NoProc
  /\ ~Pending(m) /\ Deliver(m, live[Of(m)])
  /\ UNCHANGED <<there, live, leaving, healed, asked, sends>>

LEMMA HealingTwice ==
  ASSUME TypeOK, NEW t \in there, Heals(t), there' = there,
         turns' = HealedTurns(t), asked' = HealedAsked(t)
  PROVE  (MustHeal(t) /\ Healing(t)) \/ (~MustHeal(t) /\ Calm)
BY DEF Heals, HealedTurns, HealedAsked, Healing, Calm

LEMMA SendMoves ==
  ASSUME TypeOK, NEW m \in Msgs, Send(m)
  PROVE  /\ SendsNothing(m) \/ SendsWaiting(m) \/ SendsAtOnce(m)
         /\ tries < MaxSends /\ tries' = tries + 1
         /\ UNCHANGED <<there, live, leaving, removing, faults>>
         /\ crowded' = IF Cardinality(Waiting(Of(m))') > 1 THEN crowded \cup {Of(m)} ELSE crowded
<1> DEFINE t == Of(m)
<1>1. /\ ~Joins(m) /\ t \in there /\ tries < MaxSends /\ tries' = tries + 1 /\ Heals(t)
      /\ UNCHANGED <<there, live, leaving, removing, faults>>
      /\ crowded' = IF Cardinality(Waiting(t)') > 1 THEN crowded \cup {t} ELSE crowded
  BY DEF Send, table
<1>2. CASE live[t] # NoProc
  <2>1. healed' = healed /\ sends' = sends /\ asked' = asked
    BY <1>1, <1>2 DEF Send, Heals, MustHeal
  <2>2. CASE Pending(m)
    <3>1. UNCHANGED <<proc, msg, turns, shown>>
      BY <1>2, <2>2 DEF Send
    <3> QED
      BY <1>1, <2>1, <3>1 DEF SendsNothing, Rests, Calm
  <2>3. CASE ~Pending(m)
    <3>1. Deliver(m, live[t])
      BY <1>2, <2>3 DEF Send
    <3> QED
      BY <1>1, <1>2, <2>1, <2>3, <3>1 DEF SendsAtOnce
  <2> QED
    BY <2>2, <2>3
<1>3. CASE live[t] = NoProc
  <2>1. /\ sends' = IF HealedMsg(t)[m] \in {"queued", "sent"} THEN sends
                    ELSE [sends EXCEPT ![tries + 1] =
                           [at |-> IF leaving[t] # NoProc THEN "leaving" ELSE "locate",
                            m |-> m, p |-> leaving[t]]]
        /\ msg' = HealedMsg(t) /\ turns' = HealedTurns(t) /\ asked' = HealedAsked(t)
        /\ UNCHANGED <<proc, shown>>
    BY <1>3, Zenon DEF Send
  <2>2. (MustHeal(t) /\ Healing(t)) \/ (~MustHeal(t) /\ Calm)
    BY <1>1, <2>1, HealingTwice
  <2>3. ~MustHeal(t) => t \in healed /\ msg' = msg
    <3>1. msg \in [Msgs -> {"none", "queued", "sent", "failed"}]
      BY Types
    <3> QED
      BY <1>3, <2>1, <3>1 DEF MustHeal, HealedMsg
  <2>4. Rests
    BY <1>1, <2>1 DEF Rests
  <2>5. CASE HealedMsg(t)[m] \in {"queued", "sent"}
    BY <1>1, <2>1, <2>2, <2>3, <2>4, <2>5 DEF SendsNothing
  <2>6. CASE HealedMsg(t)[m] \notin {"queued", "sent"}
    BY <1>1, <1>3, <2>1, <2>2, <2>3, <2>4, <2>6 DEF SendsWaiting
  <2> QED
    BY <2>5, <2>6
<1> QED
  BY <1>1, <1>2, <1>3

LEMMA NextMoves ==
  ASSUME TypeOK, ProcInv, TableInv, SendInv, [Next]_vars
  PROVE  Restart \/ Quiet \/ \E p \in Procs, r \in ProcRec : Moves(p, r)
<1>1. ASSUME NEW m \in Msgs, Send(m)
      PROVE  Quiet \/ \E p \in Procs, r \in ProcRec : Moves(p, r)
  <2>0. Of(m) \in Threads
    BY OfMsgs
  <2>1. CASE SendsNothing(m) \/ SendsWaiting(m)
    BY <2>0, <2>1 DEF SendsNothing, SendsWaiting, Quiet
  <2>2. CASE SendsAtOnce(m)
    <3>1. live[Of(m)] \in Procs /\ proc[live[Of(m)]].st # "gone"
      BY <2>0, <2>2, Types DEF SendsAtOnce, TableInv
    <3>2. Deliver(m, live[Of(m)]) /\ UNCHANGED <<there, live, leaving, healed, asked>>
      BY <2>2 DEF SendsAtOnce
    <3> QED
      BY <3>1, <3>2, DeliverMoves
  <2> QED
    BY <1>1, <2>1, <2>2, SendMoves
<1>2. ASSUME NEW n \in Calls, MakeRoom(n)
      PROVE  Quiet \/ \E p \in Procs, r \in ProcRec : Moves(p, r)
  <2>1. Calm
    BY <1>2 DEF MakeRoom, Calm, books
  <2>2. CASE UNCHANGED <<proc, table>>
    BY <2>1, <2>2 DEF Quiet, Rests, table
  <2>3. ASSUME NEW p \in LiveProcs, Stops(p)
        PROVE  \E r \in ProcRec : Moves(p, r)
    <3>1. p \in Procs /\ p = live[Th(p)]
      BY DEF LiveProcs
    <3> QED
      BY <2>1, <2>3, <3>1, StopsMoves DEF Calm
  <2>4. LiveProcs \subseteq Procs
    BY DEF LiveProcs
  <2> QED
    BY <1>2, <2>2, <2>3, <2>4 DEF MakeRoom
<1>3. ASSUME NEW n \in Calls, Spawned(n)
      PROVE  \E p \in Procs, r \in ProcRec : Moves(p, r)
  <2>1. sends[n].p \in Procs /\ proc[sends[n].p].st # "gone" /\ Deliver(Msg(n), sends[n].p)
        /\ UNCHANGED <<there, live, leaving, healed, asked>>
    BY <1>3 DEF Spawned, SendInv, table
  <2>2. Msg(n) \in Msgs
    BY Types DEF Msg, SendRec
  <2> QED
    BY <2>1, <2>2, DeliverMoves
<1>4. ASSUME NEW n \in Calls, HasLeft(n)
      PROVE  Quiet
  BY <1>4 DEF HasLeft, Quiet, Rests, Calm, table, books
<1>5. ASSUME NEW t \in Threads, Stop(t)
      PROVE  \E p \in Procs, r \in ProcRec : Moves(p, r)
  <2>1. live[t] \in Procs /\ Th(live[t]) = t /\ Stops(live[t])
        /\ UNCHANGED <<there, healed, turns, asked>>
    BY <1>5, Types DEF Stop, TableInv, books
  <2> QED
    BY <2>1, StopsMoves
<1>6. ASSUME NEW t \in Threads, Open(t)
      PROVE  Quiet
  <2>1. t \in there /\ MustHeal(t) /\ Heals(t) /\ there' = there
        /\ turns' = HealedTurns(t) /\ asked' = HealedAsked(t) /\ Rests
    BY <1>6 DEF Open, Rests, table
  <2> QED
    BY <2>1, HealingTwice DEF Quiet
<1>7. ASSUME NEW t \in Threads, RemoveThread(t)
      PROVE  Quiet \/ \E p \in Procs, r \in ProcRec : Moves(p, r)
  <2>1. CASE live[t] # NoProc
    <3>1. live[t] \in Procs /\ Th(live[t]) = t /\ Stops(live[t])
          /\ UNCHANGED <<there, healed, turns, asked>>
      BY <1>7, <2>1, Types DEF RemoveThread, TableInv, books
    <3> QED
      BY <3>1, StopsMoves
  <2>2. CASE live[t] = NoProc
    BY <1>7, <2>2 DEF RemoveThread, Quiet, Rests, Calm, table, books
  <2> QED
    BY <2>1, <2>2
<1>8. ASSUME NEW t \in Threads, RemoveGoesOn(t)
      PROVE  Quiet
  BY <1>8 DEF RemoveGoesOn, Quiet, Rests, table
<1>9. CASE UNCHANGED vars
  BY <1>9 DEF vars, table, books, Quiet, Rests, Calm
<1>10. ASSUME NEW n \in Calls, SpawnFails(n)
       PROVE  \E p \in Procs, r \in ProcRec : Moves(p, r)
  <2>1. Unused \in ProcRec
    BY Records
  <2>2. sends[n].p \in Procs /\ Moves(sends[n].p, Unused)
    BY <1>10, SpawnFailsMoves
  <2> QED
    BY <2>1, <2>2
<1>11. ASSUME NEW p \in Procs,
              Exit(p) \/ Reads(p) \/ Works(p) \/ Asks(p) \/ Withdraws(p) \/ Result(p)
       PROVE  \E r \in ProcRec : Moves(p, r)
  BY <1>11, Records, ExitMoves, ReadsMoves, WorksMoves, AsksMoves, WithdrawsMoves, ResultMoves
<1>12. ASSUME NEW t \in Threads, Respond(t) \/ Interrupt(t)
       PROVE  \E p \in Procs, r \in ProcRec : Moves(p, r)
  BY <1>12, AnswersMove
<1>13. ASSUME NEW n \in Calls, Start(n)
       PROVE  \E p \in Procs, r \in ProcRec : Moves(p, r)
  BY <1>13, StartMoves
<1> QED
  BY <1>1, <1>2, <1>3, <1>4, <1>5, <1>6, <1>7, <1>8, <1>9, <1>10, <1>11, <1>12, <1>13, ZenonT(60)
  DEF Next

-----------------------------------------------------------------------------
(* The processes and the table *)

LEMMA MovedProc ==
  ASSUME TypeOK, NEW p \in Procs, NEW r \in ProcRec, Moves(p, r)
  PROVE  /\ proc' \in [Procs -> ProcRec]
         /\ proc'[p] = r
         /\ \A q \in Procs : q # p => proc'[q] = proc[q]
BY Types DEF Moves

LEMMA RestartClears ==
  ASSUME Restart
  PROVE  /\ \A p \in Procs : proc'[p] = Unused
         /\ \A t \in Threads : live'[t] = NoProc /\ leaving'[t] = NoProc /\ removing'[t] = NoProc
         /\ \A n \in Calls : sends'[n] = NotSending
         /\ healed' = {} /\ there' = there /\ crowded' = crowded /\ tries' = tries
         /\ \A t \in Threads : shown'[t] = "idle"
         /\ proc' \in [Procs -> ProcRec] /\ sends' \in [Calls -> SendRec]
         /\ live' \in [Threads -> Procs \cup {NoProc}]
         /\ leaving' \in [Threads -> Procs \cup {NoProc}]
         /\ removing' \in [Threads -> Procs \cup {NoProc}]
         /\ shown' \in [Threads -> {"idle", "working", "waiting"}]
<1>1. /\ proc' = [p \in Procs |-> Unused] /\ sends' = [n \in Calls |-> NotSending]
      /\ live' = [t \in Threads |-> NoProc] /\ leaving' = live' /\ removing' = live'
      /\ healed' = {} /\ there' = there /\ crowded' = crowded /\ tries' = tries
      /\ shown' = [t \in Threads |-> "idle"]
  BY DEF Restart
<1>2. Unused \in ProcRec /\ NotSending \in SendRec
  BY Records
<1> HIDE DEF Unused, NotSending
<1> QED
  BY <1>1, <1>2

LEMMA UnusedIs == Unused.st = "gone" /\ ~Unused.turn /\ ~Unused.ask /\ Unused.unacked = <<>>
BY DEF Unused

LEMMA StartedIs ==
  \A t \in Threads : /\ Started(t).st = "up" /\ Started(t).th = t /\ ~Started(t).turn
                     /\ ~Started(t).ask /\ Started(t).unacked = <<>> /\ Started(t).does = "rest"
BY DEF Started, Unused

LEMMA ProcNext ==
  ASSUME TypeOK, ProcInv, TableInv, SendInv, [Next]_vars
  PROVE  ProcInv'
<1>1. CASE Restart
  BY <1>1, RestartClears, UnusedIs DEF ProcInv
<1>2. CASE Quiet
  BY <1>2 DEF Quiet, Rests, ProcInv
<1>3. ASSUME NEW p \in Procs, NEW r \in ProcRec, Moves(p, r)
      PROVE  ProcInv'
  <2>1. /\ r.st = "gone" => r = Unused
        /\ r.ask => r.turn /\ r.does = "waits"
    <3>1. proc[p] \in ProcRec
      BY TableTypes
    <3>2. CASE Talks(p, r)
      BY <3>2 DEF Talks
    <3>3. CASE Halts(p, r)
      BY <3>1, <3>3 DEF Halts, ProcInv, ProcRec
    <3>4. CASE Begun(p, r)
      <4>1. \A n \in Calls : Of(Msg(n)) \in Threads
        BY Types, OfMsgs DEF Msg, SendRec
      <4> QED
        BY <3>4, <4>1, StartedIs DEF Begun
    <3>5. CASE Ended(p, r)
      BY <3>5, UnusedIs DEF Ended
    <3> QED
      BY <1>3, <3>2, <3>3, <3>4, <3>5 DEF Moves
  <2>2. proc'[p] = r /\ \A q \in Procs : q # p => proc'[q] = proc[q]
    BY <1>3, MovedProc
  <2> QED
    BY <2>1, <2>2 DEF ProcInv
<1> QED
  BY <1>1, <1>2, <1>3, NextMoves

LEMMA TableNext ==
  ASSUME TypeOK, ProcInv, TableInv, SendInv, [Next]_vars
  PROVE  TableInv'
<1>0. /\ live \in [Threads -> Procs \cup {NoProc}] /\ leaving \in [Threads -> Procs \cup {NoProc}]
      /\ proc \in [Procs -> ProcRec]
  BY Types
<1>1. CASE Restart
  BY <1>1, RestartClears DEF TableInv
<1>2. CASE Quiet
  BY <1>2 DEF Quiet, Rests, TableInv, Th
<1>3. ASSUME NEW p \in Procs, NEW r \in ProcRec, Moves(p, r)
      PROVE  TableInv'
  <2>0. Th(p) \in Threads /\ p # NoProc
    BY TableTypes, Numbers
  <2>1. proc'[p] = r /\ \A q \in Procs : q # p => proc'[q] = proc[q]
    BY <1>3, MovedProc
  <2>2. CASE Talks(p, r)
    BY <1>0, <2>1, <2>2 DEF Talks, TableInv, Th
  <2>3. CASE Halts(p, r)
    <3>1. r.st = "stopping" /\ r.th = Th(p)
      BY <1>0, <2>3 DEF Halts, ProcRec, Th
    <3>2. ASSUME NEW t \in Threads
          PROVE  /\ live'[t] = IF t = Th(p) THEN NoProc ELSE live[t]
                 /\ leaving'[t] = IF t = Th(p) THEN p ELSE leaving[t]
                 /\ live[t] = p => t = Th(p)
                 /\ leaving[t] = p => t = Th(p)
      BY <1>0, <2>0, <2>3 DEF Halts, TableInv
    <3> QED
      BY <1>0, <2>1, <3>1, <3>2 DEF TableInv, Th
  <2>4. CASE Begun(p, r)
    <3>1. PICK t \in Threads : /\ r = Started(t) /\ live' = [live EXCEPT ![t] = p]
                              /\ leaving' = leaving
      <4>1. \A n \in Calls : Of(Msg(n)) \in Threads
        BY Types, OfMsgs DEF Msg, SendRec
      <4> QED
        BY <2>4, <4>1 DEF Begun
    <3>2. r.st = "up" /\ r.th = t
      BY <3>1, StartedIs
    <3>3. proc[p].st = "gone"
      BY <2>4 DEF Begun, Free
    <3>4. \A u \in Threads : live[u] # p /\ leaving[u] # p
      BY <2>0, <3>3 DEF TableInv
    <3>5. \A u \in Threads : live'[u] = IF u = t THEN p ELSE live[u]
      BY <1>0, <3>1
    <3> QED
      BY <1>0, <2>1, <3>1, <3>2, <3>4, <3>5 DEF TableInv, Th
  <2>5. CASE Ended(p, r)
    BY <1>0, <2>1, <2>5 DEF Ended, TableInv, Th
  <2> QED
    BY <1>3, <2>2, <2>3, <2>4, <2>5 DEF Moves
<1> QED
  BY <1>1, <1>2, <1>3, NextMoves

-----------------------------------------------------------------------------
(* The sends *)

\* A call of conv.send goes on to its next wait.
Goes(n) ==
  /\ \/ sends[n].at = "leaving" /\ proc[sends[n].p].st = "gone"
     \/ sends[n].at = "locate"
  /\ \E at \in {"locate", "env"} : at # sends[n].at /\ At(n, at, NoProc)

\* A call of conv.send ends.
Finishes(n) == sends[n].at # "none" /\ sends' = [sends EXCEPT ![n] = NotSending]

LEMMA SendsNext ==
  ASSUME TypeOK, [Next]_vars
  PROVE  \/ Restart
         \/ /\ tries' = tries
            /\ \/ sends' = sends
               \/ \E n \in Calls : Goes(n) \/ Finishes(n) \/ Start(n)
         \/ /\ tries < MaxSends /\ tries' = tries + 1
            /\ sends' = sends \/ \E m \in Msgs : SendsWaiting(m)
<1>1. ASSUME NEW m \in Msgs, Send(m)
      PROVE  /\ tries < MaxSends /\ tries' = tries + 1
             /\ sends' = sends \/ \E x \in Msgs : SendsWaiting(x)
  <2>1. SendsNothing(m) \/ SendsWaiting(m) \/ SendsAtOnce(m)
    BY <1>1, SendMoves
  <2>2. tries < MaxSends /\ tries' = tries + 1
    BY <1>1, SendMoves
  <2> QED
    BY <2>1, <2>2 DEF SendsNothing, SendsAtOnce
<1>2. ASSUME NEW n \in Calls, HasLeft(n) \/ MakeRoom(n) \/ Spawned(n) \/ SpawnFails(n)
      PROVE  tries' = tries /\ (sends' = sends \/ Goes(n) \/ Finishes(n))
  BY <1>2 DEF HasLeft, MakeRoom, Spawned, SpawnFails, Goes, Finishes, Ends, bounds
<1>3. ASSUME NEW n \in Calls, Start(n)
      PROVE  tries' = tries
  BY <1>3 DEF Start, bounds
<1>4. ASSUME NEW p \in Procs,
             Exit(p) \/ Reads(p) \/ Works(p) \/ Asks(p) \/ Withdraws(p) \/ Result(p)
      PROVE  tries' = tries /\ sends' = sends
  BY <1>4 DEF Exit, Reads, Works, Asks, Withdraws, Result, bounds
<1>5. ASSUME NEW t \in Threads, Respond(t) \/ Interrupt(t) \/ Stop(t) \/ Open(t)
                                \/ RemoveThread(t) \/ RemoveGoesOn(t)
      PROVE  tries' = tries /\ sends' = sends
  BY <1>5 DEF Respond, Interrupt, Stop, Open, RemoveThread, RemoveGoesOn, bounds
<1>6. CASE UNCHANGED vars
  BY <1>6 DEF vars, bounds
<1> QED
  BY <1>1, <1>2, <1>3, <1>4, <1>5, <1>6, ZenonT(60) DEF Next

\* The send of m that waits from now on.
LEMMA Joining ==
  ASSUME TypeOK, SendInv, NEW m \in Msgs, SendsWaiting(m), tries < MaxSends
  PROVE  \E n \in Calls :
           /\ n = tries + 1 /\ sends[n].at = "none"
           /\ sends'[n].m = m /\ sends'[n].p = leaving[Of(m)]
           /\ sends'[n].at = IF leaving[Of(m)] # NoProc THEN "leaving" ELSE "locate"
           /\ \A k \in Calls : k # n => sends'[k] = sends[k]
           /\ sends' \in [Calls -> SendRec]
<1> DEFINE n == tries + 1
           s == [at |-> IF leaving[Of(m)] # NoProc THEN "leaving" ELSE "locate",
                 m |-> m, p |-> leaving[Of(m)]]
<1>1. n \in Calls /\ n > tries
  <2>1. tries \in 0..MaxSends
    BY Types
  <2> QED
    BY <2>1, Numbers
<1>2. sends \in [Calls -> SendRec] /\ leaving[Of(m)] \in Procs \cup {NoProc}
  BY Types, OfMsgs
<1>3. s \in SendRec
  BY <1>2 DEF SendRec
<1>4. sends' = [sends EXCEPT ![n] = s]
  BY Zenon DEF SendsWaiting
<1>5. s.m = m /\ s.p = leaving[Of(m)]
      /\ s.at = IF leaving[Of(m)] # NoProc THEN "leaving" ELSE "locate"
  OBVIOUS
<1>6. sends[n].at = "none"
  BY <1>1 DEF SendInv
<1> HIDE DEF s
<1>7. /\ sends'[n] = s /\ \A k \in Calls : k # n => sends'[k] = sends[k]
      /\ sends' \in [Calls -> SendRec]
  BY <1>1, <1>2, <1>3, <1>4
<1> QED
  BY <1>1, <1>5, <1>6, <1>7, Zenon

LEMMA Going ==
  ASSUME TypeOK, NEW n \in Calls, NEW at \in {"locate", "env", "spawn"},
         NEW p \in Procs \cup {NoProc}, At(n, at, p)
  PROVE  /\ sends'[n].at = at /\ sends'[n].p = p /\ sends'[n].m = Msg(n)
         /\ \A k \in Calls : k # n => sends'[k] = sends[k]
         /\ sends' \in [Calls -> SendRec]
<1>1. sends \in [Calls -> SendRec]
  BY Types
<1> QED
  BY <1>1 DEF At, SendRec, Msg

LEMMA Finishing ==
  ASSUME TypeOK, NEW n \in Calls, Finishes(n)
  PROVE  /\ sends'[n].at = "none"
         /\ \A k \in Calls : k # n => sends'[k] = sends[k]
         /\ sends' \in [Calls -> SendRec]
<1>1. sends \in [Calls -> SendRec] /\ NotSending \in SendRec /\ NotSending.at = "none"
  BY Types, Records DEF NotSending
<1> QED
  BY <1>1 DEF Finishes

\* What becomes of one call: it stays as it is, goes on for its message, ends or begins.
LEMMA SendGoes ==
  ASSUME TypeOK, SendInv, [Next]_vars, ~Restart, NEW k \in Calls
  PROVE  /\ sends' \in [Calls -> SendRec]
         /\ \/ sends'[k] = sends[k]
            \/ sends'[k].at = "none"
            \/ /\ \/ sends[k].at = "leaving" /\ proc[sends[k].p].st = "gone"
                  \/ sends[k].at = "locate"
               /\ sends'[k].at \in {"locate", "env"}
               /\ sends'[k].m = Msg(k) /\ sends'[k].p = NoProc
            \/ /\ Start(k) /\ sends'[k].at = "spawn" /\ sends'[k].m = Msg(k)
            \/ \E m \in Msgs :
                 /\ SendsWaiting(m) /\ k = tries + 1 /\ sends'[k].m = m
                 /\ sends[k].at = "none"
                 /\ sends'[k].p = leaving[Of(m)]
                 /\ sends'[k].at = IF leaving[Of(m)] # NoProc THEN "leaving" ELSE "locate"
         /\ k > tries' => sends'[k].at = "none"
<1>0. sends \in [Calls -> SendRec] /\ tries \in 0..MaxSends /\ (k > tries => sends[k].at = "none")
      /\ k \in Nat
  BY Types, Numbers DEF SendInv
<1>1. ASSUME sends' = sends, tries' = tries \/ tries' = tries + 1
      PROVE  /\ sends' \in [Calls -> SendRec] /\ sends'[k] = sends[k]
             /\ k > tries' => sends'[k].at = "none"
  <2>1. k > tries' => k > tries
    BY <1>0, <1>1
  <2> QED
    BY <1>0, <1>1, <2>1
<1>2. ASSUME NEW n \in Calls, Goes(n), tries' = tries
      PROVE  /\ sends' \in [Calls -> SendRec]
             /\ \/ sends'[k] = sends[k]
                \/ /\ \/ sends[k].at = "leaving" /\ proc[sends[k].p].st = "gone"
                      \/ sends[k].at = "locate"
                   /\ sends'[k].at \in {"locate", "env"}
                   /\ sends'[k].m = Msg(k) /\ sends'[k].p = NoProc
             /\ k > tries' => sends'[k].at = "none"
  <2>1. PICK at \in {"locate", "env"} : At(n, at, NoProc)
    BY <1>2 DEF Goes
  <2>2. /\ sends'[n].at = at /\ sends'[n].p = NoProc /\ sends'[n].m = Msg(n)
        /\ \A x \in Calls : x # n => sends'[x] = sends[x]
        /\ sends' \in [Calls -> SendRec]
    BY <2>1, Going
  <2>3. \/ sends[n].at = "leaving" /\ proc[sends[n].p].st = "gone"
        \/ sends[n].at = "locate"
    BY <1>2 DEF Goes
  <2> QED
    BY <1>0, <1>2, <2>2, <2>3
<1>3. ASSUME NEW n \in Calls, Finishes(n), tries' = tries
      PROVE  /\ sends' \in [Calls -> SendRec]
             /\ sends'[k] = sends[k] \/ sends'[k].at = "none"
             /\ k > tries' => sends'[k].at = "none"
  BY <1>0, <1>3, Finishing
<1>4. ASSUME NEW n \in Calls, Start(n), tries' = tries
      PROVE  /\ sends' \in [Calls -> SendRec]
             /\ \/ sends'[k] = sends[k]
                \/ Start(k) /\ sends'[k].at = "spawn" /\ sends'[k].m = Msg(k)
             /\ k > tries' => sends'[k].at = "none"
  <2>1. PICK p \in Free : At(n, "spawn", p)
    BY <1>4 DEF Start
  <2>2. p \in Procs /\ sends[n].at = "env"
    BY <1>4 DEF Free, Start
  <2>3. /\ sends'[n].at = "spawn" /\ sends'[n].m = Msg(n)
        /\ \A x \in Calls : x # n => sends'[x] = sends[x]
        /\ sends' \in [Calls -> SendRec]
    BY <2>1, <2>2, Going
  <2> QED
    BY <1>0, <1>4, <2>2, <2>3
<1>5. ASSUME NEW m \in Msgs, SendsWaiting(m), tries < MaxSends, tries' = tries + 1
      PROVE  /\ sends' \in [Calls -> SendRec]
             /\ \/ sends'[k] = sends[k]
                \/ /\ k = tries + 1 /\ sends'[k].m = m /\ sends[k].at = "none"
                   /\ sends'[k].p = leaving[Of(m)]
                   /\ sends'[k].at = IF leaving[Of(m)] # NoProc THEN "leaving" ELSE "locate"
             /\ k > tries' => sends'[k].at = "none"
  <2>1. k > tries' => k > tries /\ k # tries + 1
    BY <1>0, <1>5
  <2> QED
    BY <1>0, <1>5, <2>1, Joining
<1> QED
  BY <1>1, <1>2, <1>3, <1>4, <1>5, SendsNext, ZenonT(60)

\* Who waits has waited, or waits from now on.
LEMMA WaitingNext ==
  ASSUME TypeOK, SendInv, [Next]_vars, ~Restart, NEW t \in Threads, NEW k \in Waiting(t)'
  PROVE  k \in Waiting(t) \/ \E m \in Msgs : SendsWaiting(m) /\ Of(m) = t
<1>1. k \in Calls /\ sends'[k].at # "none" /\ Of(sends'[k].m) = t
  BY DEF Waiting, Msg
<1> QED
  BY <1>1, SendGoes DEF Waiting, Msg, Start

LEMMA UnhealedNext ==
  ASSUME TypeOK, ProcInv, TableInv, SendInv, UnhealedInv, [Next]_vars
  PROVE  UnhealedInv'
<1>1. CASE Restart
  <2>1. /\ \A p \in Procs : proc'[p].st = "gone"
        /\ \A n \in Calls : sends'[n].at = "none"
    BY <1>1, RestartClears, UnusedIs DEF NotSending
  <2> QED
    BY <2>1 DEF UnhealedInv, Mine, Waiting
<1>2. ASSUME ~Restart, NEW t \in there' \ healed'
      PROVE  t \in there \ healed /\ t \in Threads
  <2>1. there \subseteq Threads
    BY Types
  <2>2. CASE Quiet
    BY <1>2, <2>1, <2>2 DEF Quiet, Calm, Healing, Removes
  <2>3. ASSUME NEW p \in Procs, NEW r \in ProcRec, Moves(p, r)
        PROVE  t \in there \ healed
    BY <1>2, <2>3 DEF Moves, Logged
  <2> QED
    BY <1>2, <2>1, <2>2, <2>3, NextMoves
<1>3. ASSUME ~Restart, NEW t \in there' \ healed', NEW k \in Waiting(t)'
      PROVE  FALSE
  <2>1. t \in there \ healed /\ t \in Threads
    BY <1>2, <1>3
  <2>2. Waiting(t) = {}
    BY <2>1 DEF UnhealedInv
  <2>3. ASSUME NEW m \in Msgs, SendsWaiting(m), Of(m) = t
        PROVE  FALSE
    BY <1>3, <2>1, <2>3 DEF SendsWaiting, Healing
  <2> QED
    BY <1>3, <2>1, <2>2, <2>3, WaitingNext
<1>4. ASSUME ~Restart, NEW t \in there' \ healed', NEW q \in Mine(t)'
      PROVE  FALSE
  <2>1. t \in there \ healed /\ t \in Threads
    BY <1>2, <1>4
  <2>2. Mine(t) = {} /\ Waiting(t) = {}
    BY <2>1 DEF UnhealedInv
  <2>3. q \in Procs /\ proc'[q].st # "gone" /\ proc'[q].th = t
    BY DEF Mine, Th
  <2>4. CASE Quiet
    BY <2>2, <2>3, <2>4 DEF Quiet, Rests, Mine, Th
  <2>5. ASSUME NEW p \in Procs, NEW r \in ProcRec, Moves(p, r)
        PROVE  FALSE
    <3>1. proc'[p] = r /\ \A x \in Procs : x # p => proc'[x] = proc[x]
      BY <2>5, MovedProc
    <3>2. q = p
      BY <2>2, <2>3, <3>1 DEF Mine, Th
    <3>3. CASE Talks(p, r)
      BY <2>2, <2>3, <3>1, <3>2, <3>3 DEF Talks, Mine
    <3>4. CASE Halts(p, r)
      <4>1. proc[p] \in ProcRec
        BY TableTypes
      <4> QED
        BY <2>2, <2>3, <3>1, <3>2, <3>4, <4>1 DEF Halts, Mine, Th, ProcRec
    <3>5. CASE Begun(p, r)
      <4>1. PICK n \in Calls : sends[n].at = "env" /\ r = Started(Of(Msg(n)))
        BY <3>5 DEF Begun
      <4>2. Of(Msg(n)) \in Threads
        BY Types, OfMsgs DEF Msg, SendRec
      <4>3. n \in Waiting(t)
        BY <2>3, <3>1, <3>2, <4>1, <4>2, StartedIs DEF Waiting
      <4> QED
        BY <2>2, <4>3
    <3>6. CASE Ended(p, r)
      BY <2>3, <3>1, <3>2, <3>6, UnusedIs DEF Ended
    <3> QED
      BY <2>5, <3>3, <3>4, <3>5, <3>6 DEF Moves
  <2> QED
    BY <1>4, <2>4, <2>5, NextMoves
<1> QED
  BY <1>1, <1>3, <1>4, Zenon DEF UnhealedInv

\* The process a send starts is new, and nobody else's.
LEMMA Starting ==
  ASSUME TypeOK, NEW n \in Calls, Start(n)
  PROVE  /\ Of(Msg(n)) \in Threads
         /\ sends[n].at = "env"
         /\ \E p \in Procs :
              /\ p \in Free /\ proc[p].st = "gone" /\ \A k \in Calls : sends[k].p # p
              /\ proc'[p] = Started(Of(Msg(n)))
              /\ \A q \in Procs : q # p => proc'[q] = proc[q]
              /\ sends'[n].at = "spawn" /\ sends'[n].p = p /\ sends'[n].m = Msg(n)
              /\ \A k \in Calls : k # n => sends'[k] = sends[k]
              /\ \A t \in Threads : live'[t] = IF t = Of(Msg(n)) THEN p ELSE live[t]
<1>0. Of(Msg(n)) \in Threads /\ proc \in [Procs -> ProcRec]
      /\ live \in [Threads -> Procs \cup {NoProc}]
  BY Types, OfMsgs DEF Msg, SendRec
<1>1. PICK p \in Free : /\ proc' = [proc EXCEPT ![p] = Started(Of(Msg(n)))]
                        /\ live' = [live EXCEPT ![Of(Msg(n))] = p]
                        /\ At(n, "spawn", p)
  BY Zenon DEF Start
<1>2. p \in Procs /\ proc[p].st = "gone" /\ \A k \in Calls : sends[k].p # p
  BY DEF Free
<1>3. /\ sends'[n].at = "spawn" /\ sends'[n].p = p /\ sends'[n].m = Msg(n)
      /\ \A k \in Calls : k # n => sends'[k] = sends[k]
  BY <1>1, <1>2, Going
<1> DEFINE r == Started(Of(Msg(n)))
<1>4. proc' = [proc EXCEPT ![p] = r]
  BY <1>1
<1> HIDE DEF r
<1>5. proc'[p] = r /\ \A q \in Procs : q # p => proc'[q] = proc[q]
  BY <1>0, <1>2, <1>4
<1>6. \A t \in Threads : live'[t] = IF t = Of(Msg(n)) THEN p ELSE live[t]
  BY <1>0, <1>1
<1>7. sends[n].at = "env"
  BY DEF Start
<1> USE DEF r
<1> QED
  BY <1>0, <1>2, <1>3, <1>5, <1>6, <1>7, Zenon

LEMMA SendNext ==
  ASSUME TypeOK, ProcInv, TableInv, SendInv, [Next]_vars
  PROVE  SendInv'
<1>1. CASE Restart
  <2>1. \A n \in Calls : sends'[n].at = "none"
    BY <1>1, RestartClears DEF NotSending
  <2> QED
    BY <2>1 DEF SendInv
<1>2. ASSUME ~Restart, NEW n \in Calls
      PROVE  n > tries' => sends'[n].at = "none"
  BY <1>2, SendGoes
<1>3. ASSUME ~Restart, NEW n \in Calls, sends'[n].at = "leaving"
      PROVE  sends'[n].p \in Procs
  <2>1. CASE sends'[n] = sends[n]
    BY <1>3, <2>1 DEF SendInv
  <2>2. ASSUME NEW m \in Msgs, sends'[n].p = leaving[Of(m)],
               sends'[n].at = IF leaving[Of(m)] # NoProc THEN "leaving" ELSE "locate"
        PROVE  sends'[n].p \in Procs
    <3>1. leaving[Of(m)] \in Procs \cup {NoProc} /\ leaving[Of(m)] # NoProc
      BY <1>3, <2>2, Types, OfMsgs
    <3> QED
      BY <2>2, <3>1
  <2> QED
    BY <1>3, <2>1, <2>2, SendGoes
<1>4. ASSUME ~Restart, NEW n \in Calls, sends'[n].at = "spawn"
      PROVE  /\ sends'[n].p \in Procs
             /\ proc'[sends'[n].p].st # "gone" /\ ~proc'[sends'[n].p].ask
             /\ proc'[sends'[n].p].th = Of(sends'[n].m)
             /\ \A k \in Calls : sends'[k].at = "spawn" /\ sends'[k].p = sends'[n].p => k = n
  <2>1. CASE Start(n)
    <3>1. PICK p \in Procs :
              /\ \A k \in Calls : sends[k].p # p
              /\ proc'[p] = Started(Of(Msg(n)))
              /\ sends'[n].p = p /\ sends'[n].m = Msg(n)
              /\ \A k \in Calls : k # n => sends'[k] = sends[k]
      BY <2>1, Starting, Zenon
    <3>2. Of(Msg(n)) \in Threads
      BY <2>1, Starting
    <3> QED
      BY <3>1, <3>2, StartedIs
  <2>2. CASE ~Start(n)
    <3> DEFINE p == sends[n].p
    <3>1. sends'[n] = sends[n] /\ sends[n].at = "spawn"
      BY <1>4, <2>2, SendGoes
    <3>2. /\ p \in Procs /\ proc[p].st # "gone" /\ ~proc[p].ask /\ Th(p) = Of(Msg(n))
          /\ \A k \in Calls : sends[k].at = "spawn" /\ sends[k].p = p => k = n
      BY <3>1 DEF SendInv
    <3>3. Spawning(p)
      BY <3>1 DEF Spawning
    <3>4. ASSUME NEW k \in Calls, sends'[k].at = "spawn", sends'[k].p = p
          PROVE  k = n
      <4>1. CASE Start(k)
        <5>1. PICK q \in Procs : (\A x \in Calls : sends[x].p # q) /\ sends'[k].p = q
          BY <4>1, Starting, Zenon
        <5> QED
          BY <3>4, <5>1
      <4>2. CASE ~Start(k)
        <5>1. sends'[k] = sends[k]
          BY <1>4, <3>4, <4>2, SendGoes
        <5> QED
          BY <3>2, <3>4, <5>1
      <4> QED
        BY <4>1, <4>2
    <3>5. proc'[p].st # "gone" /\ ~proc'[p].ask /\ proc'[p].th = proc[p].th
      <4>1. CASE Quiet
        BY <3>2, <4>1 DEF Quiet, Rests
      <4>2. ASSUME NEW q \in Procs, NEW r \in ProcRec, Moves(q, r), q # p
            PROVE  proc'[p] = proc[p]
        BY <3>2, <4>2, MovedProc
      <4>3. ASSUME NEW r \in ProcRec, Moves(p, r)
            PROVE  r.st # "gone" /\ ~r.ask /\ r.th = proc[p].th
        <5>1. proc[p] \in ProcRec
          BY <3>2, TableTypes
        <5>2. CASE Talks(p, r)
          BY <3>2, <3>3, <5>2 DEF Talks, Th
        <5>3. CASE Halts(p, r)
          BY <3>2, <5>1, <5>3 DEF Halts, ProcRec
        <5>4. ~Begun(p, r)
          BY <3>1 DEF Begun, Free
        <5>5. ~Ended(p, r)
          BY <3>1, <1>4 DEF Ended
        <5> QED
          BY <4>3, <5>2, <5>3, <5>4, <5>5 DEF Moves
      <4>4. ASSUME NEW r \in ProcRec, Moves(p, r)
            PROVE  proc'[p].st # "gone" /\ ~proc'[p].ask /\ proc'[p].th = proc[p].th
        BY <3>2, <4>3, <4>4, MovedProc
      <4> QED
        BY <1>4, <3>2, <4>1, <4>2, <4>4, NextMoves
    <3> QED
      BY <3>1, <3>2, <3>4, <3>5 DEF Th, Msg
  <2> QED
    BY <2>1, <2>2
<1> QED
  BY <1>1, <1>2, <1>3, <1>4 DEF SendInv, Th, Msg

-----------------------------------------------------------------------------
(* The counts *)

\* A process joins or leaves a set of processes that is counted.
LEMMA Counted ==
  ASSUME NEW S \in SUBSET Procs, NEW T \in SUBSET Procs, NEW p \in Procs,
         \A q \in Procs : q # p => (q \in S <=> q \in T)
  PROVE  Cardinality(T) = Cardinality(S) + Gain(p \in S, p \in T)
<1>1. IsFiniteSet(Procs)
  BY Numbers, FS_Interval
<1>2. IsFiniteSet(S) /\ IsFiniteSet(T) /\ Cardinality(S) \in Nat /\ Cardinality(T) \in Nat
  BY <1>1, FS_Subset, FS_CardinalityType
<1>3. CASE p \in S /\ p \in T
  <2>1. S = T
    BY <1>3
  <2>2. Gain(p \in S, p \in T) = 0
    BY <1>3, Gains, Zenon
  <2> QED
    BY <1>2, <2>1, <2>2
<1>4. CASE p \notin S /\ p \notin T
  <2>1. S = T
    BY <1>4
  <2>2. Gain(p \in S, p \in T) = 0
    BY <1>4, Gains, Zenon
  <2> QED
    BY <1>2, <2>1, <2>2
<1>5. CASE p \in S /\ p \notin T
  <2>1. T = S \ {p}
    BY <1>5
  <2>2. Cardinality(T) = Cardinality(S) - 1
    BY <1>2, <1>5, <2>1, FS_RemoveElement
  <2>3. Gain(p \in S, p \in T) = -1
    BY <1>5, Gains, Zenon
  <2> QED
    BY <1>2, <2>2, <2>3
<1>6. CASE p \notin S /\ p \in T
  <2>1. T = S \cup {p}
    BY <1>6
  <2>2. Cardinality(T) = Cardinality(S) + 1
    BY <1>2, <1>6, <2>1, FS_AddElement
  <2>3. Gain(p \in S, p \in T) = 1
    BY <1>6, Gains, Zenon
  <2> QED
    BY <1>2, <2>2, <2>3
<1> QED
  BY <1>3, <1>4, <1>5, <1>6

\* A process that is open has not gone.
LEMMA OpenIsMine ==
  ASSUME ProcInv, NEW t
  PROVE  /\ Turning(t) \subseteq Mine(t) /\ Asking(t) \subseteq Mine(t)
         /\ Mine(t) = {} => Cardinality(Turning(t)) = 0 /\ Cardinality(Asking(t)) = 0
<1>1. Turning(t) \subseteq Mine(t) /\ Asking(t) \subseteq Mine(t)
  BY UnusedIs DEF Turning, Asking, Mine, ProcInv
<1> QED
  BY <1>1, FS_EmptySet

\* The sets that are counted, after a move.
LEMMA CountsMove ==
  ASSUME TypeOK, ProcInv, NEW p \in Procs, NEW r \in ProcRec, Moves(p, r), NEW t \in Threads
  PROVE  /\ Cardinality(Turning(t)') = Cardinality(Turning(t)) +
                                       (IF t = Th(p) THEN Gain(proc[p].turn, r.turn) ELSE 0)
         /\ Cardinality(Asking(t)') = Cardinality(Asking(t)) +
                                       (IF t = Th(p) THEN Gain(proc[p].ask, r.ask) ELSE 0)
<1>1. proc'[p] = r /\ \A q \in Procs : q # p => proc'[q] = proc[q]
  BY MovedProc
<1>2. /\ Turning(t) \in SUBSET Procs /\ Turning(t)' \in SUBSET Procs
      /\ Asking(t) \in SUBSET Procs /\ Asking(t)' \in SUBSET Procs
  BY DEF Turning, Asking
<1>3. \A q \in Procs : q # p => /\ q \in Turning(t) <=> q \in Turning(t)'
                                /\ q \in Asking(t) <=> q \in Asking(t)'
  BY <1>1 DEF Turning, Asking, Th
<1>4. /\ Cardinality(Turning(t)') = Cardinality(Turning(t)) +
                                    Gain(p \in Turning(t), p \in Turning(t)')
      /\ Cardinality(Asking(t)') = Cardinality(Asking(t)) +
                                    Gain(p \in Asking(t), p \in Asking(t)')
  BY <1>2, <1>3, Counted
<1>5. r.th = Th(p) \/ (~r.turn /\ ~r.ask)
  <2>1. proc[p] \in ProcRec
    BY TableTypes
  <2>2. CASE Talks(p, r)
    BY <2>2 DEF Talks
  <2>3. CASE Halts(p, r)
    BY <2>1, <2>3 DEF Halts, ProcRec, Th
  <2>4. CASE Begun(p, r)
    <3>1. \A n \in Calls : Of(Msg(n)) \in Threads
      BY Types, OfMsgs DEF Msg, SendRec
    <3> QED
      BY <2>4, <3>1, StartedIs DEF Begun
  <2>5. CASE Ended(p, r)
    BY <2>5, UnusedIs DEF Ended
  <2> QED
    BY <2>2, <2>3, <2>4, <2>5 DEF Moves
<1>6. /\ p \in Turning(t) <=> t = Th(p) /\ proc[p].turn
      /\ p \in Asking(t) <=> t = Th(p) /\ proc[p].ask
      /\ p \in Turning(t)' <=> t = r.th /\ r.turn
      /\ p \in Asking(t)' <=> t = r.th /\ r.ask
  BY <1>1 DEF Turning, Asking, Th
<1>7. /\ Gain(p \in Turning(t), p \in Turning(t)') =
           IF t = Th(p) THEN Gain(proc[p].turn, r.turn) ELSE 0
      /\ Gain(p \in Asking(t), p \in Asking(t)') =
           IF t = Th(p) THEN Gain(proc[p].ask, r.ask) ELSE 0
  <2>1. /\ p \in Turning(t)' <=> t = Th(p) /\ r.turn
        /\ p \in Asking(t)' <=> t = Th(p) /\ r.ask
    BY <1>5, <1>6
  <2> QED
    BY <1>6, <2>1, Zenon DEF Gain
<1> QED
  BY <1>4, <1>7, Zenon

LEMMA Finite ==
  ASSUME NEW t
  PROVE  /\ IsFiniteSet(Turning(t)) /\ Cardinality(Turning(t)) \in Nat
         /\ IsFiniteSet(Asking(t)) /\ Cardinality(Asking(t)) \in Nat
         /\ IsFiniteSet(Mine(t))
         /\ Cardinality(Turning(t)') \in Nat /\ Cardinality(Asking(t)') \in Nat
<1>1. IsFiniteSet(Procs)
  BY Numbers, FS_Interval
<1>2. /\ Turning(t) \subseteq Procs /\ Asking(t) \subseteq Procs /\ Mine(t) \subseteq Procs
      /\ Turning(t)' \subseteq Procs /\ Asking(t)' \subseteq Procs
  BY DEF Turning, Asking, Mine
<1> QED
  BY <1>1, <1>2, FS_Subset, FS_CardinalityType

LEMMA CountNext ==
  ASSUME TypeOK, ProcInv, TableInv, SendInv, UnhealedInv, CountInv, [Next]_vars
  PROVE  CountInv'
<1>1. CASE Restart
  BY <1>1, RestartClears DEF CountInv
<1>2. ASSUME Quiet, NEW t \in there' \cap healed'
      PROVE  turns'[t] = Cardinality(Turning(t)') /\ asked'[t] = Cardinality(Asking(t)')
  <2>0. /\ turns \in [Threads -> Nat] /\ asked \in [Threads -> Nat]
        /\ there \subseteq Threads
    BY Types
  <2>1. Turning(t)' = Turning(t) /\ Asking(t)' = Asking(t)
    BY <1>2 DEF Quiet, Rests, Turning, Asking, Th
  <2>2. CASE Calm
    BY <1>2, <2>1, <2>2 DEF Calm, CountInv
  <2>3. ASSUME NEW x \in Threads, Healing(x)
        PROVE  turns'[t] = Cardinality(Turning(t)) /\ asked'[t] = Cardinality(Asking(t))
    <3>1. CASE t = x
      <4>1. t \in there \ healed
        BY <2>3, <3>1 DEF Healing, MustHeal
      <4>2. Mine(t) = {}
        BY <4>1 DEF UnhealedInv
      <4>3. turns'[t] = 0 /\ asked'[t] = 0
        BY <2>0, <2>3, <3>1, <4>1 DEF Healing
      <4> QED
        BY <4>2, <4>3, OpenIsMine
    <3>2. CASE t # x
      BY <1>2, <2>0, <2>3, <3>2 DEF Healing, CountInv
    <3> QED
      BY <3>1, <3>2
  <2>4. ASSUME NEW x \in Threads, Removes(x)
        PROVE  turns'[t] = Cardinality(Turning(t)) /\ asked'[t] = Cardinality(Asking(t))
    BY <1>2, <2>0, <2>4 DEF Removes, CountInv
  <2> QED
    BY <1>2, <2>1, <2>2, <2>3, <2>4 DEF Quiet
<1>3. ASSUME NEW p \in Procs, NEW r \in ProcRec, Moves(p, r), NEW t \in there' \cap healed'
      PROVE  turns'[t] = Cardinality(Turning(t)') /\ asked'[t] = Cardinality(Asking(t)')
  <2>1. t \in there /\ t \in healed /\ t \in Threads
    BY <1>3, Types DEF Moves, Logged
  <2>2. turns[t] = Cardinality(Turning(t)) /\ asked[t] = Cardinality(Asking(t))
    BY <2>1 DEF CountInv
  <2>3. /\ turns'[t] = IF t = Th(p) THEN turns[t] + Gain(proc[p].turn, r.turn) ELSE turns[t]
        /\ asked'[t] = IF t = Th(p) THEN asked[t] + Gain(proc[p].ask, r.ask) ELSE asked[t]
    BY <1>3, <2>1, Zenon DEF Moves, Logged
  <2>4. /\ Cardinality(Turning(t)') = Cardinality(Turning(t)) +
                                       (IF t = Th(p) THEN Gain(proc[p].turn, r.turn) ELSE 0)
        /\ Cardinality(Asking(t)') = Cardinality(Asking(t)) +
                                       (IF t = Th(p) THEN Gain(proc[p].ask, r.ask) ELSE 0)
    BY <1>3, <2>1, CountsMove, Zenon
  <2>5. turns[t] + 0 = turns[t] /\ asked[t] + 0 = asked[t]
    BY <2>1, Types
  <2> QED
    BY <2>2, <2>3, <2>4, <2>5, Zenon
<1> QED
  BY <1>1, <1>2, <1>3, NextMoves DEF CountInv

-----------------------------------------------------------------------------
(* The messages *)

\* What every process has to confirm, and for whom, stays.
Keeps ==
  \A p \in Procs :
    /\ proc'[p].unacked = proc[p].unacked
    /\ proc[p].unacked # <<>> /\ proc[p].st # "gone" =>
         proc'[p].th = Th(p) /\ proc'[p].st # "gone"

\* A message is written to a process, which is live or has been started for it.
Hands(m, p) ==
  /\ proc[p].st # "gone" /\ Th(p) = Of(m) /\ Deliver(m, p)
  /\ UNCHANGED <<there, healed>>
  /\ \/ ~Joins(m) /\ Of(m) \in there /\ ~Pending(m)
     \/ \E n \in Calls : sends[n].at = "spawn" /\ Msg(n) = m /\ Finishes(n)

\* A process ends, and what it had not confirmed has failed.
Loses(p) ==
  /\ proc' = [proc EXCEPT ![p] = Unused]
  /\ UNCHANGED <<there, healed>>
  /\ msg' \in [Msgs -> {"none", "queued", "sent", "failed"}]
  /\ \A m \in Msgs :
       /\ msg'[m] \in {msg[m], "failed"}
       /\ Of(m) \in there /\ Has(p, m) /\ msg[m] # "none" => msg'[m] = "failed"
       /\ Of(m) \notin there => msg'[m] = msg[m]
       /\ ~Has(p, m) => \/ msg'[m] = msg[m]
                        \/ \E n \in Calls : sends[n].at # "none" /\ Msg(n) = m

SameBooks == UNCHANGED <<there, healed, msg>>

LEMMA ExitLoses ==
  ASSUME TypeOK, HolderInv, NEW p \in Procs, Exit(p)
  PROVE  Loses(p)
<1>0. msg \in [Msgs -> {"none", "queued", "sent", "failed"}]
  BY Types
<1>1. proc' = [proc EXCEPT ![p] = Unused] /\ UNCHANGED <<there, healed>>
  BY DEF Exit, Exits
<1>2. msg' = IF Th(p) \in there THEN Failed(p) ELSE msg
  BY DEF Exit, Exits, books
<1>3. \A m \in Msgs : Has(p, m) => Th(p) = Of(m)
  BY DEF HolderInv
<1>4. Failed(p) \in [Msgs -> {"none", "queued", "sent", "failed"}]
  BY <1>0 DEF Failed
<1>5. \A m \in Msgs : Failed(p)[m] = IF Has(p, m) /\ msg[m] # "none" THEN "failed" ELSE msg[m]
  BY DEF Failed
<1> QED
  BY <1>0, <1>1, <1>2, <1>3, <1>4, <1>5, Zenon DEF Loses

LEMMA SpawnFailsLoses ==
  ASSUME TypeOK, SendInv, HolderInv, NEW n \in Calls, SpawnFails(n)
  PROVE  sends[n].p \in Procs /\ Loses(sends[n].p)
<1> DEFINE p == sends[n].p
<1>0. /\ msg \in [Msgs -> {"none", "queued", "sent", "failed"}]
      /\ Msg(n) \in Msgs
  BY Types DEF Msg, SendRec
<1>1. proc' = [proc EXCEPT ![p] = Unused] /\ UNCHANGED <<there, healed>>
  BY DEF SpawnFails
<1>2. msg' = IF Of(Msg(n)) \in there THEN [Failed(p) EXCEPT ![Msg(n)] = "failed"] ELSE msg
  BY DEF SpawnFails, Logs
<1>3. /\ p \in Procs /\ Th(p) = Of(Msg(n)) /\ sends[n].at # "none"
      /\ \A m \in Msgs : Has(p, m) => Th(p) = Of(m)
  BY DEF HolderInv, SpawnFails, SendInv
<1> HIDE DEF p
<1>4. Failed(p) \in [Msgs -> {"none", "queued", "sent", "failed"}]
  BY <1>0 DEF Failed
<1>5. \A m \in Msgs : Failed(p)[m] = IF Has(p, m) /\ msg[m] # "none" THEN "failed" ELSE msg[m]
  BY DEF Failed
<1>6. \A m \in Msgs : [Failed(p) EXCEPT ![Msg(n)] = "failed"][m] =
                        IF m = Msg(n) THEN "failed" ELSE Failed(p)[m]
  BY <1>4
<1>7. [Failed(p) EXCEPT ![Msg(n)] = "failed"] \in [Msgs -> {"none", "queued", "sent", "failed"}]
  BY <1>4
<1>8. p = sends[n].p
  BY DEF p
<1>9. ASSUME NEW m \in Msgs
      PROVE  /\ msg'[m] \in {msg[m], "failed"}
             /\ Of(m) \in there /\ Has(p, m) /\ msg[m] # "none" => msg'[m] = "failed"
             /\ Of(m) \notin there => msg'[m] = msg[m]
             /\ ~Has(p, m) => \/ msg'[m] = msg[m]
                              \/ \E k \in Calls : sends[k].at # "none" /\ Msg(k) = m
  <2>1. CASE Of(Msg(n)) \notin there
    BY <1>2, <1>3, <2>1
  <2>2. CASE Of(Msg(n)) \in there
    <3>1. msg'[m] = IF m = Msg(n) THEN "failed" ELSE Failed(p)[m]
      BY <1>2, <1>6, <2>2
    <3> QED
      BY <1>3, <1>5, <2>2, <3>1
  <2> QED
    BY <2>1, <2>2
<1>10. msg' \in [Msgs -> {"none", "queued", "sent", "failed"}]
  BY <1>0, <1>2, <1>7
<1> QED
  BY <1>1, <1>3, <1>8, <1>9, <1>10, Zenon DEF Loses

LEMMA MsgsNext ==
  ASSUME TypeOK, ProcInv, TableInv, SendInv, HolderInv, [Next]_vars, ~Restart
  PROVE  \/ \E m \in Msgs, p \in Procs : Hands(m, p)
         \/ \E p \in Procs : Reads(p) \/ Loses(p)
         \/ Keeps /\ SameBooks
         \/ Rests /\ \E t \in Threads : \/ Healing(t) /\ msg' = HealedMsg(t)
                                        \/ Removes(t)
<1>0. proc \in [Procs -> ProcRec] /\ live \in [Threads -> Procs \cup {NoProc}]
      /\ sends \in [Calls -> SendRec]
  BY Types
<1>1. ASSUME NEW m \in Msgs, Send(m)
      PROVE  \/ \E p \in Procs : Hands(m, p)
             \/ Keeps /\ SameBooks
             \/ Rests /\ \E t \in Threads : Healing(t) /\ msg' = HealedMsg(t)
  <2>0. Of(m) \in Threads
    BY OfMsgs
  <2>1. CASE SendsNothing(m)
    <3>1. Rests => Keeps
      BY <1>0 DEF Rests, Keeps, Th
    <3> QED
      BY <2>0, <2>1, <3>1 DEF SendsNothing, Calm, SameBooks
  <2>2. CASE SendsWaiting(m)
    <3>1. Rests => Keeps
      BY <1>0 DEF Rests, Keeps, Th
    <3> QED
      BY <2>0, <2>2, <3>1 DEF SendsWaiting, Calm, SameBooks
  <2>3. CASE SendsAtOnce(m)
    <3>1. live[Of(m)] \in Procs /\ proc[live[Of(m)]].st = "up" /\ Th(live[Of(m)]) = Of(m)
      BY <1>0, <2>0, <2>3 DEF SendsAtOnce, TableInv
    <3> QED
      BY <2>3, <3>1 DEF SendsAtOnce, Hands
  <2> QED
    BY <1>1, <2>1, <2>2, <2>3, SendMoves
<1>2. ASSUME NEW p \in Procs, Stops(p), SameBooks
      PROVE  Keeps
  BY <1>0, <1>2 DEF Stops, Keeps, Th, ProcRec
<1>3. ASSUME NEW n \in Calls, HasLeft(n) \/ MakeRoom(n)
      PROVE  Keeps /\ SameBooks
  <2>1. SameBooks
    BY <1>3 DEF HasLeft, MakeRoom, SameBooks, books
  <2>2. proc' = proc => Keeps
    BY <1>0 DEF Keeps, Th
  <2>3. LiveProcs \subseteq Procs
    BY DEF LiveProcs
  <2> QED
    BY <1>2, <1>3, <2>1, <2>2, <2>3 DEF HasLeft, MakeRoom
<1>4. ASSUME NEW n \in Calls, Start(n)
      PROVE  Keeps /\ SameBooks
  <2>1. PICK p \in Procs : /\ proc[p].st = "gone" /\ proc'[p] = Started(Of(Msg(n)))
                           /\ \A q \in Procs : q # p => proc'[q] = proc[q]
    BY <1>4, Starting, Zenon
  <2>2. Of(Msg(n)) \in Threads /\ proc[p] = Unused
    BY <1>4, <2>1, Starting DEF ProcInv
  <2>3. proc'[p].unacked = <<>> /\ proc[p].unacked = <<>>
    BY <2>1, <2>2, StartedIs, UnusedIs
  <2>4. Keeps
    BY <2>1, <2>3 DEF Keeps, Th
  <2> QED
    BY <1>4, <2>4 DEF Start, SameBooks, books
<1>5. ASSUME NEW n \in Calls, Spawned(n)
      PROVE  Hands(Msg(n), sends[n].p) /\ Msg(n) \in Msgs /\ sends[n].p \in Procs
  BY <1>0, <1>5 DEF Spawned, SendInv, Hands, Finishes, Ends, Msg, SendRec
<1>6. ASSUME NEW p \in Procs, Works(p) \/ Asks(p) \/ Withdraws(p) \/ Result(p)
      PROVE  Keeps /\ SameBooks
  <2>1. SameBooks
    BY <1>6 DEF Works, Asks, Withdraws, Result, SameBooks
  <2>2. \E r \in ProcRec : /\ proc' = [proc EXCEPT ![p] = r] /\ r.unacked = proc[p].unacked
                           /\ r.th = proc[p].th /\ r.st = proc[p].st
    <3>0. proc[p] \in ProcRec
      BY <1>0
    <3>1. CASE Works(p)
      <4>1. \/ proc' = [proc EXCEPT ![p] = [proc[p] EXCEPT !.does = "works", !.turn = TRUE]]
            \/ proc' = [proc EXCEPT ![p] = [proc[p] EXCEPT !.does = "works"]]
        BY <1>0, <3>1 DEF Works, Does
      <4>2. /\ [proc[p] EXCEPT !.does = "works", !.turn = TRUE] \in ProcRec
            /\ [proc[p] EXCEPT !.does = "works"] \in ProcRec
        BY <3>0 DEF ProcRec
      <4> QED
        BY <3>0, <4>1, <4>2 DEF ProcRec
    <3>2. CASE Asks(p)
      <4> DEFINE r == [proc[p] EXCEPT !.does = "waits", !.turn = TRUE, !.ask = TRUE]
      <4>1. proc' = [proc EXCEPT ![p] = r]
        BY <1>0, <3>2 DEF Asks
      <4>2. r \in ProcRec /\ r.unacked = proc[p].unacked /\ r.th = proc[p].th /\ r.st = proc[p].st
        BY <3>0 DEF ProcRec
      <4> QED
        BY <4>1, <4>2
    <3>3. CASE Withdraws(p)
      <4> DEFINE r == [proc[p] EXCEPT !.does = "works", !.ask = FALSE]
      <4>1. proc' = [proc EXCEPT ![p] = r]
        BY <1>0, <3>3 DEF Withdraws
      <4>2. r \in ProcRec /\ r.unacked = proc[p].unacked /\ r.th = proc[p].th /\ r.st = proc[p].st
        BY <3>0 DEF ProcRec
      <4> QED
        BY <4>1, <4>2
    <3>4. CASE Result(p)
      <4> DEFINE r == [proc[p] EXCEPT !.does = "rest", !.turn = FALSE, !.ask = FALSE]
      <4>1. proc' = [proc EXCEPT ![p] = r]
        BY <1>0, <3>4 DEF Result
      <4>2. r \in ProcRec /\ r.unacked = proc[p].unacked /\ r.th = proc[p].th /\ r.st = proc[p].st
        BY <3>0 DEF ProcRec
      <4> QED
        BY <4>1, <4>2
    <3> QED
      BY <1>6, <3>1, <3>2, <3>3, <3>4
  <2> QED
    BY <1>0, <2>1, <2>2 DEF Keeps, Th
<1>7. ASSUME NEW t \in Threads, Respond(t) \/ Interrupt(t)
      PROVE  Keeps /\ SameBooks
  <2>1. SameBooks
    BY <1>7 DEF Respond, Interrupt, SameBooks
  <2>2. live[t] \in Procs /\ proc[live[t]] \in ProcRec
    BY <1>0, <1>7 DEF Respond, Interrupt
  <2>3. CASE Respond(t)
    BY <1>0, <2>1, <2>2, <2>3 DEF Respond, Keeps, Th, ProcRec
  <2>4. CASE Interrupt(t)
    BY <1>0, <2>1, <2>2, <2>4 DEF Interrupt, Keeps, Th, ProcRec
  <2> QED
    BY <1>7, <2>3, <2>4
<1>8. ASSUME NEW t \in Threads, Stop(t) \/ (RemoveThread(t) /\ live[t] # NoProc)
      PROVE  Keeps /\ SameBooks
  <2>1. live[t] \in Procs /\ Stops(live[t]) /\ SameBooks
    BY <1>0, <1>8 DEF Stop, RemoveThread, SameBooks, books
  <2> QED
    BY <1>2, <2>1
<1>9. ASSUME NEW t \in Threads, Open(t)
      PROVE  Rests /\ Healing(t) /\ msg' = HealedMsg(t)
  <2>1. t \in there /\ MustHeal(t) /\ Heals(t) /\ there' = there
        /\ turns' = HealedTurns(t) /\ asked' = HealedAsked(t) /\ Rests /\ msg' = HealedMsg(t)
    BY <1>9 DEF Open, Rests, table
  <2> QED
    BY <2>1, HealingTwice
<1>10. ASSUME NEW t \in Threads, RemoveThread(t) /\ live[t] = NoProc
       PROVE  (Keeps /\ SameBooks) \/ (Rests /\ Removes(t))
  <2>1. Rests
    BY <1>10 DEF RemoveThread, Rests, table
  <2>2. Rests => Keeps
    BY <1>0 DEF Rests, Keeps, Th
  <2> QED
    BY <1>10, <2>1, <2>2 DEF RemoveThread, SameBooks, books
<1>11. ASSUME NEW t \in Threads, RemoveGoesOn(t)
       PROVE  Rests /\ Removes(t)
  BY <1>11 DEF RemoveGoesOn, Rests, table
<1>12. CASE UNCHANGED vars
  BY <1>0, <1>12 DEF vars, books, Keeps, SameBooks, Th
<1> QED
  BY <1>1, <1>3, <1>4, <1>5, <1>6, <1>7, <1>8, <1>9, <1>10, <1>11, <1>12, ExitLoses,
     SpawnFailsLoses, ZenonT(60) DEF Next

LEMMA HandsIs ==
  ASSUME TypeOK, NEW m \in Msgs, NEW p \in Procs, Hands(m, p)
  PROVE  /\ \A q \in Procs : proc'[q].th = proc[q].th /\ proc'[q].st = proc[q].st
         /\ \A q \in Procs, x \in Msgs :
              Has(q, x)' <=> Has(q, x) \/ (q = p /\ x = m /\ proc[p].st # "stopping")
         /\ \A x \in Msgs : msg'[x] = IF x = m /\ Of(m) \in there
                                      THEN IF proc[p].st # "stopping" THEN "queued" ELSE "failed"
                                      ELSE msg[x]
         /\ msg' \in [Msgs -> {"none", "queued", "sent", "failed"}]
<1> DEFINE u == IF proc[p].st # "stopping" THEN Append(proc[p].unacked, m) ELSE proc[p].unacked
           r == [proc[p] EXCEPT !.turn = TRUE, !.unacked = u]
<1>0. /\ proc \in [Procs -> ProcRec] /\ msg \in [Msgs -> {"none", "queued", "sent", "failed"}]
      /\ proc[p].unacked \in Seq(Msgs)
  BY Types DEF ProcRec
<1>1. proc' = [proc EXCEPT ![p] = r]
  BY <1>0 DEF Hands, Deliver
<1>2. r.unacked = u /\ r.th = proc[p].th /\ r.st = proc[p].st
  BY <1>0 DEF ProcRec
<1>3. \A x : (\E i \in DOMAIN u : u[i] = x) <=>
               (\E i \in DOMAIN proc[p].unacked : proc[p].unacked[i] = x)
                 \/ (x = m /\ proc[p].st # "stopping")
  <2>1. CASE proc[p].st # "stopping"
    <3>1. u = Append(proc[p].unacked, m)
      BY <2>1
    <3> HIDE DEF u
    <3> QED
      BY <1>0, <2>1, <3>1, Written
  <2>2. CASE proc[p].st = "stopping"
    <3>1. u = proc[p].unacked
      BY <2>2
    <3> HIDE DEF u
    <3> QED
      BY <2>2, <3>1
  <2> QED
    BY <2>1, <2>2
<1> HIDE DEF u, r
<1>4. proc'[p] = r /\ \A q \in Procs : q # p => proc'[q] = proc[q]
  BY <1>0, <1>1
<1>5. \A q \in Procs, x \in Msgs :
        Has(q, x)' <=> Has(q, x) \/ (q = p /\ x = m /\ proc[p].st # "stopping")
  BY <1>2, <1>3, <1>4 DEF Has
<1>6. msg' = IF Of(m) \in there
             THEN [msg EXCEPT ![m] = IF proc[p].st # "stopping" THEN "queued" ELSE "failed"]
             ELSE msg
  BY DEF Hands, Deliver, Logs
<1>7. /\ \A x \in Msgs : msg'[x] = IF x = m /\ Of(m) \in there
                                   THEN IF proc[p].st # "stopping" THEN "queued" ELSE "failed"
                                   ELSE msg[x]
      /\ msg' \in [Msgs -> {"none", "queued", "sent", "failed"}]
  BY <1>0, <1>6
<1> QED
  BY <1>2, <1>4, <1>5, <1>7

LEMMA ReadsIs ==
  ASSUME TypeOK, NEW p \in Procs, Reads(p)
  PROVE  /\ \A q \in Procs : proc'[q].th = proc[q].th /\ proc'[q].st = proc[q].st
         /\ Head(proc[p].unacked) \in Msgs /\ Has(p, Head(proc[p].unacked))
         /\ \A q \in Procs, x \in Msgs :
              /\ Has(q, x)' => Has(q, x)
              /\ Has(q, x) => Has(q, x)' \/ (q = p /\ x = Head(proc[p].unacked))
         /\ \A x \in Msgs : msg'[x] = IF x = Head(proc[p].unacked) /\ msg[x] # "none"
                                      THEN "sent" ELSE msg[x]
         /\ msg' \in [Msgs -> {"none", "queued", "sent", "failed"}]
         /\ Th(p) \in there /\ UNCHANGED <<there, healed>>
<1> DEFINE s == proc[p].unacked
           u == Tail(s)
           h == Head(s)
           r == [proc[p] EXCEPT !.does = "works", !.turn = TRUE, !.unacked = u]
<1>0. /\ proc \in [Procs -> ProcRec] /\ msg \in [Msgs -> {"none", "queued", "sent", "failed"}]
      /\ s \in Seq(Msgs) /\ s # <<>>
  BY Types DEF ProcRec, Reads
<1>1. /\ proc' = [proc EXCEPT ![p] = r]
      /\ msg' = [msg EXCEPT ![h] = IF msg[h] = "none" THEN msg[h] ELSE "sent"]
  BY <1>0 DEF Reads
<1>2. r.unacked = u /\ r.th = proc[p].th /\ r.st = proc[p].st
  BY <1>0 DEF ProcRec
<1>3. /\ h \in Msgs /\ \E i \in DOMAIN s : s[i] = h
      /\ \A x : (\E i \in DOMAIN u : u[i] = x) => (\E i \in DOMAIN s : s[i] = x)
      /\ \A x : (\E i \in DOMAIN s : s[i] = x) => (\E i \in DOMAIN u : u[i] = x) \/ x = h
  BY <1>0, Read, Zenon
<1>6. s = proc[p].unacked /\ h = Head(proc[p].unacked)
  OBVIOUS
<1> HIDE DEF s, u, h, r
<1>4. proc'[p] = r /\ \A q \in Procs : q # p => proc'[q] = proc[q]
  BY <1>0, <1>1
<1>5. \A q \in Procs, x \in Msgs :
        /\ Has(q, x)' => Has(q, x)
        /\ Has(q, x) => Has(q, x)' \/ (q = p /\ x = h)
  BY <1>2, <1>3, <1>4, <1>6 DEF Has
<1>7. /\ \A x \in Msgs : msg'[x] = IF x = h /\ msg[x] # "none" THEN "sent" ELSE msg[x]
      /\ msg' \in [Msgs -> {"none", "queued", "sent", "failed"}]
  BY <1>0, <1>1, <1>3
<1>8. Has(p, h)
  BY <1>3, <1>6 DEF Has
<1>9. Th(p) \in there /\ UNCHANGED <<there, healed>>
  BY DEF Reads, Hears
<1>10. \A q \in Procs : proc'[q].th = proc[q].th /\ proc'[q].st = proc[q].st
  BY <1>2, <1>4
<1> QED
  BY <1>3, <1>5, <1>6, <1>7, <1>8, <1>9, <1>10

LEMMA LosesIs ==
  ASSUME TypeOK, NEW p \in Procs, Loses(p)
  PROVE  /\ \A x : ~Has(p, x)'
         /\ \A q \in Procs : q # p => proc'[q] = proc[q] /\ \A x : Has(q, x)' <=> Has(q, x)
<1>1. proc \in [Procs -> ProcRec] /\ proc' = [proc EXCEPT ![p] = Unused]
  BY Types DEF Loses
<1>2. proc'[p] = Unused /\ \A q \in Procs : q # p => proc'[q] = proc[q]
  BY <1>1, Zenon
<1>3. DOMAIN Unused.unacked = {}
  BY UnusedIs
<1> QED
  BY <1>2, <1>3 DEF Has

LEMMA KeepsHas ==
  ASSUME Keeps, NEW p \in Procs, NEW x
  PROVE  /\ Has(p, x)' <=> Has(p, x)
         /\ Has(p, x) /\ proc[p].st # "gone" => proc'[p].th = Th(p) /\ proc'[p].st # "gone"
<1>1. Has(p, x)' <=> Has(p, x)
  BY DEF Keeps, Has
<1>2. Has(p, x) => proc[p].unacked # <<>>
  BY DEF Has
<1> QED
  BY <1>1, <1>2 DEF Keeps

LEMMA RestsHas ==
  ASSUME Rests, NEW p, NEW x
  PROVE  (Has(p, x)' <=> Has(p, x)) /\ proc'[p] = proc[p]
BY DEF Rests, Has

\* The message that is handed over is in nobody's hands and not open in the log.
LEMMA HandsFresh ==
  ASSUME TypeOK, SendInv, HolderInv, WaiterInv, NEW m \in Msgs, NEW p \in Procs, Hands(m, p)
  PROVE  (\A q \in Procs : ~Has(q, m)) /\ ~Pending(m)
<1>1. CASE ~Joins(m) /\ Of(m) \in there /\ ~Pending(m)
  BY <1>1 DEF HolderInv
<1>2. ASSUME NEW n \in Calls, sends[n].at = "spawn", Msg(n) = m
      PROVE  (\A q \in Procs : ~Has(q, m)) /\ ~Pending(m)
  BY <1>2 DEF WaiterInv
<1> QED
  BY <1>1, <1>2 DEF Hands

LEMMA HealedMsgIs ==
  ASSUME TypeOK, NEW t
  PROVE  /\ \A m \in Msgs : HealedMsg(t)[m] = IF MustHeal(t) /\ Of(m) = t /\ msg[m] = "queued"
                                              THEN "failed" ELSE msg[m]
         /\ HealedMsg(t) \in [Msgs -> {"none", "queued", "sent", "failed"}]
BY Types DEF HealedMsg

LEMMA HolderNext ==
  ASSUME TypeOK, ProcInv, TableInv, SendInv, HolderInv, WaiterInv, UnhealedInv, [Next]_vars
  PROVE  HolderInv'
<1>0. msg \in [Msgs -> {"none", "queued", "sent", "failed"}] /\ proc \in [Procs -> ProcRec]
  BY Types
<1> DEFINE Old(m) ==
             /\ \A p \in Procs : Has(p, m) => /\ Th(p) = Of(m) /\ proc[p].st # "gone"
                                              /\ Of(m) \in there => msg[m] \in {"queued", "sent"}
             /\ \A p, q \in Procs : Has(p, m) /\ Has(q, m) => p = q
             /\ Of(m) \in there \cap healed /\ msg[m] = "queued" => \E p \in Procs : Has(p, m)
             /\ Of(m) \notin there => msg[m] = "none"
           New(m) ==
             /\ \A p \in Procs : Has(p, m)' =>
                  /\ proc'[p].th = Of(m) /\ proc'[p].st # "gone"
                  /\ Of(m) \in there' => msg'[m] \in {"queued", "sent"}
             /\ \A p, q \in Procs : Has(p, m)' /\ Has(q, m)' => p = q
             /\ Of(m) \in there' \cap healed' /\ msg'[m] = "queued" => \E p \in Procs : Has(p, m)'
             /\ Of(m) \notin there' => msg'[m] = "none"
<1>1. \A m \in Msgs : Old(m)
  BY DEF HolderInv, Pending
<1>2. ASSUME Restart, NEW m \in Msgs
      PROVE  New(m)
  <2>1. /\ \A p \in Procs : proc'[p] = Unused
        /\ healed' = {} /\ there' = there
    BY <1>2, RestartClears
  <2>2. \A p \in Procs : ~Has(p, m)'
    <3>1. DOMAIN Unused.unacked = {}
      BY UnusedIs
    <3> QED
      BY <2>1, <3>1 DEF Has
  <2>3. Of(m) \notin there => msg'[m] = msg[m]
    BY <1>2 DEF Restart
  <2> QED
    BY <1>1, <2>1, <2>2, <2>3
<1>3. ASSUME NEW h \in Msgs, NEW o \in Procs, Hands(h, o), NEW m \in Msgs
      PROVE  New(m)
  <2>1. there' = there /\ healed' = healed /\ Th(o) = Of(h) /\ proc[o].st # "gone"
    BY <1>3 DEF Hands
  <2>2. \A q \in Procs : ~Has(q, h)
    BY <1>3, HandsFresh
  <2>3. /\ \A q \in Procs : proc'[q].th = proc[q].th /\ proc'[q].st = proc[q].st
        /\ \A q \in Procs : Has(q, m)' <=> Has(q, m) \/ (q = o /\ m = h /\ proc[o].st # "stopping")
        /\ msg'[m] = IF m = h /\ Of(h) \in there
                     THEN IF proc[o].st # "stopping" THEN "queued" ELSE "failed" ELSE msg[m]
    BY <1>3, HandsIs
  <2>4. Old(m)
    BY <1>1
  <2>5. CASE m = h
    BY <2>1, <2>2, <2>3, <2>4, <2>5 DEF Th
  <2>6. CASE m # h
    BY <2>1, <2>3, <2>4, <2>6 DEF Th
  <2> QED
    BY <2>5, <2>6
<1>4. ASSUME NEW o \in Procs, Reads(o), NEW m \in Msgs
      PROVE  New(m)
  <2> DEFINE h == Head(proc[o].unacked)
  <2>1. /\ \A q \in Procs : proc'[q].th = proc[q].th /\ proc'[q].st = proc[q].st
        /\ \A q \in Procs : /\ Has(q, m)' => Has(q, m)
                            /\ Has(q, m) => Has(q, m)' \/ (q = o /\ m = h)
        /\ msg'[m] = IF m = h /\ msg[m] # "none" THEN "sent" ELSE msg[m]
        /\ there' = there /\ healed' = healed
        /\ Th(o) \in there /\ h \in Msgs /\ Has(o, h)
    BY <1>4, ReadsIs
  <2>2. Old(m) /\ Old(h)
    BY <1>1, <2>1
  <2> HIDE DEF h
  <2> QED
    BY <2>1, <2>2 DEF Th
<1>5. ASSUME NEW o \in Procs, Loses(o), NEW m \in Msgs
      PROVE  New(m)
  <2>1. /\ ~Has(o, m)'
        /\ \A q \in Procs : q # o => proc'[q] = proc[q] /\ (Has(q, m)' <=> Has(q, m))
    BY <1>5, LosesIs
  <2>2. /\ there' = there /\ healed' = healed
        /\ msg'[m] \in {msg[m], "failed"}
        /\ Of(m) \in there /\ Has(o, m) /\ msg[m] # "none" => msg'[m] = "failed"
        /\ Of(m) \notin there => msg'[m] = msg[m]
        /\ ~Has(o, m) => \/ msg'[m] = msg[m]
                         \/ \E n \in Calls : sends[n].at # "none" /\ Msg(n) = m
    BY <1>5 DEF Loses
  <2>3. (\E n \in Calls : sends[n].at # "none" /\ Msg(n) = m) => \A q \in Procs : ~Has(q, m)
    BY DEF WaiterInv
  <2>4. Old(m)
    BY <1>1
  <2>5. ASSUME NEW q \in Procs, Has(q, m)'
        PROVE  q # o /\ Has(q, m) /\ ~Has(o, m) /\ msg'[m] = msg[m] /\ proc'[q] = proc[q]
    BY <2>1, <2>2, <2>3, <2>4, <2>5
  <2> QED
    BY <2>1, <2>2, <2>4, <2>5 DEF Th
<1>6. ASSUME Keeps, SameBooks, NEW m \in Msgs
      PROVE  New(m)
  <2>1. \A p \in Procs :
          /\ Has(p, m)' <=> Has(p, m)
          /\ Has(p, m) /\ proc[p].st # "gone" => proc'[p].th = Th(p) /\ proc'[p].st # "gone"
    BY <1>6, KeepsHas
  <2>2. there' = there /\ healed' = healed /\ msg' = msg
    BY <1>6 DEF SameBooks
  <2> QED
    BY <1>1, <2>1, <2>2
<1>7. ASSUME Rests, NEW t \in Threads, Healing(t), msg' = HealedMsg(t), NEW m \in Msgs
      PROVE  New(m)
  <2>1. \A p \in Procs : (Has(p, m)' <=> Has(p, m)) /\ proc'[p] = proc[p]
    BY <1>7, RestsHas
  <2>2. /\ t \in there \ healed /\ MustHeal(t) /\ there' = there /\ healed' = healed \cup {t}
    BY <1>7 DEF Healing, MustHeal
  <2>3. msg'[m] = IF Of(m) = t /\ msg[m] = "queued" THEN "failed" ELSE msg[m]
    BY <1>7, <2>2, HealedMsgIs
  <2>4. \A p \in Procs : proc[p].st # "gone" => Th(p) # t
    BY <2>2 DEF UnhealedInv, Mine
  <2>5. Old(m)
    BY <1>1
  <2> QED
    BY <2>1, <2>2, <2>3, <2>4, <2>5 DEF Th
<1>8. ASSUME Rests, NEW t \in Threads, Removes(t), NEW m \in Msgs
      PROVE  New(m)
  <2>1. \A p \in Procs : (Has(p, m)' <=> Has(p, m)) /\ proc'[p] = proc[p]
    BY <1>8, RestsHas
  <2>2. /\ there' = there \ {t} /\ healed' = healed \ {t}
        /\ msg'[m] = IF Of(m) = t THEN "none" ELSE msg[m]
    BY <1>8 DEF Removes
  <2>3. Old(m)
    BY <1>1
  <2> QED
    BY <2>1, <2>2, <2>3 DEF Th
<1>9. \A m \in Msgs : New(m)
  <2> HIDE DEF New, Old
  <2> QED
    BY <1>2, <1>3, <1>4, <1>5, <1>6, <1>7, <1>8, MsgsNext, ZenonT(60)
<1> QED
  BY <1>9 DEF HolderInv, Pending, Th

\* A call that waits has waited for its message before, or waits from now on.
LEMMA Waited ==
  ASSUME TypeOK, SendInv, [Next]_vars, ~Restart, NEW k \in Calls, sends'[k].at # "none"
  PROVE  \/ sends[k].at # "none" /\ sends'[k].m = Msg(k)
         \/ \E m \in Msgs : SendsWaiting(m) /\ k = tries + 1 /\ sends'[k].m = m
<1>1. CASE Start(k)
  BY <1>1, Starting
<1> QED
  BY <1>1, SendGoes DEF Msg

\* A message that nobody has and that is not open is opened only when it is handed over.
LEMMA OpenedNext ==
  ASSUME TypeOK, ProcInv, TableInv, SendInv, HolderInv, [Next]_vars, ~Restart,
         NEW m \in Msgs, \A p \in Procs : ~Has(p, m), ~Pending(m)
  PROVE  \/ \E p \in Procs : Hands(m, p)
         \/ (\A p \in Procs : ~Has(p, m)') /\ ~Pending(m)'
<1>0. msg \in [Msgs -> {"none", "queued", "sent", "failed"}]
  BY Types
<1>1. ASSUME NEW h \in Msgs, NEW o \in Procs, Hands(h, o), h # m
      PROVE  (\A p \in Procs : ~Has(p, m)') /\ ~Pending(m)'
  <2>1. /\ \A q \in Procs : Has(q, m)' <=> Has(q, m) \/ (q = o /\ m = h /\ proc[o].st # "stopping")
        /\ msg'[m] = IF m = h /\ Of(h) \in there
                     THEN IF proc[o].st # "stopping" THEN "queued" ELSE "failed" ELSE msg[m]
    BY <1>1, HandsIs
  <2> QED
    BY <1>1, <2>1 DEF Pending
<1>2. ASSUME NEW o \in Procs, Reads(o)
      PROVE  (\A p \in Procs : ~Has(p, m)') /\ ~Pending(m)'
  <2>1. /\ \A q \in Procs : Has(q, m)' => Has(q, m)
        /\ Has(o, Head(proc[o].unacked))
        /\ msg'[m] = IF m = Head(proc[o].unacked) /\ msg[m] # "none" THEN "sent" ELSE msg[m]
    BY <1>2, ReadsIs
  <2> QED
    BY <2>1 DEF Pending
<1>3. ASSUME NEW o \in Procs, Loses(o)
      PROVE  (\A p \in Procs : ~Has(p, m)') /\ ~Pending(m)'
  <2>1. /\ ~Has(o, m)'
        /\ \A q \in Procs : q # o => (Has(q, m)' <=> Has(q, m))
    BY <1>3, LosesIs
  <2>2. msg'[m] \in {msg[m], "failed"}
    BY <1>3 DEF Loses
  <2> QED
    BY <2>1, <2>2 DEF Pending
<1>4. ASSUME Keeps, SameBooks
      PROVE  (\A p \in Procs : ~Has(p, m)') /\ ~Pending(m)'
  BY <1>4, KeepsHas DEF SameBooks, Pending
<1>5. ASSUME Rests, NEW t \in Threads, \/ Healing(t) /\ msg' = HealedMsg(t)
                                       \/ Removes(t)
      PROVE  (\A p \in Procs : ~Has(p, m)') /\ ~Pending(m)'
  <2>1. \A p \in Procs : Has(p, m)' <=> Has(p, m)
    BY <1>5, RestsHas
  <2>2. msg'[m] \in {msg[m], "none", "failed"}
    BY <1>5, HealedMsgIs DEF Removes
  <2> QED
    BY <2>1, <2>2 DEF Pending
<1> QED
  BY <1>1, <1>2, <1>3, <1>4, <1>5, MsgsNext, ZenonT(60)

\* A send begins to wait for a message that nobody has and that is not open.
LEMMA SendsFresh ==
  ASSUME TypeOK, HolderInv, UnhealedInv, NEW m \in Msgs, SendsWaiting(m)
  PROVE  (\A p \in Procs : ~Has(p, m)') /\ ~Pending(m)'
<1>1. /\ Of(m) \in there /\ Rests /\ live[Of(m)] = NoProc
      /\ HealedMsg(Of(m))[m] \notin {"queued", "sent"}
      /\ \/ Of(m) \in healed /\ msg' = msg
         \/ MustHeal(Of(m)) /\ msg' = HealedMsg(Of(m))
  BY DEF SendsWaiting
<1>2. msg'[m] \notin {"queued", "sent"}
  BY <1>1, HealedMsgIs DEF MustHeal
<1>3. ASSUME NEW p \in Procs, Has(p, m)
      PROVE  FALSE
  <2>1. Th(p) = Of(m) /\ proc[p].st # "gone" /\ Pending(m)
    BY <1>1, <1>3 DEF HolderInv
  <2>2. Of(m) \in healed
    BY <1>1, <2>1 DEF UnhealedInv, Mine
  <2>3. HealedMsg(Of(m))[m] = msg[m]
    BY <2>2, HealedMsgIs DEF MustHeal
  <2> QED
    BY <1>1, <2>1, <2>3 DEF Pending
<1> QED
  BY <1>1, <1>2, <1>3, RestsHas DEF Pending

LEMMA WaiterNext ==
  ASSUME TypeOK, ProcInv, TableInv, SendInv, HolderInv, WaiterInv, UnhealedInv, [Next]_vars
  PROVE  WaiterInv'
<1>1. CASE Restart
  <2>1. \A n \in Calls : sends'[n].at = "none"
    BY <1>1, RestartClears DEF NotSending
  <2> QED
    BY <2>1 DEF WaiterInv
<1>2. ASSUME ~Restart, NEW n \in Calls, sends'[n].at # "none"
      PROVE  \E m \in Msgs : /\ sends'[n].m = m
                             /\ \A p \in Procs : ~Has(p, m)'
                             /\ ~Pending(m)'
  <2>1. CASE sends[n].at # "none" /\ sends'[n].m = Msg(n)
    <3>0. PICK m \in Msgs : m = Msg(n)
      BY Types DEF Msg, SendRec
    <3>1. (\A p \in Procs : ~Has(p, m)) /\ ~Pending(m)
      BY <2>1, <3>0 DEF WaiterInv
    <3>2. ASSUME NEW p \in Procs, Hands(m, p)
          PROVE  FALSE
      <4>1. CASE ~Joins(m)
        BY <2>1, <3>0, <4>1 DEF Joins
      <4>2. ASSUME NEW k \in Calls, sends[k].at = "spawn", Msg(k) = m, Finishes(k)
            PROVE  FALSE
        <5>1. sends[k].at # "none"
          BY <4>2
        <5>2. k = n
          BY <2>1, <3>0, <4>2, <5>1, Zenon DEF WaiterInv
        <5>3. sends'[k].at = "none"
          BY <4>2, Finishing
        <5> QED
          BY <1>2, <5>2, <5>3
      <4> QED
        BY <3>2, <4>1, <4>2 DEF Hands
    <3>3. (\A p \in Procs : ~Has(p, m)') /\ ~Pending(m)'
      BY <1>2, <3>1, <3>2, OpenedNext
    <3> QED
      BY <2>1, <3>0, <3>3
  <2>2. ASSUME NEW m \in Msgs, SendsWaiting(m), sends'[n].m = m
        PROVE  (\A p \in Procs : ~Has(p, m)') /\ ~Pending(m)'
    BY <2>2, SendsFresh
  <2> QED
    BY <1>2, <2>1, <2>2, Waited
<1>3. ASSUME ~Restart, NEW n \in Calls, sends'[n].at # "none",
             NEW k \in Calls, sends'[k].at # "none", sends'[k].m = sends'[n].m
      PROVE  k = n
  <2>1. CASE /\ sends[n].at # "none" /\ sends'[n].m = Msg(n)
             /\ sends[k].at # "none" /\ sends'[k].m = Msg(k)
    BY <1>3, <2>1 DEF WaiterInv
  <2>2. ASSUME NEW m \in Msgs, SendsWaiting(m), NEW x \in Calls, sends[x].at # "none", Msg(x) = m
        PROVE  FALSE
    BY <2>2 DEF SendsWaiting, Joins
  <2>3. \/ sends[n].at # "none" /\ sends'[n].m = Msg(n)
        \/ \E m \in Msgs : SendsWaiting(m) /\ n = tries + 1 /\ sends'[n].m = m
    BY <1>3, Waited
  <2>4. \/ sends[k].at # "none" /\ sends'[k].m = Msg(k)
        \/ \E m \in Msgs : SendsWaiting(m) /\ k = tries + 1 /\ sends'[k].m = m
    BY <1>3, Waited
  <2> QED
    BY <1>3, <2>1, <2>2, <2>3, <2>4
<1> QED
  BY <1>1, <1>2, <1>3 DEF WaiterInv, Msg, Has, Pending

-----------------------------------------------------------------------------
(* What devices are shown *)

Faces == {"idle", "working", "waiting"}

\* What is shown of the thread of p is what p does, the rest stays.
Tells(p) ==
  /\ shown' \in [Threads -> Faces]
  /\ \A t \in Threads : t # Th(p) => shown'[t] = shown[t]
  /\ Th(p) \in there =>
       \/ shown'[Th(p)] = Doing(proc'[p])
       \/ shown'[Th(p)] = shown[Th(p)] /\ Doing(proc'[p]) = Doing(proc[p])

LEMMA ShowsTells ==
  ASSUME TypeOK, NEW p \in Procs, NEW s \in Faces, Shows(Th(p), s), s = Doing(proc'[p])
  PROVE  Tells(p)
<1>1. shown \in [Threads -> Faces] /\ Th(p) \in Threads
  BY Types, TableTypes DEF Faces
<1>2. shown' = IF Th(p) \in there THEN [shown EXCEPT ![Th(p)] = s] ELSE shown
  BY DEF Shows
<1> QED
  BY <1>1, <1>2 DEF Tells

LEMMA BeginsTells ==
  ASSUME TypeOK, ProcInv, NEW p \in Procs, Begins(p),
         proc'[p].turn, proc'[p].ask = proc[p].ask
  PROVE  Tells(p)
<1>1. CASE proc[p].turn
  <2>1. shown' = shown /\ shown \in [Threads -> Faces]
    BY <1>1, Types DEF Begins, Faces
  <2>2. Doing(proc'[p]) = Doing(proc[p])
    BY <1>1 DEF Doing
  <2> QED
    BY <2>1, <2>2 DEF Tells
<1>2. CASE ~proc[p].turn
  <2> DEFINE s == IF proc[p].ask THEN "waiting" ELSE "working"
  <2>1. Shows(Th(p), s)
    BY <1>2, Zenon DEF Begins
  <2>2. s \in Faces /\ s = Doing(proc'[p])
    BY <1>2 DEF Faces, Doing
  <2> HIDE DEF s
  <2> QED
    BY <2>1, <2>2, ShowsTells
<1> QED
  BY <1>1, <1>2

LEMMA TalkTells ==
  ASSUME TypeOK, ProcInv, NEW p \in Procs,
         Reads(p) \/ Works(p) \/ Asks(p) \/ Withdraws(p) \/ Result(p)
  PROVE  \E r \in ProcRec : Moves(p, r) /\ Talks(p, r) /\ Tells(p)
<1>0. proc \in [Procs -> ProcRec] /\ proc[p] \in ProcRec
  BY TableTypes
<1>1. CASE Reads(p)
  <2>1. proc'[p].turn /\ proc'[p].ask = proc[p].ask
    BY <1>0, <1>1 DEF Reads, ProcRec
  <2>2. Tells(p)
    BY <1>1, <2>1, BeginsTells DEF Reads
  <2> QED
    BY <1>1, <2>2, ReadsMoves
<1>2. CASE Works(p)
  <2>1. ASSUME Begins(p), proc' = [proc EXCEPT ![p].does = "works", ![p].turn = TRUE]
        PROVE  Tells(p)
    <3>1. proc'[p].turn /\ proc'[p].ask = proc[p].ask
      BY <1>0, <2>1 DEF ProcRec
    <3> QED
      BY <2>1, <3>1, BeginsTells
  <2>2. ASSUME proc' = Does(p, "works"), shown' = shown
        PROVE  Tells(p)
    <3>1. proc'[p].turn = proc[p].turn /\ proc'[p].ask = proc[p].ask
      BY <1>0, <2>2 DEF ProcRec, Does
    <3>2. Doing(proc'[p]) = Doing(proc[p])
      BY <3>1 DEF Doing
    <3> QED
      BY <2>2, <3>2, Types DEF Tells, Faces
  <2>3. Tells(p)
    BY <1>2, <2>1, <2>2 DEF Works
  <2> QED
    BY <1>2, <2>3, WorksMoves
<1>3. CASE Asks(p)
  <2>1. proc'[p].ask
    BY <1>0, <1>3 DEF Asks, ProcRec
  <2>2. "waiting" = Doing(proc'[p]) /\ "waiting" \in Faces
    BY <2>1 DEF Doing, Faces
  <2>3. Tells(p)
    BY <1>3, <2>2, ShowsTells DEF Asks
  <2> QED
    BY <1>3, <2>3, AsksMoves
<1>4. CASE Withdraws(p)
  <2>1. proc'[p].turn = proc[p].turn /\ ~proc'[p].ask
    BY <1>0, <1>4 DEF Withdraws, ProcRec
  <2> DEFINE s == IF proc[p].turn THEN "working" ELSE "idle"
  <2>2. s = Doing(proc'[p]) /\ s \in Faces
    BY <2>1 DEF Doing, Faces
  <2>3. Shows(Th(p), s)
    BY <1>4 DEF Withdraws
  <2> HIDE DEF s
  <2>4. Tells(p)
    BY <2>2, <2>3, ShowsTells
  <2> QED
    BY <1>4, <2>4, WithdrawsMoves
<1>5. CASE Result(p)
  <2>1. ~proc'[p].turn /\ ~proc'[p].ask
    BY <1>0, <1>5 DEF Result, ProcRec
  <2>2. "idle" = Doing(proc'[p]) /\ "idle" \in Faces
    BY <2>1 DEF Doing, Faces
  <2>3. Tells(p)
    BY <1>5, <2>2, ShowsTells DEF Result
  <2> QED
    BY <1>5, <2>3, ResultMoves
<1> QED
  BY <1>1, <1>2, <1>3, <1>4, <1>5

LEMMA AnswerTells ==
  ASSUME TypeOK, ProcInv, TableInv, NEW t \in Threads, Respond(t) \/ Interrupt(t)
  PROVE  \E p \in Procs, r \in ProcRec : Moves(p, r) /\ Talks(p, r) /\ Tells(p)
<1>1. live[t] \in Procs /\ Th(live[t]) = t
      /\ \E r \in ProcRec : Moves(live[t], r) /\ Talks(live[t], r)
  BY AnswersMove
<1>2. PICK p \in Procs : p = live[t]
  BY <1>1
<1>0. proc[p].ask
  BY <1>2 DEF Respond, Interrupt
<1>3. proc \in [Procs -> ProcRec] /\ proc[p] \in ProcRec /\ proc[p].ask /\ proc[p].turn
  BY <1>0, TableTypes DEF ProcInv
<1>4. proc'[p].turn = proc[p].turn /\ ~proc'[p].ask
  <2>1. CASE Respond(t)
    <3>1. proc' = [proc EXCEPT ![p] = [proc[p] EXCEPT !.ask = FALSE, !.does = "works"]]
      BY <1>2, <1>3, <2>1 DEF Respond
    <3> QED
      BY <1>3, <3>1 DEF ProcRec
  <2>2. CASE Interrupt(t)
    <3>1. proc' = [proc EXCEPT ![p] = [proc[p] EXCEPT !.ask = FALSE]]
      BY <1>2, <1>3, <2>2 DEF Interrupt
    <3> QED
      BY <1>3, <3>1 DEF ProcRec
  <2> QED
    BY <2>1, <2>2
<1>5. "working" = Doing(proc'[p]) /\ "working" \in Faces
  BY <1>3, <1>4 DEF Doing, Faces
<1>6. Shows(Th(p), "working")
  BY <1>1, <1>2 DEF Respond, Interrupt
<1> QED
  BY <1>1, <1>2, <1>5, <1>6, ShowsTells

LEMMA DeliverTells ==
  ASSUME TypeOK, ProcInv, NEW m \in Msgs, NEW p \in Procs, proc[p].st # "gone", Deliver(m, p),
         UNCHANGED <<there, live, leaving, healed, asked>>
  PROVE  \E r \in ProcRec : Moves(p, r) /\ Talks(p, r) /\ Tells(p)
<1>1. proc \in [Procs -> ProcRec] /\ proc[p] \in ProcRec
  BY TableTypes
<1>2. proc'[p].turn /\ proc'[p].ask = proc[p].ask
  BY <1>1 DEF Deliver, ProcRec
<1>3. Tells(p)
  BY <1>2, BeginsTells DEF Deliver
<1> QED
  BY <1>3, DeliverMoves

\* What is shown when a process ends.
Clears(p) ==
  /\ shown' \in [Threads -> Faces]
  /\ \A t \in Threads : shown'[t] = IF t = Th(p) /\ t \in there THEN "idle" ELSE shown[t]

LEMMA EndClears ==
  ASSUME TypeOK, NEW p \in Procs,
         shown' = IF Th(p) \in there THEN [shown EXCEPT ![Th(p)] = "idle"] ELSE shown
  PROVE  Clears(p)
BY Types, TableTypes DEF Clears, Faces

LEMMA ShownNext ==
  ASSUME TypeOK, ProcInv, TableInv, SendInv, [Next]_vars, ~Restart
  PROVE  \/ Rests /\ shown' = shown /\ (Calm \/ \E t \in Threads : Healing(t))
         \/ Rests /\ \E t \in Threads : Removes(t)
         \/ \E p \in Procs, r \in ProcRec : Moves(p, r) /\ Talks(p, r) /\ Tells(p)
         \/ \E p \in Procs, r \in ProcRec : Moves(p, r) /\ Halts(p, r) /\ shown' = shown
         \/ \E p \in Procs, r \in ProcRec : Moves(p, r) /\ Begun(p, r) /\ shown' = shown
         \/ \E p \in Procs : Moves(p, Unused) /\ Ended(p, Unused) /\ Clears(p)
<1> DEFINE Quietly == Rests /\ shown' = shown /\ (Calm \/ \E t \in Threads : Healing(t))
           Removing == Rests /\ \E t \in Threads : Removes(t)
           Talking == \E p \in Procs, r \in ProcRec : Moves(p, r) /\ Talks(p, r) /\ Tells(p)
           Halting == \E p \in Procs, r \in ProcRec : Moves(p, r) /\ Halts(p, r) /\ shown' = shown
           Beginning == \E p \in Procs, r \in ProcRec :
                          Moves(p, r) /\ Begun(p, r) /\ shown' = shown
           Ending == \E p \in Procs : Moves(p, Unused) /\ Ended(p, Unused) /\ Clears(p)
<1>0. live \in [Threads -> Procs \cup {NoProc}] /\ sends \in [Calls -> SendRec]
  BY Types
<1>1. ASSUME NEW m \in Msgs, Send(m)
      PROVE  Quietly \/ Talking
  <2>0. Of(m) \in Threads
    BY OfMsgs
  <2>1. CASE SendsNothing(m)
    BY <2>0, <2>1 DEF SendsNothing
  <2>2. CASE SendsWaiting(m)
    BY <2>0, <2>2 DEF SendsWaiting
  <2>3. CASE SendsAtOnce(m)
    <3>1. live[Of(m)] \in Procs /\ proc[live[Of(m)]].st # "gone" /\ Deliver(m, live[Of(m)])
          /\ UNCHANGED <<there, live, leaving, healed, asked>>
      BY <1>0, <2>0, <2>3 DEF SendsAtOnce, TableInv
    <3>2. PICK p \in Procs : p = live[Of(m)]
      BY <3>1
    <3> QED
      BY <3>1, <3>2, DeliverTells
  <2> QED
    BY <1>1, <2>1, <2>2, <2>3, SendMoves
<1>2. ASSUME NEW p \in Procs, p = live[Th(p)], Stops(p), Calm, shown' = shown
      PROVE  Halting
  BY <1>2, StopsMoves DEF Calm
<1>3. ASSUME NEW n \in Calls, HasLeft(n) \/ MakeRoom(n)
      PROVE  Quietly \/ Halting
  <2>1. Calm /\ shown' = shown
    BY <1>3 DEF HasLeft, MakeRoom, Calm, books
  <2>2. UNCHANGED <<proc, table>> => Rests
    BY DEF Rests, table
  <2>3. \A p \in LiveProcs : p \in Procs /\ p = live[Th(p)]
    BY DEF LiveProcs
  <2> HIDE DEF Halting
  <2> QED
    BY <1>2, <1>3, <2>1, <2>2, <2>3 DEF HasLeft, MakeRoom
<1>4. ASSUME NEW n \in Calls, Start(n)
      PROVE  Beginning
  <2>1. shown' = shown
    BY <1>4 DEF Start, books
  <2> QED
    BY <1>4, <2>1, StartMoves
<1>5. ASSUME NEW n \in Calls, Spawned(n)
      PROVE  Talking
  <2>1. PICK p \in Procs : p = sends[n].p
    BY <1>5 DEF Spawned, SendInv
  <2>2. PICK m \in Msgs : m = Msg(n)
    BY <1>0 DEF Msg, SendRec
  <2>3. proc[p].st # "gone" /\ Deliver(m, p) /\ UNCHANGED <<there, live, leaving, healed, asked>>
    BY <1>5, <2>1, <2>2 DEF Spawned, SendInv, table
  <2> QED
    BY <2>3, DeliverTells
<1>6. ASSUME NEW n \in Calls, SpawnFails(n)
      PROVE  Ending
  <2>1. PICK p \in Procs : p = sends[n].p
    BY <1>6, SpawnFailsMoves
  <2>2. Th(p) = Of(Msg(n)) /\ Moves(p, Unused) /\ Ended(p, Unused)
    BY <1>6, <2>1, SpawnFailsMoves
  <2>3. shown' = IF Th(p) \in there THEN [shown EXCEPT ![Th(p)] = "idle"] ELSE shown
    BY <1>6, <2>2, Zenon DEF SpawnFails, Shows
  <2> QED
    BY <2>2, <2>3, EndClears
<1>7. ASSUME NEW p \in Procs, Exit(p)
      PROVE  Ending
  <2>1. shown' = IF Th(p) \in there THEN [shown EXCEPT ![Th(p)] = "idle"] ELSE shown
    BY <1>7 DEF Exit, Exits, Shows, books
  <2> QED
    BY <1>7, <2>1, EndClears, ExitMoves
<1>8. ASSUME NEW p \in Procs, Reads(p) \/ Works(p) \/ Asks(p) \/ Withdraws(p) \/ Result(p)
      PROVE  Talking
  BY <1>8, TalkTells
<1>9. ASSUME NEW t \in Threads, Respond(t) \/ Interrupt(t)
      PROVE  Talking
  BY <1>9, AnswerTells
<1>10. ASSUME NEW t \in Threads, Stop(t) \/ (RemoveThread(t) /\ live[t] # NoProc)
       PROVE  Halting
  <2>1. PICK p \in Procs : p = live[t]
    BY <1>0, <1>10 DEF Stop
  <2>2. Th(p) = t /\ Stops(p) /\ Calm /\ shown' = shown
    BY <1>10, <2>1, Numbers DEF Stop, RemoveThread, TableInv, Calm, books
  <2> HIDE DEF Halting
  <2> QED
    BY <1>2, <2>1, <2>2
<1>11. ASSUME NEW t \in Threads, RemoveThread(t), live[t] = NoProc
       PROVE  Quietly \/ Removing
  BY <1>11 DEF RemoveThread, Rests, Calm, table, books
<1>12. ASSUME NEW t \in Threads, RemoveGoesOn(t)
       PROVE  Removing
  BY <1>12 DEF RemoveGoesOn, Rests, table
<1>13. ASSUME NEW t \in Threads, Open(t)
       PROVE  Quietly
  <2>1. t \in there /\ MustHeal(t) /\ Heals(t) /\ there' = there
        /\ turns' = HealedTurns(t) /\ asked' = HealedAsked(t) /\ Rests /\ shown' = shown
    BY <1>13 DEF Open, Rests, table
  <2> QED
    BY <2>1, HealingTwice
<1>14. ASSUME UNCHANGED vars
       PROVE  Quietly
  BY <1>14 DEF vars, table, books, Rests, Calm
<1>15. Quietly \/ Removing \/ Talking \/ Halting \/ Beginning \/ Ending
  <2> HIDE DEF Quietly, Removing, Talking, Halting, Beginning, Ending
  <2>1. ASSUME NEW n \in Calls,
               HasLeft(n) \/ MakeRoom(n) \/ Start(n) \/ Spawned(n) \/ SpawnFails(n)
        PROVE  Quietly \/ Talking \/ Halting \/ Beginning \/ Ending
    BY <2>1, <1>3, <1>4, <1>5, <1>6
  <2>2. ASSUME NEW p \in Procs, \/ Exit(p) \/ Reads(p) \/ Works(p) \/ Asks(p)
                                \/ Withdraws(p) \/ Result(p)
        PROVE  Talking \/ Ending
    BY <2>2, <1>7, <1>8
  <2>3. ASSUME NEW t \in Threads, \/ Respond(t) \/ Interrupt(t) \/ Stop(t) \/ Open(t)
                                  \/ RemoveThread(t) \/ RemoveGoesOn(t)
        PROVE  Quietly \/ Removing \/ Talking \/ Halting
    BY <2>3, <1>9, <1>10, <1>11, <1>12, <1>13
  <2> QED
    BY <1>1, <2>1, <2>2, <2>3, <1>14, ZenonT(60) DEF Next
<1> QED
  BY <1>15

-----------------------------------------------------------------------------
(* One process *)

LEMMA OthersNext ==
  ASSUME TypeOK, [Next]_vars
  PROVE  /\ faults' = faults \/ (faults < MaxFaults /\ faults' = faults + 1)
         /\ \/ removing' = removing \/ removing' = [t \in Threads |-> NoProc]
            \/ \E t \in Threads, p \in Procs \cup {NoProc} : removing' = [removing EXCEPT ![t] = p]
         /\ crowded' = crowded \/ \E m \in Msgs : crowded' = crowded \cup {Of(m)}
<1>0. live \in [Threads -> Procs \cup {NoProc}] /\ leaving \in [Threads -> Procs \cup {NoProc}]
  BY Types
<1>1. ASSUME NEW m \in Msgs, Send(m)
      PROVE  /\ faults' = faults /\ removing' = removing
             /\ crowded' = crowded \/ crowded' = crowded \cup {Of(m)}
  BY <1>1, SendMoves
<1>2. ASSUME NEW n \in Calls,
             HasLeft(n) \/ MakeRoom(n) \/ Start(n) \/ Spawned(n) \/ SpawnFails(n)
      PROVE  /\ faults' = faults \/ (faults < MaxFaults /\ faults' = faults + 1)
             /\ removing' = removing /\ crowded' = crowded
  BY <1>2 DEF HasLeft, MakeRoom, Start, Spawned, SpawnFails, Fault, bounds
<1>3. ASSUME NEW p \in Procs,
             Exit(p) \/ Reads(p) \/ Works(p) \/ Asks(p) \/ Withdraws(p) \/ Result(p)
      PROVE  /\ faults' = faults \/ (faults < MaxFaults /\ faults' = faults + 1)
             /\ removing' = removing /\ crowded' = crowded
  BY <1>3 DEF Exit, Reads, Works, Asks, Withdraws, Result, Fault, bounds
<1>4. ASSUME NEW t \in Threads, Respond(t) \/ Interrupt(t) \/ Stop(t) \/ Open(t)
      PROVE  faults' = faults /\ removing' = removing /\ crowded' = crowded
  BY <1>4 DEF Respond, Interrupt, Stop, Open, bounds
<1>5. ASSUME NEW t \in Threads, RemoveThread(t) \/ RemoveGoesOn(t)
      PROVE  /\ faults' = faults /\ crowded' = crowded
             /\ \/ removing' = removing
                \/ \E p \in Procs \cup {NoProc} : removing' = [removing EXCEPT ![t] = p]
  BY <1>0, <1>5 DEF RemoveThread, RemoveGoesOn, bounds
<1>6. CASE Restart
  BY <1>6 DEF Restart, Fault
<1>7. CASE UNCHANGED vars
  BY <1>7 DEF vars, bounds
<1> QED
  BY <1>1, <1>2, <1>3, <1>4, <1>5, <1>6, <1>7, ZenonT(60) DEF Next

LEMMA CrowdedNext ==
  ASSUME TypeOK, [Next]_vars
  PROVE  crowded \subseteq crowded' /\ crowded' \subseteq Threads
BY OthersNext, OfMsgs, Types

\* Threads are not added, and only a restart makes a log one that must be cleaned up.
LEMMA ThereNext ==
  ASSUME TypeOK, ProcInv, TableInv, SendInv, [Next]_vars
  PROVE  /\ there' \subseteq there /\ healed' \subseteq Threads
         /\ ~Restart => there' \ healed' \subseteq there \ healed
<1>1. CASE Restart
  BY <1>1, RestartClears
<1>2. CASE Quiet
  BY <1>2, Types DEF Quiet, Calm, Healing, Removes
<1>3. ASSUME NEW p \in Procs, NEW r \in ProcRec, Moves(p, r)
      PROVE  there' = there /\ healed' = healed
  BY <1>3 DEF Moves, Logged
<1> QED
  BY <1>1, <1>2, <1>3, NextMoves, Types

LEMMA AloneTable ==
  ASSUME TypeOK, ProcInv, TableInv, SendInv, AloneInv, [Next]_vars, ~Restart,
         NEW t \in there \ crowded
  PROVE  /\ Mine(t)' \subseteq {live'[t], leaving'[t]}
         /\ live'[t] = NoProc \/ leaving'[t] = NoProc
         /\ live[t] = NoProc =>
              /\ leaving'[t] \in {leaving[t], NoProc}
              /\ \/ live'[t] = NoProc
                 \/ \E n \in Waiting(t) : sends[n].at = "env" /\ sends'[n].at = "spawn"
<1>0. /\ t \in Threads /\ proc \in [Procs -> ProcRec] /\ NoProc \notin Procs
      /\ live \in [Threads -> Procs \cup {NoProc}] /\ leaving \in [Threads -> Procs \cup {NoProc}]
  BY Types, Numbers
<1>1. /\ Mine(t) \subseteq {live[t], leaving[t]}
      /\ live[t] = NoProc \/ leaving[t] = NoProc
      /\ \A n \in Waiting(t) : sends[n].at = "env" => live[t] = NoProc /\ leaving[t] = NoProc
  BY DEF AloneInv
<1>2. CASE Rests
  BY <1>1, <1>2 DEF Rests, Mine, Th
<1>3. ASSUME NEW p \in Procs, NEW r \in ProcRec, Moves(p, r)
      PROVE  /\ Mine(t)' \subseteq {live'[t], leaving'[t]}
             /\ live'[t] = NoProc \/ leaving'[t] = NoProc
             /\ live[t] = NoProc =>
                  /\ leaving'[t] \in {leaving[t], NoProc}
                  /\ \/ live'[t] = NoProc
                     \/ \E n \in Waiting(t) : sends[n].at = "env" /\ sends'[n].at = "spawn"
  <2>1. proc'[p] = r /\ \A q \in Procs : q # p => proc'[q] = proc[q]
    BY <1>3, MovedProc
  <2>2. CASE Talks(p, r)
    <3>1. Mine(t)' = Mine(t)
      BY <2>1, <2>2 DEF Talks, Mine, Th
    <3> QED
      BY <1>1, <2>2, <3>1 DEF Talks
  <2>3. CASE Halts(p, r)
    <3>1. r.st = "stopping" /\ r.th = Th(p) /\ Th(p) \in Threads
      BY <1>0, <2>3 DEF Halts, ProcRec, Th
    <3>2. Mine(t)' = Mine(t)
      <4>1. proc[p].st # "gone"
        BY <2>3 DEF Halts
      <4>2. \A q \in Procs : /\ proc'[q].st # "gone" <=> proc[q].st # "gone"
                             /\ proc'[q].th = Th(q)
        BY <2>1, <3>1, <4>1 DEF Th
      <4> QED
        BY <4>2 DEF Mine, Th
    <3>3. /\ live'[t] = IF t = Th(p) THEN NoProc ELSE live[t]
          /\ leaving'[t] = IF t = Th(p) THEN p ELSE leaving[t]
          /\ t = Th(p) => live[t] = p
      BY <1>0, <2>3, <3>1 DEF Halts
    <3>4. Mine(t) \subseteq Procs
      BY DEF Mine
    <3> QED
      BY <1>0, <1>1, <3>2, <3>3, <3>4
  <2>4. CASE Begun(p, r)
    <3>1. PICK n \in Calls : /\ sends[n].at = "env" /\ At(n, "spawn", p)
                             /\ r = Started(Of(Msg(n)))
                             /\ live' = [live EXCEPT ![Of(Msg(n))] = p] /\ leaving' = leaving
      BY <2>4, Zenon DEF Begun
    <3>2. Of(Msg(n)) \in Threads /\ r.th = Of(Msg(n)) /\ r.st = "up"
      BY <3>1, StartedIs, Types, OfMsgs DEF Msg, SendRec
    <3>3. live'[t] = IF t = Of(Msg(n)) THEN p ELSE live[t]
      BY <1>0, <3>1
    <3>4. CASE t = Of(Msg(n))
      <4>1. n \in Waiting(t) /\ sends'[n].at = "spawn"
        BY <3>1, <3>4, Going DEF Waiting
      <4>2. live[t] = NoProc /\ leaving[t] = NoProc
        BY <1>1, <3>1, <4>1
      <4>3. Mine(t)' \subseteq {p}
        BY <1>0, <1>1, <2>1, <4>2 DEF Mine, Th
      <4> QED
        BY <3>1, <3>3, <3>4, <4>1, <4>2, <4>3
    <3>5. CASE t # Of(Msg(n))
      <4>1. Mine(t)' \subseteq Mine(t)
        BY <2>1, <3>2, <3>5 DEF Mine, Th
      <4> QED
        BY <1>1, <3>1, <3>3, <3>5, <4>1
    <3> QED
      BY <3>4, <3>5
  <2>5. CASE Ended(p, r)
    <3>1. Mine(t)' \subseteq Mine(t) \ {p}
      BY <2>1, <2>5, UnusedIs DEF Ended, Mine, Th
    <3>2. /\ live'[t] = IF live[t] = p THEN NoProc ELSE live[t]
          /\ leaving'[t] = IF leaving[t] = p THEN NoProc ELSE leaving[t]
      BY <1>0, <2>5 DEF Ended
    <3> QED
      BY <1>1, <3>1, <3>2
  <2> QED
    BY <1>3, <2>2, <2>3, <2>4, <2>5 DEF Moves
<1> QED
  BY <1>2, <1>3, NextMoves DEF Quiet

\* A set with two elements is larger than one.
LEMMA OneOnly ==
  ASSUME NEW S \in SUBSET Calls, ~(Cardinality(S) > 1), NEW a \in S, NEW b \in S
  PROVE  a = b
<1> SUFFICES ASSUME a # b
             PROVE  FALSE
  OBVIOUS
<1>1. IsFiniteSet(Calls)
  BY Numbers, FS_Interval
<1>2. IsFiniteSet(S) /\ Cardinality(S) \in Nat
  BY <1>1, FS_Subset, FS_CardinalityType
<1>3. IsFiniteSet(S \ {a}) /\ Cardinality(S \ {a}) = Cardinality(S) - 1
  BY <1>2, FS_RemoveElement
<1>4. Cardinality((S \ {a}) \ {b}) = Cardinality(S \ {a}) - 1
  <2>1. b \in S \ {a}
    OBVIOUS
  <2> QED
    BY <1>3, <2>1, FS_RemoveElement
<1>5. Cardinality((S \ {a}) \ {b}) \in Nat
  BY <1>3, FS_RemoveElement, FS_CardinalityType
<1> QED
  BY <1>2, <1>3, <1>4, <1>5

LEMMA AloneNext ==
  ASSUME TypeOK, ProcInv, TableInv, SendInv, AloneInv, [Next]_vars
  PROVE  AloneInv'
<1>1. CASE Restart
  <2>1. /\ \A p \in Procs : proc'[p].st = "gone"
        /\ \A n \in Calls : sends'[n].at = "none"
        /\ \A t \in Threads : live'[t] = NoProc /\ leaving'[t] = NoProc
    BY <1>1, RestartClears, UnusedIs DEF NotSending
  <2>2. there' \subseteq Threads
    BY ThereNext, Types
  <2> QED
    BY <2>1, <2>2 DEF AloneInv, Mine, Waiting
<1>2. ASSUME ~Restart, NEW t \in there' \ crowded'
      PROVE  /\ Mine(t)' \subseteq {live'[t], leaving'[t]}
             /\ live'[t] = NoProc \/ leaving'[t] = NoProc
             /\ \A n, k \in Waiting(t)' : n = k
             /\ \A n \in Waiting(t)' :
                  /\ sends'[n].at \in {"locate", "env"} =>
                       live'[t] = NoProc /\ leaving'[t] = NoProc
                  /\ sends'[n].at = "leaving" =>
                       live'[t] = NoProc /\ leaving'[t] \in {NoProc, sends'[n].p}
  <2>0. t \in there \ crowded /\ t \in Threads
    BY <1>2, ThereNext, CrowdedNext, Types
  <2>1. /\ Mine(t)' \subseteq {live'[t], leaving'[t]}
        /\ live'[t] = NoProc \/ leaving'[t] = NoProc
        /\ live[t] = NoProc =>
              /\ leaving'[t] \in {leaving[t], NoProc}
              /\ \/ live'[t] = NoProc
                 \/ \E n \in Waiting(t) : sends[n].at = "env" /\ sends'[n].at = "spawn"
    BY <1>2, <2>0, AloneTable
  <2>2. ASSUME NEW m \in Msgs, SendsWaiting(m), Of(m) = t, tries < MaxSends
        PROVE  /\ \A n, k \in Waiting(t)' : n = k
               /\ \A n \in Waiting(t)' :
                    /\ sends'[n].at \in {"locate", "env"} =>
                         live'[t] = NoProc /\ leaving'[t] = NoProc
                    /\ sends'[n].at = "leaving" =>
                         live'[t] = NoProc /\ leaving'[t] \in {NoProc, sends'[n].p}
    <3>1. /\ crowded' = IF Cardinality(Waiting(t)') > 1 THEN crowded \cup {t} ELSE crowded
          /\ live[t] = NoProc /\ live' = live /\ leaving' = leaving
      BY <2>2 DEF SendsWaiting, Rests
    <3>2. ~(Cardinality(Waiting(t)') > 1) /\ Waiting(t)' \in SUBSET Calls
      BY <1>2, <3>1 DEF Waiting
    <3>3. \A n, k \in Waiting(t)' : n = k
      BY <3>2, OneOnly
    <3>4. PICK n \in Calls : /\ sends'[n].m = m /\ sends'[n].p = leaving[t]
                             /\ sends'[n].at = IF leaving[t] # NoProc THEN "leaving" ELSE "locate"
      BY <2>2, Joining
    <3>5. n \in Waiting(t)'
      BY <2>2, <3>4 DEF Waiting, Msg
    <3> QED
      BY <3>1, <3>3, <3>4, <3>5
  <2>3. ASSUME \A m \in Msgs : SendsWaiting(m) => Of(m) # t
        PROVE  /\ \A n, k \in Waiting(t)' : n = k
               /\ \A n \in Waiting(t)' :
                    /\ sends'[n].at \in {"locate", "env"} =>
                         live'[t] = NoProc /\ leaving'[t] = NoProc
                    /\ sends'[n].at = "leaving" =>
                         live'[t] = NoProc /\ leaving'[t] \in {NoProc, sends'[n].p}
    <3>1. Waiting(t)' \subseteq Waiting(t)
      BY <1>2, <2>0, <2>3, WaitingNext
    <3>2. /\ \A n, k \in Waiting(t) : n = k
          /\ \A n \in Waiting(t) :
               /\ sends[n].at \in {"locate", "env"} => live[t] = NoProc /\ leaving[t] = NoProc
               /\ sends[n].at = "leaving" =>
                    live[t] = NoProc /\ leaving[t] \in {NoProc, sends[n].p}
      BY <2>0 DEF AloneInv
    <3>3. ASSUME NEW n \in Waiting(t)', sends'[n].at \in {"leaving", "locate", "env"}
          PROVE  /\ live'[t] = NoProc
                 /\ leaving'[t] = NoProc \/ (sends'[n].at = "leaving" /\ leaving'[t] = sends'[n].p)
      <4>1. n \in Waiting(t) /\ n \in Calls /\ Of(sends'[n].m) = t
        BY <3>1 DEF Waiting, Msg
      <4>2. ~Start(n)
        BY <3>3, <4>1, Starting
      <4>3. \/ sends'[n] = sends[n]
            \/ /\ \/ sends[n].at = "leaving" /\ proc[sends[n].p].st = "gone"
                  \/ sends[n].at = "locate"
               /\ sends'[n].at \in {"locate", "env"}
        BY <1>2, <2>3, <3>3, <4>1, <4>2, SendGoes
      <4>4. live[t] = NoProc
        BY <3>2, <3>3, <4>1, <4>3
      <4>5. live'[t] = NoProc
        BY <2>1, <3>2, <3>3, <4>1, <4>4
      <4>6. leaving'[t] \in {leaving[t], NoProc}
        BY <2>1, <4>4
      <4>7. leaving[t] # NoProc => proc[leaving[t]].st = "stopping"
        BY <2>0 DEF TableInv
      <4> QED
        BY <3>2, <3>3, <4>1, <4>3, <4>5, <4>6, <4>7
    <3>4. \A n, k \in Waiting(t)' : n = k
      BY <3>1, <3>2
    <3>5. ASSUME NEW n \in Waiting(t)'
          PROVE  /\ sends'[n].at \in {"locate", "env"} =>
                      live'[t] = NoProc /\ leaving'[t] = NoProc
                 /\ sends'[n].at = "leaving" =>
                      live'[t] = NoProc /\ leaving'[t] \in {NoProc, sends'[n].p}
      BY <3>3
    <3> QED
      BY <3>4, <3>5
  <2>4. \A m \in Msgs : SendsWaiting(m) => tries < MaxSends
    BY DEF SendsWaiting
  <2> QED
    BY <2>1, <2>2, <2>3, <2>4
<1> QED
  BY <1>1, <1>2 DEF AloneInv

-----------------------------------------------------------------------------
(* The turns and requests of the log are numbers *)

\* A process that moves has something open only in a log this daemon has cleaned up.
LEMMA UnhealedStays ==
  ASSUME TypeOK, ProcInv, UnhealedInv, NEW p \in Procs, NEW r \in ProcRec, Moves(p, r),
         NEW t \in there \ healed
  PROVE  turns'[t] = turns[t] /\ asked'[t] = asked[t]
<1>0. /\ t \in Threads /\ turns[t] \in Int /\ asked[t] \in Int
  BY Types
<1>1. CASE t # Th(p)
  BY <1>0, <1>1, Zenon DEF Moves, Logged
<1>2. CASE t = Th(p)
  <2>1. proc[p].st = "gone" /\ ~proc[p].turn /\ ~proc[p].ask
    BY <1>2, UnusedIs DEF UnhealedInv, Mine, ProcInv
  <2>2. Begun(p, r)
    BY <2>1 DEF Moves, Talks, Halts, Ended
  <2>3. ~r.turn /\ ~r.ask
    <3>1. \A n \in Calls : Of(Msg(n)) \in Threads
      BY Types, OfMsgs DEF Msg, SendRec
    <3> QED
      BY <2>2, <3>1, StartedIs DEF Begun
  <2>4. Gain(proc[p].turn, r.turn) = 0 /\ Gain(proc[p].ask, r.ask) = 0
    BY <2>1, <2>3, Gains, Zenon
  <2>5. /\ turns'[t] = turns[t] + Gain(proc[p].turn, r.turn)
        /\ asked'[t] = asked[t] + Gain(proc[p].ask, r.ask)
    BY <1>0, <1>2, Zenon DEF Moves, Logged
  <2> QED
    BY <1>0, <2>4, <2>5
<1> QED
  BY <1>1, <1>2

\* What closeBooks closes is open in the log.
LEMMA LiveCounts ==
  ASSUME TypeOK, ProcInv, TableInv, UnhealedInv, CountInv, NEW t \in there, live[t] # NoProc
  PROVE  /\ proc[live[t]].turn => turns[t] > 0
         /\ proc[live[t]].ask => asked[t] > 0
<1>1. t \in Threads /\ live[t] \in Procs /\ Th(live[t]) = t /\ proc[live[t]].st = "up"
  BY Types DEF TableInv
<1>2. t \in healed
  BY <1>1 DEF UnhealedInv, Mine
<1>3. turns[t] = Cardinality(Turning(t)) /\ asked[t] = Cardinality(Asking(t))
  BY <1>2 DEF CountInv
<1>4. /\ proc[live[t]].turn => Turning(t) # {}
      /\ proc[live[t]].ask => Asking(t) # {}
  BY <1>1 DEF Turning, Asking
<1>5. /\ Cardinality(Turning(t)) = 0 <=> Turning(t) = {}
      /\ Cardinality(Asking(t)) = 0 <=> Asking(t) = {}
  BY Finite, FS_EmptySet
<1>6. turns[t] \in Nat /\ asked[t] \in Nat
  BY <1>1, Types
<1> QED
  BY <1>3, <1>4, <1>5, <1>6

LEMMA TurnsNext ==
  ASSUME TypeOK, ProcInv, TableInv, SendInv, UnhealedInv, CountInv, [Next]_vars
  PROVE  /\ turns' \in [Threads -> Nat] /\ asked' \in [Threads -> Nat]
         /\ \A t \in there' \ healed' : turns'[t] \in {turns[t], turns[t] - 1}
<1>0. /\ turns \in [Threads -> Nat] /\ asked \in [Threads -> Nat] /\ there \subseteq Threads
      /\ there' \subseteq there
  BY Types, ThereNext
<1>1. CASE Restart
  <2>1. CASE UNCHANGED <<msg, turns, asked>>
    BY <1>0, <2>1
  <2>2. CASE ~UNCHANGED <<msg, turns, asked>>
    <3> DEFINE open(t) == t \in there /\ live[t] # NoProc
    <3>1. /\ turns' = [t \in Threads |->
                        turns[t] - IF open(t) /\ proc[live[t]].turn THEN 1 ELSE 0]
          /\ asked' = [t \in Threads |->
                        asked[t] - IF open(t) /\ proc[live[t]].ask THEN 1 ELSE 0]
      BY <1>1, <2>2 DEF Restart
    <3>2. \A t \in Threads : /\ open(t) /\ proc[live[t]].turn => turns[t] > 0
                             /\ open(t) /\ proc[live[t]].ask => asked[t] > 0
      BY LiveCounts
    <3> HIDE DEF open
    <3> QED
      BY <1>0, <3>1, <3>2
  <2> QED
    BY <2>1, <2>2
<1>2. CASE Quiet
  <2>1. CASE Calm
    BY <1>0, <2>1 DEF Calm
  <2>2. ASSUME NEW x \in Threads, Healing(x)
        PROVE  /\ turns' \in [Threads -> Nat] /\ asked' \in [Threads -> Nat]
               /\ \A t \in there' \ healed' : turns'[t] = turns[t]
    BY <1>0, <2>2 DEF Healing
  <2>3. ASSUME NEW x \in Threads, Removes(x)
        PROVE  /\ turns' \in [Threads -> Nat] /\ asked' \in [Threads -> Nat]
               /\ \A t \in there' \ healed' : turns'[t] = turns[t]
    BY <1>0, <2>3 DEF Removes
  <2> QED
    BY <1>2, <2>1, <2>2, <2>3 DEF Quiet
<1>3. ASSUME NEW p \in Procs, NEW r \in ProcRec, Moves(p, r)
      PROVE  /\ turns' \in [Threads -> Nat] /\ asked' \in [Threads -> Nat]
             /\ \A t \in there' \ healed' : turns'[t] = turns[t]
  <2>1. /\ turns' \in [Threads -> Int] /\ asked' \in [Threads -> Int]
        /\ there' = there /\ healed' = healed
    BY <1>3 DEF Moves, Logged
  <2>2. ASSUME NEW t \in there \ healed
        PROVE  turns'[t] = turns[t] /\ asked'[t] = asked[t]
    BY <1>3, UnhealedStays
  <2>3. ASSUME NEW t \in there \cap healed
        PROVE  turns'[t] \in Nat /\ asked'[t] \in Nat
    BY <2>1, CountNext, Finite DEF CountInv
  <2>4. ASSUME NEW t \in Threads, t \notin there
        PROVE  turns'[t] = turns[t] /\ asked'[t] = asked[t]
    BY <1>3, <2>4, Zenon DEF Moves, Logged
  <2>5. \A t \in Threads : turns'[t] \in Nat /\ asked'[t] \in Nat
    BY <1>0, <2>2, <2>3, <2>4
  <2> QED
    BY <2>1, <2>2, <2>5
<1> QED
  BY <1>1, <1>2, <1>3, NextMoves

-----------------------------------------------------------------------------
(* The invariant *)

LEMMA SendsType ==
  ASSUME TypeOK, SendInv, [Next]_vars
  PROVE  sends' \in [Calls -> SendRec]
<1>0. sends \in [Calls -> SendRec]
  BY Types
<1>1. ASSUME NEW n \in Calls, Start(n)
      PROVE  sends' \in [Calls -> SendRec]
  <2>1. PICK p \in Free : At(n, "spawn", p)
    BY <1>1 DEF Start
  <2>2. p \in Procs
    BY DEF Free
  <2> QED
    BY <2>1, <2>2, Going
<1>2. ASSUME NEW n \in Calls, Goes(n)
      PROVE  sends' \in [Calls -> SendRec]
  BY <1>2, Going DEF Goes
<1>3. ASSUME NEW m \in Msgs, SendsWaiting(m)
      PROVE  sends' \in [Calls -> SendRec]
  <2>1. tries < MaxSends
    BY <1>3 DEF SendsWaiting
  <2> QED
    BY <1>3, <2>1, Joining
<1> QED
  BY <1>0, <1>1, <1>2, <1>3, SendsNext, RestartClears, Finishing

LEMMA MsgType ==
  ASSUME TypeOK, ProcInv, TableInv, SendInv, HolderInv, [Next]_vars
  PROVE  msg' \in [Msgs -> {"none", "queued", "sent", "failed"}]
<1>0. msg \in [Msgs -> {"none", "queued", "sent", "failed"}]
  BY Types
<1>1. CASE Restart
  <2>1. CASE UNCHANGED <<msg, turns, asked>>
    BY <1>0, <2>1
  <2>2. CASE ~UNCHANGED <<msg, turns, asked>>
    <3>1. msg' = [m \in Msgs |-> IF Of(m) \in there /\ live[Of(m)] # NoProc
                                 THEN Failed(live[Of(m)])[m] ELSE msg[m]]
      BY <1>1, <2>2 DEF Restart
    <3>2. \A p : \A m \in Msgs : Failed(p)[m] \in {"none", "queued", "sent", "failed"}
      BY <1>0 DEF Failed
    <3> QED
      BY <1>0, <3>1, <3>2
  <2> QED
    BY <2>1, <2>2
<1>2. ASSUME NEW t \in Threads, Removes(t)
      PROVE  msg' \in [Msgs -> {"none", "queued", "sent", "failed"}]
  BY <1>0, <1>2 DEF Removes
<1>3. ASSUME NEW p \in Procs, Loses(p)
      PROVE  msg' \in [Msgs -> {"none", "queued", "sent", "failed"}]
  BY <1>3 DEF Loses
<1>4. CASE SameBooks
  BY <1>0, <1>4 DEF SameBooks
<1> QED
  BY <1>1, <1>2, <1>3, <1>4, MsgsNext, HandsIs, ReadsIs, HealedMsgIs, ZenonT(60)

LEMMA TableType ==
  ASSUME TypeOK, ProcInv, TableInv, SendInv, [Next]_vars
  PROVE  /\ proc' \in [Procs -> ProcRec]
         /\ live' \in [Threads -> Procs \cup {NoProc}]
         /\ leaving' \in [Threads -> Procs \cup {NoProc}]
         /\ shown' \in [Threads -> {"idle", "working", "waiting"}]
<1>0. /\ proc \in [Procs -> ProcRec]
      /\ live \in [Threads -> Procs \cup {NoProc}]
      /\ leaving \in [Threads -> Procs \cup {NoProc}]
      /\ shown \in [Threads -> {"idle", "working", "waiting"}]
  BY Types
<1>1. ASSUME NEW p \in Procs, NEW r \in ProcRec, Moves(p, r)
      PROVE  /\ proc' \in [Procs -> ProcRec]
             /\ live' \in [Threads -> Procs \cup {NoProc}]
             /\ leaving' \in [Threads -> Procs \cup {NoProc}]
  <2>1. proc' \in [Procs -> ProcRec]
    BY <1>1, MovedProc
  <2>2. CASE Talks(p, r)
    BY <1>0, <2>1, <2>2 DEF Talks
  <2>3. CASE Halts(p, r)
    BY <1>0, <2>1, <2>3 DEF Halts
  <2>4. CASE Begun(p, r)
    BY <1>0, <2>1, <2>4 DEF Begun
  <2>5. CASE Ended(p, r)
    BY <2>1, <2>5 DEF Ended
  <2> QED
    BY <1>1, <2>2, <2>3, <2>4, <2>5 DEF Moves
<1>2. Rests => /\ proc' \in [Procs -> ProcRec]
               /\ live' \in [Threads -> Procs \cup {NoProc}]
               /\ leaving' \in [Threads -> Procs \cup {NoProc}]
  BY <1>0 DEF Rests
<1>3. shown' \in [Threads -> {"idle", "working", "waiting"}]
  <2>1. \A t \in Threads : Removes(t) => shown' \in [Threads -> {"idle", "working", "waiting"}]
    BY <1>0 DEF Removes
  <2>2. \A p : Tells(p) \/ Clears(p) => shown' \in [Threads -> {"idle", "working", "waiting"}]
    BY DEF Tells, Clears, Faces
  <2> QED
    BY <1>0, <2>1, <2>2, ShownNext, RestartClears, ZenonT(60)
<1>4. CASE Restart
  BY <1>3, <1>4, RestartClears
<1> QED
  BY <1>1, <1>2, <1>3, <1>4, NextMoves DEF Quiet

LEMMA TypeNext ==
  ASSUME TypeOK, ProcInv, TableInv, SendInv, HolderInv, UnhealedInv, CountInv, [Next]_vars
  PROVE  TypeOK'
<1>1. there' \subseteq Threads /\ healed' \subseteq Threads /\ crowded' \subseteq Threads
  BY ThereNext, CrowdedNext, Types
<1>2. removing' \in [Threads -> Procs \cup {NoProc}]
  <2>1. removing \in [Threads -> Procs \cup {NoProc}]
    BY Types
  <2> QED
    BY <2>1, OthersNext
<1>3. tries' \in 0..MaxSends /\ faults' \in 0..MaxFaults
  <2>1. tries \in 0..MaxSends /\ faults \in 0..MaxFaults
    BY Types
  <2>2. tries' = tries \/ (tries < MaxSends /\ tries' = tries + 1)
    BY SendsNext, RestartClears
  <2> QED
    BY <2>1, <2>2, OthersNext, Numbers
<1>4. turns' \in [Threads -> Nat] /\ asked' \in [Threads -> Nat]
  BY TurnsNext
<1> QED
  BY <1>1, <1>2, <1>3, <1>4, SendsType, MsgType, TableType DEF TypeOK, ProcRec, SendRec, States

LEMMA ShownDoneNext ==
  ASSUME TypeOK, ProcInv, TableInv, SendInv, AloneInv, ShownIsDone, [Next]_vars
  PROVE  ShownIsDone'
<1>0. /\ proc \in [Procs -> ProcRec] /\ NoProc \notin Procs
      /\ live \in [Threads -> Procs \cup {NoProc}] /\ leaving \in [Threads -> Procs \cup {NoProc}]
  BY Types, Numbers
<1> DEFINE New(t) ==
             /\ (\A q \in Procs : proc'[q].st # "gone" => proc'[q].th # t) => shown'[t] = "idle"
             /\ live'[t] # NoProc => shown'[t] = Doing(proc'[live'[t]])
<1>1. ASSUME NEW t \in there \ crowded
      PROVE  /\ t \in Threads
             /\ (\A q \in Procs : proc[q].st # "gone" => Th(q) # t) => shown[t] = "idle"
             /\ live[t] # NoProc => shown[t] = Doing(proc[live[t]])
             /\ \A q \in Procs : proc[q].st # "gone" /\ Th(q) = t => q \in {live[t], leaving[t]}
             /\ live[t] = NoProc \/ leaving[t] = NoProc
             /\ live[t] # NoProc => proc[live[t]].st = "up" /\ Th(live[t]) = t
  BY Types DEF ShownIsDone, Mine, AloneInv, TableInv
<1>2. ASSUME ~Restart, NEW t \in there' \ crowded'
      PROVE  t \in there \ crowded
  BY <1>2, ThereNext, CrowdedNext
<1>3. ASSUME NEW t \in there \ crowded, Rests, shown'[t] = shown[t]
      PROVE  New(t)
  BY <1>1, <1>3 DEF Rests, Th
\* The other threads.
<1>4. ASSUME NEW t \in there \ crowded, NEW p \in Procs, NEW r \in ProcRec, Moves(p, r),
             proc[p].st = "gone" \/ Th(p) # t, r.st = "gone" \/ r.th # t,
             shown'[t] = shown[t], live'[t] = live[t]
      PROVE  New(t)
  <2>1. proc'[p] = r /\ \A q \in Procs : q # p => proc'[q] = proc[q]
    BY <1>4, MovedProc
  <2>2. live[t] # p
    BY <1>0, <1>1, <1>4
  <2>3. \A q \in Procs : (proc'[q].st # "gone" /\ proc'[q].th = t) <=>
                           (proc[q].st # "gone" /\ Th(q) = t)
    BY <1>4, <2>1 DEF Th
  <2>4. live[t] # NoProc => proc'[live[t]] = proc[live[t]]
    BY <1>0, <1>1, <2>1, <2>2
  <2> QED
    BY <1>1, <1>4, <2>3, <2>4
<1>5. ASSUME NEW t \in there \ crowded, NEW p \in Procs, NEW r \in ProcRec, Moves(p, r),
             Talks(p, r), Tells(p)
      PROVE  New(t)
  <2>1. r.st = proc[p].st /\ r.th = Th(p) /\ r.st # "gone" /\ live' = live
    BY <1>5 DEF Talks
  <2>2. CASE t # Th(p)
    <3>1. shown'[t] = shown[t]
      BY <1>1, <1>5, <2>2 DEF Tells
    <3> QED
      BY <1>4, <1>5, <2>1, <2>2, <3>1
  <2>3. CASE t = Th(p)
    <3>1. proc'[p].st # "gone" /\ proc'[p].th = t
      BY <1>5, <2>1, <2>3, MovedProc
    <3>2. live[t] # NoProc => live[t] = p
      BY <1>0, <1>1, <2>1, <2>3
    <3>3. live[t] # NoProc => shown'[t] = Doing(proc'[p])
      BY <1>1, <1>5, <2>3, <3>2 DEF Tells
    <3> QED
      BY <2>1, <3>1, <3>2, <3>3
  <2> QED
    BY <2>2, <2>3
<1>6. ASSUME NEW t \in there \ crowded, NEW p \in Procs, NEW r \in ProcRec, Moves(p, r),
             Halts(p, r), shown' = shown
      PROVE  New(t)
  <2>1. r.st = "stopping" /\ r.th = Th(p) /\ Th(p) \in Threads
    BY <1>0, <1>6 DEF Halts, ProcRec, Th
  <2>2. live'[t] = IF t = Th(p) THEN NoProc ELSE live[t]
    BY <1>0, <1>1, <1>6, <2>1 DEF Halts
  <2>3. CASE t # Th(p)
    BY <1>4, <1>6, <2>1, <2>2, <2>3
  <2>4. CASE t = Th(p)
    <3>1. proc'[p].st # "gone" /\ proc'[p].th = t
      BY <1>6, <2>1, <2>4, MovedProc
    <3> QED
      BY <2>2, <2>4, <3>1
  <2> QED
    BY <2>3, <2>4
<1>7. ASSUME NEW t \in there \ crowded, NEW p \in Procs, NEW r \in ProcRec, Moves(p, r),
             Begun(p, r), shown' = shown
      PROVE  New(t)
  <2>1. PICK n \in Calls : /\ sends[n].at = "env" /\ r = Started(Of(Msg(n)))
                           /\ live' = [live EXCEPT ![Of(Msg(n))] = p]
    BY <1>7 DEF Begun
  <2>2. Of(Msg(n)) \in Threads /\ r.th = Of(Msg(n)) /\ ~r.turn /\ ~r.ask
    BY <2>1, StartedIs, Types, OfMsgs DEF Msg, SendRec
  <2>3. live'[t] = IF t = Of(Msg(n)) THEN p ELSE live[t]
    BY <1>0, <1>1, <2>1
  <2>4. proc[p].st = "gone"
    BY <1>7 DEF Begun, Free
  <2>5. CASE t # Of(Msg(n))
    BY <1>4, <1>7, <2>2, <2>3, <2>4, <2>5
  <2>6. CASE t = Of(Msg(n))
    <3>1. n \in Waiting(t)
      BY <2>1, <2>6 DEF Waiting
    <3>2. live[t] = NoProc /\ leaving[t] = NoProc
      BY <2>1, <3>1 DEF AloneInv
    <3>3. shown[t] = "idle"
      BY <1>0, <1>1, <3>2
    <3>4. Doing(proc'[p]) = "idle"
      BY <1>7, <2>2, MovedProc DEF Doing
    <3> QED
      BY <1>7, <2>3, <2>6, <3>3, <3>4
  <2> QED
    BY <2>5, <2>6
<1>8. ASSUME NEW t \in there \ crowded, NEW p \in Procs, Moves(p, Unused), Ended(p, Unused),
             Clears(p)
      PROVE  New(t)
  <2>0. Unused \in ProcRec /\ Unused.st = "gone"
    BY Records, UnusedIs
  <2>1. live'[t] = IF live[t] = p THEN NoProc ELSE live[t]
    BY <1>1, <1>8 DEF Ended
  <2>2. shown'[t] = IF t = Th(p) THEN "idle" ELSE shown[t]
    BY <1>1, <1>8 DEF Clears
  <2>3. CASE t # Th(p)
    <3>1. live[t] # p
      BY <1>0, <1>1, <2>3
    <3> QED
      BY <1>4, <1>8, <2>0, <2>1, <2>2, <2>3, <3>1
  <2>4. CASE t = Th(p)
    <3>1. live'[t] = NoProc
      BY <1>0, <1>1, <1>8, <2>1, <2>4 DEF Ended
    <3> QED
      BY <2>2, <2>4, <3>1
  <2> QED
    BY <2>3, <2>4
<1>9. ASSUME ~Restart, NEW t \in there' \ crowded'
      PROVE  New(t)
  <2>1. t \in there \ crowded /\ t \in Threads
    BY <1>1, <1>2, <1>9
  <2>2. ASSUME NEW x \in Threads, Removes(x)
        PROVE  shown'[t] = shown[t]
    BY <1>9, <2>1, <2>2, Types DEF Removes
  <2> HIDE DEF New
  <2> QED
    BY <1>3, <1>5, <1>6, <1>7, <1>8, <1>9, <2>1, <2>2, ShownNext, ZenonT(60)
<1>10. CASE Restart
  <2>1. /\ \A t \in Threads : shown'[t] = "idle" /\ live'[t] = NoProc
        /\ there' \subseteq Threads
    BY <1>10, RestartClears, Types
  <2>2. \A t \in there' : shown'[t] = "idle" /\ live'[t] = NoProc
    BY <2>1
  <2> QED
    BY <2>2 DEF ShownIsDone
<1> QED
  BY <1>9, <1>10 DEF ShownIsDone, Mine, Th

\* While no two sends have waited together a thread has no process or one.
LEMMA AloneOne ==
  ASSUME TypeOK, AloneInv, NEW t \in there \ crowded
  PROVE  \E x : Mine(t) \subseteq {x}
<1>1. Mine(t) \subseteq {live[t], leaving[t]} /\ (live[t] = NoProc \/ leaving[t] = NoProc)
  BY DEF AloneInv
<1>2. NoProc \notin Mine(t)
  BY Numbers DEF Mine
<1> QED
  BY <1>1, <1>2

LEMMA AtMostOne ==
  ASSUME NEW S, NEW x, S \subseteq {x}
  PROVE  IsFiniteSet(S) /\ Cardinality(S) \in {0, 1}
<1>1. S = {} \/ S = {x}
  OBVIOUS
<1> QED
  <2>1. CASE S = {}
    BY <2>1, FS_EmptySet
  <2>2. CASE S = {x}
    BY <2>2, FS_Singleton
  <2> QED
    BY <1>1, <2>1, <2>2

\* What the log of a thread with one process counts.
LEMMA PairedNow ==
  ASSUME TypeOK, ProcInv, CountInv, AloneInv, NEW t \in (there \cap healed) \ crowded
  PROVE  turns[t] \in {0, 1}
<1>1. PICK x : Mine(t) \subseteq {x}
  BY AloneOne
<1>2. Turning(t) \subseteq {x}
  BY <1>1, OpenIsMine
<1>3. Cardinality(Turning(t)) \in {0, 1}
  BY <1>2, AtMostOne
<1> QED
  BY <1>3 DEF CountInv

LEMMA PairedNext ==
  ASSUME TypeOK, ProcInv, TableInv, SendInv, UnhealedInv, CountInv, AloneInv, LeftPaired,
         [Next]_vars
  PROVE  LeftPaired'
<1>1. ASSUME NEW t \in there' \ crowded', t \notin healed'
      PROVE  turns'[t] \in {0, 1}
  <2>1. t \in there \ crowded /\ t \in Threads
    BY <1>1, ThereNext, CrowdedNext, Types
  <2>2. turns[t] \in {0, 1}
    BY <2>1, PairedNow DEF LeftPaired
  <2>3. turns'[t] \in {turns[t], turns[t] - 1} /\ turns'[t] \in Nat
    BY <1>1, <2>1, TurnsNext
  <2> QED
    BY <2>2, <2>3
<1> QED
  BY <1>1 DEF LeftPaired

LEMMA InitInv == Init => IInv
<1> SUFFICES ASSUME Init
             PROVE  IInv
  OBVIOUS
<1>1. /\ there = Threads /\ healed = Threads /\ crowded = {} /\ tries = 0 /\ faults = 0
      /\ proc = [p \in Procs |-> Unused] /\ sends = [n \in Calls |-> NotSending]
      /\ live = [t \in Threads |-> NoProc] /\ leaving = live /\ removing = live
      /\ msg = [m \in Msgs |-> "none"] /\ turns = [t \in Threads |-> 0]
      /\ asked = [t \in Threads |-> 0] /\ shown = [t \in Threads |-> "idle"]
  BY DEF Init
<1>2. Unused \in ProcRec /\ NotSending \in SendRec /\ NotSending.at = "none"
      /\ DOMAIN Unused.unacked = {}
  BY Records, UnusedIs DEF NotSending
<1>3. /\ proc \in [Procs -> ProcRec] /\ sends \in [Calls -> SendRec]
      /\ \A p \in Procs : proc[p] = Unused
      /\ \A n \in Calls : sends[n] = NotSending
  <2> HIDE DEF Unused, NotSending
  <2> QED
    BY <1>1, <1>2
<1>4. /\ \A t \in Threads : live[t] = NoProc /\ leaving[t] = NoProc /\ shown[t] = "idle"
                            /\ turns[t] = 0 /\ asked[t] = 0
      /\ \A m \in Msgs : msg[m] = "none"
  BY <1>1
<1>5. TypeOK
  BY <1>1, <1>3, Numbers DEF TypeOK, ProcRec, SendRec, States
<1>6. ProcInv /\ TableInv /\ SendInv /\ WaiterInv
  BY <1>2, <1>3, <1>4, UnusedIs DEF ProcInv, TableInv, SendInv, WaiterInv
<1>7. HolderInv
  BY <1>1, <1>2, <1>3, <1>4, OfMsgs DEF HolderInv, Has
<1>8. \A t : Mine(t) = {} /\ Turning(t) = {} /\ Asking(t) = {} /\ Waiting(t) = {}
  BY <1>2, <1>3, UnusedIs DEF Mine, Turning, Asking, Waiting
<1>9. UnhealedInv /\ CountInv /\ AloneInv /\ ShownIsDone /\ LeftPaired
  BY <1>1, <1>4, <1>8, FS_EmptySet
  DEF UnhealedInv, CountInv, AloneInv, ShownIsDone, LeftPaired
<1> QED
  BY <1>5, <1>6, <1>7, <1>9 DEF IInv

LEMMA NextInv == IInv /\ [Next]_vars => IInv'
<1> SUFFICES ASSUME IInv, [Next]_vars
             PROVE  IInv'
  OBVIOUS
<1>1. /\ TypeOK /\ ProcInv /\ TableInv /\ SendInv /\ HolderInv /\ WaiterInv
      /\ UnhealedInv /\ CountInv /\ AloneInv /\ ShownIsDone /\ LeftPaired
  BY DEF IInv
<1>2. TypeOK' /\ ProcInv' /\ TableInv' /\ SendInv'
  BY <1>1, TypeNext, ProcNext, TableNext, SendNext
<1>3. HolderInv' /\ WaiterInv' /\ UnhealedInv'
  BY <1>1, HolderNext, WaiterNext, UnhealedNext
<1>4. CountInv' /\ AloneInv' /\ ShownIsDone' /\ LeftPaired'
  BY <1>1, CountNext, AloneNext, ShownDoneNext, PairedNext
<1> QED
  BY <1>2, <1>3, <1>4 DEF IInv

THEOREM Invariant == Spec => []IInv
BY InitInv, NextInv, PTL DEF Spec

-----------------------------------------------------------------------------
(* The theorems *)

\* The table of processes, the calls of conv.send and the fold of the log stay in the
\* shape conv.js gives them; what the log counts as open never falls below zero.
THEOREM TypeCorrect == Spec => []TypeOK
<1>1. IInv => TypeOK
  BY DEF IInv
<1> QED
  BY <1>1, Invariant, PTL

\* A conversation this daemon has touched and that has no process behind it has nothing
\* open in its log: onExit, closeBooks and heal leave no turn, no request and no message
\* that nobody will close, in whatever order processes, sends and daemons end.
THEOREM ClosedBooks == Spec => []BooksClosed
<1>1. IInv => BooksClosed
  <2> SUFFICES ASSUME IInv, NEW t \in there \cap healed, Mine(t) = {}
               PROVE  /\ turns[t] = 0 /\ asked[t] = 0
                      /\ \A m \in Msgs : Of(m) = t => msg[m] # "queued"
    BY DEF BooksClosed
  <2>1. turns[t] = 0 /\ asked[t] = 0
    BY OpenIsMine DEF IInv, CountInv
  <2>2. ASSUME NEW m \in Msgs, Of(m) = t, msg[m] = "queued"
        PROVE  FALSE
    <3>1. PICK p \in Procs : Has(p, m)
      BY <2>2 DEF IInv, HolderInv
    <3>2. Th(p) = t /\ proc[p].st # "gone"
      BY <2>2, <3>1 DEF IInv, HolderInv
    <3> QED
      BY <3>2 DEF Mine
  <2> QED
    BY <2>1, <2>2
<1> QED
  BY <1>1, Invariant, PTL

\* While no two sends have waited together for the process of a thread, the log of the
\* thread has one turn open or none: beginTurn and onResult pair every start with an end,
\* across exits, closeBooks, heal and restarts.
THEOREM PairedTurns == Spec => []TurnsPaired
<1>1. IInv => TurnsPaired
  BY PairedNow, Zenon DEF IInv, LeftPaired, TurnsPaired
<1> QED
  BY <1>1, Invariant, PTL

\* Devices are shown what the live process of a thread does, and that the thread rests
\* when it has no process, whatever setRunState is called with on the way.
THEOREM ShownTrue == Spec => []ShownIsDone
<1>1. IInv => ShownIsDone
  BY DEF IInv
<1> QED
  BY <1>1, Invariant, PTL

\* While no two sends have waited together for the process of a thread, it has one process
\* or none: conv.send waits for the one that leaves before it starts the next.
THEOREM OneProcess == Spec => []OneProcessUncrowded
<1>1. IInv => OneProcessUncrowded
  <2> SUFFICES ASSUME IInv, NEW t \in there \ crowded
               PROVE  Cardinality(Mine(t)) <= 1
    BY DEF OneProcessUncrowded
  <2>1. PICK x : Mine(t) \subseteq {x}
    BY AloneOne DEF IInv
  <2>2. Cardinality(Mine(t)) \in {0, 1}
    BY <2>1, AtMostOne
  <2> QED
    BY <2>2
<1> QED
  BY <1>1, Invariant, PTL

\* conv.send writes a message to a process only when no process has it and it is not open
\* or confirmed in the log: retries and sends that wait together do not repeat it.
THEOREM SentOnce == Spec => NotSentTwice
<1>1. ASSUME IInv, [Next]_vars, NEW m \in Msgs, NEW p \in Procs, ~Has(p, m), Has(p, m)'
      PROVE  msg[m] \in {"none", "failed"} /\ \A q \in Procs : ~Has(q, m)
  <2>1. /\ TypeOK /\ ProcInv /\ TableInv /\ SendInv /\ HolderInv /\ WaiterInv
    BY <1>1 DEF IInv
  <2>2. msg[m] \in {"none", "queued", "sent", "failed"}
    BY <2>1, Types
  <2>3. ASSUME NEW h \in Msgs, NEW o \in Procs, Hands(h, o)
        PROVE  msg[m] \in {"none", "failed"} /\ \A q \in Procs : ~Has(q, m)
    <3>1. h = m
      BY <1>1, <2>1, <2>3, HandsIs
    <3>2. (\A q \in Procs : ~Has(q, h)) /\ ~Pending(h)
      BY <2>1, <2>3, HandsFresh
    <3> QED
      BY <2>2, <3>1, <3>2 DEF Pending
  <2>4. ~Restart
    <3>1. DOMAIN Unused.unacked = {}
      BY UnusedIs
    <3> QED
      BY <1>1, <3>1, RestartClears DEF Has
  <2>5. \A o \in Procs : ~Reads(o) /\ ~Loses(o)
    BY <1>1, <2>1, ReadsIs, LosesIs
  <2>6. ~Keeps
    BY <1>1, KeepsHas
  <2>7. ~Rests
    BY <1>1, RestsHas
  <2> QED
    BY <1>1, <2>1, <2>3, <2>4, <2>5, <2>6, <2>7, MsgsNext, ZenonT(60)
<1>2. IInv /\ [Next]_vars =>
        [\A m \in Msgs : (\E p \in Procs : ~Has(p, m) /\ Has(p, m)') =>
           msg[m] \in {"none", "failed"} /\ \A p \in Procs : ~Has(p, m)]_vars
  BY <1>1
<1> QED
  BY <1>2, Invariant, PTL DEF Spec, NotSentTwice
=============================================================================
