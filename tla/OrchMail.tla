------------------------------- MODULE OrchMail -------------------------------
(***************************************************************************)
(* The messages of orchestration (runner-core/orch.js): mailboxes of a     *)
(* coordinator and of its workers, deliveries that are replayed until they *)
(* are acknowledged, calls that wait for a message, and questions whose    *)
(* asker waits for the answer.                                             *)
(*                                                                         *)
(* Messages and deliveries are in the store, which is written at once;     *)
(* who waits is not.  One reader per mailbox; agents, and the connections  *)
(* of their command line, may end at any time.                             *)
(***************************************************************************)
EXTENDS Integers, FiniteSets, Sequences

CONSTANTS Disps,      \* dispatches; each has a mailbox
          Run,        \* the mailbox of the coordinator
          MaxMsgs,    \* bound: messages
          Batch,      \* DELIVERY_BATCH: messages per delivery (50 in the code)
          MaxFaults   \* bound: responses that are lost, connections that end, crashes

ASSUME OrchMailAssumption ==
  /\ Run \notin Disps /\ {MaxMsgs, MaxFaults} \subseteq Nat /\ Batch \in Nat \ {0}

Boxes == Disps \cup {Run}
Ids == 1..MaxMsgs
NoMsg == 0
Types == {"worker_done", "question", "reply", "status"}

VARIABLES
  active,    \* dispatches that are not settled
  messages,  \* the messages in the order they were sent (seq)
  acked,     \* those that are acknowledged
  status,    \* i -> what has become of question i
  delivery,  \* b -> the outstanding delivery of b: its messages
  check,     \* b -> the orch.check of b that waits, and for which types
  asking,    \* d -> the question orch.ask waits for, NoMsg
  hand,      \* b -> the delivery the reader of b has last received
  given,     \* messages the readers have received (history)
  known,     \* questions whose asker knows their number
  told,      \* questions whose answer the asker has received (history)
  faults

store == <<active, messages, acked, status, delivery>>
waits == <<check, asking>>
agents == <<hand, given, known, told>>
vars == <<store, waits, agents, faults>>

NotWaiting == [at |-> "no", types |-> {}]

TypeOK ==
  /\ active \subseteq Disps
  /\ messages \in Seq([to : Boxes, type : Types, d : Disps, re : Ids \cup {NoMsg}])
  /\ Len(messages) <= MaxMsgs
  /\ acked \subseteq DOMAIN messages /\ given \subseteq DOMAIN messages
  /\ known \subseteq DOMAIN messages /\ told \subseteq DOMAIN messages
  /\ status \in [Ids -> {"none", "pending", "answered", "closed"}]
  /\ delivery \in [Boxes -> SUBSET DOMAIN messages]
  /\ hand \in [Boxes -> SUBSET DOMAIN messages]
  /\ check \in [Boxes -> [at : {"no", "wait", "woken"}, types : SUBSET Types]]
  /\ asking \in [Disps -> DOMAIN messages \cup {NoMsg}]
  /\ faults \in 0..MaxFaults

Init ==
  /\ active = Disps /\ messages = <<>> /\ acked = {}
  /\ status = [i \in Ids |-> "none"]
  /\ delivery = [b \in Boxes |-> {}] /\ hand = delivery
  /\ check = [b \in Boxes |-> NotWaiting]
  /\ asking = [d \in Disps |-> NoMsg]
  /\ given = {} /\ known = {} /\ told = {}
  /\ faults = 0

Fault == faults < MaxFaults /\ faults' = faults + 1
Next1 == Len(messages) + 1

-----------------------------------------------------------------------------
(* addMessage and wake *)

\* Mutant: only those who wait for any message are woken.
MutHears(c, type) == c.at = "wait" /\ c.types = {}
Hears(c, type) == c.at = "wait" /\ (c.types = {} \/ type \in c.types)

PostRe(to, type, d, re) ==
  /\ Len(messages) < MaxMsgs
  /\ messages' = Append(messages, [to |-> to, type |-> type, d |-> d, re |-> re])
  /\ check' = [check EXCEPT ![to].at = IF Hears(check[to], type) THEN "woken" ELSE @]
Post(to, type, d) == PostRe(to, type, d, NoMsg)

\* rpcSend: from a worker to its coordinator, or from anyone to a worker.
Send(d) ==
  /\ \/ d \in active /\ Post(Run, "status", d)
     \/ Post(d, "status", d)
  /\ UNCHANGED <<active, acked, status, delivery, asking, agents, faults>>

-----------------------------------------------------------------------------
(* settle(): the questions of a worker that is settled are closed. *)

Pending(d) == {i \in DOMAIN messages : messages[i].d = d /\ status[i] = "pending"}
Closed(d) == [i \in Ids |-> IF i \in Pending(d) THEN "closed" ELSE status[i]]

\* workerDone reports to the coordinator, workerStop tells the worker.
Settle(d) ==
  /\ d \in active /\ active' = active \ {d}
  /\ status' = Closed(d)
  /\ asking' = [asking EXCEPT ![d] = NoMsg]
  /\ Post(Run, "worker_done", d) \/ Post(d, "status", d)
  /\ known' = known \cup ({asking[d]} \ {NoMsg})
  /\ UNCHANGED <<acked, delivery, hand, given, told, faults>>

-----------------------------------------------------------------------------
(* orch.check *)

Unread(b, seen) == {i \in DOMAIN messages : messages[i].to = b} \ seen
FirstOf(S) == {i \in S : Cardinality({j \in S : j <= i}) <= Batch}

\* What the calls of b are waiting for.
Wanted(b, types, seen) ==
  types = {} \/ \E i \in Unread(b, seen) : messages[i].type \in types

\* The outstanding delivery is given again; else the first unread ones are given.
BatchOf(b, held, seen) == IF held # {} THEN held ELSE FirstOf(Unread(b, seen))

\* The response arrives, or it is lost.
Gives(b, batch) ==
  \/ hand' = [hand EXCEPT ![b] = batch] /\ given' = given \cup batch /\ UNCHANGED faults
  \/ Fault /\ UNCHANGED <<hand, given>>

\* --ack: a delivery that is acknowledged already is not looked at again.
Held(b, ack) == IF ack /\ hand[b] = delivery[b] THEN {} ELSE delivery[b]
\* Mutant: an acknowledgement takes all the messages that wait.
MutAcknowledged(b, ack) ==
  IF ack /\ hand[b] = delivery[b] THEN acked \cup Unread(b, acked) ELSE acked
Acknowledged(b, ack) ==
  IF ack /\ hand[b] = delivery[b] THEN acked \cup delivery[b] ELSE acked

Check(b, ack, wait, types) ==
  /\ check[b].at = "no"
  /\ ack => hand[b] # {}
  /\ acked' = Acknowledged(b, ack)
  /\ LET held == Held(b, ack)
         batch == BatchOf(b, held, acked')
     IN IF batch # {} /\ (held # {} \/ ~wait \/ Wanted(b, types, acked'))
        THEN /\ delivery' = [delivery EXCEPT ![b] = batch]
             /\ Gives(b, batch) /\ UNCHANGED check
        ELSE /\ delivery' = [delivery EXCEPT ![b] = {}]
             /\ check' = IF wait THEN [check EXCEPT ![b] = [at |-> "wait", types |-> types]]
                         ELSE check
             /\ UNCHANGED <<hand, given, faults>>
  /\ UNCHANGED <<active, messages, status, asking, known, told>>

\* A waiting call is woken, or its time is over: it looks once more, and goes on waiting
\* only if it was woken in vain.
Recheck(b) ==
  /\ check[b].at # "no"
  /\ LET batch == BatchOf(b, delivery[b], acked) IN
     IF batch # {} /\ (delivery[b] # {} \/ Wanted(b, check[b].types, acked))
     THEN /\ delivery' = [delivery EXCEPT ![b] = batch]
          /\ Gives(b, batch)
          /\ check' = [check EXCEPT ![b] = NotWaiting]
     ELSE /\ check' = [check EXCEPT ![b] = IF @.at = "woken" THEN [@ EXCEPT !.at = "wait"]
                                           ELSE NotWaiting]
          /\ UNCHANGED <<delivery, hand, given, faults>>
  /\ UNCHANGED <<active, messages, acked, status, asking, known, told>>

\* The connection of a waiting call ends.
CheckCut(b) ==
  /\ check[b].at # "no" /\ Fault
  /\ check' = [check EXCEPT ![b] = NotWaiting]
  /\ UNCHANGED <<store, asking, agents>>

-----------------------------------------------------------------------------
(* orch.ask and orch.reply *)

Ask(d) ==
  /\ d \in active /\ asking[d] = NoMsg
  /\ Post(Run, "question", d)
  /\ status' = [status EXCEPT ![Next1] = "pending"]
  /\ asking' = [asking EXCEPT ![d] = Next1]
  /\ UNCHANGED <<active, acked, delivery, agents, faults>>

\* --resume: the answer is told at once where there is one.
Resume(d, i) ==
  /\ asking[d] = NoMsg /\ i \in known /\ messages[i].d = d /\ i \notin told
  /\ \/ status[i] = "answered" /\ told' = told \cup {i} /\ UNCHANGED asking
     \/ status[i] = "pending" /\ asking' = [asking EXCEPT ![d] = i] /\ UNCHANGED told
  /\ UNCHANGED <<store, check, hand, given, known, faults>>

\* The time is over: the asker is told the number of its question.
AskTimeout(d) ==
  /\ asking[d] # NoMsg
  /\ asking' = [asking EXCEPT ![d] = NoMsg]
  /\ known' = known \cup {asking[d]}
  /\ UNCHANGED <<store, check, hand, given, told, faults>>

\* Its connection ends, and nobody is told anything.
AskCut(d) ==
  /\ asking[d] # NoMsg /\ Fault
  /\ asking' = [asking EXCEPT ![d] = NoMsg]
  /\ UNCHANGED <<store, check, agents>>

\* Mutant: any question its asker waits for counts, as if waiters were kept per dispatch.
MutNeedsMail(i) == asking[messages[i].d] = NoMsg
\* The asker does not wait any more.
NeedsMail(i) == asking[messages[i].d] # i

\* The coordinator, or the user on a screen, answers a question once.
Reply(i) ==
  LET d == messages[i].d IN
  /\ i \in DOMAIN messages /\ status[i] = "pending"
  /\ status' = [status EXCEPT ![i] = "answered"]
  /\ acked' = acked \cup {i}
  /\ asking' = [asking EXCEPT ![d] = IF @ = i THEN NoMsg ELSE @]
  /\ told' = IF asking[d] = i THEN told \cup {i} ELSE told
  /\ IF NeedsMail(i) THEN PostRe(d, "reply", d, i) ELSE UNCHANGED <<messages, check>>
  /\ UNCHANGED <<active, delivery, hand, given, known, faults>>

-----------------------------------------------------------------------------
\* The daemon dies and starts again: nobody waits any more.
Crash ==
  /\ Fault
  /\ check' = [b \in Boxes |-> NotWaiting]
  /\ asking' = [d \in Disps |-> NoMsg]
  /\ UNCHANGED <<store, agents>>

Next ==
  \/ \E d \in Disps : Send(d) \/ Settle(d) \/ Ask(d) \/ AskTimeout(d) \/ AskCut(d)
  \/ \E d \in Disps, i \in DOMAIN messages : Resume(d, i)
  \/ \E i \in DOMAIN messages : Reply(i)
  \/ \E b \in Boxes :
       \/ Recheck(b) \/ CheckCut(b)
       \/ \E ack, wait \in BOOLEAN : Check(b, ack, wait, {})
       \/ \E ack \in BOOLEAN : b = Run /\ Check(b, ack, TRUE, {"worker_done"})
  \/ Crash

Spec == Init /\ [][Next]_vars

-----------------------------------------------------------------------------
\* No message is lost or overtaken, whatever responses are lost and whenever the daemon
\* dies: the mailboxes implement Mailbox.
Promise == INSTANCE Mailbox WITH Boxes <- Boxes,
             sent <- [i \in DOMAIN messages |-> messages[i].to], given <- given, gone <- acked
KeepsMail == Promise!Spec

\* An answer reaches its asker, who has been told, or finds it in its mailbox - whether
\* it still waits, gave up, was cut off or saw the daemon restart.
AnswerReaches ==
  \A i \in DOMAIN messages : status[i] = "answered" =>
    \/ i \in told
    \/ \E j \in DOMAIN messages : messages[j].to = messages[i].d
                                  /\ messages[j].type = "reply" /\ messages[j].re = i

\* No call sleeps on a message it waits for, nor an asker on a question that is over.
NoMissedWake ==
  /\ \A b \in Boxes : check[b].at = "wait" =>
       /\ delivery[b] = {}
       /\ \A i \in Unread(b, acked) : check[b].types # {} /\ messages[i].type \notin check[b].types
  /\ \A d \in Disps : asking[d] # NoMsg => status[asking[d]] = "pending" /\ d \in active
=============================================================================
