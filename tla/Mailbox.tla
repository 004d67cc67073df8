------------------------------- MODULE Mailbox -------------------------------
(***************************************************************************)
(* What the mailboxes of orchestration promise: a message stays until its  *)
(* reader has been given it, the messages of a mailbox are given in the    *)
(* order they were sent, and only what was given is forgotten - a question *)
(* may go before, once somebody has answered it.                           *)
(***************************************************************************)
EXTENDS Naturals, Sequences

CONSTANT Boxes

VARIABLES sent,   \* the mailbox of every message, in the order they were sent
          given,  \* messages that have reached their reader
          gone    \* messages that will not be given again

vars == <<sent, given, gone>>

In(b) == {i \in DOMAIN sent : sent[i] = b}

Init == sent = <<>> /\ given = {} /\ gone = {}

Send(b) == sent' = Append(sent, b) /\ UNCHANGED <<given, gone>>

\* A reader of b forgets what it was given, and is given the next messages, or the last
\* ones again.
Read(b) ==
  /\ \E done \in SUBSET (In(b) \cap given) : gone' = gone \cup done
  /\ \E next \in SUBSET In(b) :
       /\ given' = given \cup next
       /\ \A i \in next : \A j \in In(b) : j < i => j \in next \cup given \cup gone'
  /\ UNCHANGED sent

\* A question is answered, which may send the answer to another mailbox.
Answer(i, b) ==
  /\ gone' = gone \cup {i}
  /\ sent' \in {sent, Append(sent, b)}
  /\ UNCHANGED given

Next == \E b \in Boxes : Send(b) \/ Read(b) \/ \E i \in DOMAIN sent : Answer(i, b)

Spec == Init /\ [][Next]_vars
=============================================================================
