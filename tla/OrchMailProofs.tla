---------------------------- MODULE OrchMailProofs ----------------------------
(***************************************************************************)
(* The mailboxes of orchestration keep what they promise, for any number   *)
(* of dispatches, messages, faults and any size of a delivery.             *)
(*                                                                         *)
(* TypeOK is inductive.  NoMissedWake needs besides that nothing is        *)
(* outstanding for a mailbox whose reader waits (WaitsEmpty), that every   *)
(* pending question is that of an active dispatch (PendingActive), and     *)
(* that who waits for an answer asked that question (AskingOwn).  That     *)
(* OrchMail implements Mailbox needs besides what a delivery is made of    *)
(* (DeliveryWhole) and that hand is what its reader was given (HandGiven). *)
(***************************************************************************)
EXTENDS OrchMail, FiniteSetTheorems, SequenceTheorems, WellFoundedInduction, TLAPS

Message == [to : Boxes, type : Types, d : Disps, re : Ids \cup {NoMsg}]
Checks == [at : {"no", "wait", "woken"}, types : SUBSET Types]

-----------------------------------------------------------------------------
(* Types.                                                                  *)

\* The numbers of the messages sent so far are those up to Len(messages).
LEMMA Numbers ==
  ASSUME TypeOK
  PROVE  /\ Len(messages) \in Nat /\ DOMAIN messages = 1..Len(messages)
         /\ DOMAIN messages \subseteq Ids
         /\ \A i \in DOMAIN messages : messages[i] \in Message
<1>1. messages \in Seq(Message) /\ Len(messages) <= MaxMsgs
  BY DEF TypeOK, Message
<1>2. Len(messages) \in Nat /\ DOMAIN messages = 1..Len(messages)
  BY <1>1
<1>3. \A i \in DOMAIN messages : messages[i] \in Message
  BY <1>1
<1> QED
  BY <1>1, <1>2, <1>3, OrchMailAssumption DEF Ids

\* A message that is posted gets the next number; the others stay what they are.
LEMMA Posted ==
  ASSUME TypeOK, NEW to \in Boxes, NEW type \in Types, NEW d \in Disps,
         NEW re \in Ids \cup {NoMsg}, PostRe(to, type, d, re)
  PROVE  /\ messages' \in Seq(Message) /\ Len(messages') <= MaxMsgs
         /\ Next1 \in Ids /\ Next1 \notin DOMAIN messages
         /\ \A i \in DOMAIN messages : i < Next1
         /\ DOMAIN messages' = DOMAIN messages \cup {Next1}
         /\ \A i \in DOMAIN messages : messages'[i] = messages[i]
         /\ messages'[Next1] = [to |-> to, type |-> type, d |-> d, re |-> re]
<1> DEFINE m == [to |-> to, type |-> type, d |-> d, re |-> re]
<1>1. messages \in Seq(Message) /\ Len(messages) \in Nat
  BY DEF TypeOK, Message
<1>2. m \in Message
  BY DEF Message
<1>3. messages' = Append(messages, m) /\ Len(messages) < MaxMsgs
  BY DEF PostRe
<1> HIDE DEF m
<1>4. messages' \in Seq(Message) /\ Len(messages') = Len(messages) + 1
  BY <1>1, <1>2, <1>3
<1>5. DOMAIN messages = 1..Len(messages) /\ DOMAIN messages' = 1..(Len(messages) + 1)
  BY <1>1, <1>4
<1>6. (\A i \in DOMAIN messages : messages'[i] = messages[i]) /\ messages'[Next1] = m
  BY <1>1, <1>2, <1>3, <1>5 DEF Next1
<1>7. DOMAIN messages' = DOMAIN messages \cup {Next1} /\ Next1 \notin DOMAIN messages
  BY <1>1, <1>5 DEF Next1
<1>8. Next1 \in Ids /\ \A i \in DOMAIN messages : i < Next1
  BY <1>1, <1>3, <1>5, OrchMailAssumption DEF Next1, Ids
<1>9. Len(messages') <= MaxMsgs
  BY <1>1, <1>3, <1>4, OrchMailAssumption
<1> QED
  BY <1>4, <1>6, <1>7, <1>8, <1>9 DEF m

\* Posting wakes the calls that wait in that mailbox, and no other.
LEMMA Wakes ==
  ASSUME TypeOK, NEW to \in Boxes, NEW type, NEW d, NEW re, PostRe(to, type, d, re)
  PROVE  /\ check' \in [Boxes -> Checks]
         /\ \A b \in Boxes : \/ check'[b] = check[b] /\ (b = to => ~Hears(check[b], type))
                             \/ check[b].at = "wait" /\ check'[b].at = "woken"
<1>1. check \in [Boxes -> Checks]
  BY DEF TypeOK, Checks
<1>2. check' = [check EXCEPT ![to].at = IF Hears(check[to], type) THEN "woken" ELSE @]
  BY DEF PostRe
<1>3. CASE Hears(check[to], type)
  <2>1. check' = [check EXCEPT ![to].at = "woken"] /\ check[to].at = "wait"
    BY <1>2, <1>3 DEF Hears
  <2> QED
    BY <1>1, <2>1 DEF Checks
<1>4. CASE ~Hears(check[to], type)
  <2>1. check' = [check EXCEPT ![to].at = check[to].at]
    BY <1>2, <1>4
  <2>2. check' = check
    BY <1>1, <2>1 DEF Checks
  <2> QED
    BY <1>1, <1>4, <2>2
<1> QED
  BY <1>3, <1>4

\* What a delivery is made of: messages of its mailbox.
LEMMA Batches ==
  ASSUME NEW b \in Boxes, NEW held, held \subseteq DOMAIN messages, NEW seen
  PROVE  BatchOf(b, held, seen) \subseteq DOMAIN messages
BY DEF BatchOf, FirstOf, Unread

\* What a fault does to the counter.
LEMMA Faults ==
  ASSUME TypeOK, Fault
  PROVE  faults' \in 0..MaxFaults
BY OrchMailAssumption DEF TypeOK, Fault

\* A response that arrives is in the hand of its reader; one that is lost is a fault.
LEMMA GivesTyped ==
  ASSUME TypeOK, NEW b \in Boxes, NEW batch, batch \subseteq DOMAIN messages, Gives(b, batch)
  PROVE  /\ hand' \in [Boxes -> SUBSET DOMAIN messages] /\ given' \subseteq DOMAIN messages
         /\ faults' \in 0..MaxFaults
<1>2. CASE hand' = [hand EXCEPT ![b] = batch] /\ given' = given \cup batch /\ UNCHANGED faults
  BY <1>2 DEF TypeOK
<1>3. CASE Fault /\ UNCHANGED <<hand, given>>
  BY <1>3, Faults DEF TypeOK
<1> QED
  BY <1>2, <1>3 DEF Gives

\* Types are kept by every action.
LEMMA TypeStep == TypeOK /\ [Next]_vars => TypeOK'
<1> SUFFICES ASSUME TypeOK, [Next]_vars
             PROVE  TypeOK'
  OBVIOUS
<1>1. ASSUME NEW d \in Disps, Send(d)
      PROVE  TypeOK'
  <2>1. PICK to \in Boxes : PostRe(to, "status", d, NoMsg)
    BY <1>1 DEF Send, Post, Boxes
  <2> DEFINE type == "status"
  <2>2. type \in Types /\ NoMsg \in Ids \cup {NoMsg}
    BY DEF Types
  <2>3. check' \in [Boxes -> Checks]
    BY <2>1, Wakes
  <2> QED
    BY <1>1, <2>1, <2>2, <2>3, Posted DEF TypeOK, Send, agents, Message, Checks
<1>2. ASSUME NEW d \in Disps, Settle(d)
      PROVE  TypeOK'
  <2>1. PICK to \in Boxes, type \in Types : PostRe(to, type, d, NoMsg)
    BY <1>2 DEF Settle, Post, Boxes, Types
  <2>2. check' \in [Boxes -> Checks]
    BY <2>1, Wakes
  <2>3. status' \in [Ids -> {"none", "pending", "answered", "closed"}]
    BY <1>2 DEF Settle, Closed, TypeOK
  <2>4. /\ asking' \in [Disps -> DOMAIN messages \cup {NoMsg}] /\ active' \subseteq Disps
        /\ known' \subseteq DOMAIN messages
    BY <1>2 DEF Settle, TypeOK
  <2> QED
    BY <1>2, <2>1, <2>2, <2>3, <2>4, Posted DEF TypeOK, Settle, Message, Checks
<1>3. ASSUME NEW d \in Disps, Ask(d)
      PROVE  TypeOK'
  <2>1. PostRe(Run, "question", d, NoMsg) /\ Run \in Boxes /\ "question" \in Types
    BY <1>3 DEF Ask, Post, Boxes, Types
  <2>2. check' \in [Boxes -> Checks]
    BY <2>1, Wakes
  <2>3. Next1 \in Ids
    BY <2>1, Posted
  <2>4. status' \in [Ids -> {"none", "pending", "answered", "closed"}]
    BY <1>3, <2>3 DEF Ask, TypeOK
  <2>5. asking' \in [Disps -> DOMAIN messages' \cup {NoMsg}]
    BY <1>3, <2>1, Posted DEF Ask, TypeOK
  <2> QED
    BY <1>3, <2>1, <2>2, <2>4, <2>5, Posted DEF TypeOK, Ask, agents, Message, Checks
<1>4. ASSUME NEW d \in Disps, AskTimeout(d)
      PROVE  TypeOK'
  BY <1>4 DEF TypeOK, AskTimeout, store
<1>5. ASSUME NEW d \in Disps, AskCut(d)
      PROVE  TypeOK'
  BY <1>5, Faults DEF TypeOK, AskCut, store, agents
<1>6. ASSUME NEW d \in Disps, NEW i \in DOMAIN messages, Resume(d, i)
      PROVE  TypeOK'
  BY <1>6, Numbers DEF TypeOK, Resume, store
<1>7. ASSUME NEW i \in DOMAIN messages, Reply(i)
      PROVE  TypeOK'
  <2> DEFINE d == messages[i].d
  <2>1. d \in Disps /\ i \in Ids
    BY Numbers DEF Message
  <2>2. status' \in [Ids -> {"none", "pending", "answered", "closed"}]
    BY <1>7, <2>1 DEF Reply, TypeOK
  <2>3. asking' \in [Disps -> DOMAIN messages \cup {NoMsg}]
    BY <1>7, <2>1 DEF Reply, TypeOK
  <2>4. /\ messages' \in Seq(Message) /\ Len(messages') <= MaxMsgs
        /\ DOMAIN messages \subseteq DOMAIN messages' /\ check' \in [Boxes -> Checks]
    <3>1. CASE PostRe(d, "reply", d, i)
      <4>1. d \in Boxes /\ "reply" \in Types
        BY <2>1 DEF Boxes, Types
      <4> QED
        BY <2>1, <3>1, <4>1, Posted, Wakes
    <3>2. CASE UNCHANGED <<messages, check>>
      BY <3>2 DEF TypeOK, Message, Checks
    <3> QED
      BY <1>7, <3>1, <3>2 DEF Reply
  <2>5. told' \subseteq DOMAIN messages /\ acked' \subseteq DOMAIN messages
    BY <1>7 DEF Reply, TypeOK
  <2> QED
    BY <1>7, <2>2, <2>3, <2>4, <2>5 DEF TypeOK, Reply, Message, Checks
<1>8. ASSUME NEW b \in Boxes, Recheck(b)
      PROVE  TypeOK'
  <2> DEFINE batch == BatchOf(b, delivery[b], acked)
  <2>1. batch \subseteq DOMAIN messages
    BY Batches DEF TypeOK
  <2>2. CASE /\ delivery' = [delivery EXCEPT ![b] = batch]
             /\ Gives(b, batch)
             /\ check' = [check EXCEPT ![b] = NotWaiting]
    <3>1. check' \in [Boxes -> Checks]
      BY <2>2 DEF TypeOK, Checks, NotWaiting
    <3>2. delivery' \in [Boxes -> SUBSET DOMAIN messages]
      BY <2>1, <2>2 DEF TypeOK
    <3> HIDE DEF batch
    <3> QED
      BY <1>8, <2>1, <2>2, <3>1, <3>2, GivesTyped DEF TypeOK, Recheck, Checks
  <2>3. CASE /\ check' = [check EXCEPT ![b] = IF @.at = "woken" THEN [@ EXCEPT !.at = "wait"]
                                             ELSE NotWaiting]
             /\ UNCHANGED <<delivery, hand, given, faults>>
    <3>1. check' \in [Boxes -> Checks]
      BY <2>3 DEF TypeOK, Checks, NotWaiting
    <3> QED
      BY <1>8, <2>3, <3>1 DEF TypeOK, Recheck, Checks
  <2> QED
    BY <1>8, <2>2, <2>3 DEF Recheck
<1>9. ASSUME NEW b \in Boxes, CheckCut(b)
      PROVE  TypeOK'
  <2>1. check' \in [Boxes -> Checks]
    BY <1>9 DEF TypeOK, CheckCut, Checks, NotWaiting
  <2> QED
    BY <1>9, <2>1, Faults DEF TypeOK, CheckCut, store, agents, Checks
<1>10. ASSUME NEW b \in Boxes, NEW ack \in BOOLEAN, NEW wait \in BOOLEAN,
              NEW types \in SUBSET Types, Check(b, ack, wait, types)
       PROVE  TypeOK'
  <2> DEFINE held == Held(b, ack)
             batch == BatchOf(b, held, acked')
  <2>1. held \subseteq DOMAIN messages
    BY DEF Held, TypeOK
  <2>2. batch \subseteq DOMAIN messages
    BY <2>1, Batches
  <2>3. acked' \subseteq DOMAIN messages
    BY <1>10 DEF Check, Acknowledged, TypeOK
  <2>4. CASE /\ delivery' = [delivery EXCEPT ![b] = batch]
             /\ Gives(b, batch) /\ UNCHANGED check
    <3>1. delivery' \in [Boxes -> SUBSET DOMAIN messages]
      BY <2>2, <2>4 DEF TypeOK
    <3> HIDE DEF batch
    <3> QED
      BY <1>10, <2>2, <2>3, <2>4, <3>1, GivesTyped DEF TypeOK, Check
  <2>5. CASE /\ delivery' = [delivery EXCEPT ![b] = {}]
             /\ check' = IF wait THEN [check EXCEPT ![b] = [at |-> "wait", types |-> types]]
                         ELSE check
             /\ UNCHANGED <<hand, given, faults>>
    <3>1. check' \in [Boxes -> Checks]
      BY <2>5 DEF TypeOK, Checks
    <3>2. delivery' \in [Boxes -> SUBSET DOMAIN messages]
      BY <2>5 DEF TypeOK
    <3> QED
      BY <1>10, <2>3, <2>5, <3>1, <3>2 DEF TypeOK, Check, Checks
  <2> QED
    BY <1>10, <2>4, <2>5 DEF Check
<1>11. CASE Crash
  <2>1. check' \in [Boxes -> Checks]
    BY <1>11 DEF Crash, Checks, NotWaiting
  <2> QED
    BY <1>11, <2>1, Faults DEF TypeOK, Crash, store, agents, Checks
<1>12. CASE UNCHANGED vars
  BY <1>12 DEF TypeOK, vars, store, waits, agents
<1> QED
  BY <1>1, <1>2, <1>3, <1>4, <1>5, <1>6, <1>7, <1>8, <1>9, <1>10, <1>11, <1>12
     DEF Next, Types

-----------------------------------------------------------------------------
(* Who waits.                                                              *)

WaitsEmpty == \A b \in Boxes : check[b].at # "no" => delivery[b] = {}
WaitsInVain ==
  \A b \in Boxes : check[b].at = "wait" =>
    \A i \in Unread(b, acked) : check[b].types # {} /\ messages[i].type \notin check[b].types
WaitInv == WaitsEmpty /\ WaitsInVain

\* Every set of numbers has a least one.
LEMMA LeastOf ==
  ASSUME NEW S, S \subseteq Nat, S # {}
  PROVE  \E m \in S : \A j \in S : m <= j
<1> DEFINE R == OpToRel(<, Nat)
<1>1. IsWellFoundedOn(R, Nat)
  BY NatLessThanWellFounded
<1>2. \A j, m \in Nat : j < m => <<j, m>> \in R
  BY DEF OpToRel
<1> HIDE DEF R
<1>3. PICK m \in S : \A j \in S : ~ (<<j, m>> \in R)
  BY <1>1, WFMin
<1>4. \A j \in S : ~ (j < m)
  BY <1>2, <1>3
<1>5. \A j \in S : m <= j
  BY <1>4
<1> QED
  BY <1>5

\* The first of the unread messages are some, if there are any.
LEMMA FirstOfSome ==
  ASSUME NEW S, S \subseteq Nat, S # {}
  PROVE  FirstOf(S) # {}
<1>1. PICK m \in S : \A j \in S : m <= j
  BY LeastOf
<1>2. {j \in S : j <= m} = {m}
  <2>1. \A j \in S : j <= m => j = m
    BY <1>1
  <2> QED
    BY <1>1, <2>1
<1>3. Cardinality({m}) = 1
  BY FS_Singleton
<1>4. m \in FirstOf(S)
  BY <1>2, <1>3, OrchMailAssumption DEF FirstOf
<1> QED
  BY <1>4

\* A reader that finds nothing to wait for has no unread message it wants.
LEMMA NothingWanted ==
  ASSUME TypeOK, NEW b \in Boxes, NEW seen, NEW types,
         ~ (BatchOf(b, {}, seen) # {} /\ Wanted(b, types, seen))
  PROVE  \A i \in Unread(b, seen) : types # {} /\ messages[i].type \notin types
<1>1. Unread(b, seen) \subseteq Nat
  BY Numbers DEF Unread
<1>2. CASE BatchOf(b, {}, seen) = {}
  <2>1. FirstOf(Unread(b, seen)) = {}
    BY <1>2 DEF BatchOf
  <2> QED
    BY <1>1, <2>1, FirstOfSome
<1>3. CASE ~ Wanted(b, types, seen)
  BY <1>3 DEF Wanted
<1> QED
  BY <1>2, <1>3

\* A new message wakes who waits for it.
LEMMA WaitPosted ==
  ASSUME TypeOK, WaitInv, NEW to \in Boxes, NEW type \in Types, NEW d \in Disps,
         NEW re \in Ids \cup {NoMsg}, PostRe(to, type, d, re),
         delivery' = delivery, acked \subseteq acked'
  PROVE  WaitInv'
<1>1. WaitsEmpty'
  BY Wakes DEF WaitInv, WaitsEmpty
<1>2. WaitsInVain'
  <2> SUFFICES ASSUME NEW b \in Boxes, check'[b].at = "wait", NEW i \in Unread(b, acked)'
               PROVE  check'[b].types # {} /\ messages'[i].type \notin check'[b].types
    BY DEF WaitsInVain
  <2>1. check'[b] = check[b] /\ (b = to => ~Hears(check[b], type))
    BY Wakes
  <2>2. i \in DOMAIN messages' /\ messages'[i].to = b /\ i \notin acked'
    BY DEF Unread
  <2>3. /\ DOMAIN messages' = DOMAIN messages \cup {Next1}
        /\ \A j \in DOMAIN messages : messages'[j] = messages[j]
        /\ messages'[Next1] = [to |-> to, type |-> type, d |-> d, re |-> re]
    BY Posted
  <2>4. CASE i \in DOMAIN messages
    <3>1. messages'[i] = messages[i] /\ i \in Unread(b, acked)
      BY <2>2, <2>4, <2>3 DEF Unread
    <3> QED
      BY <2>1, <3>1 DEF WaitInv, WaitsInVain
  <2>5. CASE i = Next1
    <3>1. messages'[i].to = to /\ messages'[i].type = type
      BY <2>5, <2>3
    <3>2. ~Hears(check[b], type)
      BY <2>1, <2>2, <3>1
    <3> QED
      BY <2>1, <3>1, <3>2 DEF Hears
  <2> QED
    BY <2>2, <2>4, <2>5, <2>3
<1> QED
  BY <1>1, <1>2 DEF WaitInv

\* What does not touch messages, waits and deliveries keeps WaitInv.
LEMMA WaitKept ==
  ASSUME WaitInv, acked \subseteq acked', UNCHANGED <<messages, check, delivery>>
  PROVE  WaitInv'
BY DEF WaitInv, WaitsEmpty, WaitsInVain, Unread

LEMMA WaitStep == TypeOK /\ WaitInv /\ [Next]_vars => WaitInv'
<1> SUFFICES ASSUME TypeOK, WaitInv, [Next]_vars
             PROVE  WaitInv'
  OBVIOUS
<1>1. ASSUME NEW d \in Disps, Send(d)
      PROVE  WaitInv'
  <2>1. PICK to \in Boxes : PostRe(to, "status", d, NoMsg)
    BY <1>1 DEF Send, Post, Boxes
  <2> QED
    BY <1>1, <2>1, WaitPosted DEF Send, Types
<1>2. ASSUME NEW d \in Disps, Settle(d)
      PROVE  WaitInv'
  <2>1. PICK to \in Boxes, type \in Types : PostRe(to, type, d, NoMsg)
    BY <1>2 DEF Settle, Post, Boxes, Types
  <2> QED
    BY <1>2, <2>1, WaitPosted DEF Settle
<1>3. ASSUME NEW d \in Disps, Ask(d)
      PROVE  WaitInv'
  <2>1. PostRe(Run, "question", d, NoMsg) /\ Run \in Boxes /\ "question" \in Types
    BY <1>3 DEF Ask, Post, Boxes, Types
  <2> QED
    BY <1>3, <2>1, WaitPosted DEF Ask
<1>4. ASSUME NEW d \in Disps, AskTimeout(d) \/ AskCut(d)
      PROVE  WaitInv'
  BY <1>4, WaitKept DEF AskTimeout, AskCut, store
<1>5. ASSUME NEW d \in Disps, NEW i \in DOMAIN messages, Resume(d, i)
      PROVE  WaitInv'
  BY <1>5, WaitKept DEF Resume, store
<1>6. ASSUME NEW i \in DOMAIN messages, Reply(i)
      PROVE  WaitInv'
  <2> DEFINE d == messages[i].d
  <2>1. d \in Disps /\ d \in Boxes /\ i \in Ids /\ "reply" \in Types
    BY Numbers DEF Message, Boxes, Types
  <2>2. acked \subseteq acked' /\ delivery' = delivery
    BY <1>6 DEF Reply
  <2>3. PostRe(d, "reply", d, i) \/ UNCHANGED <<messages, check>>
    BY <1>6 DEF Reply
  <2> QED
    BY <2>1, <2>2, <2>3, WaitPosted, WaitKept
<1>7. ASSUME NEW b \in Boxes, Recheck(b)
      PROVE  WaitInv'
  <2>1. check \in [Boxes -> Checks] /\ delivery \in [Boxes -> SUBSET DOMAIN messages]
    BY DEF TypeOK, Checks
  <2>2. delivery[b] = {} /\ messages' = messages /\ acked' = acked
    BY <1>7 DEF Recheck, WaitInv, WaitsEmpty
  <2>3. CASE check' = [check EXCEPT ![b] = NotWaiting]
    <3>1. \A c \in Boxes \ {b} : delivery'[c] = delivery[c]
      BY <1>7, <2>1 DEF Recheck
    <3> QED
      BY <2>1, <2>2, <2>3, <3>1 DEF WaitInv, WaitsEmpty, WaitsInVain, Unread, NotWaiting
  <2>4. CASE /\ ~ (BatchOf(b, {}, acked) # {} /\ Wanted(b, check[b].types, acked))
             /\ check' = [check EXCEPT ![b] = [@ EXCEPT !.at = "wait"]]
             /\ delivery' = delivery
    <3>1. check'[b].types = check[b].types /\ \A c \in Boxes \ {b} : check'[c] = check[c]
      BY <2>1, <2>4 DEF Checks
    <3>2. \A i \in Unread(b, acked) :
            check[b].types # {} /\ messages[i].type \notin check[b].types
      BY <2>4, NothingWanted
    <3> QED
      BY <2>2, <2>4, <3>1, <3>2 DEF WaitInv, WaitsEmpty, WaitsInVain, Unread
  <2> QED
    BY <1>7, <2>1, <2>2, <2>3, <2>4 DEF Recheck
<1>8. ASSUME NEW b \in Boxes, CheckCut(b)
      PROVE  WaitInv'
  <2>1. check' = [check EXCEPT ![b] = NotWaiting]
    BY <1>8 DEF CheckCut
  <2>2. check \in [Boxes -> Checks]
    BY DEF TypeOK, Checks
  <2> QED
    BY <1>8, <2>1, <2>2
       DEF CheckCut, store, WaitInv, WaitsEmpty, WaitsInVain, Unread, NotWaiting
<1>9. ASSUME NEW b \in Boxes, NEW ack \in BOOLEAN, NEW wait \in BOOLEAN,
             NEW types \in SUBSET Types, Check(b, ack, wait, types)
      PROVE  WaitInv'
  <2> DEFINE held == Held(b, ack)
             batch == BatchOf(b, held, acked')
  <2>1. check \in [Boxes -> Checks] /\ delivery \in [Boxes -> SUBSET DOMAIN messages]
    BY DEF TypeOK, Checks
  <2>2. check[b].at = "no" /\ messages' = messages /\ acked \subseteq acked'
    BY <1>9 DEF Check, Acknowledged
  <2>3. \A c \in Boxes \ {b} : delivery'[c] = delivery[c] /\ check'[c] = check[c]
    BY <1>9, <2>1 DEF Check
  <2>4. CASE check' = check
    BY <2>2, <2>3, <2>4 DEF WaitInv, WaitsEmpty, WaitsInVain, Unread
  <2>5. CASE /\ ~ (batch # {} /\ (held # {} \/ ~wait \/ Wanted(b, types, acked')))
             /\ delivery' = [delivery EXCEPT ![b] = {}]
             /\ wait /\ check' = [check EXCEPT ![b] = [at |-> "wait", types |-> types]]
    <3>1. held = {}
      BY <2>5 DEF BatchOf
    <3>2. \A i \in Unread(b, acked') : types # {} /\ messages[i].type \notin types
      BY <2>5, <3>1, NothingWanted
    <3>3. check'[b] = [at |-> "wait", types |-> types] /\ delivery'[b] = {}
      BY <2>1, <2>5
    <3> QED
      BY <2>2, <2>3, <3>2, <3>3 DEF WaitInv, WaitsEmpty, WaitsInVain, Unread
  <2> QED
    BY <1>9, <2>4, <2>5 DEF Check
<1>10. CASE Crash
  BY <1>10 DEF Crash, store, WaitInv, WaitsEmpty, WaitsInVain, Unread, NotWaiting
<1>11. CASE UNCHANGED vars
  BY <1>11, WaitKept DEF vars, store, waits
<1> QED
  BY <1>1, <1>2, <1>3, <1>4, <1>5, <1>6, <1>7, <1>8, <1>9, <1>10, <1>11 DEF Next, Types

-----------------------------------------------------------------------------
(* Questions.                                                              *)

StatusOfSent  == \A i \in Ids : status[i] # "none" => i \in DOMAIN messages
PendingActive == \A i \in DOMAIN messages : status[i] = "pending" => messages[i].d \in active
AskingOwn ==
  \A d \in Disps : asking[d] # NoMsg =>
    messages[asking[d]].d = d /\ status[asking[d]] = "pending"
QuestionInv == StatusOfSent /\ PendingActive /\ AskingOwn /\ AnswerReaches

\* A step that posts nothing but the status of questions it leaves alone.
LEMMA QuestionPosted ==
  ASSUME TypeOK, QuestionInv, NEW to \in Boxes, NEW type \in Types, NEW d \in Disps,
         NEW re \in Ids \cup {NoMsg}, PostRe(to, type, d, re)
  PROVE  /\ DOMAIN messages \subseteq DOMAIN messages'
         /\ DOMAIN messages' = DOMAIN messages \cup {Next1}
         /\ \A i \in DOMAIN messages : messages'[i] = messages[i]
         /\ messages'[Next1].d = d
         /\ Next1 \in Ids /\ status[Next1] = "none"
<1>1. /\ DOMAIN messages' = DOMAIN messages \cup {Next1}
      /\ \A i \in DOMAIN messages : messages'[i] = messages[i]
      /\ messages'[Next1] = [to |-> to, type |-> type, d |-> d, re |-> re]
      /\ Next1 \in Ids /\ Next1 \notin DOMAIN messages
  BY Posted
<1>2. status[Next1] = "none"
  BY <1>1 DEF QuestionInv, StatusOfSent
<1> QED
  BY <1>1, <1>2

\* An answer that has reached its asker stays where it is when messages are added.
LEMMA AnswersStay ==
  ASSUME TypeOK, AnswerReaches, told \subseteq told',
         DOMAIN messages \subseteq DOMAIN messages',
         \A i \in DOMAIN messages : messages'[i] = messages[i],
         \A i \in DOMAIN messages' : status'[i] = "answered" =>
           i \in DOMAIN messages /\ status[i] = "answered"
  PROVE  AnswerReaches'
BY DEF AnswerReaches

LEMMA QuestionStep == TypeOK /\ QuestionInv /\ [Next]_vars => QuestionInv'
<1> SUFFICES ASSUME TypeOK, QuestionInv, [Next]_vars
             PROVE  QuestionInv'
  OBVIOUS
<1>t. /\ status \in [Ids -> {"none", "pending", "answered", "closed"}]
      /\ asking \in [Disps -> DOMAIN messages \cup {NoMsg}]
      /\ DOMAIN messages \subseteq Ids /\ NoMsg \notin Ids
      /\ \A i \in DOMAIN messages : messages[i].d \in Disps
  BY Numbers DEF TypeOK, Message, Ids, NoMsg
<1>1. ASSUME NEW d \in Disps, Send(d)
      PROVE  QuestionInv'
  <2>1. PICK to \in Boxes : PostRe(to, "status", d, NoMsg)
    BY <1>1 DEF Send, Post, Boxes
  <2>2. UNCHANGED <<active, status, asking, told>>
    BY <1>1 DEF Send, agents
  <2>3. /\ DOMAIN messages' = DOMAIN messages \cup {Next1}
        /\ \A i \in DOMAIN messages : messages'[i] = messages[i]
        /\ status[Next1] = "none"
    BY <2>1, QuestionPosted DEF Types
  <2>4. StatusOfSent' /\ PendingActive' /\ AskingOwn'
    BY <1>t, <2>2, <2>3 DEF QuestionInv, StatusOfSent, PendingActive, AskingOwn
  <2>5. AnswerReaches'
    BY <2>2, <2>3, AnswersStay DEF QuestionInv
  <2> QED
    BY <2>4, <2>5 DEF QuestionInv
<1>2. ASSUME NEW d \in Disps, Settle(d)
      PROVE  QuestionInv'
  <2>1. PICK to \in Boxes, type \in Types : PostRe(to, type, d, NoMsg)
    BY <1>2 DEF Settle, Post, Boxes, Types
  <2>2. /\ active' = active \ {d} /\ told' = told
        /\ asking' = [asking EXCEPT ![d] = NoMsg]
        /\ status' = [i \in Ids |-> IF i \in Pending(d) THEN "closed" ELSE status[i]]
    BY <1>2 DEF Settle, Closed
  <2>3. /\ DOMAIN messages' = DOMAIN messages \cup {Next1}
        /\ \A i \in DOMAIN messages : messages'[i] = messages[i]
        /\ Next1 \in Ids /\ status[Next1] = "none"
    BY <2>1, QuestionPosted
  <2>4. \A i \in Ids : \/ status'[i] = status[i] /\ i \notin Pending(d)
                       \/ status'[i] = "closed" /\ i \in DOMAIN messages
    BY <2>2 DEF Pending
  <2>5. StatusOfSent'
    BY <2>3, <2>4 DEF QuestionInv, StatusOfSent
  <2>6. PendingActive'
    BY <1>t, <2>2, <2>3, <2>4 DEF QuestionInv, PendingActive, Pending
  <2>7. AskingOwn'
    <3> SUFFICES ASSUME NEW e \in Disps, asking'[e] # NoMsg
                 PROVE  messages'[asking'[e]].d = e /\ status'[asking'[e]] = "pending"
      BY DEF AskingOwn
    <3>1. e # d /\ asking'[e] = asking[e] /\ asking[e] \in DOMAIN messages
      BY <1>t, <2>2
    <3>2. messages[asking[e]].d = e /\ status[asking[e]] = "pending"
      BY <3>1 DEF QuestionInv, AskingOwn
    <3>3. asking[e] \notin Pending(d)
      BY <3>1, <3>2 DEF Pending
    <3> QED
      BY <1>t, <2>2, <2>3, <3>1, <3>2, <3>3
  <2>8. AnswerReaches'
    BY <1>t, <2>2, <2>3, <2>4, AnswersStay DEF QuestionInv
  <2> QED
    BY <2>5, <2>6, <2>7, <2>8 DEF QuestionInv
<1>3. ASSUME NEW d \in Disps, Ask(d)
      PROVE  QuestionInv'
  <2>1. PostRe(Run, "question", d, NoMsg) /\ Run \in Boxes /\ "question" \in Types
    BY <1>3 DEF Ask, Post, Boxes, Types
  <2>2. /\ d \in active /\ active' = active /\ told' = told
        /\ asking' = [asking EXCEPT ![d] = Next1]
        /\ status' = [status EXCEPT ![Next1] = "pending"]
    BY <1>3 DEF Ask, agents
  <2>3. /\ DOMAIN messages' = DOMAIN messages \cup {Next1}
        /\ \A i \in DOMAIN messages : messages'[i] = messages[i]
        /\ messages'[Next1].d = d /\ Next1 \in Ids /\ status[Next1] = "none"
    BY <2>1, QuestionPosted
  <2>4. Next1 \notin DOMAIN messages
    BY <2>1, Posted
  <2>5. StatusOfSent' /\ PendingActive'
    BY <1>t, <2>2, <2>3 DEF QuestionInv, StatusOfSent, PendingActive
  <2>6. AskingOwn'
    BY <1>t, <2>2, <2>3, <2>4 DEF QuestionInv, AskingOwn
  <2>7. AnswerReaches'
    BY <1>t, <2>2, <2>3, AnswersStay DEF QuestionInv
  <2> QED
    BY <2>5, <2>6, <2>7 DEF QuestionInv
<1>4. ASSUME NEW d \in Disps, AskTimeout(d) \/ AskCut(d)
      PROVE  QuestionInv'
  <2>1. UNCHANGED <<active, messages, status, told>> /\ asking' = [asking EXCEPT ![d] = NoMsg]
    BY <1>4 DEF AskTimeout, AskCut, store, agents
  <2> QED
    BY <1>t, <2>1 DEF QuestionInv, StatusOfSent, PendingActive, AskingOwn, AnswerReaches
<1>5. ASSUME NEW d \in Disps, NEW i \in DOMAIN messages, Resume(d, i)
      PROVE  QuestionInv'
  <2>1. UNCHANGED <<active, messages, status>> /\ told \subseteq told' /\ messages[i].d = d
    BY <1>5 DEF Resume, store
  <2>2. AskingOwn'
    BY <1>5, <1>t, <2>1 DEF Resume, QuestionInv, AskingOwn
  <2> QED
    BY <2>1, <2>2 DEF QuestionInv, StatusOfSent, PendingActive, AnswerReaches
<1>6. ASSUME NEW i \in DOMAIN messages, Reply(i)
      PROVE  QuestionInv'
  <2> DEFINE d == messages[i].d
  <2>1. d \in Disps /\ d \in Boxes /\ i \in Ids /\ "reply" \in Types
    BY <1>t DEF Boxes, Types
  <2>2. /\ active' = active /\ status' = [status EXCEPT ![i] = "answered"]
        /\ asking' = [asking EXCEPT ![d] = IF @ = i THEN NoMsg ELSE @]
        /\ told' = IF asking[d] = i THEN told \cup {i} ELSE told
    BY <1>6 DEF Reply
  <2>3. /\ DOMAIN messages \subseteq DOMAIN messages'
        /\ \A j \in DOMAIN messages : messages'[j] = messages[j]
        /\ \A j \in DOMAIN messages' : j \in DOMAIN messages \/ status[j] = "none"
        /\ asking[d] # i => \E j \in DOMAIN messages' :
             messages'[j].to = d /\ messages'[j].type = "reply" /\ messages'[j].re = i
    <3>1. CASE NeedsMail(i)
      <4>1. PostRe(d, "reply", d, i)
        BY <1>6, <3>1 DEF Reply
      <4>2. /\ DOMAIN messages' = DOMAIN messages \cup {Next1}
            /\ \A j \in DOMAIN messages : messages'[j] = messages[j]
            /\ status[Next1] = "none"
        BY <2>1, <4>1, QuestionPosted
      <4>3. messages'[Next1] = [to |-> d, type |-> "reply", d |-> d, re |-> i]
        BY <2>1, <4>1, Posted
      <4> QED
        BY <4>2, <4>3
    <3>2. CASE ~NeedsMail(i)
      <4>1. messages' = messages /\ asking[d] = i
        BY <1>6, <3>2 DEF Reply, NeedsMail
      <4> QED
        BY <4>1
    <3> QED
      BY <3>1, <3>2
  <2>4. StatusOfSent' /\ PendingActive'
    BY <1>t, <2>1, <2>2, <2>3 DEF QuestionInv, StatusOfSent, PendingActive
  <2>5. AskingOwn'
    <3> SUFFICES ASSUME NEW e \in Disps, asking'[e] # NoMsg
                 PROVE  messages'[asking'[e]].d = e /\ status'[asking'[e]] = "pending"
      BY DEF AskingOwn
    <3>1. asking'[e] = asking[e] /\ asking[e] \in DOMAIN messages /\ (e = d => asking[e] # i)
      BY <1>t, <2>1, <2>2
    <3>2. messages[asking[e]].d = e /\ status[asking[e]] = "pending"
      BY <3>1 DEF QuestionInv, AskingOwn
    <3>3. asking[e] # i
      BY <3>1, <3>2
    <3> QED
      BY <1>t, <2>2, <2>3, <3>1, <3>2, <3>3
  <2>6. AnswerReaches'
    <3> SUFFICES ASSUME NEW j \in DOMAIN messages', status'[j] = "answered"
                 PROVE  \/ j \in told'
                        \/ \E k \in DOMAIN messages' :
                             /\ messages'[k].to = messages'[j].d
                             /\ messages'[k].type = "reply" /\ messages'[k].re = j
      BY DEF AnswerReaches
    <3>1. CASE j = i
      BY <2>2, <2>3, <3>1
    <3>2. CASE j # i
      <4>1. status[j] = "answered" /\ j \in DOMAIN messages
        BY <1>t, <2>2, <2>3, <3>2
      <4> QED
        BY <2>2, <2>3, <4>1 DEF QuestionInv, AnswerReaches
    <3> QED
      BY <3>1, <3>2
  <2> QED
    BY <2>4, <2>5, <2>6 DEF QuestionInv
<1>7. CASE UNCHANGED <<active, messages, status, asking, told>>
  BY <1>7 DEF QuestionInv, StatusOfSent, PendingActive, AskingOwn, AnswerReaches
<1>8. ASSUME NEW b \in Boxes, Recheck(b) \/ CheckCut(b)
      PROVE  QuestionInv'
  BY <1>7, <1>8 DEF Recheck, CheckCut, store, agents
<1>9. ASSUME NEW b \in Boxes, NEW ack \in BOOLEAN, NEW wait \in BOOLEAN,
             NEW types \in SUBSET Types, Check(b, ack, wait, types)
      PROVE  QuestionInv'
  BY <1>7, <1>9 DEF Check
<1>10. CASE Crash
  BY <1>10 DEF Crash, store, agents, QuestionInv, StatusOfSent, PendingActive, AskingOwn,
               AnswerReaches
<1>11. CASE UNCHANGED vars
  BY <1>7, <1>11 DEF vars, store, waits, agents
<1> QED
  BY <1>1, <1>2, <1>3, <1>4, <1>5, <1>6, <1>8, <1>9, <1>10, <1>11 DEF Next, Types

-----------------------------------------------------------------------------
(* Deliveries.                                                             *)

\* The messages S are of mailbox b, and with each come those before it that are not seen.
Whole(S, b, seen) ==
  \A i \in S : /\ messages[i].to = b
               /\ \A j \in DOMAIN messages : messages[j].to = b /\ j < i => j \in S \cup seen
DeliveryWhole == \A b \in Boxes : Whole(delivery[b], b, acked)
HandGiven == \A b \in Boxes : hand[b] \subseteq given
DeliveryInv == DeliveryWhole /\ HandGiven

\* The first unread messages of a mailbox leave none out.
LEMMA BatchWhole ==
  ASSUME TypeOK, NEW b \in Boxes, NEW held, held \subseteq DOMAIN messages, NEW seen,
         Whole(held, b, seen)
  PROVE  Whole(BatchOf(b, held, seen), b, seen)
<1> DEFINE U == Unread(b, seen)
<1>1. CASE held # {}
  BY <1>1 DEF BatchOf
<1>2. CASE held = {}
  <2> SUFFICES ASSUME NEW i \in FirstOf(U)
               PROVE  /\ messages[i].to = b
                      /\ \A j \in DOMAIN messages :
                           messages[j].to = b /\ j < i => j \in FirstOf(U) \cup seen
    BY <1>2 DEF BatchOf, Whole
  <2>1. i \in U /\ Cardinality({k \in U : k <= i}) <= Batch
    BY DEF FirstOf
  <2>2. IsFiniteSet(U) /\ U \subseteq DOMAIN messages /\ DOMAIN messages \subseteq Nat
    <3>1. DOMAIN messages = 1..Len(messages) /\ Len(messages) \in Nat
      BY Numbers
    <3>2. IsFiniteSet(1..Len(messages))
      BY <3>1, FS_Interval
    <3>3. U \subseteq 1..Len(messages)
      BY <3>1 DEF Unread
    <3> QED
      BY <3>1, <3>2, <3>3, FS_Subset
  <2>3. ASSUME NEW j \in DOMAIN messages, messages[j].to = b, j < i, j \notin seen
        PROVE  j \in FirstOf(U)
    <3> DEFINE Upto(n) == {k \in U : k <= n}
    <3>1. j \in U
      BY <2>3 DEF Unread
    <3>2. Upto(j) \subseteq Upto(i)
      BY <2>1, <2>2, <2>3
    <3>3. IsFiniteSet(Upto(i))
      BY <2>2, FS_Subset
    <3>4. Cardinality(Upto(j)) <= Cardinality(Upto(i)) /\ IsFiniteSet(Upto(j))
      BY <3>2, <3>3, FS_Subset
    <3>5. Cardinality(Upto(j)) \in Nat /\ Cardinality(Upto(i)) \in Nat
      BY <3>3, <3>4, FS_CardinalityType
    <3>6. Cardinality(Upto(j)) <= Batch
      BY <2>1, <3>4, <3>5, OrchMailAssumption
    <3> QED
      BY <3>1, <3>6 DEF FirstOf
  <2>4. messages[i].to = b
    BY <2>1 DEF Unread
  <2> QED
    BY <2>3, <2>4
<1> QED
  BY <1>1, <1>2

\* What is whole stays whole when messages are added and more is acknowledged.
LEMMA WholeStays ==
  ASSUME TypeOK, NEW b \in Boxes, NEW S, S \subseteq DOMAIN messages, Whole(S, b, acked),
         acked \subseteq acked', DOMAIN messages \subseteq DOMAIN messages',
         \A i \in DOMAIN messages : messages'[i] = messages[i],
         \A i \in DOMAIN messages, j \in DOMAIN messages' : j < i => j \in DOMAIN messages
  PROVE  \A i \in S : /\ messages'[i].to = b
                      /\ \A j \in DOMAIN messages' :
                           messages'[j].to = b /\ j < i => j \in S \cup acked'
BY DEF Whole

\* Steps that add messages or acknowledge some, and give none.
LEMMA DeliveryKept ==
  ASSUME TypeOK, DeliveryInv, UNCHANGED <<delivery, hand, given>>, acked \subseteq acked',
         \/ messages' = messages
         \/ \E to \in Boxes, type \in Types, d \in Disps, re \in Ids \cup {NoMsg} :
              PostRe(to, type, d, re)
  PROVE  DeliveryInv'
<1> DEFINE Grows ==
             /\ DOMAIN messages \subseteq DOMAIN messages'
             /\ \A i \in DOMAIN messages : messages'[i] = messages[i]
             /\ \A i \in DOMAIN messages, j \in DOMAIN messages' :
                  j < i => j \in DOMAIN messages
<1>1. Grows
  <2>1. CASE messages' = messages
    BY <2>1
  <2>2. ASSUME NEW to \in Boxes, NEW type \in Types, NEW d \in Disps,
               NEW re \in Ids \cup {NoMsg}, PostRe(to, type, d, re)
        PROVE  Grows
    <3>1. /\ DOMAIN messages' = DOMAIN messages \cup {Next1}
          /\ \A i \in DOMAIN messages : messages'[i] = messages[i]
          /\ \A i \in DOMAIN messages : i < Next1
          /\ Next1 \in Ids
      BY <2>2, Posted
    <3>2. DOMAIN messages \subseteq Nat /\ Next1 \in Nat
      BY <3>1, Numbers DEF Ids
    <3> QED
      BY <3>1, <3>2
  <2> QED
    BY <2>1, <2>2
<1>2. DeliveryWhole'
  <2> SUFFICES ASSUME NEW b \in Boxes
               PROVE  Whole(delivery[b], b, acked)'
    BY DEF DeliveryWhole
  <2>1. delivery[b] \subseteq DOMAIN messages /\ Whole(delivery[b], b, acked)
    BY DEF TypeOK, DeliveryInv, DeliveryWhole
  <2> QED
    BY <1>1, <2>1, WholeStays DEF Whole
<1>3. HandGiven'
  BY DEF DeliveryInv, HandGiven
<1> QED
  BY <1>2, <1>3 DEF DeliveryInv

\* A response that arrives is what its reader was given.
LEMMA HandKept ==
  ASSUME TypeOK, HandGiven, NEW b \in Boxes, NEW batch, Gives(b, batch)
  PROVE  HandGiven'
BY DEF TypeOK, HandGiven, Gives

LEMMA DeliveryStep == TypeOK /\ DeliveryInv /\ [Next]_vars => DeliveryInv'
<1> SUFFICES ASSUME TypeOK, DeliveryInv, [Next]_vars
             PROVE  DeliveryInv'
  OBVIOUS
<1>1. ASSUME NEW d \in Disps, Send(d) \/ Settle(d) \/ Ask(d)
      PROVE  DeliveryInv'
  <2>1. \E to \in Boxes, type \in Types : PostRe(to, type, d, NoMsg)
    BY <1>1 DEF Send, Settle, Ask, Post, Boxes, Types
  <2>2. UNCHANGED <<delivery, hand, given, acked>>
    BY <1>1 DEF Send, Settle, Ask, agents
  <2> QED
    BY <2>1, <2>2, DeliveryKept
<1>2. ASSUME NEW i \in DOMAIN messages, Reply(i)
      PROVE  DeliveryInv'
  <2>1. messages[i].d \in Disps /\ messages[i].d \in Boxes /\ i \in Ids /\ "reply" \in Types
    BY Numbers DEF Message, Boxes, Types
  <2>2. UNCHANGED <<delivery, hand, given>> /\ acked \subseteq acked'
    BY <1>2 DEF Reply
  <2>3. PostRe(messages[i].d, "reply", messages[i].d, i) \/ messages' = messages
    BY <1>2 DEF Reply
  <2> QED
    BY <2>1, <2>2, <2>3, DeliveryKept
<1>3. CASE UNCHANGED <<messages, acked, delivery, hand, given>>
  BY <1>3, DeliveryKept
<1>4. ASSUME NEW d \in Disps, AskTimeout(d) \/ AskCut(d)
      PROVE  DeliveryInv'
  BY <1>3, <1>4 DEF AskTimeout, AskCut, store, agents
<1>5. ASSUME NEW d \in Disps, NEW i \in DOMAIN messages, Resume(d, i)
      PROVE  DeliveryInv'
  BY <1>3, <1>5 DEF Resume, store
<1>6. ASSUME NEW b \in Boxes, Recheck(b)
      PROVE  DeliveryInv'
  <2> DEFINE batch == BatchOf(b, delivery[b], acked)
  <2>1. delivery \in [Boxes -> SUBSET DOMAIN messages] /\ messages' = messages /\ acked' = acked
    BY <1>6 DEF TypeOK, Recheck
  <2>2. Whole(batch, b, acked)
    BY <2>1, BatchWhole DEF DeliveryInv, DeliveryWhole
  <2>3. CASE delivery' = [delivery EXCEPT ![b] = batch] /\ Gives(b, batch)
    <3>1. HandGiven'
      BY <2>3, HandKept DEF DeliveryInv
    <3>2. \A c \in Boxes : Whole(delivery'[c], c, acked)
      BY <2>1, <2>2, <2>3 DEF DeliveryInv, DeliveryWhole
    <3>3. DeliveryWhole'
      BY <2>1, <3>2 DEF DeliveryWhole, Whole
    <3> QED
      BY <3>1, <3>3 DEF DeliveryInv
  <2> QED
    BY <1>3, <1>6, <2>1, <2>3 DEF Recheck
<1>7. ASSUME NEW b \in Boxes, CheckCut(b)
      PROVE  DeliveryInv'
  BY <1>3, <1>7 DEF CheckCut, store, agents
<1>8. ASSUME NEW b \in Boxes, NEW ack \in BOOLEAN, NEW wait \in BOOLEAN,
             NEW types \in SUBSET Types, Check(b, ack, wait, types)
      PROVE  DeliveryInv'
  <2> DEFINE held == Held(b, ack)
             batch == BatchOf(b, held, acked')
  <2>1. /\ delivery \in [Boxes -> SUBSET DOMAIN messages] /\ messages' = messages
        /\ acked' = Acknowledged(b, ack) /\ acked \subseteq acked'
    BY <1>8 DEF TypeOK, Check, Acknowledged
  <2>2. held \subseteq DOMAIN messages /\ held \subseteq delivery[b]
    BY <2>1 DEF Held
  <2>3. \A c \in Boxes : Whole(delivery[c], c, acked')
    BY <2>1 DEF DeliveryInv, DeliveryWhole, Whole
  <2>4. Whole(held, b, acked')
    BY <2>3 DEF Held, Whole
  <2>5. Whole(batch, b, acked')
    BY <2>2, <2>4, BatchWhole
  <2>6. CASE delivery' = [delivery EXCEPT ![b] = batch] /\ Gives(b, batch)
    <3>1. HandGiven'
      BY <2>6, HandKept DEF DeliveryInv
    <3>2. \A c \in Boxes : Whole(delivery'[c], c, acked')
      BY <2>1, <2>3, <2>5, <2>6
    <3>3. DeliveryWhole'
      BY <2>1, <3>2 DEF DeliveryWhole, Whole
    <3> QED
      BY <3>1, <3>3 DEF DeliveryInv
  <2>7. CASE delivery' = [delivery EXCEPT ![b] = {}] /\ UNCHANGED <<hand, given>>
    <3>1. HandGiven'
      BY <2>7 DEF DeliveryInv, HandGiven
    <3>2. \A c \in Boxes : Whole(delivery'[c], c, acked')
      BY <2>1, <2>3, <2>7 DEF Whole
    <3>3. DeliveryWhole'
      BY <2>1, <3>2 DEF DeliveryWhole, Whole
    <3> QED
      BY <3>1, <3>3 DEF DeliveryInv
  <2> QED
    BY <1>8, <2>6, <2>7 DEF Check
<1>9. CASE Crash
  BY <1>3, <1>9 DEF Crash, store, agents
<1>10. CASE UNCHANGED vars
  BY <1>3, <1>10 DEF vars, store, agents
<1> QED
  BY <1>1, <1>2, <1>4, <1>5, <1>6, <1>7, <1>8, <1>9, <1>10 DEF Next, Types

-----------------------------------------------------------------------------
(* Theorems.                                                               *)

IInv == TypeOK /\ WaitInv /\ QuestionInv /\ DeliveryInv

LEMMA InitIInv == Init => IInv
<1> SUFFICES ASSUME Init
             PROVE  IInv
  OBVIOUS
<1>1. messages = <<>> /\ DOMAIN messages = {}
  BY DEF Init
<1>2. TypeOK
  BY <1>1, OrchMailAssumption DEF Init, TypeOK, NotWaiting
<1>3. WaitInv
  BY DEF Init, WaitInv, WaitsEmpty, WaitsInVain, NotWaiting
<1>4. QuestionInv
  BY <1>1 DEF Init, QuestionInv, StatusOfSent, PendingActive, AskingOwn, AnswerReaches
<1>5. DeliveryInv
  BY DEF Init, DeliveryInv, DeliveryWhole, HandGiven, Whole
<1> QED
  BY <1>2, <1>3, <1>4, <1>5 DEF IInv

LEMMA IInvStep == IInv /\ [Next]_vars => IInv'
BY TypeStep, WaitStep, QuestionStep, DeliveryStep DEF IInv

LEMMA Invariant == Spec => []IInv
BY InitIInv, IInvStep, PTL DEF Spec

\* No call sleeps on a message it waits for, nor an asker on a question that is over,
\* whatever comes between its last look into the mailbox and its wait (orch.check and
\* orch.ask, with wake and settle).
THEOREM WakesReach == Spec => []NoMissedWake
<1>1. IInv => NoMissedWake
  <2> SUFFICES ASSUME IInv
               PROVE  NoMissedWake
    OBVIOUS
  <2>1. \A b \in Boxes : check[b].at = "wait" =>
          /\ delivery[b] = {}
          /\ \A i \in Unread(b, acked) :
               check[b].types # {} /\ messages[i].type \notin check[b].types
    BY DEF IInv, WaitInv, WaitsEmpty, WaitsInVain
  <2>2. \A d \in Disps : asking[d] # NoMsg => asking[d] \in DOMAIN messages
    BY DEF IInv, TypeOK
  <2>3. \A d \in Disps : asking[d] # NoMsg => status[asking[d]] = "pending" /\ d \in active
    BY <2>2 DEF IInv, QuestionInv, AskingOwn, PendingActive
  <2> QED
    BY <2>1, <2>3 DEF NoMissedWake
<1> QED
  BY <1>1, Invariant, PTL

\* The answer to a question is told to who asked it, or is in its mailbox (orch.reply).
THEOREM AnswersArrive == Spec => []AnswerReaches
<1>1. IInv => AnswerReaches
  BY DEF IInv, QuestionInv
<1> QED
  BY <1>1, Invariant, PTL

-----------------------------------------------------------------------------
(* The refinement.                                                         *)

Sent == [i \in DOMAIN messages |-> messages[i].to]

\* A sequence that is one longer and begins alike is the other with one more at its end.
LEMMA OneMore ==
  ASSUME NEW S, NEW s \in Seq(S), NEW t \in Seq(S), NEW x \in S, Len(t) = Len(s) + 1,
         \A i \in 1..Len(s) : t[i] = s[i], t[Len(s) + 1] = x
  PROVE  t = Append(s, x)
<1>1. Append(s, x) \in Seq(S) /\ Len(Append(s, x)) = Len(s) + 1 /\ Len(s) \in Nat
  OBVIOUS
<1>2. \A i \in 1..(Len(s) + 1) : Append(s, x)[i] = t[i]
  BY <1>1
<1> QED
  BY <1>1, <1>2, SeqEqual

\* A message that is posted is one more that Mailbox has sent.
LEMMA SentPosted ==
  ASSUME TypeOK, NEW to \in Boxes, NEW type \in Types, NEW d \in Disps,
         NEW re \in Ids \cup {NoMsg}, PostRe(to, type, d, re)
  PROVE  Sent' = Append(Sent, to)
<1> DEFINE n == Len(messages)
<1>1. DOMAIN messages = 1..n /\ n \in Nat
  BY Numbers
<1>p. /\ messages' \in Seq(Message) /\ DOMAIN messages' = DOMAIN messages \cup {n + 1}
      /\ \A i \in DOMAIN messages : messages'[i] = messages[i]
      /\ messages'[n + 1] = [to |-> to, type |-> type, d |-> d, re |-> re]
  <2>1. n + 1 = Next1
    BY DEF Next1
  <2> QED
    BY <2>1, Posted
<1>2. (\A i \in 1..n : messages'[i] = messages[i]) /\ messages'[n + 1].to = to
  BY <1>1, <1>p
<1>3. DOMAIN messages' = 1..(n + 1)
  BY <1>1, <1>p
<1>4. \A i \in 1..n : messages[i].to \in Boxes
  BY <1>1, Numbers DEF Message
<1>5. Sent = [i \in 1..n |-> messages[i].to] /\ Sent' = [i \in 1..(n + 1) |-> messages'[i].to]
  BY <1>1, <1>3 DEF Sent
<1> HIDE DEF n
<1>6. Sent \in Seq(Boxes) /\ Len(Sent) = n
  BY <1>1, <1>4, <1>5
<1>7. \A i \in 1..(n + 1) : messages'[i].to \in Boxes
  BY <1>1, <1>2, <1>4
<1>8. Sent' \in Seq(Boxes) /\ Len(Sent') = n + 1
  BY <1>1, <1>5, <1>7
<1> QED
  BY <1>1, <1>2, <1>5, <1>6, <1>8, OneMore

\* The messages of a mailbox are those sent to it.
LEMMA InBox ==
  ASSUME TypeOK
  PROVE  /\ \A b \in Boxes : Promise!In(b) = {i \in DOMAIN messages : messages[i].to = b}
         /\ DOMAIN Sent = DOMAIN messages
BY DEF Promise!In, Sent

\* What posts a message and gives nothing sends one.
LEMMA PostSends ==
  ASSUME TypeOK, UNCHANGED <<given, acked>>,
         \E to \in Boxes, type \in Types, d \in Disps, re \in Ids \cup {NoMsg} :
           PostRe(to, type, d, re)
  PROVE  Promise!Next
<1>1. PICK to \in Boxes : Sent' = Append(Sent, to)
  BY SentPosted
<1>2. Promise!Send(to)
  BY <1>1 DEF Promise!Send, Sent
<1> QED
  BY <1>2 DEF Promise!Next

\* What takes a question from its mailbox, and at most posts its answer, answers it.
LEMMA ReplyAnswers ==
  ASSUME NEW i \in DOMAIN messages, NEW b \in Boxes, UNCHANGED given,
         acked' = acked \cup {i}, Sent' \in {Sent, Append(Sent, b)}
  PROVE  Promise!Next
<1>1. Promise!Answer(i, b)
  BY DEF Promise!Answer, Sent
<1>2. i \in DOMAIN Sent
  BY DEF Sent
<1> QED
  BY <1>1, <1>2 DEF Promise!Next, Sent

\* What gives a batch that is whole, and acknowledges what was given, reads a mailbox.
LEMMA GivesRead ==
  ASSUME TypeOK, UNCHANGED messages, NEW b \in Boxes, NEW done, NEW next,
         done \subseteq given, \A i \in done : i \in DOMAIN messages /\ messages[i].to = b,
         acked' = acked \cup done, given' = given \cup next,
         next \subseteq DOMAIN messages, Whole(next, b, acked')
  PROVE  Promise!Next
<1>1. Promise!In(b) = {i \in DOMAIN messages : messages[i].to = b}
  BY InBox
<1>2. done \in SUBSET (Promise!In(b) \cap given)
  BY <1>1
<1>3. next \in SUBSET Promise!In(b)
  BY <1>1 DEF Whole
<1>4. \A i \in next : \A j \in Promise!In(b) : j < i => j \in next \cup given \cup acked'
  BY <1>1 DEF Whole
<1>5. Sent' = Sent
  BY DEF Sent
<1>6. Promise!Read(b)
  BY <1>2, <1>3, <1>4, <1>5 DEF Promise!Read, Sent
<1> QED
  BY <1>6 DEF Promise!Next

\* Steps that touch no mailbox.
LEMMA Stutters ==
  ASSUME UNCHANGED <<messages, given, acked>>
  PROVE  UNCHANGED Promise!vars
BY DEF Promise!vars

LEMMA PromiseStep ==
  TypeOK /\ DeliveryInv /\ [Next]_vars => [Promise!Next]_Promise!vars
<1> SUFFICES ASSUME TypeOK, DeliveryInv, [Next]_vars
             PROVE  Promise!Next \/ UNCHANGED Promise!vars
  OBVIOUS
<1>1. ASSUME NEW d \in Disps, Send(d) \/ Settle(d) \/ Ask(d)
      PROVE  Promise!Next
  <2>1. \E to \in Boxes, type \in Types : PostRe(to, type, d, NoMsg)
    BY <1>1 DEF Send, Settle, Ask, Post, Boxes, Types
  <2>2. UNCHANGED <<given, acked>>
    BY <1>1 DEF Send, Settle, Ask, agents
  <2> QED
    BY <2>1, <2>2, PostSends
<1>2. ASSUME NEW i \in DOMAIN messages, Reply(i)
      PROVE  Promise!Next
  <2> DEFINE d == messages[i].d
  <2>1. d \in Disps /\ d \in Boxes /\ i \in Ids /\ "reply" \in Types
    BY Numbers DEF Message, Boxes, Types
  <2>2. UNCHANGED given /\ acked' = acked \cup {i}
    BY <1>2 DEF Reply
  <2>3. PostRe(d, "reply", d, i) \/ messages' = messages
    BY <1>2 DEF Reply
  <2>4. Sent' \in {Sent, Append(Sent, d)}
    <3>1. CASE PostRe(d, "reply", d, i)
      BY <2>1, <3>1, SentPosted
    <3>2. CASE messages' = messages
      BY <3>2 DEF Sent
    <3> QED
      BY <2>3, <3>1, <3>2
  <2> HIDE DEF d
  <2> QED
    BY <2>1, <2>2, <2>4, ReplyAnswers
<1>3. ASSUME NEW d \in Disps, AskTimeout(d) \/ AskCut(d)
      PROVE  UNCHANGED Promise!vars
  BY <1>3, Stutters DEF AskTimeout, AskCut, store, agents
<1>4. ASSUME NEW d \in Disps, NEW i \in DOMAIN messages, Resume(d, i)
      PROVE  UNCHANGED Promise!vars
  BY <1>4, Stutters DEF Resume, store
<1>5. ASSUME NEW b \in Boxes, Recheck(b)
      PROVE  Promise!Next \/ UNCHANGED Promise!vars
  <2> DEFINE batch == BatchOf(b, delivery[b], acked)
  <2>1. delivery[b] \subseteq DOMAIN messages /\ messages' = messages /\ acked' = acked
    BY <1>5 DEF TypeOK, Recheck
  <2>2. batch \subseteq DOMAIN messages /\ Whole(batch, b, acked)
    BY <2>1, Batches, BatchWhole DEF DeliveryInv, DeliveryWhole
  <2>3. Gives(b, batch) \/ UNCHANGED given
    BY <1>5 DEF Recheck
  <2> HIDE DEF batch
  <2>4. CASE given' = given \cup batch
    <3> DEFINE done == {}
    <3>1. done \subseteq given /\ \A i \in done : i \in DOMAIN messages /\ messages[i].to = b
      OBVIOUS
    <3>2. acked' = acked \cup done
      BY <2>1
    <3>3. Whole(batch, b, acked')
      BY <2>1, <2>2
    <3> HIDE DEF done
    <3> QED
      BY <2>1, <2>2, <2>4, <3>1, <3>2, <3>3, GivesRead
  <2>5. CASE UNCHANGED given
    BY <2>1, <2>5, Stutters
  <2> QED
    BY <2>3, <2>4, <2>5 DEF Gives
<1>6. ASSUME NEW b \in Boxes, NEW ack \in BOOLEAN, NEW wait \in BOOLEAN,
             NEW types \in SUBSET Types, Check(b, ack, wait, types)
      PROVE  Promise!Next
  <2> DEFINE held == Held(b, ack)
             batch == BatchOf(b, held, acked')
             done == IF ack /\ hand[b] = delivery[b] THEN delivery[b] ELSE {}
  <2>1. messages' = messages /\ acked' = acked \cup done
    BY <1>6 DEF Check, Acknowledged
  <2>2. /\ delivery[b] \subseteq DOMAIN messages /\ Whole(delivery[b], b, acked)
        /\ hand[b] \subseteq given
    BY DEF TypeOK, DeliveryInv, DeliveryWhole, HandGiven
  <2>3. done \subseteq given /\ \A i \in done : i \in DOMAIN messages /\ messages[i].to = b
    BY <2>2 DEF Whole
  <2>4. held \in {{}, delivery[b]}
    BY DEF Held
  <2>5. batch \subseteq DOMAIN messages /\ Whole(batch, b, acked')
    <3>1. held \subseteq DOMAIN messages /\ Whole(held, b, acked')
      BY <2>1, <2>2, <2>4 DEF Whole
    <3> QED
      BY <3>1, Batches, BatchWhole
  <2>6. Gives(b, batch) \/ UNCHANGED given
    BY <1>6 DEF Check
  <2> HIDE DEF held, batch, done
  <2>7. CASE given' = given \cup batch
    BY <2>1, <2>3, <2>5, <2>7, GivesRead
  <2>8. CASE UNCHANGED given
    <3>1. given' = given \cup {} /\ Whole({}, b, acked')
      BY <2>8 DEF Whole
    <3> QED
      BY <2>1, <2>3, <3>1, GivesRead
  <2> QED
    BY <2>6, <2>7, <2>8 DEF Gives
<1>7. ASSUME NEW b \in Boxes, CheckCut(b)
      PROVE  UNCHANGED Promise!vars
  BY <1>7, Stutters DEF CheckCut, store, agents
<1>8. CASE Crash
  BY <1>8, Stutters DEF Crash, store, agents
<1>9. CASE UNCHANGED vars
  BY <1>9, Stutters DEF vars, store, agents
<1> QED
  BY <1>1, <1>2, <1>3, <1>4, <1>5, <1>6, <1>7, <1>8, <1>9 DEF Next, Types

\* No message is lost, overtaken or forgotten before its reader has it: the mailboxes
\* (addMessage, orch.check with its acknowledgements, orch.reply) implement Mailbox.
THEOREM MailKept == Spec => KeepsMail
<1>1. Init => Promise!Init
  BY DEF Init, Promise!Init
<1>2. IInv /\ [Next]_vars => [Promise!Next]_Promise!vars
  BY PromiseStep DEF IInv
<1> QED
  BY <1>1, <1>2, Invariant, PTL DEF Spec, KeepsMail, Promise!Spec
=============================================================================
