---------------------------- MODULE ApprovalsProofs ----------------------------
(***************************************************************************)
(* Theorems about Approvals: its type invariant, that a choice answered    *)
(* through its hook is decided once, and that it implements                *)
(* ApprovalPromise.  All hold for every set of questions, any number of    *)
(* answers and any number of faults.                                       *)
(*                                                                         *)
(* The argument about choices: the slot of a hook is taken once, when the  *)
(* question is asked (AskedFirst), and while it is there nothing has been  *)
(* made under the id of the dialog (HookFirst), so nobody else drives the  *)
(* dialog (HookKept); who takes the slot has taken it for good (Taken).    *)
(***************************************************************************)
EXTENDS Approvals, TLAPS

-----------------------------------------------------------------------------
(* The inductive invariant *)

Sent(n) == call[n].st # "idle"
\* The daemon said ok to call n, or the device heard so.
Took(n) == call[n].st = "ok" \/ told[n] = "ok"

\* What stands for a question, or answers it, is of a question that was asked.
AskedFirst ==
  /\ \A id \in pending \cup cards : dialog[Of(id)] # "none"
  /\ \A m \in rest : dialog[Of(m.id)] # "none"
  /\ \A n \in Calls : Sent(n) => dialog[Of(Id(n))] # "none"

\* While a hook waits, nothing has been made under the id of its dialog.
Untouched(id) ==
  /\ id \notin pending \cup cards
  /\ \A m \in rest : m.id # id
  /\ \A n \in Calls : Sent(n) => Id(n) # id
HookFirst == \A k \in Requests : Hook(k) \in pending => Untouched(Tui(k))

\* The hook of a choice is not driven, and while it waits only the terminal answers.
Undriven ==
  /\ \A k \in choices : Hook(k) \notin enriched
  /\ \A n \in Calls : call[n].st \in {"checked", "pressed"} =>
       IsTui(Id(n)) \/ Of(Id(n)) \notin choices
HookKept == \A k \in choices : Hook(k) \in pending => dialog[k] \in {"open", "local"}

\* An answer taken is of a question that is answered; where it went through the hook of a
\* choice the slot is gone for good, and nobody else had it.
ByChoice(n) == ~IsTui(Id(n)) /\ Of(Id(n)) \in choices
Taken ==
  \A n \in Calls : Took(n) =>
    /\ Sent(n) /\ Answered(Of(Id(n)))
    /\ ByChoice(n) => /\ Id(n) \notin pending
                      /\ dialog[Of(Id(n))] \in {Dec(n), "local"}
                      /\ \A i \in Calls \ {n} : ~ (Took(i) /\ Id(i) = Id(n))

\* Who waits has been told nothing, who did not send does not wait.
Heard ==
  /\ \A n \in waiting : Sent(n) /\ told[n] = "none"
  /\ \A n \in Calls : ~ Sent(n) => told[n] = "none"

IInv == TypeOK /\ AskedFirst /\ HookFirst /\ Undriven /\ HookKept /\ Taken /\ Heard

-----------------------------------------------------------------------------
(* Ids, messages and what the helpers of Approvals do to them *)

\* An id is that of a hook or of a dialog.
LEMMA IdFacts ==
  /\ \A k \in Requests : /\ Hook(k) \in Ids /\ Tui(k) \in Ids /\ Hook(k) # Tui(k)
                         /\ Of(Hook(k)) = k /\ Of(Tui(k)) = k
                         /\ ~IsTui(Hook(k)) /\ IsTui(Tui(k))
  /\ \A id \in Ids : /\ Of(id) \in Requests
                     /\ id = IF IsTui(id) THEN Tui(Of(id)) ELSE Hook(Of(id))
<1>1. ASSUME NEW k \in Requests
      PROVE  /\ Hook(k) \in Ids /\ Tui(k) \in Ids /\ Hook(k) # Tui(k)
             /\ Of(Hook(k)) = k /\ Of(Tui(k)) = k
             /\ ~IsTui(Hook(k)) /\ IsTui(Tui(k))
  BY DEF Hook, Tui, Of, Ids, IsTui
<1>2. ASSUME NEW id \in Ids
      PROVE  Of(id) \in Requests /\ id = IF IsTui(id) THEN Tui(Of(id)) ELSE Hook(Of(id))
  <2>1. PICK a \in {"apr", "aprt"}, k \in Requests : id = <<a, k>>
    BY DEF Ids
  <2> QED
    BY <2>1 DEF Hook, Tui, Of, IsTui
<1> QED
  BY <1>1, <1>2

\* A call says allow or deny.
LEMMA DecType == \A n \in Calls : Dec(n) \in Decisions
BY DEF Dec, Decisions

Sources == {"first", "resync", "unheard"}
Stages == {"sent", "await", "late", "ok", "defer", "failed"}

\* A message is about an id; only an advertisement has an answer.
LEMMA MsgFacts ==
  /\ \A m \in Msg : /\ m.id \in Ids /\ m.op \in {"create", "cancel"}
                    /\ m.op = "cancel" => m.st = "sent"
                    /\ m.op = "create" => m.st \in Stages /\ m.src \in Sources
  /\ \A m \in Msg, st \in Stages :
       m.op = "create" => [m EXCEPT !.st = st] \in Msg /\ [m EXCEPT !.st = st].id = m.id
  /\ \A m \in Msg : m.op = "create" => /\ [m EXCEPT !.src = "unheard"] \in Msg
                                       /\ [m EXCEPT !.src = "unheard"].id = m.id
  /\ \A id \in Ids, src \in Sources :
       Create(id, src) \in Msg /\ Create(id, src).id = id /\ Create(id, src).st = "sent"
  /\ \A id \in Ids : Cancel(id) \in Msg /\ Cancel(id).id = id
<1>1. ASSUME NEW m \in Msg
      PROVE  /\ m.id \in Ids /\ m.op \in {"create", "cancel"}
             /\ m.op = "cancel" => m.st = "sent"
             /\ m.op = "create" => m.st \in Stages /\ m.src \in Sources
  BY DEF Msg, Stages, Sources
<1>2. ASSUME NEW m \in Msg, NEW st \in Stages, m.op = "create"
      PROVE  [m EXCEPT !.st = st] \in Msg /\ [m EXCEPT !.st = st].id = m.id
  BY <1>2 DEF Msg, Stages
<1>3. ASSUME NEW m \in Msg, m.op = "create"
      PROVE  [m EXCEPT !.src = "unheard"] \in Msg /\ [m EXCEPT !.src = "unheard"].id = m.id
  BY <1>3 DEF Msg
<1>4. ASSUME NEW id \in Ids, NEW src \in Sources
      PROVE  Create(id, src) \in Msg /\ Create(id, src).id = id /\ Create(id, src).st = "sent"
  BY DEF Msg, Create, Sources
<1>5. ASSUME NEW id \in Ids
      PROVE  Cancel(id) \in Msg /\ Cancel(id).id = id
  BY DEF Msg, Cancel
<1> QED
  BY <1>1, <1>2, <1>3, <1>4, <1>5

\* The ids that messages are about.
About == {m.id : m \in rest}

\* An answer of the server is about what it answers.
LEMMA ReplyFacts ==
  ASSUME NEW m \in Msg, m.op = "create", NEW st \in Stages
  PROVE  Reply(m, st) \subseteq Msg /\ \A x \in Reply(m, st) : x.id = m.id
<1>1. [m EXCEPT !.st = st] \in Msg /\ [m EXCEPT !.st = st].id = m.id
  BY MsgFacts
<1> QED
  BY <1>1 DEF Reply

\* A card that is withdrawn is that of a slot.
LEMMA RetractFacts ==
  ASSUME NEW id \in Ids
  PROVE  Retracted(id) \subseteq Msg /\ \A x \in Retracted(id) : x.id = id
<1>1. Cancel(id) \in Msg /\ Cancel(id).id = id
  BY MsgFacts
<1> QED
  BY <1>1 DEF Retracted

-----------------------------------------------------------------------------
(* Type correctness, by groups of variables *)

DialogTyped == choices \subseteq Requests
               /\ dialog \in [Requests -> {"none", "open", "local"} \cup Decisions]
SlotsTyped == pending \subseteq Ids /\ advertised \subseteq pending /\ enriched \subseteq pending
RestTyped == resync \subseteq Ids /\ rest \subseteq Msg
LinkTyped == link \in BOOLEAN /\ sweepArmed \in BOOLEAN /\ faults \in 0..MaxFaults
IndexTyped == /\ cards \subseteq Ids /\ fresh \subseteq cards
              /\ claim \in [Ids -> Calls \cup {NoCall}] /\ stale \subseteq Calls
At == {"rpc", "checked", "pressed", "ok", "gone", "failed", "done"}
CallTyped == call \in [Calls -> {Idle} \cup [st : At, id : Ids]]
DeviceTyped == waiting \subseteq Calls /\ told \in [Calls -> {"none", "ok", "gone", "failed"}]

LEMMA TypeGroups ==
  TypeOK <=> /\ DialogTyped /\ SlotsTyped /\ RestTyped /\ LinkTyped /\ IndexTyped
             /\ CallTyped /\ DeviceTyped
BY DEF TypeOK, DialogTyped, SlotsTyped, RestTyped, LinkTyped, IndexTyped, At,
       CallTyped, DeviceTyped

LEMMA TypeGroupsNext ==
  TypeOK' <=> /\ DialogTyped' /\ SlotsTyped' /\ RestTyped' /\ LinkTyped' /\ IndexTyped'
              /\ CallTyped' /\ DeviceTyped'
BY DEF TypeOK, DialogTyped, SlotsTyped, RestTyped, LinkTyped, IndexTyped, At,
       CallTyped, DeviceTyped

LEMMA AnswerTyped ==
  ASSUME DialogTyped, choices' = choices, NEW k \in Requests,
         NEW how \in {"local"} \cup Decisions, Answer(k, how)
  PROVE  DialogTyped'
BY DEF DialogTyped, Answer

LEMMA DropTyped ==
  ASSUME SlotsTyped, NEW id, Drop(id)
  PROVE  SlotsTyped'
BY DEF SlotsTyped, Drop

LEMMA FaultTyped ==
  ASSUME LinkTyped, Fault, link' \in BOOLEAN, sweepArmed' \in BOOLEAN
  PROVE  LinkTyped'
BY ApprovalsAssumption DEF LinkTyped, Fault

LEMMA DeferTyped ==
  ASSUME SlotsTyped, RestTyped, resync' = resync, NEW id \in Ids, Defer(id)
  PROVE  SlotsTyped' /\ RestTyped'
<1>1. SlotsTyped'
  BY DropTyped DEF Defer
<1>2. RestTyped'
  BY RetractFacts DEF Defer, RestTyped
<1> QED
  BY <1>1, <1>2

LEMMA FinalizeTyped ==
  ASSUME IndexTyped, NEW ids \in SUBSET Ids, Finalize(ids)
  PROVE  IndexTyped'
<1>1. claim' \in [Ids -> Calls \cup {NoCall}]
  BY DEF IndexTyped, Finalize
<1>2. {claim[id] : id \in ids} \ {NoCall} \subseteq Calls
  BY DEF IndexTyped
<1> QED
  BY <1>1, <1>2 DEF IndexTyped, Finalize

\* A call that was sent is about an id.
LEMMA SentFacts ==
  ASSUME CallTyped, NEW n \in Calls
  PROVE  /\ call[n].st \in At \cup {"idle"}
         /\ Sent(n) => call[n] \in [st : At, id : Ids] /\ Id(n) \in Ids
BY DEF CallTyped, Idle, Sent, Id, At

\* The effect of the helpers that move one call on.
LEMMA ToFacts ==
  ASSUME CallTyped, NEW n \in Calls, Sent(n), NEW st \in At, To(n, st)
  PROVE  /\ CallTyped'
         /\ call'[n].st = st /\ Id(n)' = Id(n)
         /\ \A i \in Calls \ {n} : call'[i] = call[i]
BY SentFacts DEF CallTyped, To, Id

LEMMA AnswersFacts ==
  ASSUME CallTyped, NEW n \in Calls, Sent(n), NEW st \in At, Answers(n, st)
  PROVE  /\ CallTyped'
         /\ call'[n].st = (IF n \in waiting THEN st ELSE "done") /\ Id(n)' = Id(n)
         /\ \A i \in Calls \ {n} : call'[i] = call[i]
<1>1. "done" \in At
  BY DEF At
<1> QED
  BY <1>1, ToFacts DEF Answers

LEMMA LoseFacts ==
  ASSUME CallTyped, DeviceTyped, NEW sts, "idle" \notin sts, LoseRpcs(sts)
  PROVE  /\ CallTyped' /\ DeviceTyped'
         /\ \A n \in Calls : /\ call'[n] = call[n] \/ (Sent(n) /\ call'[n].st = "done")
                             /\ call'[n].st \notin {"ok", "gone", "failed"}
                             /\ Id(n)' = Id(n)
                             /\ told'[n] = IF n \in waiting THEN "failed" ELSE told[n]
         /\ waiting' = {}
<1>1. ASSUME NEW n \in Calls
      PROVE  /\ call'[n] \in {Idle} \cup [st : At, id : Ids]
             /\ call'[n] = call[n] \/ (Sent(n) /\ call'[n].st = "done")
             /\ call'[n].st \notin {"ok", "gone", "failed"}
             /\ Id(n)' = Id(n)
  <2>1. CASE call[n].st \in sts \cup {"ok", "gone", "failed"}
    <3>1. Sent(n)
      BY <2>1 DEF Sent
    <3>2. call'[n] = [call[n] EXCEPT !.st = "done"]
      BY <2>1 DEF LoseRpcs
    <3> QED
      BY <3>1, <3>2, SentFacts DEF Id, At
  <2>2. CASE call[n].st \notin sts \cup {"ok", "gone", "failed"}
    <3>1. call'[n] = call[n]
      BY <2>2 DEF LoseRpcs
    <3> QED
      BY <2>2, <3>1 DEF CallTyped, Id
  <2> QED
    BY <2>1, <2>2
<1>2. CallTyped'
  BY <1>1 DEF CallTyped, LoseRpcs
<1>3. DeviceTyped' /\ waiting' = {}
      /\ \A n \in Calls : told'[n] = IF n \in waiting THEN "failed" ELSE told[n]
  BY DEF DeviceTyped, LoseRpcs
<1> QED
  BY <1>1, <1>2, <1>3

-----------------------------------------------------------------------------
(* Type correctness, group by group *)

\* Taking a slot for call n, as the output of its hook.
LEMMA ByHookFacts ==
  ASSUME DialogTyped, choices' = choices, SlotsTyped, CallTyped,
         NEW n \in Calls, Sent(n), ByHook(n)
  PROVE  DialogTyped' /\ SlotsTyped' /\ CallTyped'
<1>1. Of(Id(n)) \in Requests
  BY SentFacts, IdFacts
<1>2. DialogTyped'
  BY <1>1, DecType, AnswerTyped DEF ByHook
<1>3. SlotsTyped'
  BY DropTyped DEF ByHook
<1>4. CallTyped'
  BY AnswersFacts DEF ByHook, At
<1> QED
  BY <1>2, <1>3, <1>4

LEMMA DaemonTyped ==
  ASSUME DialogTyped, choices' = choices, SlotsTyped, CallTyped, NEW n \in Calls,
         Resolve(n) \/ DriveKey(n) \/ DriveDone(n) \/ DriveGivenUp(n)
  PROVE  DialogTyped' /\ SlotsTyped' /\ CallTyped'
<1>1. Sent(n)
  BY DEF Resolve, DriveKey, DriveDone, DriveGivenUp, Sent
<1>2. Of(Id(n)) \in Requests
  BY <1>1, SentFacts, IdFacts
<1>3. CASE ByHook(n)
  BY <1>1, <1>3, ByHookFacts
<1>4. ASSUME NEW st \in At, Answers(n, st) \/ To(n, st), UNCHANGED <<slots, dialog>>
      PROVE  DialogTyped' /\ SlotsTyped' /\ CallTyped'
  <2>1. CallTyped'
    BY <1>1, <1>4, ToFacts, AnswersFacts
  <2> QED
    BY <1>4, <2>1 DEF DialogTyped, SlotsTyped, slots
<1>5. CASE DriveKey(n)
  <2>1. DialogTyped'
    BY <1>2, <1>5, DecType, AnswerTyped DEF DriveKey
  <2>2. CallTyped'
    BY <1>1, <1>5, ToFacts DEF DriveKey, At
  <2> QED
    BY <1>5, <2>1, <2>2 DEF DriveKey, SlotsTyped, slots
<1>6. CASE Resolve(n)
  BY <1>3, <1>4, <1>6 DEF Resolve, NotPending, At
<1>7. CASE DriveGivenUp(n)
  BY <1>3, <1>4, <1>7 DEF DriveGivenUp, NotPending, At
<1>8. CASE DriveDone(n)
  <2>1. CASE NotPending(n)
    BY <1>4, <2>1 DEF NotPending, At
  <2>2. CASE Drop(Id(n)) /\ Answers(n, "ok") /\ UNCHANGED dialog
    <3>1. SlotsTyped' /\ CallTyped'
      BY <1>1, <2>2, DropTyped, AnswersFacts DEF At
    <3> QED
      BY <2>2, <3>1 DEF DialogTyped
  <2> QED
    BY <1>8, <2>1, <2>2 DEF DriveDone
<1> QED
  BY <1>5, <1>6, <1>7, <1>8

LEMMA DialogStep ==
  ASSUME TypeOK, Next
  PROVE  DialogTyped'
<1> USE TypeGroups
<1>1. choices' = choices
  BY DEF Next
<1>2. ASSUME UNCHANGED dialog
      PROVE  DialogTyped'
  BY <1>1, <1>2 DEF DialogTyped
<1>3. ASSUME NEW k \in Requests, Ask(k) \/ LocalAnswer(k)
      PROVE  DialogTyped'
  BY <1>1, <1>3, AnswerTyped DEF Ask, LocalAnswer, DialogTyped
<1>4. ASSUME NEW n \in Calls, Resolve(n) \/ DriveKey(n) \/ DriveDone(n) \/ DriveGivenUp(n)
      PROVE  DialogTyped'
  BY <1>1, <1>4, DaemonTyped
<1> QED
  BY <1>2, <1>3, <1>4
     DEF Next, Step, HookGone, HardTimeout, Advertised, EnrichFromScreen, ResyncNext,
         TickAdvertise, TickWithdraw, DaemonRestart, CreateCard, RegisterCard, CancelCard,
         RestFails, Respond, RpcReturns, RpcGivenUp, HostSweep, Expire, BackRestart,
         LinkDrop, LinkUp

LEMMA SlotsStep ==
  ASSUME TypeOK, Next
  PROVE  SlotsTyped'
<1> USE TypeGroups
<1>1. ASSUME UNCHANGED slots
      PROVE  SlotsTyped'
  BY <1>1 DEF SlotsTyped, slots
<1>2. ASSUME NEW id \in Ids, Defer(id)
      PROVE  SlotsTyped'
  BY <1>2, DropTyped DEF Defer
<1>3. ASSUME NEW k \in Requests, Ask(k) \/ HookGone(k) \/ EnrichFromScreen(k)
                                   \/ TickAdvertise(k) \/ TickWithdraw(k)
      PROVE  SlotsTyped'
  BY <1>2, <1>3, IdFacts
     DEF Ask, HookGone, EnrichFromScreen, TickAdvertise, TickWithdraw, SlotsTyped
<1>4. ASSUME NEW m \in rest, Advertised(m)
      PROVE  SlotsTyped'
  BY <1>1, <1>4, DropTyped DEF Advertised, SlotsTyped
<1>5. ASSUME NEW n \in Calls, Resolve(n) \/ DriveKey(n) \/ DriveDone(n) \/ DriveGivenUp(n)
      PROVE  SlotsTyped'
  BY <1>5, DaemonTyped DEF Next
<1>6. CASE DaemonRestart
  BY <1>6 DEF DaemonRestart, SlotsTyped
<1> QED
  BY <1>1, <1>2, <1>3, <1>4, <1>5, <1>6
     DEF Next, Step, LocalAnswer, HardTimeout, ResyncNext, CreateCard, RegisterCard,
         CancelCard, RestFails, Respond, RpcReturns, RpcGivenUp, HostSweep, Expire,
         BackRestart, LinkDrop, LinkUp

LEMMA RestStep ==
  ASSUME TypeOK, Next
  PROVE  RestTyped'
<1> USE TypeGroups
<1>1. ASSUME UNCHANGED <<resync, rest>>
      PROVE  RestTyped'
  BY <1>1 DEF RestTyped
<1>2. ASSUME NEW id \in Ids, Defer(id), resync' = resync
      PROVE  RestTyped'
  BY <1>2, DeferTyped
<1>3. ASSUME NEW id \in Ids, NEW src \in Sources, resync' \subseteq resync,
             rest' \in {rest, rest \cup {Create(id, src)}}
      PROVE  RestTyped'
  BY <1>3, MsgFacts DEF RestTyped
<1>4. ASSUME NEW k \in Requests, Ask(k) \/ HookGone(k) \/ EnrichFromScreen(k)
                                   \/ TickAdvertise(k) \/ TickWithdraw(k)
      PROVE  RestTyped'
  <2>1. CASE HookGone(k) \/ TickWithdraw(k)
    BY <1>2, <2>1, IdFacts DEF HookGone, TickWithdraw
  <2>2. CASE Ask(k) \/ EnrichFromScreen(k)
    BY <1>3, <2>2, IdFacts DEF Ask, EnrichFromScreen, Sources
  <2>3. CASE TickAdvertise(k)
    BY <1>3, <2>3, IdFacts DEF TickAdvertise, Sources
  <2> QED
    BY <1>4, <2>1, <2>2, <2>3
<1>5. ASSUME NEW id \in Ids, HardTimeout(id) \/ ResyncNext(id)
      PROVE  RestTyped'
  BY <1>2, <1>3, <1>5 DEF HardTimeout, ResyncNext, Sources
<1>6. ASSUME NEW m \in rest, NEW more \in SUBSET Msg, rest' = (rest \ {m}) \cup more,
             resync' = resync
      PROVE  RestTyped'
  BY <1>6 DEF RestTyped
<1>7. ASSUME NEW m \in rest, Advertised(m)
      PROVE  RestTyped'
  <2>1. m.id \in Ids /\ Cancel(m.id) \in Msg
    BY MsgFacts DEF RestTyped
  <2>2. PICK more \in {{Cancel(m.id)}, {}} : rest' = (rest \ {m}) \cup more
    BY <1>7 DEF Advertised
  <2>3. more \in SUBSET Msg
    BY <2>1
  <2> QED
    BY <1>6, <1>7, <2>2, <2>3 DEF Advertised
<1>8. ASSUME NEW m \in rest, CreateCard(m) \/ RegisterCard(m) \/ CancelCard(m) \/ RestFails(m)
      PROVE  RestTyped'
  <2>1. m \in Msg
    BY DEF RestTyped
  <2>2. m.op = "create" \/ rest' = rest \ {m}
    BY <1>8, <2>1, MsgFacts DEF CreateCard, RegisterCard, CancelCard, RestFails
  <2>3. PICK more \in {{}, {[m EXCEPT !.st = "await"]}, Reply(m, "ok"), Reply(m, "defer"),
                       Reply(m, "failed")} :
          (m.op = "create" \/ more = {}) /\ rest' = (rest \ {m}) \cup more
    BY <1>8, <2>2 DEF CreateCard, RegisterCard, CancelCard, RestFails
  <2>4. {"await", "ok", "defer", "failed"} \subseteq Stages
    BY DEF Stages
  <2>5. ASSUME m.op = "create", NEW st \in Stages
        PROVE  Reply(m, st) \subseteq Msg /\ [m EXCEPT !.st = st] \in Msg
    BY <2>1, <2>5, ReplyFacts, MsgFacts
  <2>6. more \in SUBSET Msg
    BY <2>3, <2>4, <2>5
  <2> QED
    BY <1>6, <1>8, <2>3, <2>6 DEF CreateCard, RegisterCard, CancelCard, RestFails
<1>9. CASE DaemonRestart
  <2>1. PICK sent \in {{}, UNION {Retracted(id) : id \in pending}} :
          rest' = sent \cup {IF m.op = "create" THEN [m EXCEPT !.src = "unheard"] ELSE m :
                               m \in {x \in rest : x.st \in {"sent", "await", "late"}}}
    BY <1>9 DEF DaemonRestart
  <2>2. sent \subseteq Msg
    BY RetractFacts DEF SlotsTyped
  <2>3. ASSUME NEW m \in rest
        PROVE  (IF m.op = "create" THEN [m EXCEPT !.src = "unheard"] ELSE m) \in Msg
    BY MsgFacts DEF RestTyped
  <2> QED
    BY <1>9, <2>1, <2>2, <2>3 DEF DaemonRestart, RestTyped
<1>10. CASE BackRestart
  <2>1. ASSUME NEW m \in rest
        PROVE  (IF m.st \in {"await", "late"} THEN Reply(m, "failed") ELSE {m}) \subseteq Msg
    <3>1. m \in Msg
      BY DEF RestTyped
    <3>2. m.st \in {"await", "late"} => m.op = "create"
      BY <3>1, MsgFacts
    <3>3. "failed" \in Stages
      BY DEF Stages
    <3> QED
      BY <3>1, <3>2, <3>3, ReplyFacts
  <2> QED
    BY <1>10, <2>1 DEF BackRestart, RestTyped
<1>11. CASE LinkUp
  <2>1. ASSUME NEW m \in rest
        PROVE  (IF m.st = "await" THEN [m EXCEPT !.st = "late"] ELSE m) \in Msg
    BY MsgFacts DEF RestTyped, Stages
  <2>2. resync' \subseteq Ids
    BY <1>11 DEF LinkUp, SlotsTyped
  <2> QED
    BY <1>11, <2>1, <2>2 DEF LinkUp, RestTyped
<1> QED
  BY <1>1, <1>4, <1>5, <1>7, <1>8, <1>9, <1>10, <1>11
     DEF Next, Step, LocalAnswer, Resolve, DriveKey, DriveDone, DriveGivenUp, Respond,
         RpcReturns, RpcGivenUp, HostSweep, Expire, LinkDrop

LEMMA LinkStep ==
  ASSUME TypeOK, Next
  PROVE  LinkTyped'
<1> USE TypeGroups
<1>1. link' \in BOOLEAN /\ sweepArmed' \in BOOLEAN
  BY ZenonT(60) DEF LinkTyped, Next, Step, Ask, LocalAnswer, HookGone, EnrichFromScreen,
         TickAdvertise, TickWithdraw, Advertised, CreateCard, RegisterCard, CancelCard,
         RestFails, HardTimeout, ResyncNext, Expire, Respond, Resolve, DriveKey, DriveDone,
         DriveGivenUp, RpcReturns, RpcGivenUp, DaemonRestart, BackRestart, HostSweep,
         LinkDrop, LinkUp
<1>2. UNCHANGED faults \/ Fault
  BY DEF Next, Step, Ask, LocalAnswer, HookGone, EnrichFromScreen,
         TickAdvertise, TickWithdraw, Advertised, CreateCard, RegisterCard, CancelCard,
         RestFails, HardTimeout, ResyncNext, Expire, Respond, Resolve, DriveKey, DriveDone,
         DriveGivenUp, RpcReturns, RpcGivenUp, DaemonRestart, BackRestart, HostSweep,
         LinkDrop, LinkUp
<1> QED
  BY <1>1, <1>2, FaultTyped DEF LinkTyped

LEMMA IndexStep ==
  ASSUME TypeOK, Next
  PROVE  IndexTyped'
<1> USE TypeGroups
<1>1. ASSUME UNCHANGED index
      PROVE  IndexTyped'
  BY <1>1 DEF IndexTyped, index
<1>2. ASSUME NEW ids \in SUBSET Ids, Finalize(ids)
      PROVE  IndexTyped'
  BY <1>2, FinalizeTyped
<1>3. ASSUME NEW ns, Unclaim(ns), UNCHANGED <<cards, fresh, stale>>
      PROVE  IndexTyped'
  BY <1>3 DEF IndexTyped, Unclaim
<1>4. ASSUME NEW m \in rest, CreateCard(m) \/ RegisterCard(m) \/ CancelCard(m)
      PROVE  IndexTyped'
  <2>1. m.id \in Ids
    BY MsgFacts DEF RestTyped
  <2>2. CASE CreateCard(m)
    BY <2>2 DEF CreateCard, IndexTyped
  <2>3. CASE RegisterCard(m)
    BY <2>1, <2>3 DEF RegisterCard, IndexTyped
  <2>4. CASE CancelCard(m)
    BY <1>1, <1>2, <2>1, <2>4 DEF CancelCard
  <2> QED
    BY <1>4, <2>2, <2>3, <2>4
<1>5. ASSUME NEW n \in Calls, NEW id \in Ids, Respond(n, id)
      PROVE  IndexTyped'
  BY <1>5 DEF Respond, IndexTyped
<1>6. ASSUME NEW n \in Calls, RpcReturns(n)
      PROVE  IndexTyped'
  <2>1. Id(n) \in Ids
    BY <1>6, SentFacts DEF RpcReturns, Sent
  <2> QED
    BY <1>1, <1>2, <1>3, <1>6, <2>1 DEF RpcReturns
<1>7. ASSUME NEW n \in Calls, RpcGivenUp(n)
      PROVE  IndexTyped'
  BY <1>3, <1>7 DEF RpcGivenUp
<1>8. CASE BackRestart
  BY <1>8 DEF BackRestart, IndexTyped
<1>9. CASE HostSweep
  BY <1>2, <1>9 DEF HostSweep, IndexTyped
<1>10. ASSUME NEW id \in Ids, Expire(id)
       PROVE  IndexTyped'
  BY <1>2, <1>10 DEF Expire
<1>11. CASE DaemonRestart \/ LinkDrop
  BY <1>3, <1>11 DEF DaemonRestart, LinkDrop
<1>12. CASE LinkUp
  BY <1>12 DEF LinkUp, IndexTyped
<1> QED
  BY <1>1, <1>4, <1>5, <1>6, <1>7, <1>8, <1>9, <1>10, <1>11, <1>12
     DEF Next, Step, Ask, LocalAnswer, HookGone, EnrichFromScreen, TickAdvertise,
         TickWithdraw, Advertised, RestFails, HardTimeout, ResyncNext, Resolve, DriveKey,
         DriveDone, DriveGivenUp

LEMMA CallStep ==
  ASSUME TypeOK, Next
  PROVE  CallTyped' /\ DeviceTyped'
<1> USE TypeGroups
<1>1. ASSUME UNCHANGED devices
      PROVE  CallTyped' /\ DeviceTyped'
  BY <1>1 DEF CallTyped, DeviceTyped, devices
<1>2. ASSUME NEW n \in Calls, Resolve(n) \/ DriveKey(n) \/ DriveDone(n) \/ DriveGivenUp(n)
      PROVE  CallTyped' /\ DeviceTyped'
  <2>1. CallTyped'
    BY <1>2, DaemonTyped DEF Next
  <2>2. UNCHANGED <<waiting, told>>
    BY <1>2 DEF Resolve, DriveKey, DriveDone, DriveGivenUp
  <2> QED
    BY <2>1, <2>2 DEF DeviceTyped
<1>3. ASSUME NEW n \in Calls, NEW id \in Ids, Respond(n, id)
      PROVE  CallTyped' /\ DeviceTyped'
  BY <1>3 DEF Respond, CallTyped, DeviceTyped, At
<1>4. ASSUME NEW n \in Calls, RpcReturns(n)
      PROVE  CallTyped' /\ DeviceTyped'
  <2>1. CallTyped'
    BY <1>4, ToFacts DEF RpcReturns, Sent, At
  <2> QED
    BY <1>4, <2>1 DEF RpcReturns, DeviceTyped
<1>5. ASSUME NEW n \in Calls, RpcGivenUp(n)
      PROVE  CallTyped' /\ DeviceTyped'
  BY <1>5 DEF RpcGivenUp, CallTyped, DeviceTyped
<1>6. CASE DaemonRestart \/ BackRestart \/ LinkDrop
  <2>1. PICK sts \in {{"rpc", "checked", "pressed"}, {"rpc"}} : LoseRpcs(sts)
    BY <1>6 DEF DaemonRestart, BackRestart, LinkDrop
  <2> QED
    BY <2>1, LoseFacts
<1> QED
  BY <1>1, <1>2, <1>3, <1>4, <1>5, <1>6
     DEF Next, Step, Ask, LocalAnswer, HookGone, EnrichFromScreen, TickAdvertise,
         TickWithdraw, Advertised, CreateCard, RegisterCard, CancelCard, RestFails,
         HardTimeout, ResyncNext, HostSweep, Expire, LinkUp

LEMMA TypeStep ==
  ASSUME TypeOK, [Next]_vars
  PROVE  TypeOK'
<1>1. CASE Next
  BY <1>1, DialogStep, SlotsStep, RestStep, LinkStep, IndexStep, CallStep, TypeGroupsNext
<1>2. CASE UNCHANGED vars
  BY <1>2 DEF vars, moving, TypeOK
<1> QED
  BY <1>1, <1>2

LEMMA TypeInit ==
  ASSUME Init
  PROVE  TypeOK
<1>1. DialogTyped /\ SlotsTyped /\ RestTyped
  BY DEF Init, DialogTyped, SlotsTyped, RestTyped
<1>2. LinkTyped
  <2>1. MaxFaults \in Nat
    BY ApprovalsAssumption
  <2>2. link \in BOOLEAN /\ sweepArmed \in BOOLEAN
    BY DEF Init
  <2>3. faults \in 0..MaxFaults
    BY <2>1 DEF Init
  <2> QED
    BY <2>2, <2>3 DEF LinkTyped
<1>3. IndexTyped /\ CallTyped /\ DeviceTyped
  BY DEF Init, IndexTyped, CallTyped, DeviceTyped
<1> QED
  BY <1>1, <1>2, <1>3, TypeGroups

\* The records of questions, cards and calls keep their types, whatever is lost or
\* restarted on the way between a dialog and a device.
THEOREM TypeCorrect == Spec => []TypeOK
<1>1. Init => TypeOK
  BY TypeInit
<1>2. TypeOK /\ [Next]_vars => TypeOK'
  BY TypeStep
<1> QED
  BY <1>1, <1>2, PTL DEF Spec

-----------------------------------------------------------------------------
(* What a step leaves traces of: three moves *)

\* A question is asked; the hook may take its slot.
Asks(k) ==
  /\ dialog[k] = "none" /\ dialog' = [dialog EXCEPT ![k] = "open"]
  /\ pending' \subseteq pending \cup {Hook(k)}
  /\ About' \subseteq About \cup {Hook(k)}
  /\ UNCHANGED <<cards, call>>

\* The reconciler takes a slot for a dialog that has none.
Shows(k) ==
  /\ dialog[k] # "none" /\ ~HasPending(k)
  /\ pending' = pending \cup {Tui(k)}
  /\ About' \subseteq About \cup {Tui(k)}
  /\ UNCHANGED <<dialog, cards, call>>

\* Nothing is made but of what there is: messages of slots, cards of messages, calls of
\* cards.
Follows ==
  /\ pending' \subseteq pending
  /\ About' \subseteq About \cup pending
  /\ cards' \subseteq cards \cup About
  /\ \A n \in Calls : Sent(n)' => Id(n)' \in cards \/ (Sent(n) /\ Id(n)' = Id(n))
  /\ \A k \in Requests : dialog[k] # "none" => dialog'[k] # "none"

\* What is sent in place of a message is about the same id.
LEMMA AboutReplaced ==
  ASSUME NEW m \in rest, NEW more, \A x \in more : x.id \in About \cup pending,
         rest' = (rest \ {m}) \cup more
  PROVE  About' \subseteq About \cup pending
BY DEF About

LEMMA FollowsByRest ==
  ASSUME TypeOK, UNCHANGED <<dialog, call>>, pending' \subseteq pending,
         cards' \subseteq cards \cup About, About' \subseteq About \cup pending
  PROVE  Follows
BY DEF Follows, Sent, Id

LEMMA FollowsByCalls ==
  ASSUME TypeOK, UNCHANGED rest, pending' \subseteq pending, cards' \subseteq cards,
         \A n \in Calls : Sent(n)' => Id(n)' \in cards \/ (Sent(n) /\ Id(n)' = Id(n)),
         dialog' = dialog \/ \E k \in Requests, how \in {"local"} \cup Decisions : Answer(k, how)
  PROVE  Follows
<1>1. About' = About
  BY DEF About
<1>2. ASSUME NEW k \in Requests, dialog[k] # "none"
      PROVE  dialog'[k] # "none"
  BY <1>2, TypeGroups DEF DialogTyped, Answer, Decisions
<1> QED
  BY <1>1, <1>2 DEF Follows

\* What the daemon does with a call drops slots and answers dialogs.
LEMMA DaemonFollows ==
  ASSUME TypeOK, NEW n \in Calls,
         Resolve(n) \/ DriveKey(n) \/ DriveDone(n) \/ DriveGivenUp(n)
  PROVE  Follows
<1>1. Sent(n)
  BY DEF Resolve, DriveKey, DriveDone, DriveGivenUp, Sent
<1>2. Of(Id(n)) \in Requests /\ Dec(n) \in Decisions
  BY <1>1, TypeGroups, SentFacts, IdFacts, DecType
<1>3. pending' \subseteq pending
  BY DEF Resolve, DriveKey, DriveDone, DriveGivenUp, NotPending, ByHook, Drop, slots
<1>4. dialog' = dialog \/ Answer(Of(Id(n)), Dec(n))
  BY DEF Resolve, DriveKey, DriveDone, DriveGivenUp, NotPending, ByHook
<1>5. PICK st \in At : To(n, st) \/ Answers(n, st)
  BY DEF Resolve, DriveKey, DriveDone, DriveGivenUp, NotPending, ByHook, At
<1>6. Id(n)' = Id(n) /\ \A i \in Calls \ {n} : call'[i] = call[i]
  BY <1>1, <1>5, TypeGroups, ToFacts, AnswersFacts
<1>7. UNCHANGED <<rest, cards>>
  BY DEF Resolve, DriveKey, DriveDone, DriveGivenUp, index
<1>8. ASSUME NEW i \in Calls, Sent(i)'
      PROVE  Sent(i) /\ Id(i)' = Id(i)
  BY <1>1, <1>6, <1>8 DEF Sent, Id
<1> QED
  BY <1>2, <1>3, <1>4, <1>7, <1>8, FollowsByCalls

LEMMA TraceStep ==
  ASSUME TypeOK, Next
  PROVE  (\E k \in Requests : Asks(k) \/ Shows(k)) \/ Follows
<1> USE TypeGroups
<1>1. ASSUME NEW k \in Requests, Ask(k)
      PROVE  Asks(k)
  <2>1. About' \subseteq About \cup {Hook(k)}
    BY <1>1, IdFacts, MsgFacts DEF Ask, About, Sources
  <2> QED
    BY <1>1, <2>1 DEF Ask, Asks, index, devices
<1>2. ASSUME NEW k \in Requests, TickAdvertise(k)
      PROVE  Shows(k)
  <2>1. About' \subseteq About \cup {Tui(k)}
    BY <1>2, IdFacts, MsgFacts DEF TickAdvertise, About, Sources
  <2> QED
    BY <1>2, <2>1 DEF TickAdvertise, Answered, Shows, index, devices
<1>3. ASSUME NEW k \in Requests, LocalAnswer(k)
      PROVE  Follows
  BY <1>3, FollowsByCalls DEF LocalAnswer, slots, index, devices, Sent, Id
<1>4. ASSUME NEW id \in Ids, Defer(id), UNCHANGED <<dialog, cards, call>>
      PROVE  Follows
  <2>1. pending' \subseteq pending /\ id \in pending
    BY <1>4 DEF Defer, Drop
  <2>2. About' \subseteq About \cup pending
    BY <1>4, <2>1, RetractFacts DEF Defer, About
  <2> QED
    BY <1>4, <2>1, <2>2, FollowsByRest
<1>5. ASSUME NEW k \in Requests, HookGone(k) \/ TickWithdraw(k)
      PROVE  Follows
  BY <1>4, <1>5, IdFacts DEF HookGone, TickWithdraw, index, devices
<1>6. ASSUME NEW k \in Requests, EnrichFromScreen(k)
      PROVE  Follows
  <2>1. About' \subseteq About \cup {Hook(k)} /\ Hook(k) \in pending
    BY <1>6, IdFacts, MsgFacts DEF EnrichFromScreen, About, Sources, SlotsTyped
  <2> QED
    BY <1>6, <2>1, FollowsByRest DEF EnrichFromScreen, index, devices
<1>7. ASSUME NEW id \in Ids, HardTimeout(id) \/ ResyncNext(id) \/ Expire(id)
      PROVE  Follows
  <2>1. CASE HardTimeout(id)
    BY <1>4, <2>1 DEF HardTimeout, index, devices
  <2>2. CASE ResyncNext(id)
    <3>1. About' \subseteq About \cup pending
      BY <2>2, MsgFacts DEF ResyncNext, About, Sources
    <3> QED
      BY <2>2, <3>1, FollowsByRest DEF ResyncNext, slots, index, devices
  <2>3. CASE Expire(id)
    BY <2>3, FollowsByRest DEF Expire, Finalize, About, slots, devices
  <2> QED
    BY <1>7, <2>1, <2>2, <2>3
<1>8. ASSUME NEW m \in rest, Advertised(m)
      PROVE  Follows
  <2>1. m.id \in About /\ m.id \in Ids
    BY MsgFacts DEF About, RestTyped
  <2>2. Cancel(m.id).id = m.id
    BY <2>1, MsgFacts
  <2>3. PICK more \in {{Cancel(m.id)}, {}} : rest' = (rest \ {m}) \cup more
    BY <1>8 DEF Advertised
  <2>4. About' \subseteq About \cup pending
    BY <2>1, <2>2, <2>3, AboutReplaced
  <2>5. pending' \subseteq pending
    BY <1>8 DEF Advertised, slots, Drop
  <2> QED
    BY <1>8, <2>4, <2>5, FollowsByRest DEF Advertised, index, devices
<1>9. ASSUME NEW m \in rest, CreateCard(m) \/ RegisterCard(m) \/ CancelCard(m) \/ RestFails(m)
      PROVE  Follows
  <2>1. m \in Msg /\ m.id \in About
    BY DEF RestTyped, About
  <2>2. PICK more \in {{}, {[m EXCEPT !.st = "await"]}, Reply(m, "ok"), Reply(m, "defer"),
                       Reply(m, "failed")} :
          (m.op = "create" \/ more = {}) /\ rest' = (rest \ {m}) \cup more
    BY <1>9, <2>1, MsgFacts DEF CreateCard, RegisterCard, CancelCard, RestFails
  <2>3. ASSUME m.op = "create", NEW st \in Stages
        PROVE  [m EXCEPT !.st = st].id = m.id /\ \A x \in Reply(m, st) : x.id = m.id
    BY <2>1, <2>3, ReplyFacts, MsgFacts
  <2>4. {"await", "ok", "defer", "failed"} \subseteq Stages
    BY DEF Stages
  <2>5. ASSUME m.op = "create"
        PROVE  \A x \in more : x.id = m.id
    <3>1. [m EXCEPT !.st = "await"].id = m.id
      BY <2>3, <2>4, <2>5
    <3>2. ASSUME NEW st \in Stages
          PROVE  \A x \in Reply(m, st) : x.id = m.id
      BY <2>3, <2>5
    <3> QED
      BY <2>2, <2>4, <3>1, <3>2
  <2>6. About' \subseteq About \cup pending
    BY <2>1, <2>2, <2>5, AboutReplaced
  <2>7. cards' \subseteq cards \cup About
    BY <1>9, <2>1 DEF CreateCard, RegisterCard, CancelCard, RestFails, Finalize, index
  <2> QED
    BY <1>9, <2>6, <2>7, FollowsByRest
       DEF CreateCard, RegisterCard, CancelCard, RestFails, slots, devices
<1>10. ASSUME NEW n \in Calls, NEW id \in Ids, Respond(n, id)
       PROVE  Follows
  <2>1. ASSUME NEW i \in Calls, Sent(i)'
        PROVE  Id(i)' \in cards \/ (Sent(i) /\ Id(i)' = Id(i))
    BY <1>10, <2>1 DEF Respond, Sent, Id, CallTyped
  <2> QED
    BY <1>10, <2>1, FollowsByCalls DEF Respond, slots
<1>11. ASSUME NEW n \in Calls, RpcReturns(n) \/ RpcGivenUp(n)
       PROVE  Follows
  <2>1. CASE RpcReturns(n)
    <3>1. Id(n)' = Id(n) /\ Sent(n) /\ \A i \in Calls \ {n} : call'[i] = call[i]
      BY <2>1, ToFacts DEF RpcReturns, At, Sent
    <3>2. ASSUME NEW i \in Calls, Sent(i)'
          PROVE  Sent(i) /\ Id(i)' = Id(i)
      BY <3>1, <3>2 DEF Sent, Id
    <3>3. cards' \subseteq cards
      BY <2>1 DEF RpcReturns, Finalize, index
    <3> QED
      BY <2>1, <3>2, <3>3, FollowsByCalls DEF RpcReturns, slots
  <2>2. CASE RpcGivenUp(n)
    BY <2>2, FollowsByCalls DEF RpcGivenUp, slots, Sent, Id
  <2> QED
    BY <1>11, <2>1, <2>2
<1>12. ASSUME NEW sts, "idle" \notin sts, LoseRpcs(sts)
       PROVE  \A i \in Calls : Sent(i)' => Sent(i) /\ Id(i)' = Id(i)
  <2>1. ASSUME NEW i \in Calls
        PROVE  (call'[i] = call[i] \/ Sent(i)) /\ Id(i)' = Id(i)
    BY <1>12, LoseFacts
  <2> QED
    BY <2>1 DEF Sent
<1>13. CASE DaemonRestart
  <2>1. PICK sent \in {{}, UNION {Retracted(id) : id \in pending}} :
          rest' = sent \cup {IF m.op = "create" THEN [m EXCEPT !.src = "unheard"] ELSE m :
                               m \in {x \in rest : x.st \in {"sent", "await", "late"}}}
    BY <1>13 DEF DaemonRestart
  <2>2. \A x \in sent : x.id \in pending
    BY RetractFacts DEF SlotsTyped
  <2>3. ASSUME NEW m \in rest
        PROVE  (IF m.op = "create" THEN [m EXCEPT !.src = "unheard"] ELSE m).id = m.id
    BY MsgFacts DEF RestTyped
  <2>4. About' \subseteq About \cup pending
    BY <2>1, <2>2, <2>3 DEF About
  <2>5. \A i \in Calls : Sent(i)' => Sent(i) /\ Id(i)' = Id(i)
    BY <1>12, <1>13 DEF DaemonRestart
  <2> QED
    BY <1>13, <2>4, <2>5 DEF DaemonRestart, Follows
<1>14. CASE BackRestart
  <2>1. ASSUME NEW m \in rest,
               NEW x \in (IF m.st \in {"await", "late"} THEN Reply(m, "failed") ELSE {m})
        PROVE  x.id = m.id
    <3>1. m \in Msg /\ "failed" \in Stages
      BY DEF RestTyped, Stages
    <3>2. m.st \in {"await", "late"} => m.op = "create"
      BY <3>1, MsgFacts
    <3> QED
      BY <3>1, <3>2, ReplyFacts
  <2>2. About' \subseteq About \cup pending
    BY <1>14, <2>1 DEF BackRestart, About
  <2>3. \A i \in Calls : Sent(i)' => Sent(i) /\ Id(i)' = Id(i)
    BY <1>12, <1>14 DEF BackRestart
  <2> QED
    BY <1>14, <2>2, <2>3 DEF BackRestart, Follows, slots
<1>15. CASE LinkDrop
  <2>1. \A i \in Calls : Sent(i)' => Sent(i) /\ Id(i)' = Id(i)
    BY <1>12, <1>15 DEF LinkDrop
  <2> QED
    BY <1>15, <2>1, FollowsByCalls DEF LinkDrop, slots
<1>16. CASE LinkUp
  <2>1. ASSUME NEW m \in rest
        PROVE  (IF m.st = "await" THEN [m EXCEPT !.st = "late"] ELSE m).id = m.id
    BY MsgFacts DEF RestTyped, Stages
  <2>2. About' \subseteq About \cup pending
    BY <1>16, <2>1 DEF LinkUp, About
  <2> QED
    BY <1>16, <2>2, FollowsByRest DEF LinkUp, slots, devices
<1>17. CASE HostSweep
  BY <1>17, FollowsByRest DEF HostSweep, Finalize, slots, devices, About
<1> QED
  BY <1>1, <1>2, <1>3, <1>5, <1>6, <1>7, <1>8, <1>9, <1>10, <1>11, <1>13, <1>14, <1>15,
     <1>16, <1>17, DaemonFollows DEF Next, Step

-----------------------------------------------------------------------------
(* What a step does to dialogs, slots and calls: moves *)

\* No dialog and no call moves, and no slot of a hook appears.
Still ==
  /\ \A id \in pending' \ pending : IsTui(id)
  /\ \A id \in enriched' \ enriched : id \in pending /\ Of(id) \notin choices
  /\ UNCHANGED <<dialog, call, waiting, told>>

Opens(k) ==
  /\ dialog[k] = "none" /\ dialog' = [dialog EXCEPT ![k] = "open"]
  /\ pending' \subseteq pending \cup {Hook(k)}
  /\ UNCHANGED <<enriched, call, waiting, told>>

AtTerminal(k) ==
  /\ dialog[k] = "open" /\ dialog' = [dialog EXCEPT ![k] = "local"]
  /\ UNCHANGED <<pending, enriched, call, waiting, told>>

\* A device answers: its call waits, or it is told at once that it came too late or got
\* nowhere.
Sends(n, id) ==
  /\ ~Sent(n) /\ id \in cards
  /\ call'[n].st \in {"rpc", "done"} /\ Id(n)' = id
  /\ told'[n] \in {"none", "gone", "failed"}
  /\ waiting' = waiting \/ (waiting' = waiting \cup {n} /\ told'[n] = "none")
  /\ \A i \in Calls \ {n} : call'[i] = call[i] /\ told'[i] = told[i]
  /\ UNCHANGED <<dialog, pending, enriched>>

\* Call n comes to st.
Comes(n, st) ==
  /\ Sent(n) /\ call'[n].st = st /\ Id(n)' = Id(n)
  /\ \A i \in Calls \ {n} : call'[i] = call[i]

\* The daemon answers without the slot, or starts to drive.
Passes(n) ==
  /\ \E st \in {"gone", "failed", "done", "checked"} :
       Comes(n, st) /\ (st = "checked" => Id(n) \in pending /\ Driven(Id(n)))
  /\ UNCHANGED <<dialog, pending, enriched, waiting, told>>

Presses(n) ==
  /\ call[n].st = "checked" /\ Comes(n, "pressed")
  /\ Answer(Of(Id(n)), Dec(n))
  /\ UNCHANGED <<pending, enriched, waiting, told>>

\* The daemon takes the slot for call n: as the hook's output, or after the dialog left.
Takes(n) ==
  /\ Id(n) \in pending
  /\ pending' = pending \ {Id(n)} /\ enriched' = enriched \ {Id(n)}
  /\ Comes(n, "ok") \/ Comes(n, "done")
  /\ \/ call[n].st \in {"rpc", "pressed"} /\ Answer(Of(Id(n)), Dec(n))
     \/ call[n].st = "pressed" /\ Answered(Of(Id(n))) /\ UNCHANGED dialog
  /\ UNCHANGED <<waiting, told>>

\* A connection is lost with what waits on it.
Loses ==
  /\ pending' \subseteq pending /\ enriched' \subseteq enriched
  /\ \A n \in Calls : /\ call'[n] = call[n] \/ (Sent(n) /\ call'[n].st = "done")
                      /\ call'[n].st # "ok" /\ Id(n)' = Id(n)
                      /\ told'[n] = IF n \in waiting THEN "failed" ELSE told[n]
  /\ waiting' = {} /\ UNCHANGED dialog

Returned(n) ==
  /\ n \in waiting /\ call[n].st \in {"ok", "gone", "failed"}
  /\ Comes(n, "done") /\ waiting' = waiting \ {n}
  /\ told' = [told EXCEPT ![n] = call[n].st]
  /\ UNCHANGED <<dialog, pending, enriched>>

GivesUp(n) ==
  /\ n \in waiting /\ waiting' = waiting \ {n}
  /\ told' = [told EXCEPT ![n] = "failed"]
  /\ UNCHANGED <<dialog, pending, enriched, call>>

Moved ==
  \/ \E k \in Requests : Opens(k) \/ AtTerminal(k)
  \/ \E n \in Calls : \/ \E id \in Ids : Sends(n, id)
                      \/ Passes(n) \/ Presses(n) \/ Takes(n) \/ Returned(n) \/ GivesUp(n)
  \/ Loses \/ Still

LEMMA DaemonMoves ==
  ASSUME TypeOK, NEW n \in Calls,
         Resolve(n) \/ DriveKey(n) \/ DriveDone(n) \/ DriveGivenUp(n)
  PROVE  Passes(n) \/ Presses(n) \/ Takes(n)
<1> USE TypeGroups
<1>1. Sent(n)
  BY DEF Resolve, DriveKey, DriveDone, DriveGivenUp, Sent
<1>2. UNCHANGED <<waiting, told>>
  BY DEF Resolve, DriveKey, DriveDone, DriveGivenUp
<1>3. ASSUME NEW st \in At, To(n, st)
      PROVE  Comes(n, st)
  BY <1>1, <1>3, ToFacts DEF Comes
<1>4. ASSUME NEW st \in At, Answers(n, st)
      PROVE  Comes(n, st) \/ Comes(n, "done")
  BY <1>1, <1>4, AnswersFacts DEF Comes
<1>5. ASSUME ByHook(n), call[n].st \in {"rpc", "pressed"}
      PROVE  Takes(n)
  BY <1>2, <1>4, <1>5 DEF ByHook, Takes, Drop, At
<1>6. ASSUME NEW st \in {"gone", "failed"}, Answers(n, st), UNCHANGED <<slots, dialog>>
      PROVE  Passes(n)
  BY <1>2, <1>4, <1>6 DEF Passes, slots, At
<1>7. CASE Resolve(n)
  <2>1. CASE /\ Id(n) \in pending /\ Driven(Id(n)) /\ dialog[Of(Id(n))] = "open"
             /\ To(n, "checked") /\ UNCHANGED <<slots, dialog>>
    BY <1>2, <1>3, <2>1 DEF Passes, slots, At
  <2> QED
    BY <1>5, <1>6, <1>7, <2>1 DEF Resolve, NotPending
<1>8. CASE DriveKey(n)
  BY <1>2, <1>3, <1>8 DEF DriveKey, Presses, slots, At
<1>9. CASE DriveDone(n)
  <2>1. CASE NotPending(n)
    BY <1>6, <2>1 DEF NotPending
  <2>2. CASE Id(n) \in pending /\ Drop(Id(n)) /\ Answers(n, "ok") /\ UNCHANGED dialog
    <3>1. Comes(n, "ok") \/ Comes(n, "done")
      BY <1>4, <2>2 DEF At
    <3> QED
      BY <1>2, <1>9, <2>2, <3>1 DEF DriveDone, Takes, Drop
  <2> QED
    BY <1>9, <2>1, <2>2 DEF DriveDone
<1>10. CASE DriveGivenUp(n)
  BY <1>5, <1>6, <1>10 DEF DriveGivenUp, NotPending
<1> QED
  BY <1>7, <1>8, <1>9, <1>10

LEMMA MoveStep ==
  ASSUME TypeOK, Next
  PROVE  Moved
<1> USE TypeGroups
<1>1. ASSUME NEW k \in Requests, Ask(k)
      PROVE  Opens(k)
  BY <1>1 DEF Ask, Opens, devices
<1>2. ASSUME NEW k \in Requests, LocalAnswer(k)
      PROVE  AtTerminal(k)
  BY <1>2 DEF LocalAnswer, Answer, AtTerminal, slots, devices
<1>3. ASSUME dialog' = dialog, devices' = devices, pending' \subseteq pending,
             enriched' \subseteq enriched
      PROVE  Still
  BY <1>3 DEF Still, devices
<1>4. ASSUME NEW k \in Requests, HookGone(k) \/ TickWithdraw(k)
      PROVE  Still
  BY <1>3, <1>4 DEF HookGone, TickWithdraw, Defer, Drop
<1>5. ASSUME NEW k \in Requests, EnrichFromScreen(k)
      PROVE  Still
  BY <1>5, IdFacts DEF EnrichFromScreen, Still, SlotsTyped, devices
<1>6. ASSUME NEW k \in Requests, TickAdvertise(k)
      PROVE  Still
  BY <1>6, IdFacts DEF TickAdvertise, Still, devices
<1>7. ASSUME NEW m \in rest,
             Advertised(m) \/ CreateCard(m) \/ RegisterCard(m) \/ CancelCard(m) \/ RestFails(m)
      PROVE  Still
  BY <1>3, <1>7 DEF Advertised, CreateCard, RegisterCard, CancelCard, RestFails, Drop, slots
<1>8. ASSUME NEW id \in Ids, HardTimeout(id) \/ ResyncNext(id) \/ Expire(id)
      PROVE  Still
  BY <1>3, <1>8 DEF HardTimeout, ResyncNext, Expire, Defer, Drop, slots
<1>9. ASSUME NEW n \in Calls, NEW id \in Ids, Respond(n, id)
      PROVE  Sends(n, id)
  BY <1>9 DEF Respond, Sends, Sent, Id, slots, CallTyped, DeviceTyped
<1>10. ASSUME NEW n \in Calls, RpcReturns(n)
       PROVE  Returned(n)
  <2>1. Comes(n, "done")
    BY <1>10, ToFacts DEF RpcReturns, Comes, Sent, At
  <2> QED
    BY <1>10, <2>1 DEF RpcReturns, Returned, slots
<1>11. ASSUME NEW n \in Calls, RpcGivenUp(n)
       PROVE  GivesUp(n)
  BY <1>11 DEF RpcGivenUp, GivesUp, slots
<1>12. ASSUME NEW sts \in {{"rpc", "checked", "pressed"}, {"rpc"}}, LoseRpcs(sts),
              dialog' = dialog, pending' \subseteq pending, enriched' \subseteq enriched
       PROVE  Loses
  <2>1. ASSUME NEW n \in Calls
        PROVE  /\ call'[n] = call[n] \/ (Sent(n) /\ call'[n].st = "done")
               /\ call'[n].st # "ok" /\ Id(n)' = Id(n)
               /\ told'[n] = IF n \in waiting THEN "failed" ELSE told[n]
    BY <1>12, LoseFacts
  <2> QED
    BY <1>12, <2>1 DEF Loses, LoseRpcs
<1>13. CASE DaemonRestart \/ BackRestart \/ LinkDrop
  <2>1. PICK hit \in {{"rpc", "checked", "pressed"}, {"rpc"}} : LoseRpcs(hit)
    BY <1>13 DEF DaemonRestart, BackRestart, LinkDrop
  <2>2. /\ dialog' = dialog
        /\ pending' \subseteq pending /\ enriched' \subseteq enriched
    BY <1>13 DEF DaemonRestart, BackRestart, LinkDrop, slots
  <2> QED
    BY <1>12, <2>1, <2>2 DEF Moved
<1>14. CASE LinkUp \/ HostSweep
  <2>1. /\ dialog' = dialog /\ devices' = devices
        /\ pending' = pending /\ enriched' = enriched
    BY <1>14 DEF LinkUp, HostSweep, slots, devices
  <2> QED
    BY <1>3, <2>1 DEF Moved
<1> QED
  BY <1>1, <1>2, <1>4, <1>5, <1>6, <1>7, <1>8, <1>9, <1>10, <1>11, <1>13, <1>14,
     DaemonMoves DEF Next, Step, Moved

-----------------------------------------------------------------------------
(* The invariant, part by part *)

LEMMA AskedStep ==
  ASSUME TypeOK, Next, AskedFirst, HookFirst
  PROVE  AskedFirst' /\ HookFirst'
<1> USE TypeGroups
<1>1. /\ \A id \in pending \cup cards \cup About : id \in Ids /\ dialog[Of(id)] # "none"
      /\ \A n \in Calls : Sent(n) => Id(n) \in Ids /\ dialog[Of(Id(n))] # "none"
  BY SentFacts, MsgFacts DEF AskedFirst, SlotsTyped, IndexTyped, RestTyped, About
<1>2. ASSUME \A id \in pending' \cup cards' \cup About' : dialog'[Of(id)] # "none",
             \A n \in Calls : Sent(n)' => dialog'[Of(Id(n))'] # "none"
      PROVE  AskedFirst'
  BY <1>2 DEF AskedFirst, About
<1>3. \A k \in Requests :
        Hook(k) \in pending => /\ Tui(k) \notin pending \cup cards \cup About
                               /\ \A n \in Calls : Sent(n) => Id(n) # Tui(k)
  BY DEF HookFirst, Untouched, About
<1>4. ASSUME \A k \in Requests :
               Hook(k) \in pending' => /\ Tui(k) \notin pending' \cup cards' \cup About'
                                       /\ \A n \in Calls : Sent(n)' => Id(n)' # Tui(k)
      PROVE  HookFirst'
  BY <1>4 DEF HookFirst, Untouched, About
<1>5. ASSUME NEW k \in Requests, Asks(k)
      PROVE  AskedFirst' /\ HookFirst'
  <2>1. \A j \in Requests : dialog[j] # "none" \/ j = k => dialog'[j] # "none"
    BY <1>5 DEF Asks, DialogTyped
  <2>2. pending' \cup cards' \cup About' \subseteq pending \cup cards \cup About \cup {Hook(k)}
    BY <1>5 DEF Asks
  <2>3. \A n \in Calls : Sent(n)' = Sent(n) /\ Id(n)' = Id(n)
    BY <1>5 DEF Asks, Sent, Id
  <2>4. AskedFirst'
    BY <1>1, <1>2, <2>1, <2>2, <2>3, IdFacts
  <2>5. ASSUME NEW j \in Requests, Hook(j) \in pending'
        PROVE  /\ Tui(j) \notin pending' \cup cards' \cup About'
               /\ \A n \in Calls : Sent(n)' => Id(n)' # Tui(j)
    <3>1. CASE j = k
      <4>1. Tui(k) \notin pending \cup cards \cup About
        BY <1>1, <1>5, IdFacts DEF Asks
      <4>2. \A n \in Calls : Sent(n) => Id(n) # Tui(k)
        BY <1>1, <1>5, IdFacts DEF Asks
      <4> QED
        BY <2>2, <2>3, <3>1, <4>1, <4>2, IdFacts
    <3>2. CASE j # k
      <4>1. Hook(j) \in pending
        BY <1>5, <2>5, <3>2, IdFacts DEF Asks
      <4>2. Tui(j) # Hook(k)
        BY IdFacts
      <4> QED
        BY <1>3, <2>2, <2>3, <4>1, <4>2
    <3> QED
      BY <3>1, <3>2
  <2> QED
    BY <1>4, <2>4, <2>5
<1>6. ASSUME NEW k \in Requests, Shows(k)
      PROVE  AskedFirst' /\ HookFirst'
  <2>1. pending' \cup cards' \cup About' \subseteq pending \cup cards \cup About \cup {Tui(k)}
    BY <1>6 DEF Shows
  <2>2. \A n \in Calls : Sent(n)' = Sent(n) /\ Id(n)' = Id(n)
    BY <1>6 DEF Shows, Sent, Id
  <2>3. AskedFirst'
    BY <1>1, <1>2, <1>6, <2>1, <2>2, IdFacts DEF Shows
  <2>4. ASSUME NEW j \in Requests, Hook(j) \in pending'
        PROVE  /\ Tui(j) \notin pending' \cup cards' \cup About'
               /\ \A n \in Calls : Sent(n)' => Id(n)' # Tui(j)
    <3>1. Hook(j) \in pending
      BY <1>6, <2>4, IdFacts DEF Shows
    <3>2. Tui(j) # Tui(k)
      BY <1>6, <3>1, IdFacts DEF Shows, HasPending
    <3> QED
      BY <1>3, <2>1, <2>2, <3>1, <3>2
  <2> QED
    BY <1>4, <2>3, <2>4
<1>7. CASE Follows
  <2>1. pending' \cup cards' \cup About' \subseteq pending \cup cards \cup About
    BY <1>7 DEF Follows
  <2>2. ASSUME NEW n \in Calls, Sent(n)'
        PROVE  Id(n)' \in cards \/ (Sent(n) /\ Id(n)' = Id(n))
    BY <1>7, <2>2 DEF Follows
  <2>3. \A k \in Requests : dialog[k] # "none" => dialog'[k] # "none"
    BY <1>7 DEF Follows
  <2>4. AskedFirst'
    BY <1>1, <1>2, <2>1, <2>2, <2>3, IdFacts
  <2>5. pending' \subseteq pending
    BY <1>7 DEF Follows
  <2>6. HookFirst'
    BY <1>3, <1>4, <2>1, <2>2, <2>5
  <2> QED
    BY <2>4, <2>6
<1> QED
  BY <1>5, <1>6, <1>7, TraceStep

\* Where a dialog is, and stays.
LEMMA AnswerFacts ==
  ASSUME DialogTyped, NEW k \in Requests, NEW how \in {"local"} \cup Decisions, Answer(k, how)
  PROVE  /\ dialog'[k] = (IF dialog[k] = "open" THEN how ELSE dialog[k])
         /\ \A j \in Requests \ {k} : dialog'[j] = dialog[j]
         /\ \A j \in Requests : Answered(j) => dialog'[j] = dialog[j]
BY DEF DialogTyped, Answer, Answered, Decisions

\* Whose call changes in a move, and how.
LEMMA ComesFacts ==
  ASSUME NEW n \in Calls, NEW st, Comes(n, st), st # "idle"
  PROVE  /\ call'[n].st = st
         /\ \A i \in Calls : Id(i)' = Id(i) /\ Sent(i)' = Sent(i)
         /\ \A i \in Calls \ {n} : call'[i].st = call[i].st
BY DEF Comes, Id, Sent

LEMMA HeardStep ==
  ASSUME TypeOK, Moved, Heard
  PROVE  Heard'
<1> USE TypeGroups DEF DeviceTyped
<1>1. ASSUME NEW k \in Requests, Opens(k) \/ AtTerminal(k)
      PROVE  Heard'
  BY <1>1 DEF Opens, AtTerminal, Heard, Sent
<1>2. ASSUME NEW n \in Calls, NEW id \in Ids, Sends(n, id)
      PROVE  Heard'
  <2>1. n \notin waiting
    BY <1>2 DEF Sends, Heard
  <2>2. Sent(n)'
    BY <1>2 DEF Sends, Sent
  <2>3. \A i \in Calls \ {n} : Sent(i)' = Sent(i) /\ told'[i] = told[i]
    BY <1>2 DEF Sends, Sent
  <2> QED
    BY <1>2, <2>1, <2>2, <2>3 DEF Sends, Heard
<1>3. ASSUME NEW n \in Calls, Passes(n) \/ Presses(n) \/ Takes(n)
      PROVE  Heard'
  <2>1. PICK st \in {"gone", "failed", "done", "checked", "pressed", "ok"} : Comes(n, st)
    BY <1>3 DEF Passes, Presses, Takes
  <2>2. \A i \in Calls : Sent(i)' = Sent(i)
    BY <2>1, ComesFacts
  <2> QED
    BY <1>3, <2>2 DEF Passes, Presses, Takes, Heard
<1>4. ASSUME NEW n \in Calls, Returned(n) \/ GivesUp(n)
      PROVE  Heard'
  <2>1. Sent(n) /\ \A i \in Calls : Sent(i)' = Sent(i)
    BY <1>4, ComesFacts DEF Returned, GivesUp, Heard, Sent
  <2> QED
    BY <1>4, <2>1 DEF Returned, GivesUp, Heard
<1>5. CASE Loses
  BY <1>5 DEF Loses, Heard, Sent
<1>6. CASE Still
  BY <1>6 DEF Still, Heard, Sent
<1> QED
  BY <1>1, <1>2, <1>3, <1>4, <1>5, <1>6 DEF Moved

LEMMA UndrivenStep ==
  ASSUME TypeOK, Next, Moved, Undriven
  PROVE  Undriven'
<1> USE TypeGroups
<1>1. choices' = choices /\ choices \subseteq Requests
  BY DEF Next, DialogTyped
<1>2. ASSUME \A id \in enriched' \ enriched : Of(id) \notin choices
      PROVE  \A k \in choices : Hook(k) \notin enriched'
  BY <1>1, <1>2, IdFacts DEF Undriven
<1>3. ASSUME \A k \in choices : Hook(k) \notin enriched',
             \A i \in Calls : /\ call'[i].st \in {"checked", "pressed"}
                              /\ ~ (call[i].st \in {"checked", "pressed"} /\ Id(i)' = Id(i))
                              => IsTui(Id(i)') \/ Of(Id(i)') \notin choices
      PROVE  Undriven'
  <2>1. ASSUME NEW i \in Calls, call'[i].st \in {"checked", "pressed"}
        PROVE  IsTui(Id(i)') \/ Of(Id(i)') \notin choices
    BY <1>3, <2>1 DEF Undriven
  <2> QED
    BY <1>1, <1>3, <2>1 DEF Undriven, IsTui, Of
<1>4. ASSUME NEW k \in Requests, Opens(k) \/ AtTerminal(k)
      PROVE  Undriven'
  BY <1>2, <1>3, <1>4 DEF Opens, AtTerminal, Id
<1>5. ASSUME NEW n \in Calls, NEW id \in Ids, Sends(n, id)
      PROVE  Undriven'
  BY <1>2, <1>3, <1>5 DEF Sends, Id
<1>6. ASSUME NEW n \in Calls, Passes(n)
      PROVE  Undriven'
  <2>1. PICK st \in {"gone", "failed", "done", "checked"} :
          Comes(n, st) /\ (st = "checked" => Id(n) \in pending /\ Driven(Id(n)))
    BY <1>6 DEF Passes
  <2>2. \A k \in choices : Hook(k) \notin enriched'
    BY <1>2, <1>6 DEF Passes
  <2>3. ASSUME st = "checked"
        PROVE  IsTui(Id(n)) \/ Of(Id(n)) \notin choices
    <3>1. Id(n) \in Ids /\ (Id(n) \in enriched \/ IsTui(Id(n)))
      BY <2>1, <2>3 DEF Driven, SlotsTyped
    <3> QED
      BY <1>1, <3>1, IdFacts DEF Undriven
  <2>4. /\ call'[n].st = st
        /\ \A i \in Calls : Id(i)' = Id(i)
        /\ \A i \in Calls \ {n} : call'[i].st = call[i].st
    BY <2>1, ComesFacts
  <2> QED
    BY <1>3, <2>2, <2>3, <2>4
<1>7. ASSUME NEW n \in Calls, Presses(n) \/ Takes(n) \/ Returned(n)
      PROVE  Undriven'
  <2>1. PICK st \in {"pressed", "ok", "done"} :
          Comes(n, st) /\ (st = "pressed" => call[n].st = "checked")
    BY <1>7 DEF Presses, Takes, Returned
  <2>2. \A k \in choices : Hook(k) \notin enriched'
    BY <1>2, <1>7 DEF Presses, Takes, Returned
  <2>3. /\ call'[n].st = st
        /\ \A i \in Calls : Id(i)' = Id(i)
        /\ \A i \in Calls \ {n} : call'[i].st = call[i].st
    BY <2>1, ComesFacts
  <2> QED
    BY <1>3, <2>1, <2>2, <2>3
<1>8. ASSUME NEW n \in Calls, GivesUp(n)
      PROVE  Undriven'
  BY <1>2, <1>3, <1>8 DEF GivesUp, Id
<1>9. CASE Loses
  BY <1>2, <1>3, <1>9 DEF Loses
<1>10. CASE Still
  BY <1>2, <1>3, <1>10 DEF Still, Id
<1> QED
  BY <1>4, <1>5, <1>6, <1>7, <1>8, <1>9, <1>10 DEF Moved

LEMMA KeptStep ==
  ASSUME TypeOK, Next, Moved, AskedFirst, HookFirst, Undriven, HookKept
  PROVE  HookKept'
<1> USE TypeGroups
<1>1. choices' = choices /\ choices \subseteq Requests
  BY DEF Next, DialogTyped
<1>2. ASSUME pending' \subseteq pending, dialog' = dialog
      PROVE  HookKept'
  BY <1>1, <1>2 DEF HookKept
<1>3. ASSUME NEW k \in Requests, Opens(k)
      PROVE  HookKept'
  <2>1. ASSUME NEW j \in choices, Hook(j) \in pending'
        PROVE  dialog'[j] \in {"open", "local"}
    <3>1. CASE j = k
      BY <1>1, <1>3, <3>1 DEF Opens, DialogTyped
    <3>2. CASE j # k
      BY <1>1, <1>3, <2>1, <3>2, IdFacts DEF Opens, DialogTyped, HookKept
    <3> QED
      BY <3>1, <3>2
  <2> QED
    BY <1>1, <2>1 DEF HookKept
<1>4. ASSUME NEW k \in Requests, AtTerminal(k)
      PROVE  HookKept'
  BY <1>1, <1>4 DEF AtTerminal, DialogTyped, HookKept
<1>5. ASSUME NEW n \in Calls, NEW how \in {"local"} \cup Decisions, Sent(n),
             Answer(Of(Id(n)), how), pending' \subseteq pending,
             ByChoice(n) => Id(n) \notin pending'
      PROVE  HookKept'
  <2>1. Id(n) \in Ids /\ Of(Id(n)) \in Requests
    BY <1>5, SentFacts, IdFacts
  <2>2. ASSUME NEW j \in choices, Hook(j) \in pending'
        PROVE  j # Of(Id(n))
    <3>1. Hook(j) \in pending /\ j \in Requests
      BY <1>1, <1>5, <2>2
    <3>2. Id(n) # Tui(j)
      BY <1>5, <3>1 DEF HookFirst, Untouched
    <3>3. Id(n) # Hook(j)
      BY <1>5, <2>2, <3>1, IdFacts DEF ByChoice
    <3> QED
      BY <2>1, <3>2, <3>3, IdFacts
  <2>3. \A j \in Requests \ {Of(Id(n))} : dialog'[j] = dialog[j]
    BY <1>5, <2>1, AnswerFacts
  <2> QED
    BY <1>1, <1>5, <2>2, <2>3 DEF HookKept
<1>6. ASSUME NEW n \in Calls, Presses(n)
      PROVE  HookKept'
  <2>1. Sent(n) /\ ~ByChoice(n)
    BY <1>6 DEF Presses, Sent, Undriven, ByChoice
  <2> QED
    BY <1>5, <1>6, <2>1, DecType DEF Presses
<1>7. ASSUME NEW n \in Calls, Takes(n)
      PROVE  HookKept'
  <2>1. Sent(n) /\ pending' \subseteq pending /\ Id(n) \notin pending'
    BY <1>7 DEF Takes, Comes
  <2> QED
    BY <1>2, <1>5, <1>7, <2>1, DecType DEF Takes
<1>8. ASSUME NEW n \in Calls, Passes(n) \/ Returned(n) \/ GivesUp(n)
      PROVE  HookKept'
  BY <1>2, <1>8 DEF Passes, Returned, GivesUp
<1>9. ASSUME NEW n \in Calls, NEW id \in Ids, Sends(n, id)
      PROVE  HookKept'
  BY <1>2, <1>9 DEF Sends
<1>10. CASE Loses
  BY <1>2, <1>10 DEF Loses
<1>11. CASE Still
  BY <1>1, <1>11, IdFacts DEF Still, HookKept
<1> QED
  BY <1>3, <1>4, <1>6, <1>7, <1>8, <1>9, <1>10, <1>11 DEF Moved

\* Where nobody new took a slot, what was taken stays taken.
LEMMA TakenKept ==
  ASSUME TypeOK, Next, Taken,
         \A i \in Calls : Took(i)' => Took(i) /\ Sent(i)' /\ Id(i)' = Id(i),
         \A k \in Requests : Answered(k) => dialog'[k] = dialog[k],
         \A id \in pending' \ pending : IsTui(id) \/ ~Answered(Of(id))
  PROVE  Taken'
<1> USE TypeGroups
<1>1. choices' = choices
  BY DEF Next
<1>2. ASSUME NEW n \in Calls, Took(n)'
      PROVE  /\ Sent(n)' /\ Answered(Of(Id(n)))'
             /\ ByChoice(n)' => /\ Id(n)' \notin pending'
                                /\ dialog'[Of(Id(n)')] \in {Dec(n), "local"}
                                /\ \A i \in Calls \ {n} : ~ (Took(i)' /\ Id(i)' = Id(n)')
  <2>1. Took(n) /\ Sent(n)' /\ Id(n)' = Id(n)
    BY <1>2
  <2>2. Sent(n) /\ Answered(Of(Id(n)))
    BY <2>1 DEF Taken
  <2>3. Of(Id(n)) \in Requests
    BY <2>2, SentFacts, IdFacts
  <2>4. dialog'[Of(Id(n))] = dialog[Of(Id(n))] /\ Of(Id(n))' = Of(Id(n))
    BY <2>1, <2>2, <2>3 DEF Of
  <2>5. Answered(Of(Id(n)))'
    BY <2>2, <2>4 DEF Answered
  <2>6. ASSUME ByChoice(n)'
        PROVE  /\ Id(n)' \notin pending'
               /\ dialog'[Of(Id(n)')] \in {Dec(n), "local"}
               /\ \A i \in Calls \ {n} : ~ (Took(i)' /\ Id(i)' = Id(n)')
    <3>1. ByChoice(n)
      BY <1>1, <2>1, <2>6 DEF ByChoice, IsTui, Of
    <3>2. /\ Id(n) \notin pending /\ dialog[Of(Id(n))] \in {Dec(n), "local"}
          /\ \A i \in Calls \ {n} : ~ (Took(i) /\ Id(i) = Id(n))
      BY <2>1, <3>1 DEF Taken
    <3>3. Id(n)' \notin pending'
      BY <2>1, <2>2, <3>1, <3>2 DEF ByChoice
    <3> QED
      BY <2>1, <2>4, <3>2, <3>3
  <2> QED
    BY <2>1, <2>5, <2>6
<1> QED
  BY <1>2 DEF Taken

LEMMA TakesStep ==
  ASSUME TypeOK, Next, AskedFirst, Undriven, HookKept, Taken, Heard, NEW n \in Calls, Takes(n)
  PROVE  Taken'
<1> USE TypeGroups
<1>1. choices' = choices
  BY DEF Next
<1>2. Sent(n) /\ Id(n) \in Ids /\ Of(Id(n)) \in Requests
  BY SentFacts, IdFacts DEF Takes, Comes
<1>3. PICK st \in {"ok", "done"} : Comes(n, st)
  BY DEF Takes
<1>4. /\ call'[n].st = st
      /\ \A i \in Calls : Id(i)' = Id(i) /\ Sent(i)' = Sent(i)
      /\ \A i \in Calls \ {n} : call'[i].st = call[i].st
  BY <1>3, ComesFacts
<1>5. told' = told
  BY DEF Takes
<1>6. \A i \in Calls \ {n} : Took(i)' = Took(i)
  BY <1>4, <1>5 DEF Took
<1>7. /\ dialog'[Of(Id(n))] \notin {"none", "open"}
      /\ \A k \in Requests : Answered(k) => dialog'[k] = dialog[k]
  <2>1. CASE Answer(Of(Id(n)), Dec(n))
    <3>1. dialog[Of(Id(n))] # "none" /\ Dec(n) \in Decisions
      BY <1>2, DecType DEF AskedFirst
    <3>2. dialog'[Of(Id(n))] \notin {"none", "open"}
      BY <1>2, <2>1, <3>1 DEF Answer, Decisions, DialogTyped
    <3> QED
      BY <1>2, <2>1, <3>1, <3>2, AnswerFacts
  <2>2. CASE Answered(Of(Id(n))) /\ UNCHANGED dialog
    BY <2>2 DEF Answered
  <2> QED
    BY <2>1, <2>2 DEF Takes
<1>8. Id(n) \in pending /\ Id(n) \notin pending' /\ pending' \subseteq pending
  BY DEF Takes
<1>9. ASSUME NEW i \in Calls, Took(i), ByChoice(i)
      PROVE  Id(i) # Id(n)
  BY <1>8, <1>9 DEF Taken
<1>10. \A i \in Calls : ByChoice(i)' = ByChoice(i) /\ Answered(Of(Id(i)))' =
         (dialog'[Of(Id(i))] \notin {"none", "open"})
  BY <1>1, <1>4 DEF ByChoice, IsTui, Of, Answered
<1>11. ASSUME ByChoice(n)
       PROVE  dialog'[Of(Id(n))] \in {Dec(n), "local"}
  <2>1. call[n].st \notin {"checked", "pressed"}
    BY <1>11 DEF Undriven, ByChoice
  <2>2. Answer(Of(Id(n)), Dec(n))
    BY <2>1 DEF Takes
  <2>3. Id(n) = Hook(Of(Id(n))) /\ Of(Id(n)) \in choices
    BY <1>2, <1>11, IdFacts DEF ByChoice
  <2>4. dialog[Of(Id(n))] \in {"open", "local"}
    BY <1>8, <2>3 DEF HookKept
  <2> QED
    BY <1>2, <2>2, <2>4, DecType, AnswerFacts
<1>12. ASSUME NEW i \in Calls, Took(i)'
       PROVE  /\ Sent(i)' /\ Answered(Of(Id(i)))'
              /\ ByChoice(i)' => /\ Id(i)' \notin pending'
                                 /\ dialog'[Of(Id(i)')] \in {Dec(i), "local"}
                                 /\ \A j \in Calls \ {i} : ~ (Took(j)' /\ Id(j)' = Id(i)')
  <2>1. CASE i = n
    <3>1. ASSUME NEW j \in Calls \ {n}, Took(j)', Id(j)' = Id(n)', ByChoice(n)
          PROVE  FALSE
      <4>1. Took(j) /\ Id(j) = Id(n)
        BY <1>4, <1>6, <3>1
      <4>2. ByChoice(j)
        BY <3>1, <4>1 DEF ByChoice
      <4> QED
        BY <1>9, <4>1, <4>2
    <3> QED
      BY <1>2, <1>4, <1>7, <1>8, <1>10, <1>11, <2>1, <3>1
  <2>2. CASE i # n
    <3>1. Took(i)
      BY <1>6, <1>12, <2>2
    <3>2. Sent(i) /\ Answered(Of(Id(i)))
      BY <3>1 DEF Taken
    <3>3. Of(Id(i)) \in Requests
      BY <3>2, SentFacts, IdFacts
    <3>4. dialog'[Of(Id(i))] = dialog[Of(Id(i))]
      BY <1>7, <3>2, <3>3
    <3>5. ASSUME ByChoice(i)
          PROVE  /\ Id(i) \notin pending' /\ dialog'[Of(Id(i))] \in {Dec(i), "local"}
                 /\ \A j \in Calls \ {i} : ~ (Took(j)' /\ Id(j) = Id(i))
      <4>1. /\ Id(i) \notin pending /\ dialog[Of(Id(i))] \in {Dec(i), "local"}
            /\ \A j \in Calls \ {i} : ~ (Took(j) /\ Id(j) = Id(i))
        BY <3>1, <3>5 DEF Taken
      <4>2. Id(i) # Id(n)
        BY <1>9, <3>1, <3>5
      <4> QED
        BY <1>6, <1>8, <3>4, <4>1, <4>2
    <3> QED
      BY <1>4, <1>10, <3>2, <3>4, <3>5 DEF Answered
  <2> QED
    BY <2>1, <2>2
<1> QED
  BY <1>12 DEF Taken

LEMMA TakenStep ==
  ASSUME TypeOK, Next, Moved, AskedFirst, Undriven, HookKept, Taken, Heard
  PROVE  Taken'
<1> USE TypeGroups
<1>1. ASSUME NEW k \in Requests, Opens(k)
      PROVE  Taken'
  <2>1. \A i \in Calls : Took(i)' => Took(i) /\ Sent(i)' /\ Id(i)' = Id(i)
    BY <1>1 DEF Opens, Took, Sent, Id, Taken
  <2>2. \A j \in Requests : Answered(j) => dialog'[j] = dialog[j]
    BY <1>1 DEF Opens, Answered, DialogTyped
  <2>3. \A id \in pending' \ pending : ~Answered(Of(id))
    BY <1>1, IdFacts DEF Opens, Answered
  <2> QED
    BY <2>1, <2>2, <2>3, TakenKept
<1>2. ASSUME NEW k \in Requests, AtTerminal(k)
      PROVE  Taken'
  <2>1. \A i \in Calls : Took(i)' => Took(i) /\ Sent(i)' /\ Id(i)' = Id(i)
    BY <1>2 DEF AtTerminal, Took, Sent, Id, Taken
  <2>2. \A j \in Requests : Answered(j) => dialog'[j] = dialog[j]
    BY <1>2 DEF AtTerminal, Answered, DialogTyped
  <2> QED
    BY <1>2, <2>1, <2>2, TakenKept DEF AtTerminal
<1>3. ASSUME pending' \subseteq pending, dialog' = dialog,
             \A i \in Calls : Took(i)' => Took(i) /\ Sent(i)' /\ Id(i)' = Id(i)
      PROVE  Taken'
  BY <1>3, TakenKept
<1>4. ASSUME NEW n \in Calls, NEW st \in {"gone", "failed", "done", "checked", "pressed"},
             Comes(n, st), told' = told \/ (told'[n] = "ok" => Took(n)),
             \A i \in Calls \ {n} : told'[i] = told[i]
      PROVE  \A i \in Calls : Took(i)' => Took(i) /\ Sent(i)' /\ Id(i)' = Id(i)
  <2>1. /\ call'[n].st = st
        /\ \A i \in Calls : Id(i)' = Id(i) /\ Sent(i)' = Sent(i)
        /\ \A i \in Calls \ {n} : call'[i].st = call[i].st
    BY <1>4, ComesFacts
  <2>2. \A i \in Calls : Took(i)' => Took(i)
    BY <1>4, <2>1 DEF Took
  <2> QED
    BY <2>1, <2>2 DEF Taken
<1>5. ASSUME NEW n \in Calls, NEW id \in Ids, Sends(n, id)
      PROVE  Taken'
  <2>1. ASSUME NEW i \in Calls, Took(i)'
        PROVE  Took(i) /\ Sent(i)' /\ Id(i)' = Id(i)
    <3>1. i # n
      BY <1>5, <2>1 DEF Sends, Took
    <3>2. Took(i) /\ call'[i] = call[i]
      BY <1>5, <2>1, <3>1 DEF Sends, Took
    <3> QED
      BY <3>2 DEF Taken, Sent, Id
  <2> QED
    BY <1>3, <1>5, <2>1 DEF Sends
<1>6. ASSUME NEW n \in Calls, Passes(n)
      PROVE  Taken'
  <2>1. PICK st \in {"gone", "failed", "done", "checked"} : Comes(n, st)
    BY <1>6 DEF Passes
  <2>2. told' = told
    BY <1>6 DEF Passes
  <2>3. \A i \in Calls : Took(i)' => Took(i) /\ Sent(i)' /\ Id(i)' = Id(i)
    BY <1>4, <2>1, <2>2
  <2> QED
    BY <1>3, <1>6, <2>3 DEF Passes
<1>7. ASSUME NEW n \in Calls, Presses(n)
      PROVE  Taken'
  <2>1. Comes(n, "pressed") /\ told' = told /\ Sent(n)
    BY <1>7 DEF Presses, Comes
  <2>2. \A i \in Calls : Took(i)' => Took(i) /\ Sent(i)' /\ Id(i)' = Id(i)
    BY <1>4, <2>1
  <2>3. Of(Id(n)) \in Requests
    BY <2>1, SentFacts, IdFacts
  <2>4. \A j \in Requests : Answered(j) => dialog'[j] = dialog[j]
    BY <1>7, <2>3, DecType, AnswerFacts DEF Presses
  <2> QED
    BY <1>7, <2>2, <2>4, TakenKept DEF Presses
<1>8. ASSUME NEW n \in Calls, Takes(n)
      PROVE  Taken'
  BY <1>8, TakesStep
<1>9. ASSUME NEW n \in Calls, Returned(n)
      PROVE  Taken'
  <2>1. /\ Comes(n, "done")
        /\ told'[n] = "ok" => Took(n)
        /\ \A i \in Calls \ {n} : told'[i] = told[i]
    BY <1>9 DEF Returned, Took, DeviceTyped
  <2>2. \A i \in Calls : Took(i)' => Took(i) /\ Sent(i)' /\ Id(i)' = Id(i)
    BY <1>4, <2>1
  <2> QED
    BY <1>3, <1>9, <2>2 DEF Returned
<1>10. ASSUME NEW n \in Calls, GivesUp(n)
       PROVE  Taken'
  <2>1. \A i \in Calls : Took(i)' => Took(i)
    BY <1>10 DEF GivesUp, Took, DeviceTyped
  <2>2. \A i \in Calls : Sent(i)' = Sent(i) /\ Id(i)' = Id(i)
    BY <1>10 DEF GivesUp, Sent, Id
  <2> QED
    BY <1>3, <1>10, <2>1, <2>2 DEF GivesUp, Taken
<1>11. CASE Loses
  <2>1. ASSUME NEW i \in Calls, Took(i)'
        PROVE  Took(i) /\ Sent(i)' /\ Id(i)' = Id(i)
    <3>1. told[i] = "ok"
      BY <1>11, <2>1 DEF Loses, Took
    <3>2. Sent(i)
      BY <3>1 DEF Taken, Took
    <3> QED
      BY <1>11, <3>1, <3>2 DEF Loses, Took, Sent
  <2> QED
    BY <1>3, <1>11, <2>1 DEF Loses
<1>12. CASE Still
  <2>1. \A i \in Calls : Took(i)' => Took(i) /\ Sent(i)' /\ Id(i)' = Id(i)
    BY <1>12 DEF Still, Took, Sent, Id, Taken
  <2>2. \A k \in Requests : Answered(k) => dialog'[k] = dialog[k]
    BY <1>12 DEF Still
  <2>3. \A id \in pending' \ pending : IsTui(id)
    BY <1>12 DEF Still
  <2> QED
    BY <2>1, <2>2, <2>3, TakenKept
<1> QED
  BY <1>1, <1>2, <1>5, <1>6, <1>7, <1>8, <1>9, <1>10, <1>11, <1>12 DEF Moved

LEMMA InvStep ==
  ASSUME IInv, [Next]_vars
  PROVE  IInv'
<1>1. CASE Next
  <2>1. TypeOK'
    BY <1>1, TypeStep DEF IInv
  <2>2. Moved
    BY <1>1, MoveStep DEF IInv
  <2>3. AskedFirst' /\ HookFirst'
    BY <1>1, AskedStep DEF IInv
  <2>4. Undriven' /\ HookKept' /\ Taken' /\ Heard'
    BY <1>1, <2>2, UndrivenStep, KeptStep, TakenStep, HeardStep DEF IInv
  <2> QED
    BY <2>1, <2>3, <2>4 DEF IInv
<1>2. CASE UNCHANGED vars
  <2>1. TypeOK'
    BY <1>2, TypeStep DEF IInv
  <2>2. /\ UNCHANGED <<choices, dialog, pending, enriched, rest, cards, call>>
        /\ UNCHANGED <<waiting, told>>
    BY <1>2 DEF vars, moving
  <2> QED
    BY <2>1, <2>2
       DEF IInv, AskedFirst, HookFirst, Untouched, Undriven, HookKept, Taken, Took, Heard,
           Sent, Id, ByChoice, Answered, IsTui, Of
<1> QED
  BY <1>1, <1>2

LEMMA InvInit ==
  ASSUME Init
  PROVE  IInv
<1>1. \A n \in Calls : ~Sent(n) /\ call[n].st = "idle" /\ told[n] = "none"
  BY DEF Init, Idle, Sent
<1>2. AskedFirst /\ HookFirst /\ Undriven /\ HookKept
  BY <1>1 DEF Init, AskedFirst, HookFirst, Undriven, HookKept
<1>3. Taken /\ Heard
  BY <1>1 DEF Init, Taken, Took, Heard
<1> QED
  BY <1>2, <1>3, TypeInit DEF IInv

LEMMA Invariant == Spec => []IInv
<1>1. Init => IInv
  BY InvInit
<1>2. IInv /\ [Next]_vars => IInv'
  BY InvStep
<1> QED
  BY <1>1, <1>2, PTL DEF Spec

\* A choice that is answered through its hook is decided once: the device that hears ok is
\* the one whose answer the dialog got, or the terminal was faster, and no second device
\* hears ok, however often its card was claimed, freed and advertised (settle of
\* approvals.js deletes the slot before anything else).
THEOREM ChoicesAreDecidedOnce == Spec => []ChoiceDecidedOnce
<1>1. IInv => ChoiceDecidedOnce
  BY DEF IInv, Taken, Took, ByChoice, ChoiceDecidedOnce
<1> QED
  BY <1>1, Invariant, PTL

-----------------------------------------------------------------------------
(* The refinement of ApprovalPromise *)

SentNow == [k \in Requests |-> SentFor(k)]
AckedNow == [k \in Requests |-> AckedFor(k)]

LEMMA SentSame ==
  ASSUME \A i \in Calls : Sent(i)' = Sent(i) /\ (Sent(i) => Id(i)' = Id(i))
  PROVE  SentNow' = SentNow
<1>1. ASSUME NEW k \in Requests
      PROVE  SentFor(k)' = SentFor(k)
  <2>1. \A i \in Calls : (call'[i].st # "idle" /\ Of(Id(i))' = k)
                           <=> (call[i].st # "idle" /\ Of(Id(i)) = k)
    BY DEF Sent, Of
  <2> QED
    BY <2>1 DEF SentFor
<1> QED
  BY <1>1 DEF SentNow

LEMMA AckedSame ==
  ASSUME \A i \in Calls : (told'[i] = "ok") <=> (told[i] = "ok"),
         \A i \in Calls : told[i] = "ok" => Id(i)' = Id(i)
  PROVE  AckedNow' = AckedNow
<1>1. ASSUME NEW k \in Requests
      PROVE  AckedFor(k)' = AckedFor(k)
  <2>1. \A i \in Calls : (told'[i] = "ok" /\ Of(Id(i))' = k)
                           <=> (told[i] = "ok" /\ Of(Id(i)) = k)
    BY DEF Of
  <2> QED
    BY <2>1 DEF AckedFor
<1> QED
  BY <1>1 DEF AckedNow

\* A step of the promise, in terms of what the daemon and the server do.
Decides(k) ==
  /\ \E how \in SentFor(k) \cup {"local"} : dialog' = [dialog EXCEPT ![k] = how]
  /\ dialog[k] = "open" /\ UNCHANGED <<SentNow, AckedNow>>

LEMMA PromisedByDialog ==
  ASSUME NEW k \in Requests,
         \/ Decides(k)
         \/ /\ dialog[k] = "none" /\ dialog' = [dialog EXCEPT ![k] = "open"]
            /\ UNCHANGED <<SentNow, AckedNow>>
  PROVE  Promise!Next
<1>1. ASSUME Decides(k)
      PROVE  Promise!Decide(k, "local") \/ \E d \in Decisions : Promise!Decide(k, d)
  <2>1. SentFor(k) \subseteq Decisions
    BY DecType DEF SentFor
  <2> QED
    BY <1>1, <2>1 DEF Decides, Promise!Decide, SentNow, AckedNow
<1>2. ASSUME dialog[k] = "none", dialog' = [dialog EXCEPT ![k] = "open"],
             UNCHANGED <<SentNow, AckedNow>>
      PROVE  Promise!Ask(k)
  BY <1>2 DEF Promise!Ask, SentNow, AckedNow
<1> QED
  BY <1>1, <1>2 DEF Promise!Next

LEMMA PromisedByAnswer ==
  ASSUME IInv, NEW n \in Calls, Sent(n), Answer(Of(Id(n)), Dec(n)),
         UNCHANGED <<SentNow, AckedNow>>
  PROVE  Promise!Next \/ UNCHANGED Promise!vars
<1>1. Of(Id(n)) \in Requests
  BY SentFacts, IdFacts, TypeGroups DEF IInv
<1>2. Dec(n) \in SentFor(Of(Id(n)))
  BY DEF SentFor, Sent
<1>3. CASE dialog[Of(Id(n))] = "open"
  BY <1>1, <1>2, <1>3, PromisedByDialog DEF Answer, Decides
<1>4. CASE dialog[Of(Id(n))] # "open"
  <2>1. dialog' = dialog
    BY <1>1, <1>4, TypeGroups DEF IInv, DialogTyped, Answer
  <2> QED
    BY <2>1 DEF Promise!vars, SentNow, AckedNow
<1> QED
  BY <1>3, <1>4

LEMMA PromiseStep ==
  ASSUME IInv, Next
  PROVE  Promise!Next \/ UNCHANGED Promise!vars
<1> USE TypeGroups DEF IInv
<1>1. ASSUME UNCHANGED <<dialog, SentNow, AckedNow>>
      PROVE  UNCHANGED Promise!vars
  BY <1>1 DEF Promise!vars, SentNow, AckedNow
<1>2. ASSUME \A i \in Calls : Sent(i)' = Sent(i) /\ Id(i)' = Id(i),
             \A i \in Calls : (told'[i] = "ok") <=> (told[i] = "ok")
      PROVE  UNCHANGED <<SentNow, AckedNow>>
  BY <1>2, SentSame, AckedSame
<1>3. ASSUME NEW n \in Calls, NEW st, Comes(n, st), st # "idle", told' = told
      PROVE  UNCHANGED <<SentNow, AckedNow>>
  BY <1>2, <1>3, ComesFacts
<1>4. ASSUME NEW k \in Requests, Opens(k) \/ AtTerminal(k)
      PROVE  Promise!Next
  <2>1. UNCHANGED <<SentNow, AckedNow>>
    BY <1>2, <1>4 DEF Opens, AtTerminal, Sent, Id
  <2> QED
    BY <1>4, <2>1, PromisedByDialog DEF Opens, AtTerminal, Decides
<1>5. ASSUME NEW n \in Calls, Presses(n) \/ Takes(n) \/ Passes(n)
      PROVE  Promise!Next \/ UNCHANGED Promise!vars
  <2>1. PICK st \in {"pressed", "ok", "done", "gone", "failed", "checked"} : Comes(n, st)
    BY <1>5 DEF Presses, Takes, Passes
  <2>2. UNCHANGED <<SentNow, AckedNow>>
    BY <1>3, <1>5, <2>1 DEF Presses, Takes, Passes
  <2>3. Sent(n)
    BY <2>1 DEF Comes
  <2> QED
    BY <1>1, <1>5, <2>2, <2>3, PromisedByAnswer DEF Presses, Takes, Passes
<1>6. ASSUME NEW n \in Calls, NEW id \in Ids, Sends(n, id)
      PROVE  Promise!Next
  <2> DEFINE k == Of(id)
  <2>1. k \in Requests /\ dialog[k] # "none"
    BY <1>6, IdFacts DEF Sends, AskedFirst
  <2>2. SentNow' = [SentNow EXCEPT ![k] = @ \cup {Dec(n)}]
    <3>1. ASSUME NEW j \in Requests
          PROVE  SentFor(j)' = IF j = k THEN SentFor(j) \cup {Dec(n)} ELSE SentFor(j)
      <4>1. \A i \in Calls \ {n} : (call'[i].st # "idle" /\ Of(Id(i))' = j)
                                     <=> (call[i].st # "idle" /\ Of(Id(i)) = j)
        BY <1>6 DEF Sends, Id, Of
      <4>2. call[n].st = "idle" /\ call'[n].st # "idle" /\ Of(Id(n))' = k
        BY <1>6 DEF Sends, Sent, Of
      <4> QED
        BY <4>1, <4>2 DEF SentFor
    <3> QED
      BY <3>1 DEF SentNow
  <2>3. AckedNow' = AckedNow
    <3>1. \A i \in Calls : (told'[i] = "ok") <=> (told[i] = "ok")
      BY <1>6 DEF Sends, Heard
    <3>2. \A i \in Calls : told[i] = "ok" => Id(i)' = Id(i)
      BY <1>6 DEF Sends, Heard, Id
    <3> QED
      BY <3>1, <3>2, AckedSame
  <2>4. Promise!Send(k, Dec(n))
    BY <1>6, <2>1, <2>2, <2>3 DEF Promise!Send, SentNow, AckedNow, Sends
  <2> QED
    BY <2>1, <2>4, DecType DEF Promise!Next
<1>7. ASSUME NEW n \in Calls, Returned(n)
      PROVE  Promise!Next \/ UNCHANGED Promise!vars
  <2> DEFINE k == Of(Id(n))
  <2>1. \A i \in Calls : Sent(i)' = Sent(i) /\ Id(i)' = Id(i)
    BY <1>7, ComesFacts DEF Returned
  <2>2. SentNow' = SentNow
    BY <2>1, SentSame
  <2>3. told[n] = "none" /\ told' = [told EXCEPT ![n] = call[n].st] /\ dialog' = dialog
    BY <1>7 DEF Returned, Heard
  <2>4. CASE call[n].st # "ok"
    <3>1. \A i \in Calls : (told'[i] = "ok") <=> (told[i] = "ok")
      BY <2>3, <2>4 DEF DeviceTyped
    <3> QED
      BY <1>1, <1>2, <2>1, <2>3, <3>1
  <2>5. CASE call[n].st = "ok"
    <3>1. k \in Requests /\ Answered(k) /\ Sent(n)
      BY <2>5, SentFacts, IdFacts DEF Taken, Took
    <3>2. Dec(n) \in SentFor(k) /\ Dec(n) \in Decisions
      BY <3>1, DecType DEF SentFor, Sent
    <3>3. AckedNow' = [AckedNow EXCEPT ![k] = @ \cup {Dec(n)}]
      <4>1. ASSUME NEW j \in Requests
            PROVE  AckedFor(j)' = IF j = k THEN AckedFor(j) \cup {Dec(n)} ELSE AckedFor(j)
        <5>1. \A i \in Calls \ {n} : (told'[i] = "ok" /\ Of(Id(i))' = j)
                                       <=> (told[i] = "ok" /\ Of(Id(i)) = j)
          BY <2>1, <2>3 DEF DeviceTyped, Of
        <5>2. told'[n] = "ok" /\ told[n] # "ok" /\ Of(Id(n))' = k
          BY <2>1, <2>3, <2>5 DEF DeviceTyped, Of
        <5> QED
          BY <5>1, <5>2 DEF AckedFor
      <4> QED
        BY <4>1 DEF AckedNow
    <3>4. Promise!Acknowledge(k, Dec(n))
      BY <2>2, <2>3, <3>1, <3>2, <3>3 DEF Promise!Acknowledge, SentNow, AckedNow, Answered
    <3> QED
      BY <3>1, <3>2, <3>4 DEF Promise!Next
  <2> QED
    BY <2>4, <2>5
<1>8. ASSUME NEW n \in Calls, GivesUp(n)
      PROVE  UNCHANGED Promise!vars
  <2>1. \A i \in Calls : Sent(i)' = Sent(i) /\ Id(i)' = Id(i)
    BY <1>8 DEF GivesUp, Sent, Id
  <2>2. \A i \in Calls : (told'[i] = "ok") <=> (told[i] = "ok")
    BY <1>8 DEF GivesUp, Heard, DeviceTyped
  <2> QED
    BY <1>1, <1>2, <1>8, <2>1, <2>2 DEF GivesUp
<1>9. CASE Loses
  <2>1. \A i \in Calls : Sent(i)' = Sent(i) /\ Id(i)' = Id(i)
    BY <1>9 DEF Loses, Sent
  <2>2. \A i \in Calls : (told'[i] = "ok") <=> (told[i] = "ok")
    BY <1>9 DEF Loses, Heard
  <2> QED
    BY <1>1, <1>2, <1>9, <2>1, <2>2 DEF Loses
<1>10. CASE Still
  <2>1. UNCHANGED <<SentNow, AckedNow>>
    BY <1>2, <1>10 DEF Still, Sent, Id
  <2> QED
    BY <1>1, <1>10, <2>1 DEF Still
<1> QED
  BY <1>4, <1>5, <1>6, <1>7, <1>8, <1>9, <1>10, MoveStep DEF Moved

LEMMA PromiseInit ==
  ASSUME Init
  PROVE  Promise!Init
<1>1. \A n \in Calls : call[n].st = "idle" /\ told[n] = "none"
  BY DEF Init, Idle
<1>2. \A k \in Requests : SentFor(k) = {} /\ AckedFor(k) = {}
  BY <1>1 DEF SentFor, AckedFor
<1> QED
  BY <1>2 DEF Init, Promise!Init

\* Approvals implements ApprovalPromise: a question is decided once, by the terminal or by
\* an answer that a device really sent, and a device hears ok only for a question that is
\* decided, whatever is lost, restarted or retried (approvals.js: no failure makes an
\* allow).
THEOREM PromiseIsKept == Spec => KeepsPromise
<1>1. Init => Promise!Init
  BY PromiseInit
<1>2. IInv /\ [Next]_vars => [Promise!Next]_(Promise!vars)
  <2>1. ASSUME IInv, Next
        PROVE  [Promise!Next]_(Promise!vars)
    BY <2>1, PromiseStep
  <2>2. ASSUME UNCHANGED vars
        PROVE  UNCHANGED Promise!vars
    BY <2>2 DEF vars, moving, Promise!vars, SentFor, AckedFor, Id
  <2> QED
    BY <2>1, <2>2
<1> QED
  BY <1>1, <1>2, Invariant, PTL DEF Spec, KeepsPromise, Promise!Spec
=============================================================================
