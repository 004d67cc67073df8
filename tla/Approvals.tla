------------------------------ MODULE Approvals ------------------------------
(***************************************************************************)
(* Remote approvals: the round trip between a dialog that asks, the daemon *)
(* that holds the question (runner-core/approvals.js), the server's index  *)
(* of cards (codingpt_back services/approvalService.js) and the devices    *)
(* that answer, over the control link (callRpc in daemonRelayService.js).  *)
(*                                                                         *)
(* A question is on the terminal's screen as a dialog the whole time.  The *)
(* dialog's hook waits in the daemon under the id <<"apr", k>>; when the    *)
(* hook is gone but the dialog is not, the reconciler (question-revive.js) *)
(* holds it under <<"aprt", k>>, an id computed from the dialog.           *)
(***************************************************************************)
EXTENDS Naturals, FiniteSets

CONSTANTS Requests,   \* questions the dialogs ask, each in a pane of its own
          MaxCalls,   \* bound: answers sent by devices
          MaxFaults   \* bound: losses of the control link, restarts of the daemon and
                      \* of the server, REST calls that fail or are refused, hard
                      \* timeouts and screens read too early, together

ASSUME ApprovalsAssumption == {MaxCalls, MaxFaults} \subseteq Nat

Ids == {"apr", "aprt"} \X Requests
Hook(k) == <<"apr", k>>
Tui(k) == <<"aprt", k>>
Of(id) == id[2]
IsTui(id) == id[1] = "aprt"
Calls == 1..MaxCalls
NoCall == 0
Decisions == {"allow", "deny"}

\* What call n says: two devices that disagree, in either order.
Dec(n) == IF n % 2 = 1 THEN "allow" ELSE "deny"

VARIABLES
  choices,    \* the questions that are a choice (AskUserQuestion): the dialog leaves
              \* their hook alive when the terminal answers
  dialog,     \* k -> the dialog on the terminal: "none", "open", or how it was
              \* answered: by a decision sent from a device, or "local"
  pending,    \* ids the daemon holds a slot for
  advertised, \* slots whose card the server has taken
  enriched,   \* hook slots whose card carries the screen's own options
  resync,     \* ids the daemon still has to advertise again on this connection
  rest,       \* REST calls of the daemon: records of Msg
  link,       \* the control link is up
  cards,      \* ids in the server's index
  claim,      \* id -> the call that claimed the card, NoCall
  fresh,      \* cards advertised since the host last connected
  sweepArmed, \* the timer that clears the cards of a host that came back
  call,       \* n -> an answer of a device, at the server and in the daemon
  waiting,    \* calls whose RPC the server still waits for
  stale,      \* calls whose card was resolved under them
  told,       \* n -> what the device was told
  faults      \* faults so far

moving == <<dialog, pending, advertised, enriched, resync, rest, link, cards, claim, fresh,
            sweepArmed, call, waiting, stale, told, faults>>
vars == <<choices, moving>>
slots == <<pending, advertised, enriched>>
index == <<cards, claim, fresh, stale>>
devices == <<call, waiting, told>>

Msg == [op : {"create"}, id : Ids, src : {"first", "resync", "unheard"},
        st : {"sent", "await", "late", "ok", "defer", "failed"}]
       \cup [op : {"cancel"}, id : Ids, src : {"retract"}, st : {"sent"}]
Create(id, src) == [op |-> "create", id |-> id, src |-> src, st |-> "sent"]
\* The server's answer; nobody hears that of an enrichment, nor of a daemon that is gone.
Reply(m, st) == IF m.src = "unheard" THEN {} ELSE {[m EXCEPT !.st = st]}
Cancel(id) == [op |-> "cancel", id |-> id, src |-> "retract", st |-> "sent"]
Idle == [st |-> "idle", id |-> CHOOSE id \in Ids : TRUE]

TypeOK ==
  /\ choices \subseteq Requests
  /\ dialog \in [Requests -> {"none", "open", "local"} \cup Decisions]
  /\ pending \subseteq Ids /\ advertised \subseteq pending /\ enriched \subseteq pending
  /\ resync \subseteq Ids /\ rest \subseteq Msg
  /\ link \in BOOLEAN /\ sweepArmed \in BOOLEAN
  /\ cards \subseteq Ids /\ fresh \subseteq cards
  /\ claim \in [Ids -> Calls \cup {NoCall}]
  /\ call \in [Calls -> {Idle} \cup [st : {"rpc", "checked", "pressed", "ok", "gone",
                                          "failed", "done"}, id : Ids]]
  /\ waiting \subseteq Calls /\ stale \subseteq Calls
  /\ told \in [Calls -> {"none", "ok", "gone", "failed"}]
  /\ faults \in 0..MaxFaults

Init ==
  /\ choices \in SUBSET Requests
  /\ dialog = [k \in Requests |-> "none"]
  /\ pending = {} /\ advertised = {} /\ enriched = {}
  /\ resync = {} /\ rest = {}
  /\ link = TRUE
  /\ cards = {} /\ claim = [id \in Ids |-> NoCall] /\ fresh = {}
  /\ sweepArmed = FALSE
  /\ call = [n \in Calls |-> Idle] /\ waiting = {} /\ stale = {}
  /\ told = [n \in Calls |-> "none"]
  /\ faults = 0

Fault == faults < MaxFaults /\ faults' = faults + 1

-----------------------------------------------------------------------------
(* The daemon's slots.  settle() removes the slot first, so that one        *)
(* settling at most takes effect; with retract it withdraws the card.       *)

Drop(id) ==
  /\ pending' = pending \ {id}
  /\ advertised' = advertised \ {id}
  /\ enriched' = enriched \ {id}
Retracted(id) == IF id \in advertised THEN {Cancel(id)} ELSE {}

\* The hook ends without output, or a dialog's slot is dropped.
Defer(id) == id \in pending /\ Drop(id) /\ rest' = rest \cup Retracted(id)

\* The dialog's tool asks: the dialog appears, and the hook takes a slot unless
\* the feature is off, the pane has too many, or its socket is closed already.
Ask(k) ==
  /\ dialog[k] = "none"
  /\ dialog' = [dialog EXCEPT ![k] = "open"]
  /\ \/ /\ pending' = pending \cup {Hook(k)}
        /\ rest' = rest \cup {Create(Hook(k), "first")}
     \/ UNCHANGED <<pending, rest>>
  /\ UNCHANGED <<advertised, enriched, resync, link, index, sweepArmed,
                 devices, faults>>

\* What comes too late for the dialog changes nothing.
Answer(k, how) == dialog' = [dialog EXCEPT ![k] = IF @ = "open" THEN how ELSE @]
Answered(k) == dialog[k] \notin {"none", "open"}

\* Somebody answers at the terminal.
LocalAnswer(k) ==
  /\ dialog[k] = "open" /\ Answer(k, "local")
  /\ UNCHANGED <<slots, resync, rest, link, index, sweepArmed, devices, faults>>

\* The dialog kills the hook of a question that is answered: its socket closes.
HookGone(k) ==
  /\ Answered(k) /\ k \notin choices
  /\ Defer(Hook(k))
  /\ UNCHANGED <<dialog, resync, link, index, sweepArmed, devices, faults>>

\* The hard timeout of a slot (24 hours).
HardTimeout(id) ==
  /\ Defer(id) /\ Fault
  /\ UNCHANGED <<dialog, resync, link, index, sweepArmed, devices>>

\* The server's answer to an advertisement.  The first one of a slot decides it:
\* a slot settled in between has its card withdrawn, a refusal or a failure defers
\* without withdrawing.  The one of resync only notes that it did not fail.
Advertised(m) ==
  /\ m \in rest /\ m.op = "create" /\ m.st \in {"ok", "defer", "failed"}
  /\ \/ /\ m.src = "first" /\ m.id \notin pending
        /\ rest' = (rest \ {m}) \cup (IF m.st = "failed" THEN {} ELSE {Cancel(m.id)})
        /\ UNCHANGED slots
     \/ /\ m.src = "first" /\ m.id \in pending /\ m.st # "ok"
        /\ Drop(m.id) /\ rest' = rest \ {m}
     \/ /\ m.id \in pending /\ (m.st = "ok" \/ (m.src = "resync" /\ m.st = "defer"))
        /\ advertised' = advertised \cup {m.id} /\ rest' = rest \ {m}
        /\ UNCHANGED <<pending, enriched>>
     \/ /\ m.src = "resync" /\ (m.st = "failed" \/ m.id \notin pending) /\ rest' = rest \ {m}
        /\ UNCHANGED slots
  /\ UNCHANGED <<dialog, resync, link, index, sweepArmed, devices, faults>>

\* The card of a permission is rewritten from the screen's own words.
EnrichFromScreen(k) ==
  /\ Hook(k) \in advertised \ enriched /\ k \notin choices /\ dialog[k] = "open"
  /\ enriched' = enriched \cup {Hook(k)}
  /\ rest' = rest \cup {Create(Hook(k), "unheard")}
  /\ UNCHANGED <<dialog, pending, advertised, resync, link, index, sweepArmed,
                 devices, faults>>

\* resync(): one slot after the other, a slot settled meanwhile skipped.
ResyncNext(id) ==
  /\ id \in resync /\ ~\E m \in rest : m.src = "resync"
  /\ resync' = resync \ {id}
  /\ rest' = IF id \in pending THEN rest \cup {Create(id, "resync")} ELSE rest
  /\ UNCHANGED <<dialog, slots, link, index, sweepArmed, devices, faults>>

-----------------------------------------------------------------------------
(* The reconciler: the screen is the truth, and it is read before it acts.  *)

HasPending(k) == \E id \in pending : Of(id) = k

\* Mutant: the reconciler knows only questions, no permissions.
MutTickAdvertise(k) ==
  /\ k \in choices /\ dialog[k] = "open" /\ ~HasPending(k)
  /\ ~\E m \in rest : m.id = Tui(k) /\ m.src = "first"
  /\ pending' = pending \cup {Tui(k)}
  /\ rest' = rest \cup {Create(Tui(k), "first")}
  /\ UNCHANGED <<dialog, advertised, enriched, resync, link, index, sweepArmed, devices,
                 faults>>

\* A dialog without a slot is advertised under its own id (requestTui); it may have
\* been answered since the screen was captured.
TickAdvertise(k) ==
  /\ ~HasPending(k) /\ ~\E m \in rest : m.id = Tui(k) /\ m.src = "first"
  /\ \/ dialog[k] = "open" /\ UNCHANGED faults
     \/ Answered(k) /\ Fault
  /\ pending' = pending \cup {Tui(k)}
  /\ rest' = rest \cup {Create(Tui(k), "first")}
  /\ UNCHANGED <<dialog, advertised, enriched, resync, link, index, sweepArmed, devices>>

\* Mutant: the hook of a choice is left to end by itself.
MutTickWithdraw(k) ==
  /\ Answered(k) /\ Defer(Tui(k))
  /\ UNCHANGED <<dialog, resync, link, index, sweepArmed, devices, faults>>

\* A slot whose dialog is gone is withdrawn: the reconciler's own, and the hook of
\* a choice, which the dialog does not end.
TickWithdraw(k) ==
  /\ Answered(k)
  /\ \/ Defer(Tui(k))
     \/ k \in choices /\ Defer(Hook(k))
  /\ UNCHANGED <<dialog, resync, link, index, sweepArmed, devices, faults>>

-----------------------------------------------------------------------------
(* An answer that the daemon did not take frees the card again; a          *)
(* connection that closes fails every RPC on it.                            *)

Unclaim(ns) == claim' = [id \in Ids |-> IF claim[id] \in ns THEN NoCall ELSE claim[id]]
\* Mutant: the RPCs of a lost connection are forgotten, not failed.
MutLoseRpcs(sts) ==
  /\ call' = [n \in Calls |-> IF call[n].st \in sts THEN [call[n] EXCEPT !.st = "done"]
                              ELSE call[n]]
  /\ waiting' = {}
  /\ UNCHANGED told
LoseRpcs(sts) ==
  /\ call' = [n \in Calls |-> IF call[n].st \in sts \cup {"ok", "gone", "failed"} THEN [call[n] EXCEPT !.st = "done"]
                              ELSE call[n]]
  /\ told' = [n \in Calls |-> IF n \in waiting THEN "failed" ELSE told[n]]
  /\ waiting' = {}

-----------------------------------------------------------------------------
(* The daemon answers the server's approval.resolve (resolveRemote).        *)

\* The daemon has an answer; if the RPC is over already, it goes nowhere.
To(n, st) == call' = [call EXCEPT ![n].st = st]
Answers(n, st) == To(n, IF n \in waiting THEN st ELSE "done")
Id(n) == call[n].id

\* Mutant: the slot is deleted after its output is on its way, by then another time.
MutByHook(n) ==
  /\ Id(n) \in pending
  /\ Answer(Of(Id(n)), Dec(n)) /\ Answers(n, "ok") /\ UNCHANGED slots
\* Without a dialog to drive the decision is the hook's output.
ByHook(n) ==
  /\ Id(n) \in pending
  /\ Drop(Id(n)) /\ Answer(Of(Id(n)), Dec(n)) /\ Answers(n, "ok")
\* Mutant: a slot that is gone counts as answered.
MutNotPending(n) == Id(n) \notin pending /\ Answers(n, "ok") /\ UNCHANGED <<slots, dialog>>
NotPending(n) == Id(n) \notin pending /\ Answers(n, "gone") /\ UNCHANGED <<slots, dialog>>

Driven(id) == id \in enriched \/ IsTui(id)

\* The dialog is on the screen and is the one that is meant: it will be driven.
\* A dialog that is gone fails a slot of the reconciler, and sends an enriched
\* hook back to its output.
Resolve(n) ==
  /\ call[n].st = "rpc"
  /\ \/ NotPending(n)
     \/ ~Driven(Id(n)) /\ ByHook(n)
     \/ /\ Id(n) \in pending /\ Driven(Id(n)) /\ dialog[Of(Id(n))] = "open"
        /\ To(n, "checked") /\ UNCHANGED <<slots, dialog>>
     \/ Id(n) \in enriched /\ Answered(Of(Id(n))) /\ ByHook(n)
     \/ /\ Id(n) \in pending /\ IsTui(Id(n)) /\ Answered(Of(Id(n)))
        /\ Answers(n, "failed") /\ UNCHANGED <<slots, dialog>>
  /\ UNCHANGED <<resync, rest, link, index, sweepArmed, waiting, told, faults>>

\* The key is sent; on a dialog that was closed meanwhile it changes nothing.
DriveKey(n) ==
  /\ call[n].st = "checked" /\ To(n, "pressed") /\ Answer(Of(Id(n)), Dec(n))
  /\ UNCHANGED <<slots, resync, rest, link, index, sweepArmed, waiting, told, faults>>

\* The dialog has left the screen: delivered, if the slot is still there.
DriveDone(n) ==
  /\ call[n].st = "pressed" /\ Answered(Of(Id(n)))
  /\ \/ Id(n) \in pending /\ Drop(Id(n)) /\ Answers(n, "ok") /\ UNCHANGED dialog
     \/ NotPending(n)
  /\ UNCHANGED <<resync, rest, link, index, sweepArmed, waiting, told, faults>>

\* The dialog does not leave the screen in time: a slot of the reconciler fails, an
\* enriched hook falls back to its output.
DriveGivenUp(n) ==
  /\ call[n].st = "pressed" /\ Fault
  /\ \/ IsTui(Id(n)) /\ Answers(n, "failed") /\ UNCHANGED <<slots, dialog>>
     \/ ~IsTui(Id(n)) /\ (ByHook(n) \/ NotPending(n))
  /\ UNCHANGED <<resync, rest, link, index, sweepArmed, waiting, told>>

\* restart: what waits in the process is gone, the hooks' sockets close and the
\* questions stay on the screen.  Told to shut down, it withdraws its cards first.
DaemonRestart ==
  /\ Fault
  /\ \E sent \in {{}, UNION {Retracted(id) : id \in pending}} :
       rest' = sent \cup {IF m.op = "create" THEN [m EXCEPT !.src = "unheard"] ELSE m :
                             m \in {x \in rest : x.st \in {"sent", "await", "late"}}}
  /\ pending' = {} /\ advertised' = {} /\ enriched' = {} /\ resync' = {}
  /\ link' = FALSE
  /\ LoseRpcs({"rpc", "checked", "pressed"}) /\ Unclaim(waiting)
  /\ UNCHANGED <<dialog, cards, fresh, stale, sweepArmed>>

-----------------------------------------------------------------------------
(* The server's index of cards.                                             *)

\* finalize(): the card leaves the index and every screen.
Finalize(ids) ==
  /\ cards' = cards \ ids
  /\ claim' = [id \in Ids |-> IF id \in ids THEN NoCall ELSE claim[id]]
  /\ fresh' = fresh \ ids
  /\ stale' = stale \cup ({claim[id] : id \in ids} \ {NoCall})

\* create(): an id in the index is refreshed; otherwise the notification is
\* awaited before the card is registered, or the server tells the daemon to defer.
CreateCard(m) ==
  /\ m \in rest /\ m.op = "create" /\ m.st = "sent"
  /\ \/ /\ m.id \in cards
        /\ fresh' = fresh \cup {m.id} /\ rest' = (rest \ {m}) \cup Reply(m, "ok")
        /\ UNCHANGED faults
     \/ /\ m.id \notin cards
        /\ rest' = (rest \ {m}) \cup {[m EXCEPT !.st = "await"]}
        /\ UNCHANGED <<fresh, faults>>
     \/ /\ m.id \notin cards /\ Fault
        /\ rest' = (rest \ {m}) \cup Reply(m, "defer")
        /\ UNCHANGED fresh
  /\ UNCHANGED <<dialog, slots, resync, link, cards, claim, stale, sweepArmed,
                 devices>>

RegisterCard(m) ==
  /\ m \in rest /\ m.st \in {"await", "late"}
  /\ cards' = cards \cup {m.id} /\ claim' = [claim EXCEPT ![m.id] = NoCall]
  /\ fresh' = IF m.st = "await" THEN fresh \cup {m.id} ELSE fresh
  /\ rest' = (rest \ {m}) \cup Reply(m, "ok")
  /\ UNCHANGED <<dialog, slots, resync, link, stale, sweepArmed, devices, faults>>

CancelCard(m) ==
  /\ m \in rest /\ m.op = "cancel"
  /\ rest' = rest \ {m}
  /\ IF m.id \in cards THEN Finalize({m.id}) ELSE UNCHANGED index
  /\ UNCHANGED <<dialog, slots, resync, link, sweepArmed, devices, faults>>

\* A REST call fails on its way there or on its way back.
RestFails(m) ==
  /\ m \in rest /\ m.st = "sent" /\ Fault
  /\ rest' = (rest \ {m}) \cup (IF m.op = "create" THEN Reply(m, "failed") ELSE {})
  /\ UNCHANGED <<dialog, slots, resync, link, index, sweepArmed, devices>>

\* respond(): one claim per card; the decision goes to the daemon that asked.
Respond(n, id) ==
  /\ call[n].st = "idle" /\ \A i \in 1..(n - 1) : call[i].st # "idle"
  /\ id \in cards
  /\ IF claim[id] = NoCall
       THEN /\ claim' = [claim EXCEPT ![id] = IF link THEN n ELSE NoCall]
            /\ call' = [call EXCEPT ![n] = [st |-> IF link THEN "rpc" ELSE "done",
                                            id |-> id]]
            /\ waiting' = IF link THEN waiting \cup {n} ELSE waiting
            /\ told' = [told EXCEPT ![n] = IF link THEN "none" ELSE "failed"]
       ELSE /\ call' = [call EXCEPT ![n] = [st |-> "done", id |-> id]]
            /\ told' = [told EXCEPT ![n] = "gone"]
            /\ UNCHANGED <<claim, waiting>>
  /\ UNCHANGED <<dialog, slots, resync, rest, link, cards, fresh, stale,
                 sweepArmed, faults>>

RpcReturns(n) ==
  /\ n \in waiting /\ call[n].st \in {"ok", "gone", "failed"} /\ link
  /\ waiting' = waiting \ {n} /\ told' = [told EXCEPT ![n] = call[n].st]
  /\ To(n, "done")
  /\ CASE call[n].st = "failed" ->
            /\ Unclaim({n})
            /\ UNCHANGED <<cards, fresh, stale>>
       [] n \in stale -> UNCHANGED index
       [] OTHER -> Finalize({Id(n)})
  /\ UNCHANGED <<dialog, slots, resync, rest, link, sweepArmed, faults>>

\* The RPC times out: the claim is undone and another
\* device may answer, whatever the daemon is still doing.
RpcGivenUp(n) ==
  /\ n \in waiting /\ waiting' = waiting \ {n}
  /\ told' = [told EXCEPT ![n] = "failed"]
  /\ Unclaim({n})
  /\ UNCHANGED <<dialog, slots, resync, rest, link, cards, fresh, stale,
                 sweepArmed, call, faults>>

\* Twenty seconds after the host connected: what it has not advertised again.
HostSweep ==
  /\ sweepArmed /\ sweepArmed' = FALSE
  /\ Finalize(cards \ fresh)
  /\ UNCHANGED <<dialog, slots, resync, rest, link, devices, faults>>

\* The sweeper's deadline (25 hours), after the daemon's own.
Expire(id) ==
  /\ id \in cards \ pending /\ Finalize({id})
  /\ ~\E m \in rest : m.id = id
  /\ UNCHANGED <<dialog, slots, resync, rest, link, sweepArmed, devices, faults>>

BackRestart ==
  /\ Fault
  /\ cards' = {} /\ claim' = [id \in Ids |-> NoCall] /\ fresh' = {}
  /\ UNCHANGED stale
  /\ sweepArmed' = FALSE /\ link' = FALSE
  /\ LoseRpcs({"rpc"})
  /\ rest' = UNION {IF m.st \in {"await", "late"} THEN Reply(m, "failed") ELSE {m} : m \in rest}
  /\ UNCHANGED <<dialog, slots, resync>>

-----------------------------------------------------------------------------
(* The control link.  What is on it is lost with it; what the daemon is     *)
(* doing goes on, and its result finds no connection.                       *)

LinkDrop ==
  /\ link /\ Fault /\ link' = FALSE
  /\ LoseRpcs({"rpc"}) /\ Unclaim(waiting)
  /\ UNCHANGED <<dialog, slots, resync, rest, cards, fresh, stale, sweepArmed>>

\* hello, hello_ack: the server arms the sweep, the daemon advertises its slots again.
\* A card counts as advertised since then from when its REST call came in.
LinkUp ==
  /\ ~link /\ link' = TRUE
  /\ sweepArmed' = TRUE /\ fresh' = {}
  /\ resync' = pending
  /\ rest' = {IF m.st = "await" THEN [m EXCEPT !.st = "late"] ELSE m : m \in rest}
  /\ UNCHANGED <<dialog, slots, cards, claim, stale, devices, faults>>

-----------------------------------------------------------------------------

Step ==
  \/ \E k \in Requests : \/ Ask(k) \/ LocalAnswer(k) \/ HookGone(k) \/ EnrichFromScreen(k)
                         \/ TickAdvertise(k) \/ TickWithdraw(k)
  \/ \E m \in rest : \/ Advertised(m) \/ CreateCard(m) \/ RegisterCard(m) \/ CancelCard(m)
                     \/ RestFails(m)
  \/ \E id \in Ids : HardTimeout(id) \/ ResyncNext(id) \/ Expire(id)
  \/ \E n \in Calls : \/ \E id \in Ids : Respond(n, id)
                      \/ Resolve(n) \/ DriveKey(n) \/ DriveDone(n) \/ DriveGivenUp(n)
                      \/ RpcReturns(n) \/ RpcGivenUp(n)
  \/ DaemonRestart \/ BackRestart \/ HostSweep \/ LinkDrop \/ LinkUp

Next == Step /\ UNCHANGED choices

\* The loops and timers run, requests are answered, a lost link is dialled again;
\* nobody is obliged to ask, to answer, to fail or to restart.
Fairness ==
  /\ WF_moving(LinkUp) /\ WF_moving(HostSweep)
  /\ \A k \in Requests : /\ WF_moving(HookGone(k)) /\ WF_moving(TickWithdraw(k))
                         /\ WF_moving(TickAdvertise(k))
  /\ \A id \in Ids : WF_moving(ResyncNext(id)) /\ WF_moving(Expire(id))
  /\ \A m \in Msg : /\ WF_moving(Advertised(m)) /\ WF_moving(CreateCard(m))
                    /\ WF_moving(RegisterCard(m)) /\ WF_moving(CancelCard(m))
  /\ \A n \in Calls : /\ WF_moving(Resolve(n)) /\ WF_moving(DriveKey(n)) /\ WF_moving(DriveDone(n))
                      /\ WF_moving(RpcReturns(n)) /\ WF_moving(RpcGivenUp(n))

Spec == Init /\ [][Next]_vars /\ Fairness

-----------------------------------------------------------------------------
(* Properties.                                                              *)

SentFor(k) == {Dec(n) : n \in {i \in Calls : call[i].st # "idle" /\ Of(Id(i)) = k}}
AckedFor(k) == {Dec(n) : n \in {i \in Calls : told[i] = "ok" /\ Of(Id(i)) = k}}

\* Every question keeps the promise of ApprovalPromise: whatever is lost, restarted or
\* retried, the dialog gets a decision only from the terminal or from a device that sent
\* it, never from a failure path (approvals.js: no failure makes an allow), and a device
\* is told "ok" only for a question that is decided.
Promise == INSTANCE ApprovalPromise
             WITH outcome <- dialog, sent <- [k \in Requests |-> SentFor(k)],
                  acked <- [k \in Requests |-> AckedFor(k)]
KeepsPromise == Promise!Spec

\* The slot of a hook that no dialog is driven for (a choice) is consumed by one answer:
\* the device that is told "ok" is the one whose answer the dialog got, unless the terminal
\* was faster, and no second device is told so, although claims on the card are undone and
\* the card may be advertised again (approvals.js settle: delete first).
ChoiceDecidedOnce ==
  \A n \in Calls : told[n] = "ok" /\ ~IsTui(Id(n)) /\ Of(Id(n)) \in choices =>
    /\ dialog[Of(Id(n))] \in {Dec(n), "local"}
    /\ \A i \in Calls \ {n} : ~(told[i] = "ok" /\ Id(i) = Id(n))

\* An open dialog whose hook is gone and that no slot stands for gets a card again
\* (question-revive.js), whatever was lost or restarted, unless it is answered first.
Carded(k) == \E id \in cards : Of(id) = k
CardRevived ==
  \A k \in Requests :
    dialog[k] = "open" /\ ~HasPending(k) ~> Carded(k) \/ Answered(k)

\* Once a question is answered, its slots and its cards end on every path, also where the
\* hook outlives the answer or a withdrawal was lost.
NothingLeftOver ==
  \A k \in Requests : Answered(k) ~> ~HasPending(k) /\ ~Carded(k)

\* A device that answers hears how it went.
DeviceHears == \A n \in Calls : call[n].st # "idle" ~> told[n] # "none"
=============================================================================
