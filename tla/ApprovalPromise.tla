--------------------------- MODULE ApprovalPromise ---------------------------
(***************************************************************************)
(* What remote approvals promise about a question: it is decided at most   *)
(* once, by the person at the terminal or by an answer that some device    *)
(* really sent, and a device is told that its answer went through only     *)
(* when the question has been decided.  "No failure path makes an allow":  *)
(* the absolute invariant of runner-core/approvals.js.                     *)
(***************************************************************************)
CONSTANTS Requests,  \* the questions
          Decisions  \* what a device can send

VARIABLES outcome,  \* k -> "none", "open", "local", or the decision taken
          sent,     \* k -> decisions sent by devices
          acked     \* k -> decisions whose device was told that they went through

vars == <<outcome, sent, acked>>

Init ==
  /\ outcome = [k \in Requests |-> "none"]
  /\ sent = [k \in Requests |-> {}] /\ acked = [k \in Requests |-> {}]

Ask(k) ==
  /\ outcome[k] = "none" /\ outcome' = [outcome EXCEPT ![k] = "open"]
  /\ UNCHANGED <<sent, acked>>
Send(k, d) ==
  /\ outcome[k] # "none" /\ sent' = [sent EXCEPT ![k] = @ \cup {d}]
  /\ UNCHANGED <<outcome, acked>>
Decide(k, how) ==
  /\ outcome[k] = "open" /\ how \in sent[k] \cup {"local"}
  /\ outcome' = [outcome EXCEPT ![k] = how]
  /\ UNCHANGED <<sent, acked>>
Acknowledge(k, d) ==
  /\ outcome[k] \notin {"none", "open"} /\ d \in sent[k]
  /\ acked' = [acked EXCEPT ![k] = @ \cup {d}]
  /\ UNCHANGED <<outcome, sent>>

Next == \E k \in Requests :
          \/ Ask(k) \/ Decide(k, "local")
          \/ \E d \in Decisions : Send(k, d) \/ Decide(k, d) \/ Acknowledge(k, d)
Spec == Init /\ [][Next]_vars
=============================================================================
