-------------------------- MODULE MCTaskAdmission --------------------------
(* Instances of TaskAdmission: three deliveries of one opId and two others. *)
EXTENDS TaskAdmission, TLC

CONSTANTS c1, c2, c3, d1, e1, x, y, z

Retried   == c1 :> x @@ c2 :> x @@ c3 :> x @@ d1 :> y @@ e1 :> z
OneRun    == [c \in {c1, c2, c3, d1, e1} |-> 1]
=============================================================================
