-------------------------- MODULE TaskAdmissionProofs --------------------------
(***************************************************************************)
(* An opId makes one task and never stays in flight without a creation at  *)
(* work on it, for any number of requests, opIds and restarts.             *)
(*                                                                         *)
(* The first request of an opId is what keeps the others out: while it is  *)
(* at work it is the one in flight (FlightHeld), and no task of its opId   *)
(* is on record (NotYetRecorded).  With InflightLive these are inductive.  *)
(***************************************************************************)
EXTENDS TaskAdmission, TLAPS

AtWork(c) == pc[c] \in {"checks", "agents"}

CallsTyped ==
  /\ createOps \subseteq Calls
  /\ inflight \in [OpIds -> Calls \cup {None}]
  /\ pc \in [Calls -> {"new", "checks", "agents", "wait", "refresh", "answered"}]

FlightHeld     == \A c \in Calls : AtWork(c) => inflight[OpIdOf[c]] = c
NotYetRecorded == \A c \in Calls : AtWork(c) => Recorded(c) = {}

IInv == CallsTyped /\ FlightHeld /\ NotYetRecorded /\ InflightLive /\ CreatedOnce

\* No request is at work when the daemon has just started.
LEMMA InitIInv == Init => IInv
BY CallsAssumption DEF Init, IInv, CallsTyped, FlightHeld, NotYetRecorded, InflightLive,
                       CreatedOnce, AtWork, OpIds

\* When the creation of a request settles, its opId is free, the request is at work
\* no more, and the requests of other opIds are where they were.
LEMMA SettleFrees ==
  ASSUME IInv, NEW c \in Calls, NEW result, AtWork(c), Settle(c, result)
  PROVE  /\ pc' \in [Calls -> {"new", "checks", "agents", "wait", "refresh", "answered"}]
         /\ inflight' \in [OpIds -> Calls \cup {None}]
         /\ inflight'[OpIdOf[c]] = None
         /\ \A o \in OpIds : o # OpIdOf[c] => inflight'[o] = inflight[o]
         /\ \A d \in Calls : AtWork(d)' => AtWork(d) /\ OpIdOf[d] # OpIdOf[c]
         /\ \A d \in Calls : AtWork(d) /\ OpIdOf[d] # OpIdOf[c] => pc'[d] = pc[d]
<1>1. OpIdOf[c] \in OpIds
  BY DEF OpIds
<1>2. /\ pc' \in [Calls -> {"new", "checks", "agents", "wait", "refresh", "answered"}]
      /\ pc'[c] = "answered"
      /\ \A d \in Calls : pc'[d] = pc[d] \/ pc'[d] = "answered"
  BY DEF Settle, IInv, CallsTyped
<1>3. /\ inflight' \in [OpIds -> Calls \cup {None}]
      /\ inflight'[OpIdOf[c]] = None
      /\ \A o \in OpIds : o # OpIdOf[c] => inflight'[o] = inflight[o]
  BY <1>1 DEF Settle, IInv, CallsTyped
<1>4. \A d \in Calls : AtWork(d)' => AtWork(d) /\ d # c
  BY <1>2 DEF AtWork
<1>5. \A d \in Calls : AtWork(d) /\ d # c => OpIdOf[d] # OpIdOf[c]
  BY DEF IInv, FlightHeld
<1>6. \A d \in Calls : AtWork(d) /\ OpIdOf[d] # OpIdOf[c] => pc'[d] = pc[d]
  BY DEF Settle, AtWork
<1> QED
  BY <1>2, <1>3, <1>4, <1>5, <1>6

\* A creation that settles keeps the invariant if it changes the table at most by
\* its own task.
LEMMA SettleStep ==
  ASSUME IInv, NEW c \in Calls, NEW result, AtWork(c), Settle(c, result),
         createOps' \subseteq createOps \cup {c}
  PROVE  IInv'
<1>1. CallsTyped'
  BY SettleFrees DEF IInv, CallsTyped
<1>2. FlightHeld'
  <2> SUFFICES ASSUME NEW d \in Calls, AtWork(d)'
               PROVE  inflight'[OpIdOf[d]] = d
    BY DEF FlightHeld
  <2>1. AtWork(d) /\ OpIdOf[d] # OpIdOf[c] /\ OpIdOf[d] \in OpIds
    BY SettleFrees DEF OpIds
  <2> QED
    BY <2>1, SettleFrees DEF IInv, FlightHeld
<1>3. NotYetRecorded'
  <2> SUFFICES ASSUME NEW d \in Calls, AtWork(d)'
               PROVE  Recorded(d)' = {}
    BY DEF NotYetRecorded
  <2>1. AtWork(d) /\ OpIdOf[d] # OpIdOf[c]
    BY SettleFrees
  <2>2. Recorded(d) = {}
    BY <2>1 DEF IInv, NotYetRecorded
  <2> QED
    BY <2>1, <2>2 DEF Recorded
<1>4. InflightLive'
  <2> SUFFICES ASSUME NEW o \in OpIds, inflight'[o] # None
               PROVE  pc'[inflight'[o]] \in {"checks", "agents"} /\ OpIdOf[inflight'[o]] = o
    BY DEF InflightLive
  <2>1. o # OpIdOf[c] /\ inflight'[o] = inflight[o]
    BY SettleFrees
  <2>2. inflight[o] \in Calls /\ AtWork(inflight[o]) /\ OpIdOf[inflight[o]] = o
    BY <2>1 DEF IInv, InflightLive, CallsTyped, AtWork
  <2>3. pc'[inflight[o]] = pc[inflight[o]]
    BY <2>1, <2>2, SettleFrees
  <2> QED
    BY <2>1, <2>2, <2>3 DEF AtWork
<1>5. CreatedOnce'
  <2>1. Recorded(c) = {}
    BY DEF IInv, NotYetRecorded
  <2> QED
    BY <2>1 DEF IInv, CreatedOnce, Recorded
<1> QED
  BY <1>1, <1>2, <1>3, <1>4, <1>5 DEF IInv

\* A step that leaves requests and flights alone, and adds nothing to the table,
\* keeps the invariant.
LEMMA TableStep ==
  ASSUME IInv, UNCHANGED <<inflight, pc>>, createOps' \subseteq createOps
  PROVE  IInv'
BY DEF IInv, CallsTyped, FlightHeld, NotYetRecorded, InflightLive, CreatedOnce, AtWork, Recorded

\* A request starts a creation only when its opId is neither recorded nor in flight.
LEMMA ArriveStep ==
  ASSUME IInv, NEW c \in Calls, Arrive(c)
  PROVE  IInv'
<1> USE CallsAssumption
<1>1. pc[c] = "new" /\ UNCHANGED createOps /\ OpIdOf[c] \in OpIds
  BY DEF Arrive, store, table, OpIds
<1>2. CASE /\ pc' \in {[pc EXCEPT ![c] = "refresh"], [pc EXCEPT ![c] = "wait"]}
           /\ UNCHANGED inflight
  <2>1. /\ CallsTyped'
        /\ \A d \in Calls : AtWork(d)' <=> AtWork(d)
        /\ \A d \in Calls : AtWork(d) => pc'[d] = pc[d]
    BY <1>1, <1>2 DEF IInv, CallsTyped, AtWork
  <2>2. FlightHeld' /\ NotYetRecorded' /\ CreatedOnce'
    BY <1>1, <1>2, <2>1 DEF IInv, FlightHeld, NotYetRecorded, CreatedOnce, Recorded
  <2>3. InflightLive'
    BY <1>2, <2>1 DEF IInv, InflightLive, CallsTyped, AtWork
  <2> QED
    BY <2>1, <2>2, <2>3 DEF IInv
<1>3. CASE /\ Recorded(c) = {} /\ ~BusyOp(c)
           /\ pc' = [pc EXCEPT ![c] = "checks"]
           /\ inflight' = [inflight EXCEPT ![OpIdOf[c]] = c]
  <2>1. \A d \in Calls : AtWork(d) => OpIdOf[d] # OpIdOf[c]
    BY <1>3 DEF IInv, FlightHeld, BusyOp
  <2>2. /\ CallsTyped'
        /\ pc'[c] = "checks" /\ inflight'[OpIdOf[c]] = c
        /\ \A d \in Calls : d # c => pc'[d] = pc[d]
        /\ \A o \in OpIds : o # OpIdOf[c] => inflight'[o] = inflight[o]
    BY <1>1, <1>3 DEF IInv, CallsTyped
  <2>3. FlightHeld'
    BY <2>1, <2>2 DEF IInv, FlightHeld, AtWork, OpIds
  <2>4. NotYetRecorded' /\ CreatedOnce'
    BY <1>1, <1>3, <2>2 DEF IInv, NotYetRecorded, CreatedOnce, Recorded, AtWork
  <2>5. InflightLive'
    <3> SUFFICES ASSUME NEW o \in OpIds, inflight'[o] # None
                 PROVE  pc'[inflight'[o]] \in {"checks", "agents"} /\ OpIdOf[inflight'[o]] = o
      BY DEF InflightLive
    <3>1. CASE o = OpIdOf[c]
      BY <2>2, <3>1
    <3>2. CASE o # OpIdOf[c]
      <4>1. inflight'[o] = inflight[o] /\ inflight[o] \in Calls
        BY <2>2, <3>2 DEF IInv, CallsTyped
      <4>2. pc[inflight[o]] \in {"checks", "agents"} /\ OpIdOf[inflight[o]] = o
        BY <4>1 DEF IInv, InflightLive
      <4> QED
        BY <1>1, <2>2, <4>1, <4>2
    <3> QED
      BY <3>1, <3>2
  <2> QED
    BY <2>2, <2>3, <2>4, <2>5 DEF IInv
<1> QED
  BY <1>2, <1>3 DEF Arrive

\* A restart ends every flight.
LEMMA CrashStep ==
  ASSUME IInv, Crash
  PROVE  IInv'
<1>1. /\ \A o \in OpIds : inflight'[o] = None
      /\ inflight' \in [OpIds -> Calls \cup {None}]
      /\ UNCHANGED createOps
  BY DEF Crash, store, table
<1>2. /\ pc' \in [Calls -> {"new", "checks", "agents", "wait", "refresh", "answered"}]
      /\ \A d \in Calls : ~AtWork(d)'
  BY DEF Crash, IInv, CallsTyped, AtWork
<1> QED
  BY <1>1, <1>2 DEF IInv, CallsTyped, FlightHeld, NotYetRecorded, InflightLive, CreatedOnce

LEMMA IInvStep ==
  ASSUME IInv, [Next]_vars
  PROVE  IInv'
<1>1. ASSUME NEW c \in Calls, Arrive(c) PROVE IInv'
  BY <1>1, ArriveStep
<1>2. ASSUME NEW c \in Calls, Replay(c) PROVE IInv'
  <2>1. /\ pc[c] = "refresh" /\ pc' = [pc EXCEPT ![c] = "answered"]
        /\ UNCHANGED <<createOps, inflight>>
    BY <1>2 DEF Replay, store, table
  <2>2. /\ CallsTyped'
        /\ \A d \in Calls : AtWork(d)' <=> AtWork(d)
        /\ \A d \in Calls : AtWork(d) => pc'[d] = pc[d]
    BY <2>1 DEF IInv, CallsTyped, AtWork
  <2>3. FlightHeld' /\ NotYetRecorded' /\ CreatedOnce'
    BY <2>1, <2>2 DEF IInv, FlightHeld, NotYetRecorded, CreatedOnce, Recorded
  <2>4. InflightLive'
    BY <2>1, <2>2, CallsAssumption DEF IInv, InflightLive, CallsTyped, AtWork
  <2> QED
    BY <2>2, <2>3, <2>4 DEF IInv
<1>3. ASSUME NEW c \in Calls, CheckLimits(c) PROVE IInv'
  <2>1. CASE Settle(c, Error)
    BY <1>3, <2>1, SettleStep DEF CheckLimits, AtWork, store, table
  <2>2. CASE pc' = [pc EXCEPT ![c] = "agents"] /\ UNCHANGED inflight
    <3>1. pc[c] = "checks" /\ UNCHANGED createOps
      BY <1>3 DEF CheckLimits, store, table
    <3>2. CallsTyped' /\ \A d \in Calls : AtWork(d)' <=> AtWork(d)
      BY <2>2, <3>1 DEF IInv, CallsTyped, AtWork
    <3>3. FlightHeld' /\ NotYetRecorded' /\ CreatedOnce'
      BY <2>2, <3>1, <3>2 DEF IInv, FlightHeld, NotYetRecorded, CreatedOnce, Recorded
    <3>4. InflightLive'
      BY <2>2, <3>1, <3>2, CallsAssumption DEF IInv, InflightLive, CallsTyped, AtWork
    <3> QED
      BY <3>2, <3>3, <3>4 DEF IInv
  <2> QED
    BY <1>3, <2>1, <2>2 DEF CheckLimits
<1>4. ASSUME NEW c \in Calls, RecordTask(c) PROVE IInv'
  BY <1>4, SettleStep DEF RecordTask, Remember, AtWork
<1>5. ASSUME NEW c \in Calls, AgentMissing(c) PROVE IInv'
  BY <1>5, SettleStep DEF AgentMissing, AtWork, store, table
<1>6. ASSUME NEW c \in Calls, RunFails(c) \/ RunRestarts(c) \/ RunSettles(c) PROVE IInv'
  BY <1>6, TableStep DEF RunFails, RunRestarts, RunSettles, table
<1>7. ASSUME NEW c \in Calls, DeleteTask(c) PROVE IInv'
  BY <1>7, TableStep DEF DeleteTask
<1>8. CASE Crash
  BY <1>8, CrashStep
<1>9. CASE UNCHANGED vars
  BY <1>9, TableStep DEF vars, store, table
<1> QED
  BY <1>1, <1>2, <1>3, <1>4, <1>5, <1>6, <1>7, <1>8, <1>9 DEF Next, CreateStep

\* The table of recent opIds names one task for an opId (createOps, createInflight).
THEOREM OneTaskPerOp == Spec => []CreatedOnce
<1>1. IInv => CreatedOnce
  BY DEF IInv
<1> QED
  BY <1>1, InitIInv, IInvStep, PTL DEF Spec

\* No error, and no restart, leaves an opId in flight (finally in createEntry).
THEOREM FlightsEnd == Spec => []InflightLive
<1>1. IInv => InflightLive
  BY DEF IInv
<1> QED
  BY <1>1, InitIInv, IInvStep, PTL DEF Spec
=============================================================================
