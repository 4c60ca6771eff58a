---------------------------- MODULE Connection_proofs ----------------------------
(***************************************************************************)
(* Two threads, any number of losses, and conn_state alone to keep them    *)
(* apart: MQTTClient_connect is never called twice at once, nor on a live  *)
(* link.                                                                   *)
(***************************************************************************)
EXTENDS Connection, TLAPS

\* Until the application's own connect has returned nothing can have been lost, so
\* that conn_state keeps the reconnect thread in its poll.
Beginning ==
    /\ pc["app"] \in {"start", "initialize", "connect"} =>
          /\ ~linked /\ losses = 0
          /\ conn_state = "NO_CONNECT"
          /\ \A n \in Losses : lost[n] = "unused"
    /\ pc["app"] \in {"start", "initialize"} => pc["reconnect"] = "none"
    /\ pc["app"] = "connect" => pc["reconnect"] = "poll"

IInv ==
    /\ TypeOK
    /\ pc = [t \in Threads |-> pc[t]]
    /\ Beginning
    /\ pc["reconnect"] = "connect" => ~linked
--------------------------------------------------------------------------------
LEMMA InitIInv == Init => IInv
<1> SUFFICES ASSUME Init PROVE IInv OBVIOUS
<1>1. lost \in [Losses -> {"unused", "state", "status", "losted", "done"}]
  BY DEF Init
<1>2. losses \in 0 .. MaxLosses BY ConstantsAssumption DEF Init
<1> QED BY <1>1, <1>2 DEF Init, IInv, TypeOK, Beginning, AtWork, Threads

LEMMA Bound == IInv => OneConnect
BY DEF IInv, Beginning, OneConnect, Threads

LEMMA AppStep == ASSUME IInv, App PROVE IInv'
<1> USE DEF IInv, TypeOK, Beginning, AtWork, Threads, Goto
<1>1. CASE RegisterInterface BY <1>1 DEF RegisterInterface
<1>2. CASE Initialize BY <1>2 DEF Initialize
<1>3. CASE ConnectOk("app") BY <1>3 DEF ConnectOk
<1>4. CASE ConnectFails("app") BY <1>4 DEF ConnectFails
<1>5. CASE SetConnected("app") BY <1>5 DEF SetConnected
<1>6. CASE SetOnline("app") BY <1>6 DEF SetOnline
<1>7. CASE TestLosted("app") BY <1>7 DEF TestLosted
<1>8. CASE ClearLosted("app") BY <1>8 DEF ClearLosted
<1>9. CASE Register("app", "reregister", "clear") BY <1>9 DEF Register
<1>10. CASE Register("app", "register", "running") BY <1>10 DEF Register
<1> QED BY <1>1, <1>2, <1>3, <1>4, <1>5, <1>6, <1>7, <1>8, <1>9, <1>10 DEF App

LEMMA ReconnectStep == ASSUME IInv, Reconnect PROVE IInv'
<1> USE DEF IInv, TypeOK, Beginning, AtWork, Threads, Goto
<1>1. CASE Poll BY <1>1 DEF Poll, Lost
<1>2. CASE IsConnected BY <1>2 DEF IsConnected
<1>3. CASE ConnectOk("reconnect") BY <1>3 DEF ConnectOk
<1>4. CASE ConnectFails("reconnect") BY <1>4 DEF ConnectFails
<1>5. CASE SetConnected("reconnect") BY <1>5 DEF SetConnected
<1>6. CASE SetOnline("reconnect") BY <1>6 DEF SetOnline
<1>7. CASE TestLosted("reconnect") BY <1>7 DEF TestLosted
<1>8. CASE ClearLosted("reconnect") BY <1>8 DEF ClearLosted
<1>9. CASE Register("reconnect", "reregister", "clear") BY <1>9 DEF Register
<1> QED BY <1>1, <1>2, <1>3, <1>4, <1>5, <1>6, <1>7, <1>8, <1>9 DEF Reconnect

LEMMA NetworkStep ==
    ASSUME IInv, Drop \/ \E n \in Losses : LostCallback(n)
    PROVE  IInv'
<1> USE DEF IInv, TypeOK, Beginning, AtWork, Threads
<1>1. CASE Drop
  <2>1. losses' \in 0 .. MaxLosses BY <1>1, ConstantsAssumption DEF Drop
  <2>2. lost' \in [Losses -> {"unused", "state", "status", "losted", "done"}]
    BY <1>1 DEF Drop
  <2>3. pc["app"] \notin {"start", "initialize", "connect"} BY <1>1 DEF Drop
  <2> QED BY <1>1, <2>1, <2>2, <2>3 DEF Drop
<1>2. ASSUME NEW n \in Losses, LostState(n) PROVE IInv' BY <1>2 DEF LostState
<1>3. ASSUME NEW n \in Losses, LostStatus(n) PROVE IInv' BY <1>3 DEF LostStatus
<1>4. ASSUME NEW n \in Losses, LostLosted(n) PROVE IInv'
  BY <1>4, ConstantsAssumption DEF LostLosted
<1> QED BY <1>1, <1>2, <1>3, <1>4 DEF LostCallback

LEMMA NextIInv == IInv /\ [Next]_vars => IInv'
<1> SUFFICES ASSUME IInv, [Next]_vars PROVE IInv' OBVIOUS
<1>1. CASE UNCHANGED vars
  BY <1>1 DEF vars, IInv, TypeOK, Beginning
<1> QED BY <1>1, AppStep, ReconnectStep, NetworkStep DEF Next

\* Every reachable state satisfies the inductive invariant.
THEOREM Invariant == Spec => []IInv
BY InitIInv, NextIInv, PTL DEF Spec

\* The shared flags keep their values, whatever is lost and whenever.
THEOREM TypeCorrect == Spec => []TypeOK
<1>1. IInv => TypeOK BY DEF IInv
<1> QED BY <1>1, Invariant, PTL

\* The application and the reconnect thread never connect at once nor on a live link,
\* for any number of losses.
THEOREM NeverTwice == Spec => []OneConnect
BY Invariant, Bound, PTL
================================================================================
