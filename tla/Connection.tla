------------------------------- MODULE Connection -------------------------------
(***************************************************************************)
(* How the gateway gets its connection to the broker and gets it back.     *)
(*                                                                         *)
(* Three kinds of threads, without a lock between them:                    *)
(*   "app"        WiseSnail_RegisterInterface and WiseSnail_Connect;       *)
(*   "reconnect"  ReconnectThreadStart of PahoCarrier.c, which polls       *)
(*                conn_state every three seconds;                          *)
(*   one thread of the MQTT client per loss, which runs lostconnect_       *)
(*                callback down through WISECore.c to on_lostconnect_cb.   *)
(* "app" and "reconnect" both run connect_callback after they connected.   *)
(* The session is clean: with the link the broker forgets the              *)
(* subscriptions and the gateway counts as gone.                           *)
(*                                                                         *)
(* The application calls WiseSnail_Connect once.  When that call fails, it *)
(* may end the process as sample/test.c does, or stay, and the reconnect   *)
(* thread goes on alone.                                                   *)
(***************************************************************************)
EXTENDS Naturals, FiniteSets

CONSTANTS
    OnLost,       \* whether on_lost_connect is set (on_lostconnect_cb) or NULL
    MaxLosses     \* bound: how often the network drops the link

ASSUME ConstantsAssumption == OnLost \in BOOLEAN /\ MaxLosses \in Nat

VARIABLES
    linked,      \* MQTTClient_isConnected(client)
    losses,      \* ghost: links lost so far
    conn_state,
    iStatus,     \* g_tHandleCtx.iStatus
    gLosted,
    pc,          \* where "app" and "reconnect" are
    lost,        \* where the callback of each loss is
    registered   \* ghost: this link carries the gateway's subscriptions and message

vars == <<linked, losses, conn_state, iStatus, gLosted, pc, lost,
          registered>>

Threads == {"app", "reconnect"}
Losses == 1 .. MaxLosses

Init ==
    /\ linked = FALSE /\ losses = 0
    /\ conn_state = "NO_CONNECT"
    /\ iStatus = "offline" /\ gLosted = FALSE
    /\ pc = [t \in Threads |-> IF t = "app" THEN "start" ELSE "none"]
    /\ lost = [n \in Losses |-> "unused"]
    /\ registered = FALSE

Goto(t, from, to) == pc[t] = from /\ pc' = [pc EXCEPT ![t] = to]
--------------------------------------------------------------------------------
(* WiseAgent_RegisterInterface: core_subscribe comes too early and fails.  *)
RegisterInterface ==
    /\ Goto("app", "start", "initialize")
    /\ UNCHANGED <<linked, losses, conn_state, iStatus, gLosted, lost, registered>>

(* WiseAgent_ConnectBySSL: core_initialize, which starts the reconnect     *)
(* thread in WiCar_MQTT_Init, then the callbacks, then core_connect.       *)
InitLost ==                                    \* faulty: the thread may act at once
    /\ pc["app"] = "initialize"
    /\ pc' = [t \in Threads |-> IF t = "app" THEN "connect" ELSE "poll"]
    /\ conn_state' = "FIRST_LOST"
    /\ UNCHANGED <<linked, losses, iStatus, gLosted, lost, registered>>

Initialize ==
    /\ pc["app"] = "initialize"
    /\ pc' = [t \in Threads |-> IF t = "app" THEN "connect" ELSE "poll"]
    /\ conn_state' = "NO_CONNECT"
    /\ UNCHANGED <<linked, losses, iStatus, gLosted, lost, registered>>

(* MQTTClient_connect, by either thread.                                   *)
ConnectOk(t) ==
    /\ Goto(t, "connect", "state")
    /\ linked' = TRUE
    /\ UNCHANGED <<losses, conn_state, iStatus, gLosted, lost, registered>>

ConnectFails(t) ==
    /\ Goto(t, "connect", IF t = "app" THEN "failed" ELSE "poll")
    /\ conn_state' = IF t = "app" THEN "FIRST_LOST" ELSE "FURTHER_LOST"
    /\ UNCHANGED <<linked, losses, iStatus, gLosted, lost, registered>>

SetConnected(t) ==
    /\ Goto(t, "state", "status")
    /\ conn_state' = "CONNECT"
    /\ UNCHANGED <<linked, losses, iStatus, gLosted, lost, registered>>

(* connect_callback -> _on_connect_cb -> on_connect_cb.                    *)
SetOnline(t) ==
    /\ Goto(t, "status", "losted")
    /\ iStatus' = "online"
    /\ UNCHANGED <<linked, losses, conn_state, gLosted, lost, registered>>

TestLostedInverted(t) ==                       \* faulty: first connections only
    /\ Goto(t, "losted", IF gLosted THEN "clear" ELSE "reregister")
    /\ UNCHANGED <<linked, losses, conn_state, iStatus, gLosted, lost,
                   registered>>

TestLosted(t) ==
    /\ Goto(t, "losted", IF gLosted THEN "reregister" ELSE "clear")
    /\ UNCHANGED <<linked, losses, conn_state, iStatus, gLosted, lost,
                   registered>>

\* core_device_register and core_platform_register: nothing while offline, and
\* nothing reaches a broker that is not there.
Register(t, from, to) ==
    /\ Goto(t, from, to)
    /\ registered' = (registered \/ (iStatus = "online" /\ linked))
    /\ UNCHANGED <<linked, losses, conn_state, iStatus, gLosted, lost>>

ClearLostedAlike(t) ==                         \* faulty: both go on as the application
    /\ Goto(t, "clear", "register")
    /\ gLosted' = FALSE
    /\ UNCHANGED <<linked, losses, conn_state, iStatus, lost, registered>>

ClearLosted(t) ==
    /\ Goto(t, "clear", IF t = "app" THEN "register" ELSE "poll")
    /\ gLosted' = FALSE
    /\ UNCHANGED <<linked, losses, conn_state, iStatus, lost, registered>>

App ==
    \/ RegisterInterface \/ Initialize
    \/ ConnectOk("app") \/ ConnectFails("app") \/ SetConnected("app")
    \/ SetOnline("app") \/ TestLosted("app") \/ ClearLosted("app")
    \/ Register("app", "reregister", "clear") \/ Register("app", "register", "running")
--------------------------------------------------------------------------------
(* ReconnectThreadStart.                                                   *)

Lost == conn_state \in {"FIRST_LOST", "FURTHER_LOST"}

Poll ==
    /\ Goto("reconnect", "poll", "check")
    /\ Lost
    /\ UNCHANGED <<linked, losses, conn_state, iStatus, gLosted, lost,
                   registered>>

IsConnected ==
    /\ Goto("reconnect", "check", IF linked THEN "poll" ELSE "connect")
    /\ UNCHANGED <<linked, losses, conn_state, iStatus, gLosted, lost,
                   registered>>

Reconnect ==
    \/ Poll \/ IsConnected
    \/ ConnectOk("reconnect") \/ ConnectFails("reconnect") \/ SetConnected("reconnect")
    \/ SetOnline("reconnect") \/ TestLosted("reconnect") \/ ClearLosted("reconnect")
    \/ Register("reconnect", "reregister", "clear")
--------------------------------------------------------------------------------
(* The network, and the client's thread for each loss.                     *)

Drop ==
    /\ linked
    /\ losses < MaxLosses
    /\ linked' = FALSE
    /\ losses' = losses + 1
    /\ registered' = FALSE
    /\ lost' = [lost EXCEPT ![losses + 1] = "state"]
    /\ UNCHANGED <<conn_state, iStatus, gLosted, pc>>

LostState(n) ==
    /\ lost[n] = "state"
    /\ lost' = [lost EXCEPT ![n] = "status"]
    /\ conn_state' = "FURTHER_LOST"
    /\ UNCHANGED <<linked, losses, iStatus, gLosted, pc, registered>>

LostStatus(n) ==
    /\ lost[n] = "status"
    /\ lost' = [lost EXCEPT ![n] = "losted"]
    /\ iStatus' = "offline"
    /\ UNCHANGED <<linked, losses, conn_state, gLosted, pc, registered>>

LostLosted(n) ==
    /\ lost[n] = "losted"
    /\ lost' = [lost EXCEPT ![n] = "done"]
    /\ gLosted' = (gLosted \/ OnLost)
    /\ UNCHANGED <<linked, losses, conn_state, iStatus, pc, registered>>

LostCallback(n) == LostState(n) \/ LostStatus(n) \/ LostLosted(n)

Next == App \/ Reconnect \/ Drop \/ \E n \in Losses : LostCallback(n)

\* Threads make progress, and the broker does not refuse for ever.
Spec ==
    /\ Init /\ [][Next]_vars
    /\ WF_vars(App) /\ WF_vars(Reconnect) /\ SF_vars(ConnectOk("reconnect"))
    /\ \A n \in Losses : WF_vars(LostCallback(n))
--------------------------------------------------------------------------------
AtWork == {"connect", "state", "status", "losted", "reregister", "clear"}

\* Every variable keeps its type.
TypeOK ==
    /\ linked \in BOOLEAN /\ gLosted \in BOOLEAN
    /\ registered \in BOOLEAN
    /\ losses \in 0 .. MaxLosses
    /\ conn_state \in {"NO_CONNECT", "FIRST_LOST", "FURTHER_LOST", "CONNECT"}
    /\ iStatus \in {"online", "offline"}
    /\ pc["app"] \in AtWork \cup {"start", "initialize", "register", "running", "failed"}
    /\ pc["reconnect"] \in AtWork \cup {"none", "poll", "check"}
    /\ lost \in [Losses -> {"unused", "state", "status", "losted", "done"}]

\* MQTTClient_connect runs in one thread at a time and never on a live link, with
\* conn_state as the only thing the application and the reconnect thread share.
OneConnect ==
    /\ ~(pc["app"] = "connect" /\ pc["reconnect"] = "connect")
    /\ \A t \in Threads : pc[t] = "connect" => ~linked

\* No callback is under way and both threads are where a loss should find them.
Quiet ==
    /\ pc["app"] = "running" /\ pc["reconnect"] = "poll"
    /\ \A n \in Losses : lost[n] \in {"unused", "done"}

\* A loss that is reported before the next connection is made is repaired: the
\* gateway is connected, online and registered again, unless the link is lost
\* once more.
Repaired ==
    \A n \in Losses :
        (Quiet /\ ~linked /\ gLosted /\ Lost /\ losses = n)
            ~> (losses > n \/ (linked /\ registered /\ iStatus = "online"))

\* WISECore.h on on_lost_connect: "The SAClient will reconnect automatically, if
\* left as NULL."
ReconnectsAutomatically == (pc["app"] = "running" /\ ~linked) ~> linked
================================================================================
