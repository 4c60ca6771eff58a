-------------------------------- MODULE Mosquitto --------------------------------
(***************************************************************************)
(* The other carrier, MosquittoCarrier.c with the topic list of topic.c,   *)
(* under WISECore.c and wiseagentlite.c.                                   *)
(*                                                                         *)
(* Two threads: "app" calls WiCar_MQTT_Connect, registers the gateway and  *)
(* then subscribes from call to call; "loop" is the library's network      *)
(* thread, which runs the callbacks one at a time, and in them the         *)
(* registration after a loss.  _connect waits for the broker by locking    *)
(* g_connect_mutex twice; on_connect_callback unlocks it and sets          *)
(* g_connect_mutex_p to NULL.  Nothing guards the topic list.              *)
(*                                                                         *)
(* The session is clean: the broker keeps no subscription across a loss.   *)
(* What the library does with the network is external to the code.         *)
(***************************************************************************)
EXTENDS Naturals, SequencesExt

CONSTANTS
    ServerTopics,     \* the topics core_device_register subscribes to, in order
    SensorTopic       \* the one WiseSnail_RegisterSensor adds

ASSUME TopicsAssumption == ServerTopics \in Seq(STRING) /\ SensorTopic \in STRING

VARIABLES
    link,         \* "down", "asked" (CONNECT sent), "up", "lost" (not yet noticed)
    held,         \* g_connect_mutex is locked
    mutexp,       \* g_connect_mutex_p is not NULL
    result,       \* what mosquitto_connect returned
    pc,           \* where the two threads are
    todo,         \* thread |-> the steps of the core_... functions it is in
    last,         \* thread |-> the list that ends with the entry topic_last found
    topics,       \* pSubscribeTopics: entries, with the thread that made them
    online,       \* g_tHandleCtx.iStatus = core_online
    gLosted,
    subscribed,   \* the topics the broker has in this session
    announced,    \* ghost: the gateway's message reached this session
    accepted,     \* ghost: the broker has accepted a session
    raced,        \* ghost: both threads were inside topic_add at once
    crashed

mutex == <<held, mutexp, result, accepted>>
list == <<topics, last, raced>>
flags == <<online, gLosted>>
broker == <<subscribed, announced>>
vars == <<link, mutex, pc, todo, list, flags, broker, crashed>>

Threads == {"app", "loop"}
Topics == ToSet(ServerTopics) \cup {SensorTopic}

Step(do, arg) == [do |-> do, arg |-> arg]
Subscribe(topic) == Step("find", topic)
DeviceRegister ==
    <<Step("test", "online")>>
      \o [n \in DOMAIN ServerTopics |-> Subscribe(ServerTopics[n])]
      \o <<Step("announce", "online")>>
SubscribeSensor == <<Subscribe(SensorTopic)>>

Init ==
    /\ link = "down" /\ held = FALSE /\ mutexp = TRUE /\ result = "none"
    /\ pc = [t \in Threads |-> IF t = "app" THEN "lock" ELSE "idle"]
    /\ todo = [t \in Threads |-> << >>]
    /\ topics = << >> /\ last = [t \in Threads |-> << >>] /\ raced = FALSE
    /\ online = FALSE /\ gLosted = FALSE
    /\ subscribed = {} /\ announced = FALSE
    /\ accepted = FALSE /\ crashed = FALSE

Goto(t, from, to) == ~crashed /\ pc[t] = from /\ pc' = [pc EXCEPT ![t] = to]
--------------------------------------------------------------------------------
(* _connect, on the application's thread.                                  *)

FirstLock ==
    /\ Goto("app", "lock", "connect")
    /\ held' = TRUE
    /\ UNCHANGED <<link, mutexp, result, accepted, todo, list, flags, broker, crashed>>

\* mosquitto_connect; when it fails the loop thread tries again by itself.
MosquittoConnect ==
    /\ Goto("app", "connect", "test")
    /\ \/ result' = "success" /\ link' = "asked"
       \/ result' = "error" /\ UNCHANGED link
    /\ UNCHANGED <<held, mutexp, accepted, todo, list, flags, broker, crashed>>

TestMutexNever ==                              \* faulty: no second lock
    /\ Goto("app", "test", "return")
    /\ UNCHANGED <<link, mutex, todo, list, flags, broker, crashed>>
TestMutex ==
    /\ Goto("app", "test", IF mutexp THEN "load" ELSE "return")
    /\ UNCHANGED <<link, mutex, todo, list, flags, broker, crashed>>

\* g_connect_mutex_p may be read again, and be NULL by now.
LoadMutex ==
    /\ Goto("app", "load", "wait")
    /\ crashed' \in {FALSE, ~mutexp}
    /\ UNCHANGED <<link, mutex, todo, list, flags, broker>>

SecondLock ==
    /\ Goto("app", "wait", "return")
    /\ ~held
    /\ held' = TRUE
    /\ UNCHANGED <<link, mutexp, result, accepted, todo, list, flags, broker, crashed>>

\* The application ends when the connection is reported to have failed.
Return ==
    /\ Goto("app", "return", IF result = "success" THEN "run" ELSE "ended")
    /\ todo' = [todo EXCEPT !["app"] = IF result = "success" THEN DeviceRegister ELSE << >>]
    /\ UNCHANGED <<link, mutex, list, flags, broker, crashed>>

\* Later calls: the server asks for a registration, a sensor is registered.
Call ==
    /\ Goto("app", "run", "run")
    /\ todo["app"] = << >>
    /\ \E call \in {DeviceRegister, SubscribeSensor} : todo' = [todo EXCEPT !["app"] = call]
    /\ UNCHANGED <<link, mutex, list, flags, broker, crashed>>
--------------------------------------------------------------------------------
(* core_device_register and WiCar_MQTT_Subscribe, on either thread.        *)

At(t, do) == todo[t] # << >> /\ Head(todo[t]).do = do
Do(t, do) == ~crashed /\ At(t, do)
Arg(t) == Head(todo[t]).arg
Done(t) == todo' = [todo EXCEPT ![t] = Tail(@)]
Become(t, do) == todo' = [todo EXCEPT ![t] = <<Step(do, Arg(t))>> \o Tail(@)]

TestOnline(t) ==
    /\ Do(t, "test")
    /\ todo' = [todo EXCEPT ![t] = IF online THEN Tail(@) ELSE << >>]
    /\ UNCHANGED <<link, mutex, pc, list, flags, broker, crashed>>

\* topic_find: the callback a message on the topic is given to.
Found(topic) == \E entry \in ToSet(topics) : entry.topic = topic

FindTopicNever(t) ==                           \* faulty: a new entry every time
    /\ Do(t, "find")
    /\ Become(t, "send")
    /\ UNCHANGED <<link, mutex, pc, list, flags, broker, crashed>>
\* A topic in the list is not subscribed to again; only its callback is replaced.
FindTopic(t) ==
    /\ Do(t, "find")
    /\ IF Found(Arg(t)) THEN Done(t) ELSE Become(t, "send")
    /\ UNCHANGED <<link, mutex, pc, list, flags, broker, crashed>>

\* mosquitto_subscribe needs a socket, not a broker at its other end.
SendSubscribe(t) ==
    /\ Do(t, "send")
    /\ \/ link # "down" /\ Become(t, "last")
       \/ link \in {"down", "lost"} /\ Done(t)
    /\ subscribed' = IF link \in {"asked", "up"} THEN subscribed \cup {Arg(t)} ELSE subscribed
    /\ UNCHANGED <<link, mutex, pc, list, flags, announced, crashed>>

Other(t) == IF t = "app" THEN "loop" ELSE "app"

\* topic_add: topic_last, then the store of the new entry behind it, which cuts off
\* what has been added since, or is lost when the last entry was cut off itself.
FindLast(t) ==
    /\ Do(t, "last")
    /\ last' = [last EXCEPT ![t] = topics]
    /\ raced' = (raced \/ At(Other(t), "append"))
    /\ Become(t, "append")
    /\ UNCHANGED <<link, mutex, pc, topics, flags, broker, crashed>>

Entry(t) == [topic |-> Arg(t), by |-> t]
AppendHead(t) == <<Entry(t)>>                  \* faulty: the list begun anew
AppendTopic(t) == IF IsPrefix(last[t], topics) THEN Append(last[t], Entry(t)) ELSE topics

AddTopic(t) ==
    /\ Do(t, "append")
    /\ topics' = AppendTopic(t)
    /\ last' = [last EXCEPT ![t] = << >>]
    /\ Done(t)
    /\ UNCHANGED <<link, mutex, pc, raced, flags, broker, crashed>>

Announce(t) ==
    /\ Do(t, "announce")
    /\ announced' = (announced \/ link \in {"asked", "up"})
    /\ Done(t)
    /\ UNCHANGED <<link, mutex, pc, list, flags, subscribed, crashed>>

Core(t) ==
    \/ TestOnline(t) \/ FindTopic(t) \/ SendSubscribe(t)
    \/ FindLast(t) \/ AddTopic(t) \/ Announce(t)
--------------------------------------------------------------------------------
(* The loop thread: connections, and the callbacks.                        *)

Idle == ~crashed /\ pc["loop"] = "idle"

\* A CONNECT with a clean session.
Ask == link' = "asked" /\ subscribed' = {} /\ announced' = FALSE

\* The library tries again by itself, too, and may drop the attempt of a callback for its own.
Retry ==
    /\ Idle /\ link \in {"down", "asked"}
    /\ pc["app"] \notin {"lock", "connect"}
    /\ Ask
    /\ UNCHANGED <<mutex, pc, todo, list, flags, crashed>>

\* on_connect_callback with rc = 0.
Accept ==
    /\ Goto("loop", "idle", "status")
    /\ link = "asked"
    /\ link' = "up" /\ accepted' = TRUE
    /\ UNCHANGED <<held, mutexp, result, todo, list, flags, broker, crashed>>

\* on_connect_callback with rc # 0, or on_disconnect_callback with rc # 0: before anybody is
\* told, mosquitto_reconnect_async asks for the next session, or fails to.
LostCallback ==
    /\ Goto("loop", "idle", "offline")
    /\ link \in {"asked", "lost"}
    /\ Ask \/ (link' = "down" /\ UNCHANGED broker)
    /\ UNCHANGED <<mutex, todo, list, flags, crashed>>

\* _on_lostconnect_cb, and on_lostconnect_cb after it.
SetOffline ==
    /\ Goto("loop", "offline", "losted")
    /\ online' = FALSE
    /\ UNCHANGED <<link, mutex, todo, list, gLosted, broker, crashed>>

SetLosted ==
    /\ Goto("loop", "losted", "idle")
    /\ gLosted' = TRUE
    /\ UNCHANGED <<link, mutex, todo, list, online, broker, crashed>>

ReregisterNever == << >>                       \* faulty: gLosted looked at by nobody
Reregister == IF gLosted THEN DeviceRegister ELSE << >>

\* _on_connect_cb and on_connect_cb.
SetOnline ==
    /\ Goto("loop", "status", "core")
    /\ online' = TRUE
    /\ todo' = [todo EXCEPT !["loop"] = Reregister]
    /\ UNCHANGED <<link, mutex, list, gLosted, broker, crashed>>

ClearLosted ==
    /\ Goto("loop", "core", "unlock")
    /\ todo["loop"] = << >>
    /\ gLosted' = FALSE
    /\ UNCHANGED <<link, mutex, todo, list, online, broker, crashed>>

UnlockNot ==                                   \* faulty: only the pointer is reset
    /\ Goto("loop", "unlock", IF mutexp THEN "null" ELSE "idle")
    /\ UNCHANGED <<link, mutex, todo, list, flags, broker, crashed>>
Unlock ==
    /\ Goto("loop", "unlock", IF mutexp THEN "null" ELSE "idle")
    /\ held' = (held /\ ~mutexp)
    /\ UNCHANGED <<link, mutexp, result, accepted, todo, list, flags, broker, crashed>>

ResetMutexp ==
    /\ Goto("loop", "null", "idle")
    /\ mutexp' = FALSE
    /\ UNCHANGED <<link, held, result, accepted, todo, list, flags, broker, crashed>>

\* The network.
Lose ==
    /\ ~crashed /\ link \in {"asked", "up"}
    /\ link' = "lost"
    /\ UNCHANGED <<mutex, pc, todo, list, flags, broker, crashed>>

App ==
    \/ FirstLock \/ MosquittoConnect \/ TestMutex \/ LoadMutex \/ SecondLock \/ Return
    \/ Core("app")
Callbacks ==
    \/ SetOffline \/ SetLosted \/ SetOnline \/ ClearLosted \/ Unlock \/ ResetMutexp
    \/ Core("loop")

Next == App \/ Call \/ Callbacks \/ Retry \/ Accept \/ LostCallback \/ Lose

\* Threads make progress.  The broker does not refuse for ever, nor does the network for
\* ever lose the CONNECT before the callback that asked for it has returned.
Spec ==
    /\ Init /\ [][Next]_vars
    /\ WF_vars(App) /\ WF_vars(Callbacks) /\ WF_vars(Retry) /\ WF_vars(LostCallback)
    /\ SF_vars(Accept)
    /\ SF_vars(SetOffline /\ link = "asked") /\ SF_vars(SetLosted /\ link = "asked")
--------------------------------------------------------------------------------
Steps == {"test", "find", "send", "last", "append", "announce"}

\* Every variable keeps its type, and however often the topics are subscribed to the
\* list holds each at most once for each thread that did not find it.
TypeOK ==
    /\ link \in {"down", "asked", "up", "lost"}
    /\ held \in BOOLEAN /\ mutexp \in BOOLEAN /\ accepted \in BOOLEAN /\ crashed \in BOOLEAN
    /\ result \in {"none", "success", "error"}
    /\ pc["app"] \in {"lock", "connect", "test", "load", "wait", "return", "run", "ended"}
    /\ pc["loop"] \in {"idle", "status", "core", "unlock", "null", "offline", "losted"}
    /\ \A t \in Threads : todo[t] \in Seq([do : Steps, arg : Topics \cup {"online"}])
    /\ topics \in Seq([topic : Topics, by : Threads]) /\ IsInjective(topics)
    /\ last \in [Threads -> Seq([topic : Topics, by : Threads])]
    /\ online \in BOOLEAN /\ gLosted \in BOOLEAN /\ raced \in BOOLEAN
    /\ subscribed \subseteq Topics /\ announced \in BOOLEAN

\* WiCar_MQTT_Connect comes back only after the broker has accepted a session, and
\* it does so for the value false, too: a failed mosquitto_connect waits for the retry.
ReturnsAccepted == pc["app"] \in {"return", "run", "ended"} => accepted

\* Whatever topic the broker knows of has its entry, so that on_message_recv_callback
\* finds the callback for its messages, but for a topic that is just being added:
\* unless both threads add one at the same time.
HasItsCallback ==
    ~raced => \A x \in subscribed :
                Found(x) \/ \E t \in Threads : (At(t, "last") \/ At(t, "append")) /\ Arg(t) = x

\* A gateway that is connected and at rest is known to the server, by the
\* application's registration or by the one of the loop thread after a loss.
Announced ==
    link = "up" /\ pc["loop"] = "idle" /\ pc["app"] = "run" /\ todo["app"] = << >> => announced

\* The application does not wait for ever: once the broker accepts, the second lock of
\* _connect is given to it, whatever was refused or lost before.
ConnectReturns == (pc["app"] = "wait" /\ ~crashed) ~> (pc["app"] = "return")

\* WiseCarrier_MQTT.h on WiCar_MQTT_Subscribe: "Subscribe a topic and recieve messages
\* from assigned callback function."  A topic it returned true for is subscribed to.
FoundIt(t) == At(t, "find") /\ todo'[t] = Tail(todo[t])
SubscribeSubscribes ==
    [][\A t \in Threads : FoundIt(t) /\ link = "up" => Arg(t) \in subscribed]_vars
================================================================================
