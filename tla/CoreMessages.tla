------------------------------ MODULE CoreMessages ------------------------------
(***************************************************************************)
(* The buffers WISECore.c and PahoCarrier.c build messages in.             *)
(*                                                                         *)
(* strPayloadBuff and strTopicBuff belong to all functions of WISECore.c,  *)
(* pubmsg to all calls of WiCar_MQTT_Publish, and no lock guards any of    *)
(* them.  Two threads use them: "app", which calls the core_... functions  *)
(* one at a time (the API mutex), and "reconnect", which registers the     *)
(* gateway again after it got a lost connection back.  The will options    *)
(* point into the same buffers.                                            *)
(*                                                                         *)
(* A function is the sequence of steps between which the other thread may  *)
(* run; a thread has a sequence of functions to go through.  The network   *)
(* may drop the link at any time; how conn_state and the status follow it  *)
(* is the subject of module Connection, here they follow at once.          *)
(***************************************************************************)
EXTENDS Naturals, Sequences

CONSTANT Own       \* the application's messages, with topics of their own

VARIABLES
    link,          \* the broker has a session of the gateway
    online,        \* g_tHandleCtx.iStatus = core_online
    topicBuff, payloadBuff,
    pubmsg,        \* the payload pubmsg points to
    todo,          \* thread |-> the functions it has to go through
    done,          \* thread |-> how many steps of the first of them are done
    will,          \* is this session's will the message core_connect meant
    subscribed,    \* the topics of this session
    out,           \* ghost: the message the last step published
    opened,        \* conn_state has left NO_CONNECT
    overlapped     \* ghost: both threads have been at work at once in this session

buffers == <<topicBuff, payloadBuff, pubmsg>>
session == <<link, online, will, subscribed, opened>>
work == <<todo, done>>
vars == <<buffers, session, work, out, overlapped>>

Threads == {"app", "reconnect"}
Nothing == "nothing"
Buffer == "buffer"       \* a pointer to strTopicBuff or strPayloadBuff

Message(topic, payload) == [topic |-> topic, payload |-> payload]
Silence == Message(Nothing, Nothing)

\* The application has neither the topic nor the text of the will, and its
\* messages are in its own memory.
ASSUME OwnAssumption ==
    \A m \in Own : /\ m = Message(m.topic, m.payload)
                   /\ m.topic \notin {"willmessage", Buffer}
                   /\ m.payload \notin {"offline", Buffer}
--------------------------------------------------------------------------------
(* The functions.                                                          *)

Step(do, arg) == [do |-> do, arg |-> arg]

CoreConnect ==
    <<Step("payload", "offline"), Step("topic", "willmessage"), Step("connect", Buffer)>>

FormatAndPublishBare(payload, topic) ==       \* faulty: topic left as it was
    <<Step("test", Nothing), Step("payload", payload),
      Step("pubmsg", Buffer), Step("send", Buffer)>>
FormatAndPublish(payload, topic) ==
    <<Step("test", Nothing), Step("payload", payload), Step("topic", topic),
      Step("pubmsg", Buffer), Step("send", Buffer)>>

SendAgentConnect == FormatAndPublish("online", "agentinfoack")
DeviceRegister ==
    <<Step("test", Nothing),
      Step("topic", "agentcallbackreq"), Step("subscribe", Buffer),
      Step("topic", "agentactionack"), Step("subscribe", Buffer),
      Step("subscribe", "agentctrl")>> \o SendAgentConnect
PlatformRegister == FormatAndPublish("osInfo", "agentactionreq")
HeartbeatSend == FormatAndPublish("hb", "notify")
\* core_action_response and core_heartbeatratequery_response.
Response == FormatAndPublish("result", "agentactionreq")

\* With the caller's own topic and message.
CorePublish(m) ==
    <<Step("test", Nothing), Step("pubmsg", m.payload), Step("send", m.topic)>>

\* What the application's thread does between two returns of the API.
Calls ==
    {<<HeartbeatSend>>, <<Response>>,
     <<DeviceRegister>>}                      \* a reconnect request of the server
    \cup {<<CorePublish(m)>> : m \in Own}
    \cup {<<PlatformRegister, CorePublish(m)>> : m \in Own}     \* a capability request

Init ==
    /\ link = FALSE /\ online = FALSE /\ opened = FALSE
    /\ topicBuff = Nothing /\ payloadBuff = Nothing
    /\ pubmsg = Nothing
    /\ \E m \in Own :
          todo = [t \in Threads |->
                    IF t = "app"
                      THEN <<CoreConnect, DeviceRegister, PlatformRegister, CorePublish(m)>>
                      ELSE << >>]
    /\ done = [t \in Threads |-> 0]
    /\ will = FALSE /\ subscribed = {}
    /\ out = Silence /\ overlapped = FALSE
--------------------------------------------------------------------------------
(* The steps of a thread.                                                  *)

Busy(t) == todo[t] # << >>

\* The step that is next; then to the one behind it, or the next function.
Current(t) == Head(todo[t])[done[t] + 1]
Do(t, do) == Busy(t) /\ Current(t).do = do
Arg(t) == Current(t).arg
Leave(t) ==
    /\ todo' = [todo EXCEPT ![t] = Tail(@)]
    /\ done' = [done EXCEPT ![t] = 0]
GoOn(t) ==
    IF done[t] + 1 = Len(Head(todo[t]))
      THEN Leave(t)
      ELSE done' = [done EXCEPT ![t] = @ + 1] /\ UNCHANGED todo

\* A function returns at once while the gateway is offline.
Test(t) ==
    /\ Do(t, "test")
    /\ IF online THEN GoOn(t) ELSE Leave(t)
    /\ out' = Silence
    /\ UNCHANGED <<buffers, session, overlapped>>

FormatPayload(t) ==
    /\ Do(t, "payload")
    /\ payloadBuff' = Arg(t)
    /\ GoOn(t)
    /\ out' = Silence
    /\ UNCHANGED <<topicBuff, pubmsg, session, overlapped>>

FormatTopic(t) ==
    /\ Do(t, "topic")
    /\ topicBuff' = Arg(t)
    /\ GoOn(t)
    /\ out' = Silence
    /\ UNCHANGED <<payloadBuff, pubmsg, session, overlapped>>

SubscribedBefore(t) == subscribed             \* faulty: result not kept
SubscribedAfter(t) ==
    IF link THEN subscribed \cup {IF Arg(t) = Buffer THEN topicBuff ELSE Arg(t)}
            ELSE subscribed

Subscribe(t) ==
    /\ Do(t, "subscribe")
    /\ subscribed' = SubscribedAfter(t)
    /\ GoOn(t)
    /\ out' = Silence
    /\ UNCHANGED <<buffers, link, online, will, opened, overlapped>>

\* WiCar_MQTT_Publish: pubmsg.payload is the pointer it is given.
FillPubmsg(t) ==
    /\ Do(t, "pubmsg")
    /\ pubmsg' = Arg(t)
    /\ GoOn(t)
    /\ out' = Silence
    /\ UNCHANGED <<topicBuff, payloadBuff, session, overlapped>>

\* MQTTClient_publishMessage reads the topic and pubmsg; it fails without a link.
Publish(t) ==
    /\ Do(t, "send")
    /\ out' = IF link
                THEN Message(IF Arg(t) = Buffer THEN topicBuff ELSE Arg(t),
                             IF pubmsg = Buffer THEN payloadBuff ELSE pubmsg)
                ELSE Silence
    /\ GoOn(t)
    /\ UNCHANGED <<buffers, session, overlapped>>

\* MQTTClient_connect sends what the will options point to now.
OpenSession ==
    /\ link' = TRUE
    /\ online' = TRUE
    /\ will' = (topicBuff = "willmessage" /\ payloadBuff = "offline")
    /\ subscribed' = {}
    /\ out' = Silence
    /\ UNCHANGED buffers

\* The first connection; the application ends when it fails.
Connect ==
    /\ Do("app", "connect")
    /\ OpenSession
    /\ opened' = TRUE
    /\ GoOn("app")
    /\ UNCHANGED overlapped

Registration == <<DeviceRegister, PlatformRegister>>

\* ReconnectThreadStart, with on_connect_cb: gLosted has been set by the loss.
Reconnect ==
    /\ ~Busy("reconnect")
    /\ opened /\ ~link
    /\ OpenSession
    /\ todo' = [todo EXCEPT !["reconnect"] = Registration]
    /\ overlapped' = Busy("app")
    /\ UNCHANGED <<done, opened>>

Call ==
    /\ ~Busy("app")
    /\ \E call \in Calls : todo' = [todo EXCEPT !["app"] = call]
    /\ overlapped' = (overlapped \/ Busy("reconnect"))
    /\ out' = Silence
    /\ UNCHANGED <<done, buffers, session>>

\* lostconnect_callback, down to on_lostconnect_cb.
Lost ==
    /\ link
    /\ link' = FALSE
    /\ online' = FALSE
    /\ out' = Silence
    /\ UNCHANGED <<buffers, work, will, subscribed, opened, overlapped>>

Next ==
    \/ Connect \/ Reconnect \/ Call \/ Lost
    \/ \E t \in Threads :
         \/ Test(t) \/ FormatPayload(t) \/ FormatTopic(t)
         \/ Subscribe(t) \/ FillPubmsg(t) \/ Publish(t)

Spec == Init /\ [][Next]_vars
--------------------------------------------------------------------------------
\* What the functions mean to publish.
Meant ==
    {Message("agentinfoack", "online"), Message("agentactionreq", "osInfo"),
     Message("agentactionreq", "result"), Message("notify", "hb")}
    \cup Own

\* In a session in which no registration of the reconnect thread has met a call
\* of the application, every message is published on its own topic.
AloneIsWhole == ~overlapped => out \in Meant \cup {Silence}

\* However the two threads meet, the gateway never publishes the message that
\* declares it gone, and nothing on the topic of its will: whichever thread
\* publishes has formatted both buffers since core_connect left the will there.
NeverDeclaredGone == out.topic # "willmessage" /\ out.payload # "offline"

\* A gateway that is online and at rest hears the server: it has subscribed to
\* its three topics, on its first connection as on every later one.
HearsServer ==
    link /\ (\A t \in Threads : ~Busy(t)) /\ ~overlapped
        => {"agentcallbackreq", "agentactionack", "agentctrl"} \subseteq subscribed

\* WISEConnector.h on willtopic: "the topic on which to publish the will."  The
\* broker is told the will message, and no other, in every session.
WillIsWill == link => will
================================================================================
