--------------------------- MODULE CoreMessages_proofs ---------------------------
(***************************************************************************)
(* What the shared buffers hold when a message is published, for any       *)
(* messages of the application, any losses of the link and any meeting of  *)
(* the two threads.                                                        *)
(*                                                                         *)
(* A thread alone finds in the buffers what its function has put there     *)
(* last.  When the threads meet that is lost; what remains is that a       *)
(* function has formatted every buffer it publishes from, and that nobody  *)
(* writes the will after core_connect.                                     *)
(***************************************************************************)
EXTENDS CoreMessages, SequenceTheorems, TLAPS

\* What a thread goes through once core_connect has returned, and all functions.
Publishers ==
    {DeviceRegister, PlatformRegister, HeartbeatSend, Response}
    \cup {CorePublish(m) : m \in Own}
Functions == {CoreConnect} \cup Publishers

\* Among its first k steps the function f has one that does this...
Has(f, k, do) == \E j \in 1 .. k : f[j].do = do
\* ... and x is what the last of those has written.
LastIs(f, k, do, x) ==
    \A j \in 1 .. k :
        f[j].do = do /\ (\A i \in j + 1 .. k : f[i].do # do) => x = f[j].arg

--------------------------------------------------------------------------------
(* The inductive invariant.                                                *)

Three == {"agentcallbackreq", "agentactionack", "agentctrl"}

TypeInv ==
    /\ todo \in [Threads -> Seq(Functions)] /\ done \in [Threads -> Nat]
    /\ link \in BOOLEAN /\ opened \in BOOLEAN /\ overlapped \in BOOLEAN
    /\ online = link
    /\ \A t \in Threads : IF Busy(t) THEN done[t] < Len(Head(todo[t])) ELSE done[t] = 0

\* core_connect comes first, alone, and never again.
Beginning ==
    /\ opened => \A t \in Threads : todo[t] \in Seq(Publishers)
    /\ ~opened => /\ ~link /\ pubmsg = Nothing
                  /\ ~Busy("reconnect") /\ Busy("app")
                  /\ Head(todo["app"]) = CoreConnect
                  /\ Tail(todo["app"]) \in Seq(Publishers)
                  /\ Len(todo["app"]) > 1 /\ todo["app"][2] = DeviceRegister

Apart == ~overlapped => \E t \in Threads : \A u \in Threads : Busy(u) => u = t

\* Whatever a function publishes from, it has cleared of the will.
Cleared ==
    /\ pubmsg # "offline" /\ (opened /\ pubmsg = Buffer => payloadBuff # "offline")
    /\ opened => \A t \in Threads : Busy(t) =>
          /\ Has(Head(todo[t]), done[t], "topic") => topicBuff # "willmessage"
          /\ Has(Head(todo[t]), done[t], "payload") => payloadBuff # "offline"

\* Alone, a function finds what it has written.
Undisturbed ==
    ~overlapped => \A t \in Threads : Busy(t) =>
        /\ LastIs(Head(todo[t]), done[t], "topic", topicBuff)
        /\ LastIs(Head(todo[t]), done[t], "payload", payloadBuff)
        /\ LastIs(Head(todo[t]), done[t], "pubmsg", pubmsg)

\* The gateway is subscribed, about to be, or in the middle of it.
SoFar(k, topics) ==
    /\ k >= 3 => "agentcallbackreq" \in topics
    /\ k >= 5 => "agentactionack" \in topics
    /\ k >= 6 => "agentctrl" \in topics
Registering(t) ==
    \/ \E i \in 2 .. Len(todo[t]) : todo[t][i] = DeviceRegister
    \/ Head(todo[t]) = DeviceRegister /\ SoFar(done[t], subscribed)
Subscribing ==
    link /\ ~overlapped =>
        Three \subseteq subscribed \/ \E t \in Threads : Busy(t) /\ Registering(t)

Spoken == AloneIsWhole /\ NeverDeclaredGone

IInv == TypeInv /\ Beginning /\ Apart /\ Cleared /\ Undisturbed /\ Subscribing /\ Spoken

--------------------------------------------------------------------------------
(* The functions.                                                          *)

Harmless(f) ==
    \A i \in 1 .. Len(f) :
        /\ f[i].do = "topic" => f[i].arg # "willmessage"
        /\ f[i].do = "payload" => f[i].arg # "offline"
        /\ f[i].do = "pubmsg" => /\ f[i].arg # "offline"
                                 /\ f[i].arg = Buffer => Has(f, i - 1, "payload")
        /\ f[i].do = "send" => IF f[i].arg = Buffer THEN Has(f, i - 1, "topic")
                                                    ELSE f[i].arg # "willmessage"

\* What the function sends is meant, if the buffers hold what it wrote last.
Sent(arg, topic, payload, message) ==
    Message(IF arg = Buffer THEN topic ELSE arg,
            IF message = Buffer THEN payload ELSE message)
SendsMeant(f) ==
    \A i \in 1 .. Len(f) : \A topic, payload, message :
        /\ f[i].do = "send"
        /\ LastIs(f, i - 1, "topic", topic)
        /\ LastIs(f, i - 1, "payload", payload)
        /\ LastIs(f, i - 1, "pubmsg", message)
        => Sent(f[i].arg, topic, payload, message) \in Meant

Shape(f) ==
    /\ Len(f) \in 1 .. 11
    /\ \A i \in 1 .. Len(f) :
          f[i].do \in {"test", "payload", "topic", "subscribe", "pubmsg", "send"}

Sound(f) == Shape(f) /\ Harmless(f) /\ SendsMeant(f)

\* A message formatted in the buffers and published from them.
LEMMA FormatAndPublishSound ==
    ASSUME NEW payload, NEW topic, Message(topic, payload) \in Meant,
           topic # "willmessage", payload # "offline"
    PROVE  Sound(FormatAndPublish(payload, topic))
<1> DEFINE f == FormatAndPublish(payload, topic)
<1>1. /\ Len(f) = 5
      /\ f[1].do = "test" /\ f[2].do = "payload" /\ f[3].do = "topic"
      /\ f[4].do = "pubmsg" /\ f[5].do = "send"
      /\ f[2].arg = payload /\ f[3].arg = topic /\ f[4].arg = Buffer /\ f[5].arg = Buffer
  BY DEF FormatAndPublish, Step
<1> HIDE DEF f
<1>2. Shape(f) BY <1>1 DEF Shape
<1>3. Harmless(f) BY <1>1 DEF Harmless, Has, Buffer
<1>4. SendsMeant(f)
  <2> SUFFICES ASSUME NEW i \in 1 .. Len(f), NEW tp, NEW pl, NEW msg, f[i].do = "send",
                      LastIs(f, i - 1, "topic", tp), LastIs(f, i - 1, "payload", pl),
                      LastIs(f, i - 1, "pubmsg", msg)
               PROVE  Sent(f[i].arg, tp, pl, msg) \in Meant
    BY DEF SendsMeant
  <2>1. i = 5 BY <1>1
  <2>2. tp = topic BY <1>1, <2>1 DEF LastIs
  <2>3. pl = payload BY <1>1, <2>1 DEF LastIs
  <2>4. msg = Buffer BY <1>1, <2>1 DEF LastIs
  <2> QED BY <1>1, <2>1, <2>2, <2>3, <2>4 DEF Sent
<1> QED BY <1>2, <1>3, <1>4 DEF Sound, f

\* A message in the application's own memory.
LEMMA CorePublishSound == ASSUME NEW m \in Own PROVE Sound(CorePublish(m))
<1> DEFINE f == CorePublish(m)
<1>1. /\ Len(f) = 3
      /\ f[1].do = "test" /\ f[2].do = "pubmsg" /\ f[3].do = "send"
      /\ f[2].arg = m.payload /\ f[3].arg = m.topic
  BY DEF CorePublish, Step
<1>2. /\ m = Message(m.topic, m.payload) /\ m.topic # "willmessage" /\ m.topic # Buffer
      /\ m.payload # "offline" /\ m.payload # Buffer
  BY OwnAssumption
<1> HIDE DEF f
<1>3. Shape(f) BY <1>1 DEF Shape
<1>4. Harmless(f) BY <1>1, <1>2 DEF Harmless
<1>5. SendsMeant(f)
  <2> SUFFICES ASSUME NEW i \in 1 .. Len(f), NEW tp, NEW pl, NEW msg, f[i].do = "send",
                      LastIs(f, i - 1, "pubmsg", msg)
               PROVE  Sent(f[i].arg, tp, pl, msg) \in Meant
    BY DEF SendsMeant
  <2>1. i = 3 BY <1>1
  <2>2. msg = m.payload BY <1>1, <2>1 DEF LastIs
  <2>3. Sent(f[i].arg, tp, pl, msg) = m BY <1>1, <1>2, <2>1, <2>2 DEF Sent
  <2> QED BY <2>3 DEF Meant
<1> QED BY <1>3, <1>4, <1>5 DEF Sound, f

\* core_device_register, step by step.
LEMMA RegisterSteps ==
    LET f == DeviceRegister IN
    /\ Len(f) = 11
    /\ f[1].do = "test" /\ f[2].do = "topic" /\ f[3].do = "subscribe"
    /\ f[4].do = "topic" /\ f[5].do = "subscribe" /\ f[6].do = "subscribe"
    /\ f[7].do = "test" /\ f[8].do = "payload" /\ f[9].do = "topic"
    /\ f[10].do = "pubmsg" /\ f[11].do = "send"
    /\ f[2].arg = "agentcallbackreq" /\ f[3].arg = Buffer
    /\ f[4].arg = "agentactionack" /\ f[5].arg = Buffer /\ f[6].arg = "agentctrl"
    /\ f[8].arg = "online" /\ f[9].arg = "agentinfoack"
    /\ f[10].arg = Buffer /\ f[11].arg = Buffer
<1> DEFINE a1 == Step("test", Nothing)
           a2 == Step("topic", "agentcallbackreq")
           a3 == Step("subscribe", Buffer)
           a4 == Step("topic", "agentactionack")
           a6 == Step("subscribe", "agentctrl")
           b2 == Step("payload", "online")
           b3 == Step("topic", "agentinfoack")
           b4 == Step("pubmsg", Buffer)
           b5 == Step("send", Buffer)
           All == {a1, a2, a3, a4, a6, b2, b3, b4, b5}
           a == <<a1, a2, a3, a4, a3, a6>>
           b == <<a1, b2, b3, b4, b5>>
           f == a \o b
<1>1. DeviceRegister = f
  BY DEF DeviceRegister, SendAgentConnect, FormatAndPublish
<1>2. /\ a1.do = "test" /\ a2.do = "topic" /\ a3.do = "subscribe" /\ a4.do = "topic"
      /\ a6.do = "subscribe" /\ b2.do = "payload" /\ b3.do = "topic" /\ b4.do = "pubmsg"
      /\ b5.do = "send"
      /\ a2.arg = "agentcallbackreq" /\ a3.arg = Buffer /\ a4.arg = "agentactionack"
      /\ a6.arg = "agentctrl" /\ b2.arg = "online" /\ b3.arg = "agentinfoack"
      /\ b4.arg = Buffer /\ b5.arg = Buffer
  BY DEF Step
<1> HIDE DEF a1, a2, a3, a4, a6, b2, b3, b4, b5
<1>3. /\ a1 \in All /\ a2 \in All /\ a3 \in All /\ a4 \in All /\ a6 \in All
      /\ b2 \in All /\ b3 \in All /\ b4 \in All /\ b5 \in All
  OBVIOUS
<1> HIDE DEF All
<1>4. a \in Seq(All) /\ b \in Seq(All) BY <1>3
<1>5. Len(a) = 6 /\ Len(b) = 5 OBVIOUS
<1>6. /\ a[1] = a1 /\ a[2] = a2 /\ a[3] = a3 /\ a[4] = a4 /\ a[5] = a3 /\ a[6] = a6
      /\ b[1] = a1 /\ b[2] = b2 /\ b[3] = b3 /\ b[4] = b4 /\ b[5] = b5
  OBVIOUS
<1> HIDE DEF a, b
<1>7. /\ Len(f) = Len(a) + Len(b)
      /\ \A i \in 1 .. Len(a) + Len(b) :
            f[i] = IF i <= Len(a) THEN a[i] ELSE b[i - Len(a)]
  BY <1>4, ConcatProperties, Zenon
<1>8. /\ Len(f) = 11
      /\ \A i \in 1 .. 11 : f[i] = IF i <= 6 THEN a[i] ELSE b[i - 6]
  BY <1>5, <1>7
<1> HIDE DEF f
<1>9. /\ f[1] = a1 /\ f[2] = a2 /\ f[3] = a3 /\ f[4] = a4 /\ f[5] = a3 /\ f[6] = a6
      /\ f[7] = a1 /\ f[8] = b2 /\ f[9] = b3 /\ f[10] = b4 /\ f[11] = b5
  BY <1>6, <1>8
<1> QED BY <1>1, <1>2, <1>8, <1>9

LEMMA DeviceRegisterSound == Sound(DeviceRegister)
<1> DEFINE f == DeviceRegister
<1> HIDE DEF f
<1>1. /\ Len(f) = 11
      /\ f[1].do = "test" /\ f[2].do = "topic" /\ f[3].do = "subscribe"
      /\ f[4].do = "topic" /\ f[5].do = "subscribe" /\ f[6].do = "subscribe"
      /\ f[7].do = "test" /\ f[8].do = "payload" /\ f[9].do = "topic"
      /\ f[10].do = "pubmsg" /\ f[11].do = "send"
      /\ f[2].arg = "agentcallbackreq" /\ f[4].arg = "agentactionack"
      /\ f[8].arg = "online" /\ f[9].arg = "agentinfoack"
      /\ f[10].arg = Buffer /\ f[11].arg = Buffer
  BY RegisterSteps DEF f
<1>2. Shape(f) BY <1>1 DEF Shape
<1>3. Harmless(f)
  <2> SUFFICES ASSUME NEW i \in 1 .. 11
               PROVE  /\ f[i].do = "topic" => f[i].arg # "willmessage"
                      /\ f[i].do = "payload" => f[i].arg # "offline"
                      /\ f[i].do = "pubmsg" => /\ f[i].arg # "offline"
                                               /\ Has(f, i - 1, "payload")
                      /\ f[i].do = "send" => f[i].arg = Buffer /\ Has(f, i - 1, "topic")
    BY <1>1 DEF Harmless
  <2>1. f[i].do = "topic" => f[i].arg # "willmessage" BY <1>1
  <2>2. f[i].do = "payload" => f[i].arg # "offline" BY <1>1
  <2>3. f[i].do = "pubmsg" => i = 10 BY <1>1
  <2>4. f[i].do = "send" => i = 11 BY <1>1
  <2>5. Has(f, 9, "payload") /\ Has(f, 10, "topic") BY <1>1 DEF Has
  <2> QED BY <1>1, <2>1, <2>2, <2>3, <2>4, <2>5 DEF Buffer
<1>4. SendsMeant(f)
  <2> SUFFICES ASSUME NEW i \in 1 .. Len(f), NEW tp, NEW pl, NEW msg, f[i].do = "send",
                      LastIs(f, i - 1, "topic", tp), LastIs(f, i - 1, "payload", pl),
                      LastIs(f, i - 1, "pubmsg", msg)
               PROVE  Sent(f[i].arg, tp, pl, msg) \in Meant
    BY DEF SendsMeant
  <2>1. i = 11 BY <1>1
  <2>2. tp = "agentinfoack" BY <1>1, <2>1 DEF LastIs
  <2>3. pl = "online" BY <1>1, <2>1 DEF LastIs
  <2>4. msg = Buffer BY <1>1, <2>1 DEF LastIs
  <2>5. Sent(f[i].arg, tp, pl, msg) = Message("agentinfoack", "online")
    BY <1>1, <2>1, <2>2, <2>3, <2>4 DEF Sent
  <2> QED BY <2>5 DEF Meant
<1> QED BY <1>2, <1>3, <1>4 DEF Sound, f

LEMMA PublishersSound == \A f \in Publishers : Sound(f)
<1>1. Sound(PlatformRegister)
  BY FormatAndPublishSound DEF PlatformRegister, Meant
<1>2. Sound(HeartbeatSend) BY FormatAndPublishSound DEF HeartbeatSend, Meant
<1>3. Sound(Response) BY FormatAndPublishSound DEF Response, Meant
<1> QED BY <1>1, <1>2, <1>3, DeviceRegisterSound, CorePublishSound DEF Publishers

LEMMA ConnectSteps ==
    /\ Len(CoreConnect) = 3
    /\ CoreConnect[1].do = "payload" /\ CoreConnect[2].do = "topic"
    /\ CoreConnect[3].do = "connect"
BY DEF CoreConnect, Step

LEMMA CallsPublishers == \A c \in Calls : c \in Seq(Publishers)
<1>1. /\ HeartbeatSend \in Publishers /\ Response \in Publishers
      /\ DeviceRegister \in Publishers /\ PlatformRegister \in Publishers
      /\ \A m \in Own : CorePublish(m) \in Publishers
  BY DEF Publishers
<1> DEFINE one(f) == <<f>>
           two(f, g) == <<f, g>>
<1>2. \A f, g \in Publishers : one(f) \in Seq(Publishers) /\ two(f, g) \in Seq(Publishers)
  <2> HIDE DEF Publishers
  <2> QED OBVIOUS
<1>3. Calls = {one(HeartbeatSend), one(Response), one(DeviceRegister)}
              \cup {one(CorePublish(m)) : m \in Own}
              \cup {two(PlatformRegister, CorePublish(m)) : m \in Own}
  BY DEF Calls
<1> HIDE DEF Publishers, one, two
<1> QED BY <1>1, <1>2, <1>3

LEMMA RegistrationPublishers ==
    /\ Registration \in Seq(Publishers) /\ Registration # << >>
    /\ Len(Registration) = 2 /\ Head(Registration) = DeviceRegister
<1>1. DeviceRegister \in Publishers /\ PlatformRegister \in Publishers
  BY DEF Publishers
<1> HIDE DEF Publishers
<1> QED BY <1>1 DEF Registration

--------------------------------------------------------------------------------
(* What the first k steps of a function leave behind, one step further.    *)

LEMMA NothingYet ==
    ASSUME NEW f, NEW do, NEW x
    PROVE  ~Has(f, 0, do) /\ LastIs(f, 0, do, x)
BY DEF Has, LastIs

LEMMA OtherStep ==
    ASSUME NEW f, NEW k \in Nat, NEW do, NEW x, f[k + 1].do # do
    PROVE  /\ Has(f, k + 1, do) => Has(f, k, do)
           /\ LastIs(f, k, do, x) => LastIs(f, k + 1, do, x)
<1>1. \A j \in 1 .. k + 1 : f[j].do = do => j \in 1 .. k OBVIOUS
<1>2. \A j \in 1 .. k : \A i \in j + 1 .. k : i \in j + 1 .. k + 1 OBVIOUS
<1> QED BY <1>1, <1>2 DEF Has, LastIs

LEMMA ThatStep ==
    ASSUME NEW f, NEW k \in Nat, NEW do, f[k + 1].do = do
    PROVE  LastIs(f, k + 1, do, f[k + 1].arg)
<1> SUFFICES ASSUME NEW j \in 1 .. k + 1,
                    \A i \in j + 1 .. k + 1 : f[i].do # do
             PROVE  j = k + 1
  BY DEF LastIs
<1> QED OBVIOUS

\* The function a thread is in.
LEMMA Here ==
    ASSUME IInv, NEW t \in Threads, Busy(t)
    PROVE  /\ Head(todo[t]) \in Functions /\ Tail(todo[t]) \in Seq(Functions)
           /\ done[t] \in Nat /\ done[t] + 1 \in 1 .. Len(Head(todo[t]))
           /\ Current(t) = Head(todo[t])[done[t] + 1]
           /\ Len(Head(todo[t])) \in Nat
           /\ opened => /\ Head(todo[t]) \in Publishers /\ Sound(Head(todo[t]))
                        /\ Tail(todo[t]) \in Seq(Publishers)
           /\ ~opened => t = "app" /\ Head(todo[t]) = CoreConnect
<1>1. todo[t] \in Seq(Functions) /\ todo[t] # << >> /\ done[t] \in Nat
  BY DEF IInv, TypeInv, Busy
<1>2. Head(todo[t]) \in Functions /\ Tail(todo[t]) \in Seq(Functions)
  <2> HIDE DEF Functions
  <2> QED BY <1>1
<1>3. done[t] < Len(Head(todo[t])) BY DEF IInv, TypeInv
<1>4. \A f \in Functions : Len(f) \in Nat
  <2>1. \A f \in Publishers : Len(f) \in Nat BY PublishersSound DEF Sound, Shape
  <2> QED BY <2>1, ConnectSteps DEF Functions
<1>5. done[t] + 1 \in 1 .. Len(Head(todo[t])) BY <1>1, <1>2, <1>3, <1>4
<1>6. opened => /\ Head(todo[t]) \in Publishers
                /\ Tail(todo[t]) \in Seq(Publishers)
  <2> SUFFICES ASSUME opened
               PROVE  Head(todo[t]) \in Publishers /\ Tail(todo[t]) \in Seq(Publishers)
    OBVIOUS
  <2>1. todo[t] \in Seq(Publishers) BY DEF IInv, Beginning
  <2> HIDE DEF Publishers
  <2> QED BY <1>1, <2>1
<1>7. ~opened => t = "app" /\ Head(todo[t]) = CoreConnect
  BY DEF IInv, Beginning, Threads
<1> QED BY <1>1, <1>2, <1>4, <1>5, <1>6, <1>7, PublishersSound DEF Current

\* A thread that is at work and not overlapped is at work alone.
LEMMA Alone ==
    ASSUME IInv, ~overlapped, NEW t \in Threads, NEW u \in Threads, Busy(t), Busy(u)
    PROVE  u = t
BY DEF IInv, Apart

--------------------------------------------------------------------------------
(* A step of a thread inside a function.                                   *)

Goes(t) == GoOn(t) \/ (Current(t).do = "test" /\ ~online /\ Leave(t))

\* The step writes the buffer it is for, and no other.
Writes(t) ==
    /\ topicBuff' = IF Current(t).do = "topic" THEN Arg(t) ELSE topicBuff
    /\ payloadBuff' = IF Current(t).do = "payload" THEN Arg(t) ELSE payloadBuff
    /\ pubmsg' = IF Current(t).do = "pubmsg" THEN Arg(t) ELSE pubmsg
    /\ subscribed' = IF Current(t).do = "subscribe" THEN SubscribedAfter(t) ELSE subscribed

Inside(t) ==
    /\ Busy(t) /\ Current(t).do # "connect"
    /\ Goes(t) /\ Writes(t) /\ UNCHANGED <<link, online, opened, overlapped>>

\* Either one step further in the same function, or at the start of the next.
LEMMA Moved ==
    ASSUME IInv, NEW t \in Threads, Inside(t)
    PROVE  \/ /\ todo' = todo /\ done[t] + 1 < Len(Head(todo[t]))
              /\ done' = [done EXCEPT ![t] = done[t] + 1]
           \/ /\ todo' = [todo EXCEPT ![t] = Tail(todo[t])]
              /\ done' = [done EXCEPT ![t] = 0]
              /\ opened
              /\ online => done[t] + 1 = Len(Head(todo[t]))
<1>1. /\ done[t] \in Nat /\ done[t] + 1 \in 1 .. Len(Head(todo[t]))
      /\ Len(Head(todo[t])) \in Nat
      /\ Current(t) = Head(todo[t])[done[t] + 1]
      /\ ~opened => Head(todo[t]) = CoreConnect
  BY Here DEF Inside
<1>2. ASSUME ~opened
      PROVE  Current(t).do \in {"payload", "topic"} /\ done[t] + 1 # Len(Head(todo[t]))
  <2> DEFINE k == done[t]
  <2>1. /\ k \in Nat /\ k + 1 \in 1 .. 3 /\ Len(Head(todo[t])) = 3
        /\ Current(t) = CoreConnect[k + 1] /\ Current(t).do # "connect"
    BY <1>1, <1>2, ConnectSteps DEF Inside
  <2> HIDE DEF k
  <2>2. k + 1 = 1 \/ k + 1 = 2 BY <2>1, ConnectSteps
  <2> QED BY <2>1, <2>2, ConnectSteps DEF k
<1>3. CASE done[t] + 1 = Len(Head(todo[t]))
  BY <1>1, <1>2, <1>3 DEF Inside, Goes, GoOn, Leave
<1>4. CASE done[t] + 1 # Len(Head(todo[t]))
  <2>1. CASE GoOn(t)
    <3>1. done[t] + 1 < Len(Head(todo[t])) BY <1>1, <1>4
    <3> QED BY <1>4, <2>1, <3>1 DEF GoOn
  <2>2. CASE Current(t).do = "test" /\ ~online /\ Leave(t)
    BY <1>2, <2>2 DEF Leave
  <2> QED BY <2>1, <2>2 DEF Inside, Goes
<1> QED BY <1>3, <1>4

\* The rest of a thread's functions, and the first of them.
LEMMA NextFunction ==
    ASSUME IInv, NEW t \in Threads, Busy(t), opened
    PROVE  /\ Tail(todo[t]) \in Seq(Publishers) /\ Tail(todo[t]) \in Seq(Functions)
           /\ Tail(todo[t]) # << >> => 0 < Len(Head(Tail(todo[t])))
<1>1. Tail(todo[t]) \in Seq(Publishers) /\ Tail(todo[t]) \in Seq(Functions) BY Here
<1>2. ASSUME NEW s \in Seq(Publishers), s # << >> PROVE 0 < Len(Head(s))
  <2>1. Head(s) \in Publishers
    <3> HIDE DEF Publishers
    <3> QED BY <1>2
  <2>2. Shape(Head(s)) BY <2>1, PublishersSound DEF Sound
  <2> DEFINE l == Len(Head(s))
  <2>3. l \in 1 .. 11 BY <2>2 DEF Shape
  <2> HIDE DEF l
  <2>4. 0 < l BY <2>3
  <2> QED BY <2>4 DEF l
<1> QED BY <1>1, <1>2

LEMMA InsideType == ASSUME IInv, NEW t \in Threads, Inside(t) PROVE TypeInv' /\ Apart'
<1> USE DEF Busy
<1>1. /\ todo \in [Threads -> Seq(Functions)] /\ done \in [Threads -> Nat]
      /\ \A u \in Threads : IF Busy(u) THEN done[u] < Len(Head(todo[u])) ELSE done[u] = 0
      /\ UNCHANGED <<link, online, opened, overlapped>> /\ todo[t] # << >>
  BY DEF IInv, TypeInv, Inside
<1>2. CASE /\ todo' = todo /\ done[t] + 1 < Len(Head(todo[t]))
           /\ done' = [done EXCEPT ![t] = done[t] + 1]
  <2> HIDE DEF Functions
  <2>1. todo' \in [Threads -> Seq(Functions)] /\ done' \in [Threads -> Nat]
    BY <1>1, <1>2
  <2>2. \A u \in Threads : IF todo'[u] # << >> THEN done'[u] < Len(Head(todo'[u]))
                                              ELSE done'[u] = 0
    BY <1>1, <1>2
  <2>3. Apart' BY <1>1, <1>2 DEF IInv, Apart
  <2> QED BY <1>1, <2>1, <2>2, <2>3 DEF IInv, TypeInv
<1>3. CASE /\ todo' = [todo EXCEPT ![t] = Tail(todo[t])]
           /\ done' = [done EXCEPT ![t] = 0]
           /\ opened
  <2>1. /\ Tail(todo[t]) \in Seq(Functions)
        /\ Tail(todo[t]) # << >> => 0 < Len(Head(Tail(todo[t])))
    BY <1>1, <1>3, NextFunction
  <2> HIDE DEF Functions
  <2>2. todo' \in [Threads -> Seq(Functions)] /\ done' \in [Threads -> Nat]
    BY <1>1, <1>3, <2>1
  <2>3. \A u \in Threads : IF todo'[u] # << >> THEN done'[u] < Len(Head(todo'[u]))
                                              ELSE done'[u] = 0
    <3> TAKE u \in Threads
    <3>1. CASE u = t
      <4>1. todo'[u] = Tail(todo[t]) /\ done'[u] = 0 BY <1>1, <1>3, <3>1
      <4> QED BY <2>1, <4>1
    <3>2. CASE u # t
      <4>1. todo'[u] = todo[u] /\ done'[u] = done[u] BY <1>1, <1>3, <3>2
      <4> QED BY <1>1, <4>1
    <3> QED BY <3>1, <3>2
  <2>4. Apart'
    <3>1. \A u \in Threads : u # t => todo'[u] = todo[u] BY <1>1, <1>3
    <3>2. \A u \in Threads : todo'[u] # << >> => todo[u] # << >> BY <1>1, <3>1
    <3> QED BY <1>1, <3>2 DEF IInv, Apart
  <2> QED BY <1>1, <2>2, <2>3, <2>4 DEF IInv, TypeInv
<1> QED BY <1>2, <1>3, Moved

LEMMA InsideBeginning == ASSUME IInv, NEW t \in Threads, Inside(t) PROVE Beginning'
<1> USE DEF Busy
<1>1. todo \in [Threads -> Seq(Functions)] /\ opened' = opened /\ link' = link
  BY DEF IInv, TypeInv, Inside
<1>2. CASE opened
  <2>1. \A u \in Threads : todo[u] \in Seq(Publishers) BY <1>2 DEF IInv, Beginning
  <2>2. Tail(todo[t]) \in Seq(Publishers) BY <1>2, NextFunction DEF Inside
  <2>3. \A u \in Threads : todo'[u] \in Seq(Publishers)
    BY <1>1, <2>1, <2>2, Moved
  <2> QED BY <1>1, <1>2, <2>3 DEF Beginning
<1>3. CASE ~opened
  <2>1. todo' = todo BY <1>3, Moved
  <2>2. pubmsg' = pubmsg
    <3>1. done[t] + 1 < 3 /\ done[t] \in Nat /\ Current(t) = CoreConnect[done[t] + 1]
      BY <1>3, Moved, Here, ConnectSteps DEF Inside
    <3>2. Current(t).do # "pubmsg"
      <4> DEFINE k == done[t]
      <4>1. k + 1 = 1 \/ k + 1 = 2 BY <3>1
      <4> HIDE DEF k
      <4> QED BY <3>1, <4>1, ConnectSteps DEF k
    <3> QED BY <3>2 DEF Inside, Writes
  <2> QED BY <1>1, <1>3, <2>1, <2>2 DEF IInv, Beginning
<1> QED BY <1>2, <1>3

LEMMA InsideCleared == ASSUME IInv, NEW t \in Threads, Inside(t) PROVE Cleared'
<1>1. Writes(t) /\ Busy(t) /\ opened' = opened BY DEF Inside
<1>2. CASE ~opened
  <2>1. pubmsg' = Nothing BY <1>1, <1>2, InsideBeginning DEF Beginning
  <2> QED BY <1>1, <1>2, <2>1 DEF Cleared, Nothing, Buffer
<1>3. CASE opened
  <2> DEFINE f == Head(todo[t])
             k == done[t]
  <2>1. /\ Sound(f) /\ k \in Nat /\ k + 1 \in 1 .. Len(f) /\ Current(t) = f[k + 1]
    BY <1>1, <1>3, Here
  <2> HIDE DEF f, k
  <2>2. /\ f[k + 1].do = "topic" => Arg(t) # "willmessage"
        /\ f[k + 1].do = "payload" => Arg(t) # "offline"
        /\ f[k + 1].do = "pubmsg" => /\ Arg(t) # "offline"
                                     /\ Arg(t) = Buffer => Has(f, k, "payload")
    <3>1. (k + 1) - 1 = k BY <2>1
    <3> QED BY <2>1, <3>1 DEF Sound, Harmless, Arg
  <2>3. /\ Has(f, k, "topic") => topicBuff # "willmessage"
        /\ Has(f, k, "payload") => payloadBuff # "offline"
    BY <1>1, <1>3 DEF IInv, Cleared, f, k
\* The function that steps on.
  <2>4. /\ Has(f, k + 1, "topic") => topicBuff' # "willmessage"
        /\ Has(f, k + 1, "payload") => payloadBuff' # "offline"
    <3>1. CASE f[k + 1].do = "topic"
      BY <2>1, <2>2, <2>3, <3>1, <1>1, OtherStep DEF Writes
    <3>2. CASE f[k + 1].do = "payload"
      BY <2>1, <2>2, <2>3, <3>2, <1>1, OtherStep DEF Writes
    <3>3. CASE f[k + 1].do \notin {"topic", "payload"}
      BY <2>1, <2>3, <3>3, <1>1, OtherStep DEF Writes
    <3> QED BY <3>1, <3>2, <3>3
\* Nobody writes the will any more.
  <2>5. /\ topicBuff # "willmessage" => topicBuff' # "willmessage"
        /\ payloadBuff # "offline" => payloadBuff' # "offline"
    BY <1>1, <2>1, <2>2 DEF Writes
  <2>6. pubmsg' # "offline" /\ (pubmsg' = Buffer => payloadBuff' # "offline")
    <3>1. CASE f[k + 1].do = "pubmsg"
      BY <1>1, <2>1, <2>2, <2>3, <3>1 DEF Writes
    <3>2. CASE f[k + 1].do # "pubmsg"
      BY <1>1, <1>3, <2>1, <2>5, <3>2 DEF Writes, IInv, Cleared
    <3> QED BY <3>1, <3>2
  <2>7. ASSUME NEW u \in Threads, Busy(u)'
        PROVE  /\ Has(Head(todo'[u]), done'[u], "topic") => topicBuff' # "willmessage"
               /\ Has(Head(todo'[u]), done'[u], "payload") => payloadBuff' # "offline"
    <3>1. CASE u = t
      <4>1. done'[t] = 0 \/ (done'[t] = k + 1 /\ Head(todo'[t]) = f)
        BY Moved DEF IInv, TypeInv, f, k
      <4> QED BY <2>4, <3>1, <4>1, NothingYet
    <3>2. CASE u # t
      <4>1. todo'[u] = todo[u] /\ done'[u] = done[u] BY <3>2, Moved DEF IInv, TypeInv
      <4>2. Busy(u) BY <2>7, <4>1 DEF Busy
      <4>3. /\ Has(Head(todo[u]), done[u], "topic") => topicBuff # "willmessage"
            /\ Has(Head(todo[u]), done[u], "payload") => payloadBuff # "offline"
        BY <1>3, <4>2 DEF IInv, Cleared
      <4> QED BY <2>5, <4>1, <4>3
    <3> QED BY <3>1, <3>2
  <2> QED BY <2>6, <2>7 DEF Cleared
<1> QED BY <1>2, <1>3

LEMMA InsideUndisturbed == ASSUME IInv, NEW t \in Threads, Inside(t) PROVE Undisturbed'
<1> SUFFICES ASSUME ~overlapped', NEW u \in Threads, Busy(u)'
             PROVE  /\ LastIs(Head(todo'[u]), done'[u], "topic", topicBuff')
                    /\ LastIs(Head(todo'[u]), done'[u], "payload", payloadBuff')
                    /\ LastIs(Head(todo'[u]), done'[u], "pubmsg", pubmsg')
  BY DEF Undisturbed
<1>1. Writes(t) /\ Busy(t) /\ ~overlapped BY DEF Inside
<1>2. u = t
  <2> SUFFICES ASSUME u # t PROVE FALSE OBVIOUS
  <2>1. todo'[u] = todo[u] BY Moved DEF IInv, TypeInv
  <2>2. Busy(u) BY <2>1 DEF Busy
  <2> QED BY <1>1, <2>2, Alone
<1> DEFINE f == Head(todo[t])
           k == done[t]
<1>3. /\ LastIs(f, k, "topic", topicBuff) /\ LastIs(f, k, "payload", payloadBuff)
      /\ LastIs(f, k, "pubmsg", pubmsg) /\ k \in Nat /\ Current(t) = f[k + 1]
  BY <1>1, Here DEF IInv, Undisturbed
<1>4. done'[t] = 0 \/ (done'[t] = k + 1 /\ Head(todo'[t]) = f)
  BY Moved DEF IInv, TypeInv
<1> HIDE DEF f, k
<1>5. LastIs(f, k + 1, "topic", topicBuff')
  <2>1. CASE f[k + 1].do = "topic" BY <1>1, <1>3, <2>1, ThatStep DEF Writes, Arg
  <2>2. CASE f[k + 1].do # "topic" BY <1>1, <1>3, <2>2, OtherStep DEF Writes
  <2> QED BY <2>1, <2>2
<1>6. LastIs(f, k + 1, "payload", payloadBuff')
  <2>1. CASE f[k + 1].do = "payload" BY <1>1, <1>3, <2>1, ThatStep DEF Writes, Arg
  <2>2. CASE f[k + 1].do # "payload" BY <1>1, <1>3, <2>2, OtherStep DEF Writes
  <2> QED BY <2>1, <2>2
<1>7. LastIs(f, k + 1, "pubmsg", pubmsg')
  <2>1. CASE f[k + 1].do = "pubmsg" BY <1>1, <1>3, <2>1, ThatStep DEF Writes, Arg
  <2>2. CASE f[k + 1].do # "pubmsg" BY <1>1, <1>3, <2>2, OtherStep DEF Writes
  <2> QED BY <2>1, <2>2
<1>8. CASE done'[t] = 0 BY <1>2, <1>8, NothingYet
<1>9. CASE done'[t] = k + 1 /\ Head(todo'[t]) = f BY <1>2, <1>5, <1>6, <1>7, <1>9
<1> QED BY <1>4, <1>8, <1>9

LEMMA InsideSubscribing == ASSUME IInv, NEW t \in Threads, Inside(t) PROVE Subscribing'
<1> SUFFICES ASSUME link', ~overlapped', ~(Three \subseteq subscribed')
             PROVE  \E u \in Threads : Busy(u)' /\ Registering(u)'
  BY DEF Subscribing
<1>1. /\ link /\ online /\ opened /\ ~overlapped /\ Busy(t) /\ Writes(t)
      /\ todo \in [Threads -> Seq(Functions)] /\ done \in [Threads -> Nat]
  BY DEF Inside, IInv, TypeInv, Beginning
<1>2. subscribed \subseteq subscribed' BY <1>1 DEF Writes, SubscribedAfter
\* Only this thread is at work, so it is the one that is registering.
<1>3. Registering(t)
  <2>1. ~(Three \subseteq subscribed) BY <1>2
  <2>2. PICK u \in Threads : Busy(u) /\ Registering(u)
    BY <1>1, <2>1 DEF IInv, Subscribing
  <2> QED BY <1>1, <2>2, Alone
<1> DEFINE f == Head(todo[t])
           k == done[t]
<1>4. /\ k \in Nat /\ k + 1 \in 1 .. Len(f) /\ Len(f) \in Nat /\ Current(t) = f[k + 1]
      /\ LastIs(f, k, "topic", topicBuff)
  BY <1>1, Here DEF IInv, Undisturbed
<1>5. CASE /\ todo' = todo /\ done[t] + 1 < Len(Head(todo[t]))
           /\ done' = [done EXCEPT ![t] = done[t] + 1]
  <2>1. Busy(t)' BY <1>1, <1>5 DEF Busy
  <2>2. CASE \E i \in 2 .. Len(todo[t]) : todo[t][i] = DeviceRegister
    BY <1>5, <2>1, <2>2 DEF Registering
  <2>3. CASE Head(todo[t]) = DeviceRegister /\ SoFar(done[t], subscribed)
    <3>1. f = DeviceRegister /\ SoFar(k, subscribed) BY <2>3
    <3>2. done'[t] = k + 1 /\ Head(todo'[t]) = DeviceRegister BY <1>1, <1>5, <2>3
    <3> HIDE DEF f, k
    <3>3. k + 1 = 3 => "agentcallbackreq" \in subscribed'
      <4> SUFFICES ASSUME k + 1 = 3 PROVE "agentcallbackreq" \in subscribed' OBVIOUS
      <4>1. k = 2 BY <1>4
      <4>2. topicBuff = "agentcallbackreq" BY <1>4, <3>1, <4>1, RegisterSteps DEF LastIs
      <4>3. Current(t).do = "subscribe" /\ Arg(t) = Buffer
        BY <1>4, <3>1, RegisterSteps DEF Arg
      <4> QED BY <1>1, <4>2, <4>3 DEF Writes, SubscribedAfter
    <3>4. k + 1 = 5 => "agentactionack" \in subscribed'
      <4> SUFFICES ASSUME k + 1 = 5 PROVE "agentactionack" \in subscribed' OBVIOUS
      <4>1. k = 4 BY <1>4
      <4>2. topicBuff = "agentactionack" BY <1>4, <3>1, <4>1, RegisterSteps DEF LastIs
      <4>3. Current(t).do = "subscribe" /\ Arg(t) = Buffer
        BY <1>4, <3>1, RegisterSteps DEF Arg
      <4> QED BY <1>1, <4>2, <4>3 DEF Writes, SubscribedAfter
    <3>5. k + 1 = 6 => "agentctrl" \in subscribed'
      <4> SUFFICES ASSUME k + 1 = 6 PROVE "agentctrl" \in subscribed' OBVIOUS
      <4>1. Current(t).do = "subscribe" /\ Arg(t) = "agentctrl"
        BY <1>4, <3>1, RegisterSteps DEF Arg
      <4> QED BY <1>1, <4>1 DEF Writes, SubscribedAfter, Buffer
    <3>6. SoFar(k + 1, subscribed')
      <4>1. (k + 1 >= 3 => k >= 3 \/ k + 1 = 3) /\ (k + 1 >= 5 => k >= 5 \/ k + 1 = 5)
            /\ (k + 1 >= 6 => k >= 6 \/ k + 1 = 6)
        BY <1>4
      <4> QED BY <1>2, <3>1, <3>3, <3>4, <3>5, <4>1 DEF SoFar
    <3> QED BY <2>1, <3>2, <3>6 DEF Registering
  <2> QED BY <1>3, <2>2, <2>3 DEF Registering
<1>6. CASE /\ todo' = [todo EXCEPT ![t] = Tail(todo[t])]
           /\ done' = [done EXCEPT ![t] = 0]
           /\ done[t] + 1 = Len(Head(todo[t]))
  <2>1. todo'[t] = Tail(todo[t]) /\ done'[t] = 0 BY <1>1, <1>6
  <2>2. todo[t] \in Seq(Functions) /\ todo[t] # << >> BY <1>1 DEF Busy
  <2>3. CASE \E i \in 2 .. Len(todo[t]) : todo[t][i] = DeviceRegister
    <3>1. PICK i \in 2 .. Len(todo[t]) : todo[t][i] = DeviceRegister BY <2>3
    <3> DEFINE s == todo[t]
    <3>2. s \in Seq(Functions) /\ s # << >> /\ i \in 2 .. Len(s) /\ s[i] = DeviceRegister
      BY <2>2, <3>1
    <3> HIDE DEF s, Functions
    <3>3. Len(Tail(s)) = Len(s) - 1 /\ \A j \in 1 .. Len(s) - 1 : Tail(s)[j] = s[j + 1]
      BY <3>2
    <3>4. Tail(s) # << >> /\ Head(Tail(s)) = s[2]
      <4>1. Len(Tail(s)) # 0 /\ 1 \in 1 .. Len(s) - 1 /\ Tail(s)[1] = s[1 + 1] BY <3>2, <3>3
      <4>2. Tail(s) \in Seq(Functions) BY <3>2
      <4>3. Tail(s) # << >> BY <4>1, <4>2, EmptySeq, Zenon
      <4> QED BY <4>1, <4>2, <4>3
    <3>5. Busy(t)' BY <2>1, <3>4 DEF Busy, s
    <3>6. CASE i = 2
      <4>1. Head(todo'[t]) = DeviceRegister BY <2>1, <3>2, <3>4, <3>6 DEF s
      <4>2. SoFar(done'[t], subscribed') BY <2>1 DEF SoFar
      <4> QED BY <3>5, <4>1, <4>2 DEF Registering
    <3>7. CASE i # 2
      <4> DEFINE j == i - 1
      <4>1. j \in 2 .. Len(Tail(s)) /\ j \in 1 .. Len(s) - 1 /\ j + 1 = i
        BY <3>2, <3>3, <3>7
      <4>2. Tail(s)[j] = DeviceRegister BY <3>2, <3>3, <4>1
      <4> HIDE DEF j
      <4>3. \E n \in 2 .. Len(todo'[t]) : todo'[t][n] = DeviceRegister
        BY <2>1, <4>1, <4>2 DEF s
      <4> QED BY <3>5, <4>3 DEF Registering
    <3> QED BY <3>6, <3>7
  <2>4. CASE Head(todo[t]) = DeviceRegister /\ SoFar(done[t], subscribed)
    <3>1. k + 1 = 11 /\ SoFar(k, subscribed) BY <1>6, <2>4, RegisterSteps
    <3> HIDE DEF k
    <3>2. Three \subseteq subscribed BY <1>4, <3>1 DEF SoFar, Three
    <3> QED BY <1>2, <3>2
  <2> QED BY <1>3, <2>3, <2>4 DEF Registering
<1> QED BY <1>1, <1>5, <1>6, Moved

\* A step that publishes nothing.
LEMMA InsideStep ==
    ASSUME IInv, NEW t \in Threads, Inside(t), Spoken' PROVE IInv'
BY InsideType, InsideBeginning, InsideCleared, InsideUndisturbed, InsideSubscribing
   DEF IInv

LEMMA SilenceSpoken == ASSUME out' = Silence PROVE Spoken'
BY DEF Spoken, AloneIsWhole, NeverDeclaredGone, Silence, Message, Nothing

\* What a function sends is its own when it is alone, and never the will.
LEMMA PublishSpoken ==
    ASSUME IInv, NEW t \in Threads, Busy(t), Current(t).do = "send", Publish(t)
    PROVE  Spoken'
<1> DEFINE f == Head(todo[t])
           k == done[t]
           said == Sent(Arg(t), topicBuff, payloadBuff, pubmsg)
<1>1. out' = (IF link THEN said ELSE Silence) /\ overlapped' = overlapped
  BY DEF Publish, Sent
<1>2. CASE ~link BY <1>1, <1>2, SilenceSpoken
<1>3. CASE link
  <2>1. opened BY <1>3 DEF IInv, Beginning
  <2>2. /\ Sound(f) /\ k \in Nat /\ k + 1 \in 1 .. Len(f) /\ Current(t) = f[k + 1]
        /\ (k + 1) - 1 = k /\ f[k + 1].do = "send" /\ Arg(t) = f[k + 1].arg
    BY <2>1, Here DEF Arg
  <2>3. ASSUME ~overlapped PROVE said \in Meant
    <3>1. /\ LastIs(f, k, "topic", topicBuff) /\ LastIs(f, k, "payload", payloadBuff)
          /\ LastIs(f, k, "pubmsg", pubmsg)
      BY <2>3 DEF IInv, Undisturbed
    <3> HIDE DEF f, k
    <3> QED BY <2>2, <3>1 DEF Sound, SendsMeant
  <2>4. said.topic # "willmessage"
    <3>1. said.topic = IF Arg(t) = Buffer THEN topicBuff ELSE Arg(t) BY DEF Sent, Message
    <3>2. CASE Arg(t) = Buffer
      <4>1. Has(f, k, "topic") BY <2>2, <3>2 DEF Sound, Harmless
      <4> QED BY <2>1, <3>1, <3>2, <4>1 DEF IInv, Cleared
    <3>3. CASE Arg(t) # Buffer
      <4>1. Arg(t) # "willmessage" BY <2>2, <3>3 DEF Sound, Harmless
      <4> QED BY <3>1, <3>3, <4>1
    <3> QED BY <3>2, <3>3
  <2>5. said.payload # "offline"
    <3>1. said.payload = IF pubmsg = Buffer THEN payloadBuff ELSE pubmsg
      BY DEF Sent, Message
    <3> QED BY <2>1, <3>1 DEF IInv, Cleared
  <2> QED BY <1>1, <1>3, <2>3, <2>4, <2>5 DEF Spoken, AloneIsWhole, NeverDeclaredGone
<1> QED BY <1>2, <1>3 DEF IInv, TypeInv

\* The steps of a thread write the buffer they are for.
LEMMA ThreadStep ==
    ASSUME IInv, NEW t \in Threads,
           Test(t) \/ FormatPayload(t) \/ FormatTopic(t) \/ Subscribe(t) \/ FillPubmsg(t)
           \/ Publish(t)
    PROVE  IInv'
<1> USE DEF buffers, session, Do, Inside, Goes, Writes
<1>1. CASE Test(t)
  <2>1. Inside(t) BY <1>1 DEF Test
  <2> QED BY <1>1, <2>1, InsideStep, SilenceSpoken DEF Test
<1>2. CASE FormatPayload(t)
  <2>1. Inside(t) BY <1>2 DEF FormatPayload
  <2> QED BY <1>2, <2>1, InsideStep, SilenceSpoken DEF FormatPayload
<1>3. CASE FormatTopic(t)
  <2>1. Inside(t) BY <1>3 DEF FormatTopic
  <2> QED BY <1>3, <2>1, InsideStep, SilenceSpoken DEF FormatTopic
<1>4. CASE Subscribe(t)
  <2>1. Inside(t) BY <1>4 DEF Subscribe
  <2> QED BY <1>4, <2>1, InsideStep, SilenceSpoken DEF Subscribe
<1>5. CASE FillPubmsg(t)
  <2>1. Inside(t) BY <1>5 DEF FillPubmsg
  <2> QED BY <1>5, <2>1, InsideStep, SilenceSpoken DEF FillPubmsg
<1>6. CASE Publish(t)
  <2>1. Inside(t) BY <1>6 DEF Publish
  <2>2. Spoken' BY <1>6, PublishSpoken DEF Publish
  <2> QED BY <2>1, <2>2, InsideStep
<1> QED BY <1>1, <1>2, <1>3, <1>4, <1>5, <1>6

--------------------------------------------------------------------------------
(* The other steps.                                                        *)

LEMMA InitIInv == Init => IInv
<1> SUFFICES ASSUME Init PROVE IInv OBVIOUS
<1>1. PICK m \in Own :
         todo = [t \in Threads |->
                   IF t = "app"
                     THEN <<CoreConnect, DeviceRegister, PlatformRegister, CorePublish(m)>>
                     ELSE << >>]
  BY DEF Init
<1> DEFINE way == <<CoreConnect, DeviceRegister, PlatformRegister, CorePublish(m)>>
<1>2. /\ todo \in [Threads -> {way, << >>}] /\ todo["app"] = way
      /\ todo["reconnect"] = << >>
  BY <1>1 DEF Threads
<1>3. /\ DeviceRegister \in Publishers /\ PlatformRegister \in Publishers
      /\ CorePublish(m) \in Publishers
      /\ CoreConnect \in Functions /\ Publishers \subseteq Functions
  BY DEF Publishers, Functions
<1>4. /\ way \in Seq(Functions) /\ << >> \in Seq(Functions) /\ way # << >>
      /\ Head(way) = CoreConnect /\ Len(way) = 4 /\ way[2] = DeviceRegister
      /\ Tail(way) \in Seq(Publishers)
  <2> HIDE DEF Publishers, Functions
  <2>1. << >> \in Seq(Functions) BY EmptySeq, Zenon
  <2>2. Tail(way) = <<DeviceRegister, PlatformRegister, CorePublish(m)>> OBVIOUS
  <2>3. Tail(way) \in Seq(Publishers) BY <1>3, <2>2
  <2>4. way \in Seq(Functions) BY <1>3
  <2> QED BY <2>1, <2>3, <2>4
<1> HIDE DEF way
<1>5. /\ ~link /\ ~online /\ ~opened /\ ~overlapped /\ pubmsg = Nothing
      /\ done = [t \in Threads |-> 0] /\ out = Silence
      /\ link = FALSE /\ online = FALSE /\ opened = FALSE /\ overlapped = FALSE
  BY DEF Init
<1>6. TypeInv
  <2>1. todo \in [Threads -> Seq(Functions)]
    <3> HIDE DEF Functions
    <3> QED BY <1>2, <1>4
  <2>2. \A t \in Threads : IF Busy(t) THEN done[t] < Len(Head(todo[t])) ELSE done[t] = 0
    <3>1. done["app"] = 0 /\ done["reconnect"] = 0 /\ ~Busy("reconnect") /\ Busy("app")
      BY <1>2, <1>4, <1>5 DEF Threads, Busy
    <3>2. Head(todo["app"]) = CoreConnect BY <1>2, <1>4
    <3> DEFINE l == Len(CoreConnect)
    <3>3. l = 3 BY ConnectSteps
    <3> HIDE DEF l
    <3>4. done["app"] < l BY <3>1, <3>3
    <3>5. done["app"] < Len(Head(todo["app"])) BY <3>2, <3>4, Zenon DEF l
    <3> QED BY <3>1, <3>5 DEF Threads
  <2> QED BY <1>5, <2>1, <2>2 DEF TypeInv
<1>7. Beginning BY <1>2, <1>4, <1>5 DEF Beginning, Busy
<1>8. Apart BY <1>2 DEF Apart, Threads, Busy
<1>9. Cleared BY <1>5 DEF Cleared, Nothing
<1>10. Undisturbed BY <1>5, NothingYet DEF Undisturbed
<1>11. Subscribing BY <1>5 DEF Subscribing
<1>12. Spoken
  BY <1>5 DEF Spoken, AloneIsWhole, NeverDeclaredGone, Silence, Message, Nothing
<1> QED BY <1>6, <1>7, <1>8, <1>9, <1>10, <1>11, <1>12 DEF IInv

\* core_connect is done: the application goes on to core_device_register.
LEMMA ConnectStep == ASSUME IInv, Connect PROVE IInv'
<1>1. /\ "app" \in Threads /\ Busy("app") /\ Current("app").do = "connect"
      /\ link' = TRUE /\ online' = TRUE /\ opened' = TRUE /\ out' = Silence
      /\ UNCHANGED <<topicBuff, payloadBuff, pubmsg, overlapped>> /\ GoOn("app")
      /\ todo \in [Threads -> Seq(Functions)] /\ done \in [Threads -> Nat]
  BY DEF Connect, Do, OpenSession, buffers, Threads, IInv, TypeInv
<1>2. ~opened
  <2> SUFFICES ASSUME opened PROVE FALSE OBVIOUS
  <2>1. Shape(Head(todo["app"])) /\ done["app"] + 1 \in 1 .. Len(Head(todo["app"]))
        /\ Current("app") = Head(todo["app"])[done["app"] + 1]
    BY <1>1, Here DEF Sound
  <2> QED BY <1>1, <2>1 DEF Shape
<1>3. /\ Head(todo["app"]) = CoreConnect /\ ~Busy("reconnect")
      /\ Tail(todo["app"]) \in Seq(Publishers) /\ pubmsg = Nothing
      /\ Len(todo["app"]) > 1 /\ todo["app"][2] = DeviceRegister
  BY <1>2 DEF IInv, Beginning
<1>4. todo' = [todo EXCEPT !["app"] = Tail(todo["app"])] /\ done' = [done EXCEPT !["app"] = 0]
  <2> DEFINE k == done["app"]
  <2>1. k \in Nat /\ k + 1 \in 1 .. 3 /\ Current("app") = CoreConnect[k + 1]
    BY <1>1, <1>3, Here, ConnectSteps
  <2> HIDE DEF k
  <2>2. k + 1 = 3 BY <1>1, <2>1, ConnectSteps
  <2> QED BY <1>1, <1>3, <2>2, ConnectSteps DEF GoOn, Leave, k
<1>5. /\ Tail(todo["app"]) # << >> /\ Head(Tail(todo["app"])) = DeviceRegister
      /\ Tail(todo["app"]) \in Seq(Functions)
  <2> DEFINE s == todo["app"]
  <2>1. s \in Seq(Functions) /\ s # << >> /\ Len(s) > 1 /\ s[2] = DeviceRegister
    BY <1>1, <1>3 DEF Busy
  <2> HIDE DEF s, Functions
  <2>2. Len(Tail(s)) = Len(s) - 1 /\ Tail(s) \in Seq(Functions)
        /\ \A j \in 1 .. Len(s) - 1 : Tail(s)[j] = s[j + 1]
    BY <2>1
  <2>3. Len(Tail(s)) # 0 /\ Tail(s)[1] = s[1 + 1] BY <2>1, <2>2
  <2>4. Tail(s) # << >> BY <2>2, <2>3, EmptySeq, Zenon
  <2>5. Head(Tail(s)) = s[2] BY <2>2, <2>3, <2>4
  <2> QED BY <2>1, <2>2, <2>4, <2>5 DEF s
<1>6. /\ todo'["app"] = Tail(todo["app"]) /\ todo'["reconnect"] = << >>
      /\ done'["app"] = 0 /\ done'["reconnect"] = 0
  BY <1>1, <1>3, <1>4 DEF Threads, Busy, IInv, TypeInv
<1>7. TypeInv'
  <2>1. todo' \in [Threads -> Seq(Functions)] /\ done' \in [Threads -> Nat]
    <3> HIDE DEF Functions
    <3> QED BY <1>1, <1>4, <1>5
  <2>2. \A t \in Threads : IF Busy(t)' THEN done'[t] < Len(Head(todo'[t])) ELSE done'[t] = 0
    <3>1. Head(todo'["app"]) = DeviceRegister BY <1>5, <1>6
    <3> DEFINE l == Len(DeviceRegister)
    <3>4. l = 11 BY RegisterSteps
    <3> HIDE DEF l
    <3>5. done'["app"] < l BY <1>6, <3>4
    <3>2. done'["app"] < Len(Head(todo'["app"])) BY <3>1, <3>5, Zenon DEF l
    <3>3. Busy("app")' /\ ~Busy("reconnect")' BY <1>5, <1>6 DEF Busy
    <3> QED BY <1>6, <3>2, <3>3 DEF Threads
  <2> QED BY <1>1, <2>1, <2>2 DEF TypeInv, IInv
<1>8. Beginning'
  <2>1. << >> \in Seq(Publishers) BY EmptySeq, Zenon
  <2> QED BY <1>1, <1>3, <1>6, <2>1 DEF Beginning, Threads
<1>9. Apart' BY <1>6 DEF Apart, Threads, Busy
<1>10. \A t \in Threads : done'[t] = 0 BY <1>6 DEF Threads
<1>11. Cleared' BY <1>1, <1>3, <1>10, NothingYet DEF Cleared, Nothing, Buffer
<1>12. Undisturbed' BY <1>10, NothingYet DEF Undisturbed
<1>13. Subscribing'
  <2>1. Registering("app")' /\ Busy("app")'
    BY <1>5, <1>6 DEF Registering, Busy, SoFar
  <2> QED BY <1>1, <2>1 DEF Subscribing
<1> QED BY <1>1, <1>7, <1>8, <1>9, <1>11, <1>12, <1>13, SilenceSpoken DEF IInv

\* A new session: nothing is subscribed, and the registration begins.
LEMMA ReconnectStep == ASSUME IInv, Reconnect PROVE IInv'
<1>1. /\ ~Busy("reconnect") /\ opened /\ opened' = opened /\ done' = done
      /\ link' = TRUE /\ online' = TRUE /\ out' = Silence
      /\ UNCHANGED <<topicBuff, payloadBuff, pubmsg>>
      /\ todo' = [todo EXCEPT !["reconnect"] = Registration]
      /\ overlapped' = Busy("app")
      /\ todo \in [Threads -> Seq(Functions)] /\ done \in [Threads -> Nat]
  BY DEF Reconnect, OpenSession, buffers, IInv, TypeInv
<1>2. /\ todo'["app"] = todo["app"] /\ todo'["reconnect"] = Registration
      /\ done["reconnect"] = 0
  BY <1>1 DEF Threads, IInv, TypeInv
<1>3. Registration \in Seq(Functions)
  <2>1. Publishers \subseteq Functions BY DEF Functions
  <2> HIDE DEF Publishers, Functions
  <2> QED BY <2>1, RegistrationPublishers
<1>4. TypeInv'
  <2>1. todo' \in [Threads -> Seq(Functions)]
    <3> HIDE DEF Functions
    <3> QED BY <1>1, <1>3
  <2>2. \A t \in Threads : IF Busy(t)' THEN done'[t] < Len(Head(todo'[t])) ELSE done'[t] = 0
    BY <1>1, <1>2, RegistrationPublishers, RegisterSteps DEF Threads, Busy, IInv, TypeInv
  <2>3. overlapped' \in BOOLEAN BY <1>1 DEF Busy
  <2> QED BY <1>1, <2>1, <2>2, <2>3 DEF TypeInv, IInv
<1>5. Beginning'
  BY <1>1, <1>2, RegistrationPublishers DEF IInv, Beginning, Threads
<1>6. Apart' BY <1>1, <1>2 DEF Apart, Threads, Busy
<1>7. Cleared'
  <2> SUFFICES ASSUME NEW t \in Threads, Busy(t)'
               PROVE  /\ Has(Head(todo'[t]), done'[t], "topic") => topicBuff' # "willmessage"
                      /\ Has(Head(todo'[t]), done'[t], "payload") => payloadBuff' # "offline"
    BY <1>1 DEF IInv, Cleared
  <2>1. CASE t = "reconnect" BY <1>1, <1>2, <2>1, NothingYet
  <2>2. CASE t = "app" BY <1>1, <1>2, <2>2 DEF IInv, Cleared, Busy
  <2> QED BY <2>1, <2>2 DEF Threads
<1>8. Undisturbed'
  <2> SUFFICES ASSUME ~overlapped', NEW t \in Threads, Busy(t)'
               PROVE  done'[t] = 0
    BY NothingYet DEF Undisturbed
  <2>1. t = "reconnect" BY <1>1, <1>2 DEF Threads, Busy
  <2> QED BY <1>1, <1>2, <2>1
<1>9. Subscribing'
  <2>1. Registering("reconnect")' /\ Busy("reconnect")'
    BY <1>1, <1>2, RegistrationPublishers DEF Registering, Busy, SoFar
  <2> QED BY <2>1 DEF Subscribing, Threads
<1> QED BY <1>1, <1>4, <1>5, <1>6, <1>7, <1>8, <1>9, SilenceSpoken DEF IInv

\* The application begins its next call.
LEMMA CallStep == ASSUME IInv, Call PROVE IInv'
<1>1. PICK c \in Calls : todo' = [todo EXCEPT !["app"] = c] BY DEF Call
<1>2. /\ ~Busy("app") /\ done' = done /\ out' = Silence
      /\ overlapped' = (overlapped \/ Busy("reconnect"))
      /\ UNCHANGED <<topicBuff, payloadBuff, pubmsg, link, online, subscribed, opened>>
      /\ todo \in [Threads -> Seq(Functions)] /\ done \in [Threads -> Nat]
  BY DEF Call, buffers, session, IInv, TypeInv
<1>3. /\ todo'["app"] = c /\ todo'["reconnect"] = todo["reconnect"] /\ done["app"] = 0
  BY <1>1, <1>2 DEF Threads, IInv, TypeInv
<1>4. opened BY <1>2 DEF IInv, Beginning
<1>5. /\ c \in Seq(Publishers) /\ c \in Seq(Functions)
      /\ c # << >> => 0 < Len(Head(c))
  <2>1. c \in Seq(Publishers) BY CallsPublishers
  <2>2. Publishers \subseteq Functions BY DEF Functions
  <2>3. \A f \in Publishers : 0 < Len(f)
    <3> TAKE f \in Publishers
    <3> DEFINE l == Len(f)
    <3>1. l \in 1 .. 11 BY PublishersSound DEF Sound, Shape
    <3> HIDE DEF l
    <3>2. 0 < l BY <3>1
    <3> QED BY <3>2 DEF l
  <2>4. c # << >> => Head(c) \in Publishers
    <3> HIDE DEF Publishers
    <3> QED BY <2>1
  <2>5. c \in Seq(Functions)
    <3> HIDE DEF Publishers, Functions
    <3> QED BY <2>1, <2>2
  <2> QED BY <2>1, <2>3, <2>4, <2>5
<1>6. TypeInv'
  <2>1. todo' \in [Threads -> Seq(Functions)]
    <3> HIDE DEF Functions
    <3> QED BY <1>1, <1>2, <1>5
  <2>2. \A t \in Threads : IF Busy(t)' THEN done'[t] < Len(Head(todo'[t])) ELSE done'[t] = 0
    <3>1. /\ IF Busy("reconnect")' THEN done'["reconnect"] < Len(Head(todo'["reconnect"]))
                                   ELSE done'["reconnect"] = 0
      BY <1>2, <1>3 DEF IInv, TypeInv, Busy, Threads
    <3>2. IF Busy("app")' THEN done'["app"] < Len(Head(todo'["app"])) ELSE done'["app"] = 0
      BY <1>2, <1>3, <1>5 DEF Busy
    <3> QED BY <3>1, <3>2 DEF Threads
  <2>3. overlapped' \in BOOLEAN BY <1>2 DEF IInv, TypeInv, Busy
  <2> QED BY <1>2, <2>1, <2>2, <2>3 DEF TypeInv, IInv
<1>7. Beginning' BY <1>2, <1>3, <1>4, <1>5 DEF IInv, Beginning, Threads
<1>8. Apart' BY <1>2, <1>3 DEF Apart, Threads, Busy
<1>9. Cleared'
  <2> SUFFICES ASSUME NEW t \in Threads, Busy(t)'
               PROVE  /\ Has(Head(todo'[t]), done'[t], "topic") => topicBuff' # "willmessage"
                      /\ Has(Head(todo'[t]), done'[t], "payload") => payloadBuff' # "offline"
    BY <1>2 DEF IInv, Cleared
  <2>1. CASE t = "app" BY <1>2, <1>3, <2>1, NothingYet
  <2>2. CASE t = "reconnect" BY <1>2, <1>3, <1>4, <2>2 DEF IInv, Cleared, Busy
  <2> QED BY <2>1, <2>2 DEF Threads
<1>10. Undisturbed'
  <2> SUFFICES ASSUME ~overlapped', NEW t \in Threads, Busy(t)'
               PROVE  done'[t] = 0
    BY NothingYet DEF Undisturbed
  <2>1. t = "app" BY <1>2, <1>3 DEF Threads, Busy
  <2> QED BY <1>2, <1>3, <2>1
<1>11. Subscribing'
  <2> SUFFICES ASSUME link', ~overlapped' PROVE Three \subseteq subscribed'
    BY DEF Subscribing
  <2>1. \A t \in Threads : ~Busy(t) BY <1>2 DEF Threads
  <2> QED BY <1>2, <2>1 DEF IInv, Subscribing
<1> QED BY <1>2, <1>6, <1>7, <1>8, <1>9, <1>10, <1>11, SilenceSpoken DEF IInv

LEMMA LostStep == ASSUME IInv, Lost PROVE IInv'
<1>1. /\ link' = FALSE /\ online' = FALSE /\ out' = Silence /\ opened
      /\ UNCHANGED <<topicBuff, payloadBuff, pubmsg, todo, done, opened, overlapped>>
  BY DEF Lost, buffers, work, IInv, Beginning
<1>2. TypeInv' BY <1>1 DEF IInv, TypeInv, Busy
<1>3. Beginning' BY <1>1 DEF IInv, Beginning
<1>4. Apart' BY <1>1 DEF IInv, Apart, Busy
<1>5. Cleared' BY <1>1 DEF IInv, Cleared, Busy
<1>6. Undisturbed' BY <1>1 DEF IInv, Undisturbed, Busy
<1>7. Subscribing' BY <1>1 DEF Subscribing
<1> QED BY <1>1, <1>2, <1>3, <1>4, <1>5, <1>6, <1>7, SilenceSpoken DEF IInv

LEMMA StutterStep == ASSUME IInv, UNCHANGED vars PROVE IInv'
<1>1. UNCHANGED <<topicBuff, payloadBuff, pubmsg, todo, done, link, online, subscribed,
                  opened, overlapped, out>>
  BY DEF vars, buffers, session, work
<1>2. TypeInv' BY <1>1 DEF IInv, TypeInv, Busy
<1>3. Beginning' BY <1>1 DEF IInv, Beginning, Busy
<1>4. Apart' BY <1>1 DEF IInv, Apart, Busy
<1>5. Cleared' BY <1>1 DEF IInv, Cleared, Busy
<1>6. Undisturbed' BY <1>1 DEF IInv, Undisturbed, Busy
<1>7. Subscribing' BY <1>1 DEF IInv, Subscribing, Registering, Busy
<1>8. Spoken' BY <1>1 DEF IInv, Spoken, AloneIsWhole, NeverDeclaredGone
<1> QED BY <1>2, <1>3, <1>4, <1>5, <1>6, <1>7, <1>8 DEF IInv

LEMMA NextIInv == IInv /\ [Next]_vars => IInv'
BY ConnectStep, ReconnectStep, CallStep, LostStep, ThreadStep, StutterStep DEF Next

--------------------------------------------------------------------------------
(* The theorems.                                                           *)

THEOREM Invariant == Spec => []IInv
BY InitIInv, NextIInv, PTL DEF Spec

\* A thread that meets no other publishes every message on its own topic, for
\* any messages of the application and any losses of the link.
THEOREM WholeWhenAlone == Spec => []AloneIsWhole
<1>1. IInv => AloneIsWhole BY DEF IInv, Spoken
<1> QED BY <1>1, Invariant, PTL

\* However the threads meet, neither the topic nor the text of the will is ever
\* published while the gateway lives.
THEOREM NotDeclaredGone == Spec => []NeverDeclaredGone
<1>1. IInv => NeverDeclaredGone BY DEF IInv, Spoken
<1> QED BY <1>1, Invariant, PTL

\* After every reconnect, and between any calls, the gateway is subscribed to
\* the three topics of the server once it is at rest.
THEOREM ServerHeard == Spec => []HearsServer
<1>1. IInv => HearsServer
  BY DEF IInv, Subscribing, HearsServer, Three
<1> QED BY <1>1, Invariant, PTL
================================================================================
