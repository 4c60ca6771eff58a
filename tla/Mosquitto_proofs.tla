---------------------------- MODULE Mosquitto_proofs ----------------------------
(***************************************************************************)
(* The Mosquitto carrier for any topics: the lock WiCar_MQTT_Connect waits *)
(* with lets the application go only after the broker has accepted, a      *)
(* topic the broker knows has its callback unless two threads added one at *)
(* once, and a gateway at rest on a live link is known to the server.      *)
(***************************************************************************)
EXTENDS Mosquitto, TLAPS, SequenceTheorems

\* The steps of the core_... functions: only the first one left may be a later stage of
\* a subscription.
Instructions ==
    [do : {"test", "announce"}, arg : {"online"}]
        \cup [do : {"find", "send", "last", "append"}, arg : Topics]
Plain(s) == \A k \in 2 .. Len(s) : s[k].do \in {"find", "announce"}

Scripts ==
    /\ todo \in [Threads -> Seq(Instructions)]
    /\ \A t \in Threads : Plain(todo[t])
    /\ pc["app"] # "run" => todo["app"] = << >>
    /\ pc["loop"] # "core" => todo["loop"] = << >>

Places ==
    /\ pc = [t \in Threads |-> pc[t]]
    /\ link \in {"down", "asked", "up", "lost"} /\ result \in {"none", "success", "error"}
    /\ held \in BOOLEAN /\ mutexp \in BOOLEAN /\ accepted \in BOOLEAN /\ crashed \in BOOLEAN
    /\ pc["app"] \in {"lock", "connect", "test", "load", "wait", "return", "run", "ended"}
    /\ pc["loop"] \in {"idle", "status", "core", "unlock", "null", "offline", "losted"}
    /\ online \in BOOLEAN /\ gLosted \in BOOLEAN /\ announced \in BOOLEAN

\* Only on_connect_callback unlocks the mutex and forgets it, and only it can see the
\* broker's acceptance; the application passes by one or the other.
Waiting ==
    /\ ~mutexp => accepted
    /\ pc["app"] # "lock" /\ ~held => accepted
    /\ pc["loop"] \in {"status", "core", "unlock", "null"} => accepted
    /\ pc["app"] \in {"return", "run", "ended"} => accepted

\* A thread that is adding a topic has not found it, so that the list holds no entry of
\* the thread's for it; unless both threads came to the end of the list at once, what a
\* thread took for the end still is.
Entries == [topic : Topics, by : Threads]
Adding(t) == At(t, "send") \/ At(t, "last") \/ At(t, "append")
Lists ==
    /\ topics \in Seq(Entries) /\ last \in [Threads -> Seq(Entries)]
    /\ raced \in BOOLEAN /\ subscribed \subseteq Topics
    /\ IsInjective(topics)
    /\ \A t \in Threads : Adding(t) => \A i \in 1 .. Len(topics) : topics[i] # Entry(t)
    /\ ~raced => /\ ~(At("app", "append") /\ At("loop", "append"))
                 /\ \A t \in Threads : At(t, "append") => last[t] = topics

\* What the flags say of the link: the next session is asked for before gLosted stands, but
\* the callback that sets it comes before the broker's answer; and when the link is up and
\* it does not stand, the application is still in _connect.
Session ==
    /\ pc["app"] \in {"lock", "connect"} => link = "down" /\ pc["loop"] = "idle" /\ ~accepted
    /\ pc["loop"] \in {"status", "core", "unlock", "null"} => link \in {"up", "lost"}
    /\ pc["loop"] \in {"offline", "losted"} => link # "up"
    /\ link = "up" /\ pc["loop"] # "status" => online
    /\ pc["loop"] = "core" => online
    /\ accepted /\ link \in {"asked", "down"} => gLosted \/ pc["loop"] \in {"offline", "losted"}
    /\ pc["loop"] \in {"status", "core"} /\ ~gLosted =>
          mutexp /\ held /\ pc["app"] \in {"test", "load", "wait"}

\* Whoever has still to announce the gateway.
WillAnnounce(t) == todo[t] # << >> /\ todo[t][Len(todo[t])].do = "announce"
Announcing ==
    link = "up" /\ ~announced /\ pc["app"] # "ended" =>
        \/ pc["loop"] = "status"
        \/ pc["loop"] = "core" /\ WillAnnounce("loop")
        \/ pc["app"] \in {"test", "load", "wait", "return"}
        \/ pc["app"] = "run" /\ WillAnnounce("app")

IInv == Places /\ Waiting /\ Scripts /\ Lists /\ HasItsCallback /\ Session /\ Announcing
--------------------------------------------------------------------------------
(* Scripts.                                                                *)

LEMMA Shift ==
    ASSUME NEW s \in Seq(Instructions), s # << >>, Plain(s)
    PROVE  /\ Head(s) = s[1] /\ Head(s) \in Instructions
           /\ Tail(s) \in Seq(Instructions) /\ Plain(Tail(s))
           /\ Tail(s) # << >> => /\ Head(Tail(s)).do \in {"find", "announce"}
                                 /\ Tail(s)[Len(Tail(s))] = s[Len(s)]
           /\ s[Len(s)].do # Head(s).do => Tail(s) # << >>
<1>1. /\ Tail(s) \in Seq(Instructions) /\ Len(Tail(s)) = Len(s) - 1
      /\ \A k \in 1 .. Len(Tail(s)) : Tail(s)[k] = s[k + 1]
      /\ Head(s) = s[1]
  BY HeadTailProperties
<1>2. Len(s) \in Nat /\ Len(s) # 0 BY LenProperties, EmptySeq
<1>3. s[1] \in Instructions BY <1>2, ElementOfSeq
<1>4. Plain(Tail(s)) BY <1>1, <1>2 DEF Plain
<1>5. ASSUME Tail(s) # << >>
      PROVE  Head(Tail(s)) = s[2] /\ Tail(s)[Len(Tail(s))] = s[Len(s)] /\ 2 \in 2 .. Len(s)
  <2>1. Len(Tail(s)) \in Nat \ {0} BY <1>1, <1>2, <1>5, EmptySeq
  <2>2. Head(Tail(s)) = Tail(s)[1] BY <1>1, <1>5, HeadTailProperties
  <2> QED BY <1>1, <1>2, <2>1, <2>2
<1>6. ASSUME Tail(s) = << >> PROVE Len(s) = 1
  <2>1. Len(<< >>) = 0 BY EmptySeq
  <2>2. Len(Tail(s)) = 0 BY <1>6, <2>1, Zenon
  <2>3. Len(Tail(s)) = Len(s) - 1 BY <1>1
  <2> HIDE <1>6
  <2> QED BY <1>2, <2>2, <2>3
<1> QED BY <1>1, <1>3, <1>4, <1>5, <1>6 DEF Plain

\* The first instruction is replaced by its next stage.
LEMMA Staged ==
    ASSUME NEW s \in Seq(Instructions), s # << >>, Plain(s), NEW i \in Instructions
    PROVE  LET r == << i >> \o Tail(s) IN
           /\ r \in Seq(Instructions) /\ Plain(r) /\ r # << >> /\ Head(r) = i
           /\ s[Len(s)].do # Head(s).do => r[Len(r)] = s[Len(s)]
<1> DEFINE r == << i >> \o Tail(s)
<1>1. /\ Tail(s) \in Seq(Instructions) /\ Len(Tail(s)) = Len(s) - 1
      /\ \A k \in 1 .. Len(Tail(s)) : Tail(s)[k] = s[k + 1]
      /\ Head(s) = s[1]
  BY HeadTailProperties
<1>2. Len(s) \in Nat /\ Len(s) # 0 BY LenProperties, EmptySeq
<1>3. << i >> \in Seq(Instructions) /\ Len(<< i >>) = 1 /\ << i >>[1] = i OBVIOUS
<1>4. /\ r \in Seq(Instructions) /\ Len(r) = 1 + Len(Tail(s))
      /\ \A k \in 1 .. Len(r) : r[k] = IF k <= 1 THEN << i >>[k] ELSE Tail(s)[k - 1]
  BY <1>1, <1>3, ConcatProperties
<1> HIDE DEF r
<1>5. Len(r) = Len(s) /\ r[1] = i /\ \A k \in 2 .. Len(s) : r[k] = s[k]
  <2>1. Len(r) = Len(s) BY <1>1, <1>2, <1>4
  <2>2. r[1] = i BY <1>2, <1>3, <1>4, <2>1
  <2>3. ASSUME NEW k \in 2 .. Len(s) PROVE r[k] = s[k]
    <3>1. k \in 1 .. Len(r) /\ ~(k <= 1) /\ k - 1 \in 1 .. Len(Tail(s)) BY <1>1, <1>2, <2>1
    <3>2. (k - 1) + 1 = k BY <1>2
    <3> QED BY <1>1, <1>4, <3>1, <3>2
  <2> QED BY <2>1, <2>2, <2>3
<1>6. Plain(r) BY <1>5 DEF Plain
<1>7. r # << >> BY <1>2, <1>5, EmptySeq
<1>8. Head(r) = i BY <1>4, <1>5, <1>7, HeadTailProperties
<1>9. s[Len(s)].do # Head(s).do => Len(s) \in 2 .. Len(s) BY <1>1, <1>2
<1> QED BY <1>4, <1>5, <1>6, <1>7, <1>8, <1>9 DEF r

LEMMA TopicsIn == /\ ServerTopics \in Seq(Topics) /\ SensorTopic \in Topics
<1>1. ServerTopics \in Seq(STRING) BY TopicsAssumption
<1>2. ASSUME NEW k \in 1 .. Len(ServerTopics) PROVE ServerTopics[k] \in Topics
  BY <1>1, LenProperties DEF Topics, ToSet
<1>3. ServerTopics \in Seq(Topics) BY <1>1, <1>2, IsASeq, LenProperties
<1> QED BY <1>3 DEF Topics

\* core_device_register, and the subscription of WiseSnail_RegisterSensor.
LEMMA Functions ==
    /\ DeviceRegister \in Seq(Instructions) /\ Plain(DeviceRegister)
    /\ DeviceRegister # << >> /\ Head(DeviceRegister).do = "test"
    /\ DeviceRegister[Len(DeviceRegister)].do = "announce"
    /\ SubscribeSensor \in Seq(Instructions) /\ Plain(SubscribeSensor)
    /\ SubscribeSensor # << >> /\ Head(SubscribeSensor).do = "find"
<1> DEFINE test == << Step("test", "online") >>
           finds == [n \in DOMAIN ServerTopics |-> Subscribe(ServerTopics[n])]
           announce == << Step("announce", "online") >>
<1>1. test \in Seq(Instructions) /\ Len(test) = 1 /\ test[1].do = "test"
  <2>1. Step("test", "online") \in Instructions BY DEF Step, Instructions
  <2> QED BY <2>1 DEF Step
<1>2. announce \in Seq(Instructions) /\ Len(announce) = 1 /\ announce[1].do = "announce"
  <2>1. Step("announce", "online") \in Instructions BY DEF Step, Instructions
  <2> QED BY <2>1 DEF Step
<1>3. /\ finds \in Seq(Instructions) /\ Len(finds) = Len(ServerTopics)
      /\ \A k \in 1 .. Len(finds) : finds[k].do = "find"
  <2>1. DOMAIN ServerTopics = 1 .. Len(ServerTopics) /\ Len(ServerTopics) \in Nat
    BY TopicsIn, LenProperties
  <2>2. \A k \in 1 .. Len(ServerTopics) :
           Subscribe(ServerTopics[k]) \in Instructions /\ Subscribe(ServerTopics[k]).do = "find"
    BY TopicsIn, ElementOfSeq DEF Subscribe, Step, Instructions
  <2>3. finds = [k \in 1 .. Len(ServerTopics) |-> Subscribe(ServerTopics[k])] BY <2>1
  <2> HIDE DEF finds
  <2>4. finds \in Seq(Instructions) BY <2>1, <2>2, <2>3, IsASeq
  <2>5. DOMAIN finds = 1 .. Len(ServerTopics) BY <2>3
  <2>6. Len(finds) = Len(ServerTopics) BY <2>1, <2>4, <2>5, LenProperties
  <2> QED BY <2>2, <2>3, <2>4, <2>6
<1>4. DeviceRegister = (test \o finds) \o announce BY DEF DeviceRegister
<1> HIDE DEF test, finds, announce
<1> DEFINE front == test \o finds
<1>5. /\ front \in Seq(Instructions) /\ Len(front) = 1 + Len(finds)
      /\ \A k \in 1 .. Len(front) : front[k] = IF k <= 1 THEN test[k] ELSE finds[k - 1]
  <2>1. /\ front \in Seq(Instructions) /\ Len(front) = Len(test) + Len(finds)
        /\ \A k \in 1 .. Len(test) + Len(finds) :
              front[k] = IF k <= Len(test) THEN test[k] ELSE finds[k - Len(test)]
    <3>1. test \in Seq(Instructions) /\ finds \in Seq(Instructions) BY <1>1, <1>3
    <3> QED BY <3>1, ConcatProperties
  <2> HIDE DEF front
  <2>2. Len(finds) \in Nat BY <1>3, LenProperties
  <2> QED BY <1>1, <2>1, <2>2
<1>6. Len(finds) \in Nat BY <1>3, LenProperties
<1>7. front[1].do = "test" /\ \A k \in 2 .. Len(front) : front[k].do = "find"
  <2>1. front[1] = test[1] BY <1>5, <1>6
  <2>2. ASSUME NEW k \in 2 .. Len(front) PROVE front[k].do = "find"
    <3>1. k \in 1 .. Len(front) /\ ~(k <= 1) /\ k - 1 \in 1 .. Len(finds) BY <1>5, <1>6
    <3> QED BY <1>3, <1>5, <3>1
  <2> QED BY <1>1, <2>1, <2>2
<1> DEFINE all == front \o announce
<1> HIDE DEF front
<1>8. /\ all \in Seq(Instructions) /\ Len(all) = Len(front) + 1
      /\ \A k \in 1 .. Len(all) :
            all[k] = IF k <= Len(front) THEN front[k] ELSE announce[k - Len(front)]
  <2>1. /\ all \in Seq(Instructions) /\ Len(all) = Len(front) + Len(announce)
        /\ \A k \in 1 .. Len(front) + Len(announce) :
              all[k] = IF k <= Len(front) THEN front[k] ELSE announce[k - Len(front)]
    BY <1>2, <1>5, ConcatProperties
  <2> HIDE DEF all
  <2> QED BY <1>2, <2>1
<1>9. DeviceRegister = all BY <1>4 DEF front
<1> HIDE DEF all
<1>10. Len(front) \in Nat \ {0} /\ Len(all) \in Nat \ {0} BY <1>5, <1>6, <1>8
<1>11. all[Len(all)].do = "announce"
  <2>1. Len(all) \in 1 .. Len(all) /\ ~(Len(all) <= Len(front)) /\ Len(all) - Len(front) = 1
    BY <1>8, <1>10
  <2> QED BY <1>2, <1>8, <2>1
<1>12. all[1].do = "test"
  <2>1. 1 \in 1 .. Len(all) /\ 1 <= Len(front) BY <1>8, <1>10
  <2> QED BY <1>7, <1>8, <2>1
<1>13. Plain(all)
  <2> SUFFICES ASSUME NEW k \in 2 .. Len(all) PROVE all[k].do \in {"find", "announce"}
    BY DEF Plain
  <2>1. k \in 1 .. Len(all) BY <1>10
  <2>2. CASE k <= Len(front)
    <3>1. k \in 2 .. Len(front) BY <1>10, <2>2
    <3> QED BY <1>7, <1>8, <2>1, <2>2, <3>1
  <2>3. CASE ~(k <= Len(front))
    <3>1. k = Len(all) BY <1>8, <1>10, <2>3
    <3> QED BY <1>11, <3>1
  <2> QED BY <2>2, <2>3
<1>14. all # << >> BY <1>10, EmptySeq
<1>15. Head(all) = all[1] BY <1>8, <1>14, HeadTailProperties
<1>16. /\ SubscribeSensor \in Seq(Instructions) /\ Len(SubscribeSensor) = 1
       /\ SubscribeSensor[1].do = "find" /\ SubscribeSensor # << >>
       /\ Head(SubscribeSensor).do = "find"
  <2>1. Subscribe(SensorTopic) \in Instructions /\ Subscribe(SensorTopic).do = "find"
    BY TopicsIn DEF Subscribe, Step, Instructions
  <2> QED BY <2>1 DEF SubscribeSensor
<1>17. Plain(SubscribeSensor) BY <1>16 DEF Plain
<1> QED BY <1>8, <1>9, <1>11, <1>12, <1>13, <1>14, <1>15, <1>16, <1>17

\* A thread is given other steps.
LEMMA Replaced ==
    ASSUME todo \in [Threads -> Seq(Instructions)], \A t \in Threads : Plain(todo[t]),
           NEW t \in Threads, NEW s \in Seq(Instructions), Plain(s),
           todo' = [todo EXCEPT ![t] = s]
    PROVE  /\ todo' \in [Threads -> Seq(Instructions)] /\ \A u \in Threads : Plain(todo'[u])
           /\ todo'[t] = s /\ \A u \in Threads \ {t} : todo'[u] = todo[u]
OBVIOUS

LEMMA EmptyScript == << >> \in Seq(Instructions) /\ Plain(<< >>)
BY EmptySeq DEF Plain

\* A step of a core_... function is done.
LEMMA DoneMoves ==
    ASSUME Scripts, NEW t \in Threads, todo[t] # << >>, UNCHANGED pc, Done(t)
    PROVE  /\ Scripts' /\ \A u \in Threads \ {t} : todo'[u] = todo[u]
           /\ ~Adding(t)'
           /\ WillAnnounce(t) /\ Head(todo[t]).do # "announce" => WillAnnounce(t)'
<1>1. todo[t] \in Seq(Instructions) /\ Plain(todo[t]) BY DEF Scripts
<1> DEFINE s == Tail(todo[t])
<1>2. /\ s \in Seq(Instructions) /\ Plain(s)
      /\ s # << >> => /\ Head(s).do \in {"find", "announce"}
                      /\ s[Len(s)] = todo[t][Len(todo[t])]
      /\ todo[t][Len(todo[t])].do # Head(todo[t]).do => s # << >>
  BY <1>1, Shift
<1>3. todo' = [todo EXCEPT ![t] = s] BY DEF Done
<1> HIDE DEF s
<1>4. /\ todo' \in [Threads -> Seq(Instructions)] /\ \A u \in Threads : Plain(todo'[u])
      /\ todo'[t] = s /\ \A u \in Threads \ {t} : todo'[u] = todo[u]
  BY <1>2, <1>3, Replaced DEF Scripts
<1>5. ~Adding(t)' BY <1>2, <1>4 DEF Adding, At
<1>6. WillAnnounce(t) /\ Head(todo[t]).do # "announce" => WillAnnounce(t)'
  BY <1>2, <1>4 DEF WillAnnounce
<1>7. Scripts' BY <1>4 DEF Scripts, Threads
<1> QED BY <1>4, <1>5, <1>6, <1>7

\* A subscription goes on to its next stage.
LEMMA BecomeMoves ==
    ASSUME Scripts, NEW t \in Threads, NEW do \in {"send", "last", "append"},
           At(t, "find") \/ Adding(t), UNCHANGED pc, Become(t, do)
    PROVE  /\ Scripts' /\ \A u \in Threads \ {t} : todo'[u] = todo[u]
           /\ todo'[t] # << >> /\ Head(todo'[t]) = Step(do, Arg(t)) /\ Arg(t) \in Topics
           /\ WillAnnounce(t) => WillAnnounce(t)'
<1>1. /\ todo[t] \in Seq(Instructions) /\ Plain(todo[t]) /\ todo[t] # << >>
      /\ Head(todo[t]).do \in {"find", "send", "last", "append"}
  BY DEF Scripts, Adding, At
<1>2. Head(todo[t]) \in Instructions BY <1>1, Shift
<1>3. Arg(t) \in Topics /\ Step(do, Arg(t)) \in Instructions
  BY <1>1, <1>2 DEF Arg, Instructions, Step
<1> DEFINE s == << Step(do, Arg(t)) >> \o Tail(todo[t])
<1>4. /\ s \in Seq(Instructions) /\ Plain(s) /\ s # << >> /\ Head(s) = Step(do, Arg(t))
      /\ todo[t][Len(todo[t])].do # Head(todo[t]).do => s[Len(s)] = todo[t][Len(todo[t])]
  BY <1>1, <1>3, Staged
<1>5. todo' = [todo EXCEPT ![t] = s] BY DEF Become
<1> HIDE DEF s
<1>6. /\ todo' \in [Threads -> Seq(Instructions)] /\ \A u \in Threads : Plain(todo'[u])
      /\ todo'[t] = s /\ \A u \in Threads \ {t} : todo'[u] = todo[u]
  BY <1>4, <1>5, Replaced DEF Scripts
<1>7. WillAnnounce(t) => WillAnnounce(t)' BY <1>1, <1>4, <1>6 DEF WillAnnounce
<1>8. Scripts' BY <1>1, <1>6 DEF Scripts, Threads
<1> QED BY <1>3, <1>4, <1>6, <1>7, <1>8

\* A thread begins a function, or stops in one.
LEMMA BeginMoves ==
    ASSUME Scripts, NEW t \in Threads, todo[t] = << >>,
           NEW s \in {<< >>, DeviceRegister, SubscribeSensor},
           s = << >> \/ pc'[t] = (IF t = "app" THEN "run" ELSE "core"),
           \A u \in Threads \ {t} : pc'[u] = pc[u],
           todo' = [todo EXCEPT ![t] = s]
    PROVE  /\ Scripts' /\ \A u \in Threads \ {t} : todo'[u] = todo[u]
           /\ todo'[t] = s /\ ~Adding(t)'
           /\ s = DeviceRegister => WillAnnounce(t)'
<1>1. s \in Seq(Instructions) /\ Plain(s) /\ (s # << >> => Head(s).do \in {"test", "find"})
  BY Functions, EmptyScript
<1>2. /\ todo' \in [Threads -> Seq(Instructions)] /\ \A u \in Threads : Plain(todo'[u])
      /\ todo'[t] = s /\ \A u \in Threads \ {t} : todo'[u] = todo[u]
  BY <1>1, Replaced DEF Scripts
<1>3. ~Adding(t)' BY <1>1, <1>2 DEF Adding, At
<1>4. s = DeviceRegister => WillAnnounce(t)' BY <1>2, Functions DEF WillAnnounce
<1>5. Scripts' BY <1>2 DEF Scripts, Threads
<1> QED BY <1>2, <1>3, <1>4, <1>5

\* core_device_register goes on, or comes back at once from a core that is offline.
LEMMA TestMoves ==
    ASSUME Scripts, NEW t \in Threads, TestOnline(t)
    PROVE  /\ Scripts' /\ \A u \in Threads \ {t} : todo'[u] = todo[u]
           /\ ~Adding(t)'
           /\ WillAnnounce(t) /\ online => WillAnnounce(t)'
<1>1. CASE online
  BY <1>1, DoneMoves DEF TestOnline, Do, At, Done
<1>2. CASE ~online
  <2>1. todo' = [todo EXCEPT ![t] = << >>] BY <1>2 DEF TestOnline
  <2>2. /\ todo' \in [Threads -> Seq(Instructions)] /\ \A u \in Threads : Plain(todo'[u])
        /\ todo'[t] = << >> /\ \A u \in Threads \ {t} : todo'[u] = todo[u]
    BY <2>1, EmptyScript, Replaced DEF Scripts
  <2>3. ~Adding(t)' BY <2>2 DEF Adding, At
  <2>4. Scripts' BY <2>2 DEF Scripts, Threads, TestOnline
  <2> QED BY <1>2, <2>2, <2>3, <2>4
<1> QED BY <1>1, <1>2
--------------------------------------------------------------------------------
(* The list of topics.                                                     *)

\* A thread does something that is not a stage of a subscription.
LEMMA Apart ==
    ASSUME Lists, HasItsCallback, NEW t \in Threads,
           \A u \in Threads \ {t} : todo'[u] = todo[u],
           ~Adding(t)', ~At(t, "last") /\ ~At(t, "append"),
           UNCHANGED list, UNCHANGED subscribed
    PROVE  Lists' /\ HasItsCallback'
<1>1. UNCHANGED <<topics, last, raced>> BY DEF list
<1>2. ASSUME NEW u \in Threads, u # t, NEW do
      PROVE  At(u, do)' = At(u, do) /\ Arg(u)' = Arg(u) /\ Entry(u)' = Entry(u)
  BY <1>2 DEF At, Arg, Entry
<1>3. ASSUME NEW u \in Threads, Adding(u)' PROVE u # t /\ Adding(u) /\ Entry(u)' = Entry(u)
  BY <1>2, <1>3 DEF Adding
<1>4. ~At(t, "append")' BY DEF Adding
<1>5. ASSUME NEW u \in Threads, At(u, "append")' PROVE At(u, "append")
  BY <1>2, <1>4, <1>5
<1>6. ~raced => /\ ~(At("app", "append") /\ At("loop", "append"))'
                /\ \A u \in Threads : At(u, "append")' => last[u] = topics
  BY <1>5 DEF Lists, Threads
<1>7. Lists' BY <1>1, <1>3, <1>6 DEF Lists
<1>8. ASSUME NEW x \in subscribed, NEW u \in Threads,
             (At(u, "last") \/ At(u, "append")) /\ Arg(u) = x
      PROVE  (At(u, "last") \/ At(u, "append"))' /\ Arg(u)' = x
  BY <1>2, <1>8
<1>9. HasItsCallback' BY <1>1, <1>8 DEF HasItsCallback, Found
<1> QED BY <1>7, <1>9

\* topic_find, of a topic that has no entry.
LEMMA NotFoundStep ==
    ASSUME Scripts, Lists, HasItsCallback, NEW t \in Threads,
           FindTopic(t), ~Found(Arg(t))
    PROVE  Lists' /\ HasItsCallback'
<1>1. At(t, "find") /\ Become(t, "send") /\ UNCHANGED <<pc, topics, last, raced, subscribed>>
  BY DEF FindTopic, Do, list, broker
<1>2. /\ \A u \in Threads \ {t} : todo'[u] = todo[u]
      /\ todo'[t] # << >> /\ Head(todo'[t]) = Step("send", Arg(t))
  BY <1>1, BecomeMoves
<1>3. ASSUME NEW u \in Threads, u # t, NEW do
      PROVE  At(u, do)' = At(u, do) /\ Arg(u)' = Arg(u) /\ Entry(u)' = Entry(u)
  BY <1>2, <1>3 DEF At, Arg, Entry
<1>4. Entry(t)' = Entry(t) /\ Entry(t).topic = Arg(t) /\ ~At(t, "append")'
  BY <1>2 DEF Entry, Arg, Step, At
<1>5. \A i \in 1 .. Len(topics) : topics[i] # Entry(t)
  BY <1>4, LenProperties DEF Found, ToSet, Lists
<1>6. ASSUME NEW u \in Threads, Adding(u)'
      PROVE  \A i \in 1 .. Len(topics) : topics[i] # Entry(u)'
  <2>1. CASE u = t BY <1>4, <1>5, <2>1
  <2>2. CASE u # t BY <1>3, <1>6, <2>2 DEF Adding, Lists
  <2> QED BY <2>1, <2>2
<1>7. \A u \in Threads : At(u, "append")' => At(u, "append") BY <1>3, <1>4
<1>8. Lists' BY <1>1, <1>6, <1>7 DEF Lists, Threads
<1>9. ASSUME NEW x \in subscribed, NEW u \in Threads,
             (At(u, "last") \/ At(u, "append")) /\ Arg(u) = x
      PROVE  (At(u, "last") \/ At(u, "append"))' /\ Arg(u)' = x
  BY <1>1, <1>3, <1>9 DEF At
<1>10. HasItsCallback' BY <1>1, <1>9 DEF HasItsCallback, Found
<1> QED BY <1>8, <1>10

\* mosquitto_subscribe, of a link that lets it come to topic_last.
LEMMA SentStep ==
    ASSUME Scripts, Lists, HasItsCallback, NEW t \in Threads,
           SendSubscribe(t), Become(t, "last")
    PROVE  Lists' /\ HasItsCallback'
<1>1. /\ At(t, "send") /\ UNCHANGED <<pc, topics, last, raced>>
      /\ subscribed' \in {subscribed, subscribed \cup {Arg(t)}}
  BY DEF SendSubscribe, Do, list
<1>2. /\ \A u \in Threads \ {t} : todo'[u] = todo[u] /\ Arg(t) \in Topics
      /\ todo'[t] # << >> /\ Head(todo'[t]) = Step("last", Arg(t))
  BY <1>1, BecomeMoves DEF Adding
<1>3. ASSUME NEW u \in Threads, u # t, NEW do
      PROVE  At(u, do)' = At(u, do) /\ Arg(u)' = Arg(u) /\ Entry(u)' = Entry(u)
  BY <1>2, <1>3 DEF At, Arg, Entry
<1>4. /\ Entry(t)' = Entry(t) /\ Arg(t)' = Arg(t) /\ At(t, "last")' /\ ~At(t, "append")'
      /\ Adding(t)
  BY <1>1, <1>2 DEF Entry, Arg, Step, At, Adding
<1>5. ASSUME NEW u \in Threads, Adding(u)' PROVE Adding(u) /\ Entry(u)' = Entry(u)
  BY <1>3, <1>4, <1>5 DEF Adding
<1>6. \A u \in Threads : At(u, "append")' => At(u, "append") BY <1>3, <1>4
<1>7. Arg(t) \in Topics BY <1>1, BecomeMoves DEF Adding
<1>8. Lists' BY <1>1, <1>5, <1>6, <1>7 DEF Lists, Threads
<1>9. ASSUME NEW x \in subscribed, NEW u \in Threads,
             (At(u, "last") \/ At(u, "append")) /\ Arg(u) = x
      PROVE  (At(u, "last") \/ At(u, "append"))' /\ Arg(u)' = x
  BY <1>1, <1>3, <1>9 DEF At
<1>10. HasItsCallback' BY <1>1, <1>4, <1>9 DEF HasItsCallback, Found
<1> QED BY <1>8, <1>10

\* topic_last: the other thread may have come to the end of the list, too.
LEMMA LastStep ==
    ASSUME Scripts, Lists, HasItsCallback, NEW t \in Threads, FindLast(t)
    PROVE  Lists' /\ HasItsCallback'
<1>1. /\ At(t, "last") /\ Become(t, "append") /\ UNCHANGED <<pc, topics, subscribed>>
      /\ last' = [last EXCEPT ![t] = topics] /\ raced' = (raced \/ At(Other(t), "append"))
  BY DEF FindLast, Do, broker
<1>2. /\ \A u \in Threads \ {t} : todo'[u] = todo[u]
      /\ todo'[t] # << >> /\ Head(todo'[t]) = Step("append", Arg(t))
  BY <1>1, BecomeMoves DEF Adding
<1>3. ASSUME NEW u \in Threads, u # t, NEW do
      PROVE  At(u, do)' = At(u, do) /\ Arg(u)' = Arg(u) /\ Entry(u)' = Entry(u)
  BY <1>2, <1>3 DEF At, Arg, Entry
<1>4. /\ Entry(t)' = Entry(t) /\ Arg(t)' = Arg(t) /\ At(t, "append")' /\ ~At(t, "append")
      /\ Adding(t)
  BY <1>1, <1>2 DEF Entry, Arg, Step, At, Adding
<1>5. ASSUME NEW u \in Threads, Adding(u)' PROVE Adding(u) /\ Entry(u)' = Entry(u)
  BY <1>3, <1>4, <1>5 DEF Adding
<1>6. last' \in [Threads -> Seq(Entries)] /\ last'[t] = topics
      /\ \A u \in Threads \ {t} : last'[u] = last[u]
  BY <1>1 DEF Lists
<1>7. raced' \in BOOLEAN /\ (~raced' => ~raced /\ ~At(Other(t), "append"))
  BY <1>1 DEF Lists
<1>8. ASSUME ~raced'
      PROVE  /\ ~(At("app", "append") /\ At("loop", "append"))'
             /\ \A u \in Threads : At(u, "append")' => last'[u] = topics
  <2>1. Other(t) \in Threads /\ Other(t) # t /\ \A u \in Threads : u = t \/ u = Other(t)
    BY DEF Other, Threads
  <2>2. ~At(Other(t), "append")' BY <1>3, <1>7, <1>8, <2>1
  <2>3. ~(At("app", "append") /\ At("loop", "append"))' BY <2>2 DEF Other, Threads
  <2> QED BY <1>6, <2>1, <2>2, <2>3
<1>9. Lists' BY <1>1, <1>5, <1>6, <1>7, <1>8 DEF Lists
<1>10. ASSUME NEW x \in subscribed, NEW u \in Threads,
              (At(u, "last") \/ At(u, "append")) /\ Arg(u) = x
       PROVE  (At(u, "last") \/ At(u, "append"))' /\ Arg(u)' = x
  BY <1>3, <1>4, <1>10
<1>11. HasItsCallback' BY <1>1, <1>7, <1>10 DEF HasItsCallback, Found
<1> QED BY <1>9, <1>11

\* The store of the new entry keeps no other thread's entry for a topic it adds, and is
\* lost on nothing while the threads do not race.
LEMMA Stored ==
    ASSUME Lists, NEW t \in Threads, At(t, "append"), Arg(t) \in Topics
    PROVE  LET new == AppendTopic(t) IN
           /\ new \in Seq(Entries) /\ IsInjective(new)
           /\ \A i \in 1 .. Len(new) :
                 new[i] = Entry(t) \/ \E j \in 1 .. Len(topics) : new[i] = topics[j]
           /\ ~raced => /\ \A j \in 1 .. Len(topics) : topics[j] \in ToSet(new)
                        /\ Entry(t) \in ToSet(new)
<1> DEFINE new == AppendTopic(t)
<1>1. /\ topics \in Seq(Entries) /\ last[t] \in Seq(Entries)
      /\ \A i \in 1 .. Len(topics) : topics[i] # Entry(t)
      /\ \A i, j \in 1 .. Len(topics) : topics[i] = topics[j] => i = j
      /\ ~raced => last[t] = topics
  BY LenProperties DEF Lists, Adding, IsInjective
<1>2. Entry(t) \in Entries BY DEF Entry, Entries
<1>3. Len(topics) \in Nat /\ Len(last[t]) \in Nat BY <1>1, LenProperties
<1>4. CASE ~IsPrefix(last[t], topics)
  <2>1. new = topics BY <1>4 DEF AppendTopic
  <2>2. raced BY <1>1, <1>3, <1>4 DEF IsPrefix
  <2> QED BY <1>1, <2>1, <2>2 DEF Lists
<1>5. CASE IsPrefix(last[t], topics)
  <2>1. new = Append(last[t], Entry(t)) BY <1>5 DEF AppendTopic
  <2>2. Len(last[t]) <= Len(topics)
        /\ SubSeq(last[t], 1, Len(last[t])) = SubSeq(topics, 1, Len(last[t]))
    BY <1>5 DEF IsPrefix
  <2>3. \A i \in 1 .. Len(last[t]) : last[t][i] = topics[i] /\ i \in 1 .. Len(topics)
    <3>1. last[t] = SubSeq(topics, 1, Len(last[t])) BY <1>1, <2>2, SubSeqFull
    <3>2. \A i \in 1 .. Len(last[t]) : topics[i] \in Entries /\ i \in 1 .. Len(topics)
      BY <1>1, <1>3, <2>2, ElementOfSeq
    <3>3. \A i \in 1 .. Len(last[t]) - 1 + 1 :
             SubSeq(topics, 1, Len(last[t]))[i] = topics[1 + i - 1]
      BY <1>3, <3>2, SubSeqProperties
    <3>4. ASSUME NEW i \in 1 .. Len(last[t]) PROVE last[t][i] = topics[i]
      <4>1. i \in 1 .. Len(last[t]) - 1 + 1 /\ 1 + i - 1 = i BY <1>3
      <4>2. SubSeq(topics, 1, Len(last[t]))[i] = topics[i] BY <3>3, <4>1
      <4> QED BY <3>1, <4>2
    <3> QED BY <3>2, <3>4
  <2>4. /\ new \in Seq(Entries) /\ Len(new) = Len(last[t]) + 1
        /\ \A i \in 1 .. Len(last[t]) : new[i] = last[t][i]
        /\ new[Len(last[t]) + 1] = Entry(t)
    BY <1>1, <1>2, <2>1, AppendProperties
  <2> HIDE DEF new
  <2>5. \A i \in 1 .. Len(new) : i = Len(new) \/ i \in 1 .. Len(last[t]) BY <1>3, <2>4
  <2>6. new[Len(new)] = Entry(t) BY <2>4
  <2>7. \A i \in 1 .. Len(last[t]) : i \in 1 .. Len(topics) /\ new[i] = topics[i] BY <2>3, <2>4
  <2>8. DOMAIN new = 1 .. Len(new) BY <2>4, LenProperties
  <2>9. IsInjective(new)
    <3> SUFFICES ASSUME NEW i \in 1 .. Len(new), NEW j \in 1 .. Len(new), new[i] = new[j]
                 PROVE  i = j
      BY <2>8 DEF IsInjective
    <3> QED BY <1>1, <2>5, <2>6, <2>7
  <2>10. \A i \in 1 .. Len(new) :
            new[i] = Entry(t) \/ \E j \in 1 .. Len(topics) : new[i] = topics[j]
    BY <2>5, <2>6, <2>7
  <2>11. ASSUME ~raced
         PROVE  /\ \A j \in 1 .. Len(topics) : topics[j] \in ToSet(new)
                /\ Entry(t) \in ToSet(new)
    <3>1. last[t] = topics BY <1>1, <2>11
    <3>2. \A j \in 1 .. Len(topics) : j \in DOMAIN new /\ new[j] = topics[j]
      BY <1>3, <2>4, <2>7, <2>8, <3>1
    <3>3. Len(new) \in DOMAIN new BY <1>3, <2>4, <2>8
    <3> QED BY <2>6, <3>2, <3>3 DEF ToSet
  <2> QED BY <2>4, <2>9, <2>10, <2>11 DEF new
<1> QED BY <1>4, <1>5

LEMMA AddStep ==
    ASSUME Scripts, Lists, HasItsCallback, NEW t \in Threads, AddTopic(t)
    PROVE  Lists' /\ HasItsCallback'
<1>1. /\ At(t, "append") /\ Done(t) /\ UNCHANGED <<pc, raced, subscribed>>
      /\ last' = [last EXCEPT ![t] = << >>] /\ topics' = AppendTopic(t)
  BY DEF AddTopic, Do, broker
<1>2. todo[t] # << >> /\ \A u \in Threads \ {t} : todo'[u] = todo[u]
  BY <1>1, DoneMoves DEF At
<1>3. ~Adding(t)' /\ ~At(t, "last")' /\ ~At(t, "append")' /\ ~At(t, "last")
  BY <1>1, <1>2, DoneMoves DEF Adding, At
<1>4. ASSUME NEW u \in Threads, u # t, NEW do
      PROVE  At(u, do)' = At(u, do) /\ Arg(u)' = Arg(u) /\ Entry(u)' = Entry(u)
  BY <1>2, <1>4 DEF At, Arg, Entry
<1>5. Arg(t) \in Topics
  <2>1. Head(todo[t]) \in Instructions BY <1>2, Shift DEF Scripts
  <2> QED BY <1>1, <2>1 DEF At, Arg, Instructions
<1>6. /\ topics' \in Seq(Entries) /\ IsInjective(topics')
      /\ \A i \in 1 .. Len(topics') :
            topics'[i] = Entry(t) \/ \E j \in 1 .. Len(topics) : topics'[i] = topics[j]
      /\ ~raced => /\ \A j \in 1 .. Len(topics) : topics[j] \in ToSet(topics')
                   /\ Entry(t) \in ToSet(topics')
  BY <1>1, <1>5, Stored
<1>7. last' \in [Threads -> Seq(Entries)]
  <2>1. << >> \in Seq(Entries) BY EmptySeq
  <2> QED BY <1>1, <2>1 DEF Lists
<1>8. ASSUME NEW u \in Threads, Adding(u)'
      PROVE  \A i \in 1 .. Len(topics') : topics'[i] # Entry(u)'
  <2>1. u # t /\ Adding(u) /\ Entry(u)' = Entry(u) BY <1>3, <1>4, <1>8 DEF Adding
  <2>2. Entry(u) # Entry(t) BY <2>1 DEF Entry
  <2>3. \A j \in 1 .. Len(topics) : topics[j] # Entry(u) BY <2>1 DEF Lists
  <2> QED BY <1>6, <2>1, <2>2, <2>3
<1>9. ASSUME ~raced, NEW u \in Threads PROVE ~At(u, "append")'
  <2>1. CASE u = t BY <1>3, <2>1
  <2>2. CASE u # t
    <3>1. ~At(u, "append") BY <1>1, <1>9, <2>2 DEF Lists, Threads
    <3> QED BY <1>4, <2>2, <3>1
  <2> QED BY <2>1, <2>2
<1>10. Lists' BY <1>1, <1>6, <1>7, <1>8, <1>9 DEF Lists, Threads
<1>11. HasItsCallback'
  <2> SUFFICES ASSUME ~raced, NEW x \in subscribed
               PROVE  \/ \E entry \in ToSet(topics') : entry.topic = x
                      \/ \E u \in Threads : (At(u, "last") \/ At(u, "append"))' /\ Arg(u)' = x
    BY <1>1 DEF HasItsCallback, Found
  <2>1. CASE Found(x)
    <3>1. PICK j \in 1 .. Len(topics) : topics[j].topic = x
      BY <2>1, LenProperties DEF Found, ToSet, Lists
    <3> QED BY <1>6, <3>1
  <2>2. CASE \E u \in Threads : (At(u, "last") \/ At(u, "append")) /\ Arg(u) = x
    <3>1. PICK u \in Threads : (At(u, "last") \/ At(u, "append")) /\ Arg(u) = x BY <2>2
    <3>2. CASE u = t
      <4>1. Entry(t) \in ToSet(topics') /\ Entry(t).topic = x BY <1>6, <3>1, <3>2 DEF Entry
      <4> QED BY <4>1
    <3>3. CASE u # t BY <1>4, <3>1, <3>3
    <3> QED BY <3>2, <3>3
  <2> QED BY <2>1, <2>2 DEF HasItsCallback
<1> QED BY <1>10, <1>11

\* Every step of the core_... functions.
LEMMA CoreLists ==
    ASSUME Scripts, Lists, HasItsCallback, NEW t \in Threads, Core(t)
    PROVE  Scripts' /\ Lists' /\ HasItsCallback'
<1>1. CASE TestOnline(t)
  <2>1. At(t, "test") /\ UNCHANGED list /\ UNCHANGED subscribed
    BY <1>1 DEF TestOnline, Do, broker
  <2>2. ~At(t, "last") /\ ~At(t, "append") BY <2>1 DEF At
  <2> QED BY <1>1, <2>1, <2>2, TestMoves, Apart
<1>2. CASE FindTopic(t) /\ Found(Arg(t))
  <2>1. /\ At(t, "find") /\ Done(t) /\ UNCHANGED list /\ UNCHANGED subscribed
        /\ UNCHANGED pc
    BY <1>2 DEF FindTopic, Do, broker
  <2>2. ~At(t, "last") /\ ~At(t, "append") /\ todo[t] # << >> BY <2>1 DEF At
  <2> QED BY <2>1, <2>2, DoneMoves, Apart
<1>3. CASE FindTopic(t) /\ ~Found(Arg(t))
  <2>1. At(t, "find") /\ Become(t, "send") /\ UNCHANGED pc BY <1>3 DEF FindTopic, Do
  <2> QED BY <1>3, <2>1, BecomeMoves, NotFoundStep
<1>4. CASE SendSubscribe(t) /\ Become(t, "last")
  <2>1. Adding(t) /\ UNCHANGED pc BY <1>4 DEF SendSubscribe, Do, Adding
  <2> QED BY <1>4, <2>1, BecomeMoves, SentStep
<1>5. CASE SendSubscribe(t) /\ ~Become(t, "last")
  <2>1. /\ At(t, "send") /\ Done(t) /\ UNCHANGED list /\ UNCHANGED pc
        /\ link \in {"down", "lost"} /\ UNCHANGED subscribed
    BY <1>5 DEF SendSubscribe, Do, Places
  <2>2. ~At(t, "last") /\ ~At(t, "append") /\ todo[t] # << >> BY <2>1 DEF At
  <2> QED BY <2>1, <2>2, DoneMoves, Apart
<1>6. CASE FindLast(t)
  <2>1. Adding(t) /\ Become(t, "append") /\ UNCHANGED pc BY <1>6 DEF FindLast, Do, Adding
  <2> QED BY <1>6, <2>1, BecomeMoves, LastStep
<1>7. CASE AddTopic(t)
  <2>1. todo[t] # << >> /\ Done(t) /\ UNCHANGED pc BY <1>7 DEF AddTopic, Do, At
  <2> QED BY <1>7, <2>1, DoneMoves, AddStep
<1>8. CASE Announce(t)
  <2>1. /\ At(t, "announce") /\ Done(t) /\ UNCHANGED list /\ UNCHANGED pc
        /\ UNCHANGED subscribed
    BY <1>8 DEF Announce, Do
  <2>2. ~At(t, "last") /\ ~At(t, "append") /\ todo[t] # << >> BY <2>1 DEF At
  <2> QED BY <2>1, <2>2, DoneMoves, Apart
<1> QED BY <1>1, <1>2, <1>3, <1>4, <1>5, <1>6, <1>7, <1>8 DEF Core

\* A function begins on a thread that has none.
LEMMA BeginLists ==
    ASSUME Scripts, Lists, HasItsCallback, NEW t \in Threads, todo[t] = << >>,
           NEW s \in {<< >>, DeviceRegister, SubscribeSensor},
           s = << >> \/ pc'[t] = (IF t = "app" THEN "run" ELSE "core"),
           \A u \in Threads \ {t} : pc'[u] = pc[u],
           todo' = [todo EXCEPT ![t] = s], UNCHANGED <<list, broker>>
    PROVE  Scripts' /\ Lists' /\ HasItsCallback'
<1>1. ~At(t, "last") /\ ~At(t, "append") BY DEF At
<1>2. UNCHANGED list /\ UNCHANGED subscribed BY DEF broker
<1> QED BY <1>1, <1>2, BeginMoves, Apart

\* A step of neither thread's functions.
LEMMA StillLists ==
    ASSUME Lists, HasItsCallback, UNCHANGED <<todo, list>>, subscribed' \in {subscribed, {}}
    PROVE  Lists' /\ HasItsCallback'
BY DEF Lists, HasItsCallback, list, Adding, At, Arg, Entry, Found
--------------------------------------------------------------------------------
(* The inductive invariant.                                                *)

LEMMA InitIInv == Init => IInv
<1> SUFFICES ASSUME Init PROVE IInv OBVIOUS
<1>1. Places /\ Waiting /\ Session /\ Announcing
  BY DEF Init, Places, Waiting, Session, Announcing, Threads
<1>2. Scripts BY EmptyScript DEF Init, Scripts, Threads
<1>3. ~Adding("app") /\ ~Adding("loop") /\ \A t \in Threads : ~At(t, "append")
  BY DEF Init, Adding, At, Threads
<1>4. << >> \in Seq(Entries) /\ Len(<< >>) = 0 /\ DOMAIN << >> = 1 .. 0
  BY EmptySeq, LenProperties
<1>5. IsInjective(<< >>) BY <1>4 DEF IsInjective
<1>6. Lists BY <1>3, <1>4, <1>5 DEF Init, Lists, Threads
<1>7. HasItsCallback BY DEF Init, HasItsCallback
<1> QED BY <1>1, <1>2, <1>6, <1>7 DEF IInv

\* The core_... functions move neither thread's place, nor the mutex, nor the link.
LEMMA CoreFrame ==
    ASSUME NEW t \in Threads, Core(t)
    PROVE  /\ UNCHANGED <<pc, mutex, link, flags, crashed>> /\ todo[t] # << >>
           /\ announced' \in {announced, TRUE, announced \/ link \in {"asked", "up"}}
BY DEF Core, TestOnline, FindTopic, SendSubscribe, FindLast, AddTopic, Announce, Do, At,
       broker

\* They leave it to nobody else to announce the gateway.
LEMMA CoreAnnouncing ==
    ASSUME IInv, NEW t \in Threads, Core(t)
    PROVE  Announcing'
<1>1. /\ UNCHANGED <<pc, link, flags>> /\ todo[t] # << >> /\ Scripts
      /\ \A u \in Threads : todo[u] # << >> => pc[u] = IF u = "app" THEN "run" ELSE "core"
  BY CoreFrame DEF IInv, Scripts, Threads
<1>2. UNCHANGED <<link, pc, online, gLosted>> BY <1>1 DEF flags
<1>3. ASSUME \A u \in Threads \ {t} : todo'[u] = todo[u], UNCHANGED announced,
             WillAnnounce(t) /\ (online \/ pc["loop"] = "status") => WillAnnounce(t)'
      PROVE  Announcing'
  <2>1. \A u \in Threads \ {t} : WillAnnounce(u)' = WillAnnounce(u) BY <1>3 DEF WillAnnounce
  <2>2. link = "up" => pc["loop"] = "status" \/ online BY DEF IInv, Session
  <2> QED BY <1>2, <1>3, <2>1, <2>2 DEF IInv, Announcing, Threads
<1>4. CASE TestOnline(t)
  BY <1>1, <1>3, <1>4, TestMoves DEF TestOnline, broker, Announcing
<1>5. CASE FindTopic(t) /\ Found(Arg(t))
  <2>1. At(t, "find") /\ Done(t) /\ UNCHANGED <<pc, announced>>
    BY <1>5 DEF FindTopic, Do, broker
  <2> QED BY <1>1, <1>3, <2>1, DoneMoves DEF At
<1>6. CASE FindTopic(t) /\ ~Found(Arg(t))
  <2>1. At(t, "find") /\ Become(t, "send") /\ UNCHANGED <<pc, announced>>
    BY <1>6 DEF FindTopic, Do, broker
  <2> QED BY <1>1, <1>3, <2>1, BecomeMoves
<1>7. CASE SendSubscribe(t)
  <2>1. At(t, "send") /\ (Become(t, "last") \/ Done(t)) /\ UNCHANGED <<pc, announced>>
    BY <1>7 DEF SendSubscribe, Do
  <2>2. CASE Become(t, "last") BY <1>1, <1>3, <2>1, <2>2, BecomeMoves DEF Adding
  <2>3. CASE Done(t) BY <1>1, <1>3, <2>1, <2>3, DoneMoves DEF At
  <2> QED BY <2>1, <2>2, <2>3
<1>8. CASE FindLast(t)
  <2>1. At(t, "last") /\ Become(t, "append") /\ UNCHANGED <<pc, announced>>
    BY <1>8 DEF FindLast, Do, broker
  <2> QED BY <1>1, <1>3, <2>1, BecomeMoves DEF Adding
<1>9. CASE AddTopic(t)
  <2>1. At(t, "append") /\ Done(t) /\ UNCHANGED <<pc, announced>>
    BY <1>9 DEF AddTopic, Do, broker
  <2> QED BY <1>1, <1>3, <2>1, DoneMoves DEF At
<1>10. CASE Announce(t)
  <2>1. link = "up" => announced' BY <1>10 DEF Announce
  <2> QED BY <1>2, <2>1 DEF Announcing
<1> QED BY <1>4, <1>5, <1>6, <1>7, <1>8, <1>9, <1>10 DEF Core

LEMMA CoreStep == ASSUME IInv, NEW t \in Threads, Core(t) PROVE IInv'
<1>1. /\ UNCHANGED <<pc, mutex, link, flags, crashed>>
      /\ announced' \in {announced, TRUE, announced \/ link \in {"asked", "up"}}
  BY CoreFrame
<1>2. UNCHANGED <<pc, link, online, gLosted, held, mutexp, result, accepted, crashed>>
  BY <1>1 DEF flags, mutex
<1>3. Places' BY <1>1, <1>2 DEF IInv, Places
<1>4. Waiting' /\ Session' BY <1>2 DEF IInv, Waiting, Session
<1> QED BY <1>3, <1>4, CoreLists, CoreAnnouncing DEF IInv

\* A step that changes no thread's functions and not the list.
LEMMA StillStep ==
    ASSUME IInv, UNCHANGED <<todo, list>>, subscribed' \in {subscribed, {}},
           pc'["app"] # pc["app"] => pc["app"] # "run" /\ pc'["app"] # "run",
           pc'["loop"] = pc["loop"] \/ todo["loop"] = << >>
    PROVE  Scripts' /\ Lists' /\ HasItsCallback' /\ WillAnnounce("app")' = WillAnnounce("app")
           /\ WillAnnounce("loop")' = WillAnnounce("loop")
<1>1. Scripts' BY DEF IInv, Scripts
<1>2. Lists' /\ HasItsCallback' BY StillLists DEF IInv
<1> QED BY <1>1, <1>2 DEF WillAnnounce

LEMMA AppStep == ASSUME IInv, App \/ Call PROVE IInv'
<1> USE DEF Goto, Threads
<1>1. CASE FirstLock \/ MosquittoConnect \/ TestMutex \/ LoadMutex \/ SecondLock
  <2>1. /\ UNCHANGED <<todo, list, subscribed, announced, online, gLosted, accepted, mutexp>>
        /\ pc["app"] \in {"lock", "connect", "test", "load", "wait"}
        /\ pc'["app"] \in {"connect", "test", "load", "wait", "return"}
        /\ pc'["loop"] = pc["loop"]
    BY <1>1 DEF FirstLock, MosquittoConnect, TestMutex, LoadMutex, SecondLock, IInv, Places,
                flags, broker, mutex
  <2>2. /\ Scripts' /\ Lists' /\ HasItsCallback'
        /\ WillAnnounce("app")' = WillAnnounce("app")
        /\ WillAnnounce("loop")' = WillAnnounce("loop")
    BY <2>1, StillStep
  <2>3. Places'
    <3>1. pc' = [pc EXCEPT !["app"] = pc'["app"]] /\ crashed' \in BOOLEAN
          /\ held' \in BOOLEAN
          /\ result' \in {"none", "success", "error"} /\ link' \in {"down", "asked", "up", "lost"}
      BY <1>1, <2>1 DEF FirstLock, MosquittoConnect, TestMutex, LoadMutex, SecondLock, mutex,
                        IInv, Places
    <3>2. pc' = [t \in Threads |-> pc'[t]] BY <3>1 DEF IInv, Places
    <3> QED BY <2>1, <3>1, <3>2 DEF IInv, Places
  <2>4. Waiting'
    BY <1>1, <2>1 DEF FirstLock, MosquittoConnect, TestMutex, LoadMutex, SecondLock, mutex,
                      IInv, Places, Waiting
  <2>5. Session'
    <3>1. CASE pc["app"] \in {"lock", "connect"}
      BY <1>1, <2>1, <3>1 DEF FirstLock, MosquittoConnect, TestMutex, LoadMutex, SecondLock,
                              IInv, Places, Session
    <3>2. CASE pc["app"] \in {"test", "load", "wait"}
      <4>1. /\ link' = link /\ pc'["app"] \in {"load", "wait", "return"}
            /\ held => held'
            /\ pc'["app"] = "return" => ~mutexp \/ ~held
        BY <1>1, <2>1, <3>2 DEF FirstLock, MosquittoConnect, TestMutex, LoadMutex, SecondLock,
                                mutex, IInv, Places
      <4>2. /\ mutexp' = mutexp /\ online' = online /\ gLosted' = gLosted
            /\ accepted' = accepted /\ pc'["loop"] = pc["loop"]
        BY <2>1
      <4> QED BY <4>1, <4>2 DEF IInv, Session
    <3> QED BY <2>1, <3>1, <3>2
  <2>6. Announcing'
    BY <1>1, <2>1, <2>2 DEF FirstLock, MosquittoConnect, TestMutex, LoadMutex, SecondLock,
                            IInv, Places, Session, Announcing
  <2> QED BY <2>2, <2>3, <2>4, <2>5, <2>6 DEF IInv
<1>2. CASE Return
  <2>1. todo["app"] = << >> BY <1>2 DEF Return, IInv, Scripts
  <2> DEFINE s == IF result = "success" THEN DeviceRegister ELSE << >>
  <2>2. /\ s \in {<< >>, DeviceRegister, SubscribeSensor}
        /\ s # << >> => pc'["app"] = "run" /\ s = DeviceRegister
        /\ pc'["app"] = IF s = << >> THEN "ended" ELSE "run"
        /\ pc'["loop"] = pc["loop"]
        /\ todo' = [todo EXCEPT !["app"] = s] /\ UNCHANGED <<list, broker>>
    <3>1. /\ pc' = [pc EXCEPT !["app"] = IF result = "success" THEN "run" ELSE "ended"]
          /\ todo' = [todo EXCEPT !["app"] = s] /\ UNCHANGED <<list, broker>>
      BY <1>2 DEF Return
    <3>2. DeviceRegister # << >> BY Functions
    <3>3. pc = [t \in Threads |-> pc[t]] BY DEF IInv, Places
    <3>4. /\ result = "success" => s = DeviceRegister
          /\ result # "success" => s = << >>
      OBVIOUS
    <3> HIDE DEF s
    <3>5. /\ pc'["app"] = IF result = "success" THEN "run" ELSE "ended"
          /\ pc'["loop"] = pc["loop"]
      BY <3>1, <3>3
    <3>6. CASE result = "success" BY <3>1, <3>2, <3>4, <3>5, <3>6
    <3>7. CASE result # "success" BY <3>1, <3>4, <3>5, <3>7
    <3> QED BY <3>6, <3>7
  <2> HIDE DEF s
  <2>3. Scripts' /\ Lists' /\ HasItsCallback' BY <2>1, <2>2, BeginLists DEF IInv
  <2>4. s = DeviceRegister => WillAnnounce("app")' BY <2>1, <2>2, BeginMoves DEF IInv
  <2>5. todo'["loop"] = todo["loop"] BY <2>1, <2>2, BeginMoves DEF IInv
  <2>6. WillAnnounce("loop")' = WillAnnounce("loop") BY <2>5 DEF WillAnnounce
  <2>7. Places' BY <1>2, <2>2 DEF Return, mutex, flags, broker, IInv, Places
  <2>8. Waiting' /\ Session'
    BY <1>2, <2>2 DEF Return, mutex, flags, IInv, Places, Waiting, Session
  <2>9. Announcing'
    BY <1>2, <2>2, <2>4, <2>6 DEF Return, broker, IInv, Places, Announcing
  <2> QED BY <2>3, <2>7, <2>8, <2>9 DEF IInv
<1>3. CASE Call
  <2>1. PICK call \in {DeviceRegister, SubscribeSensor} : todo' = [todo EXCEPT !["app"] = call]
    BY <1>3 DEF Call
  <2>2. /\ todo["app"] = << >> /\ pc["app"] = "run" /\ pc' = [pc EXCEPT !["app"] = "run"]
        /\ UNCHANGED <<link, mutex, list, flags, broker, crashed>>
    BY <1>3 DEF Call
  <2>3. UNCHANGED pc BY <2>2 DEF IInv, Places
  <2>4. Scripts' /\ Lists' /\ HasItsCallback' BY <2>1, <2>2, <2>3, BeginLists DEF IInv
  <2>5. todo'["loop"] = todo["loop"] BY <2>1, <2>2, <2>3, BeginMoves DEF IInv
  <2>6. ~WillAnnounce("app") BY <2>2 DEF WillAnnounce
  <2>7. WillAnnounce("loop")' = WillAnnounce("loop") BY <2>5 DEF WillAnnounce
  <2>8. Places' BY <2>2, <2>3 DEF mutex, flags, broker, IInv, Places
  <2>9. Waiting' /\ Session' BY <2>2, <2>3 DEF mutex, flags, IInv, Waiting, Session
  <2>10. Announcing' BY <2>2, <2>3, <2>6, <2>7 DEF broker, IInv, Announcing
  <2> QED BY <2>4, <2>8, <2>9, <2>10 DEF IInv
<1>4. CASE Core("app") BY <1>4, CoreStep
<1> QED BY <1>1, <1>2, <1>3, <1>4 DEF App

LEMMA LoopStep == ASSUME IInv, Callbacks \/ Retry \/ Accept \/ LostCallback \/ Lose PROVE IInv'
<1> USE DEF Goto, Threads
<1>1. CASE SetOnline
  <2>1. todo["loop"] = << >> /\ pc["loop"] = "status"
    BY <1>1 DEF SetOnline, IInv, Scripts
  <2> DEFINE s == Reregister
  <2>2. /\ s \in {<< >>, DeviceRegister, SubscribeSensor}
        /\ pc' = [pc EXCEPT !["loop"] = "core"]
        /\ todo' = [todo EXCEPT !["loop"] = s] /\ UNCHANGED <<list, broker>>
        /\ gLosted => s = DeviceRegister
    BY <1>1 DEF SetOnline, Reregister
  <2> HIDE DEF s
  <2>3. pc'["loop"] = "core" /\ pc'["app"] = pc["app"] BY <2>2 DEF IInv, Places
  <2>4. Scripts' /\ Lists' /\ HasItsCallback' BY <2>1, <2>2, <2>3, BeginLists DEF IInv
  <2>5. gLosted => WillAnnounce("loop")' BY <2>1, <2>2, <2>3, BeginMoves DEF IInv
  <2>6. todo'["app"] = todo["app"] BY <2>1, <2>2, <2>3, BeginMoves DEF IInv
  <2>7. WillAnnounce("app")' = WillAnnounce("app") BY <2>6 DEF WillAnnounce
  <2>8. UNCHANGED <<link, held, mutexp, result, accepted, gLosted, crashed, subscribed, announced>>
        /\ online' = TRUE
    BY <1>1 DEF SetOnline, mutex, broker
  <2>9. Places'
    <3>1. pc' = [t \in Threads |-> pc'[t]] BY <2>2 DEF IInv, Places
    <3> QED BY <2>3, <2>8, <3>1 DEF IInv, Places
  <2>10. Waiting' BY <2>1, <2>3, <2>8 DEF IInv, Waiting
  <2>11. Session'
    <3>1. /\ link \in {"up", "lost"} /\ pc["app"] \notin {"lock", "connect"}
          /\ ~gLosted => mutexp /\ held /\ pc["app"] \in {"test", "load", "wait"}
      BY <2>1 DEF IInv, Session
    <3> QED BY <2>3, <2>8, <3>1 DEF Session
  <2>12. Announcing' BY <2>1, <2>3, <2>5, <2>7, <2>8 DEF IInv, Session, Announcing
  <2> QED BY <2>4, <2>9, <2>10, <2>11, <2>12 DEF IInv
<1>2. CASE Core("loop") BY <1>2, CoreStep
<1>3. CASE SetOffline \/ SetLosted \/ ClearLosted \/ Unlock \/ ResetMutexp \/ Retry \/ Accept
             \/ LostCallback \/ Lose
  <2>1. /\ UNCHANGED <<todo, list, result>> /\ subscribed' \in {subscribed, {}}
        /\ pc'["app"] = pc["app"]
        /\ pc'["loop"] = pc["loop"] \/ todo["loop"] = << >>
    BY <1>3 DEF SetOffline, SetLosted, ClearLosted, Unlock, ResetMutexp, Retry, Ask, Accept,
                LostCallback, Lose, IInv, Places, Scripts, flags, broker, mutex, Idle
  <2>2. /\ Scripts' /\ Lists' /\ HasItsCallback'
        /\ WillAnnounce("app")' = WillAnnounce("app")
        /\ WillAnnounce("loop")' = WillAnnounce("loop")
    BY <2>1, StillStep
  <2>3. todo["loop"] = << >> => ~WillAnnounce("loop") BY DEF WillAnnounce
  <2> USE DEF mutex, flags, broker, Idle
  <2>4. Places'
    <3>1. /\ pc' \in {pc, [pc EXCEPT !["loop"] = pc'["loop"]]}
          /\ pc'["loop"] \in {"idle", "status", "core", "unlock", "null", "offline", "losted"}
      BY <1>3 DEF SetOffline, SetLosted, ClearLosted, Unlock, ResetMutexp, Retry, Ask, Accept,
                  LostCallback, Lose, IInv, Places
    <3>2. pc' = [t \in Threads |-> pc'[t]] BY <3>1 DEF IInv, Places
    <3>3. link' \in {"down", "asked", "up", "lost"} /\ announced' \in BOOLEAN
      BY <1>3 DEF SetOffline, SetLosted, ClearLosted, Unlock, ResetMutexp, Retry, Ask, Accept,
                  LostCallback, Lose, IInv, Places
    <3>4. held' \in BOOLEAN /\ mutexp' \in BOOLEAN /\ accepted' \in BOOLEAN
      BY <1>3 DEF SetOffline, SetLosted, ClearLosted, Unlock, ResetMutexp, Retry, Ask, Accept,
                  LostCallback, Lose, IInv, Places
    <3>5. crashed' \in BOOLEAN /\ online' \in BOOLEAN /\ gLosted' \in BOOLEAN
      BY <1>3 DEF SetOffline, SetLosted, ClearLosted, Unlock, ResetMutexp, Retry, Ask, Accept,
                  LostCallback, Lose, IInv, Places
    <3> QED BY <2>1, <3>1, <3>2, <3>3, <3>4, <3>5 DEF IInv, Places
  <2>5. Waiting'
    BY <1>3, <2>1 DEF SetOffline, SetLosted, ClearLosted, Unlock, ResetMutexp, Retry, Ask,
                      Accept, LostCallback, Lose, IInv, Places, Waiting
  <2>6. Session'
    BY <1>3, <2>1 DEF SetOffline, SetLosted, ClearLosted, Unlock, ResetMutexp, Retry, Ask,
                      Accept, LostCallback, Lose, IInv, Places, Waiting, Session
  <2>7. Announcing'
    BY <1>3, <2>1, <2>2, <2>3 DEF SetOffline, SetLosted, ClearLosted, Unlock, ResetMutexp,
                                  Retry, Ask, Accept, LostCallback, Lose, IInv, Places, Session,
                                  Announcing
  <2> QED BY <2>2, <2>4, <2>5, <2>6, <2>7 DEF IInv
<1> QED BY <1>1, <1>2, <1>3 DEF Callbacks

LEMMA StutterStep == ASSUME IInv, UNCHANGED vars PROVE IInv'
<1>1. /\ UNCHANGED <<link, held, mutexp, result, accepted, pc, todo, topics, last, raced>>
      /\ UNCHANGED <<online, gLosted, subscribed, announced, crashed>>
  BY DEF vars, mutex, list, flags, broker
<1>2. Scripts' /\ Lists' /\ HasItsCallback' BY <1>1, StillStep DEF list
<1>3. Places' /\ Waiting' /\ Session' BY <1>1 DEF IInv, Places, Waiting, Session
<1>4. Announcing' BY <1>1 DEF IInv, Announcing, WillAnnounce
<1> QED BY <1>2, <1>3, <1>4 DEF IInv

LEMMA NextIInv == IInv /\ [Next]_vars => IInv'
BY StutterStep, AppStep, LoopStep DEF Next

LEMMA Bounds == IInv => TypeOK /\ ReturnsAccepted /\ Announced
<1> SUFFICES ASSUME IInv PROVE TypeOK /\ ReturnsAccepted /\ Announced OBVIOUS
<1>1. Instructions \subseteq [do : Steps, arg : Topics \cup {"online"}]
  BY DEF Instructions, Steps
<1>2. \A t \in Threads : todo[t] \in Seq([do : Steps, arg : Topics \cup {"online"}])
  <2>1. Seq(Instructions) \subseteq Seq([do : Steps, arg : Topics \cup {"online"}])
    BY <1>1, SeqMonotonic, Zenon
  <2>2. \A t \in Threads : todo[t] \in Seq(Instructions) BY DEF IInv, Scripts
  <2> QED BY <2>1, <2>2, Zenon
<1>3. TypeOK BY <1>2 DEF IInv, Places, Lists, Entries, TypeOK
<1>4. ReturnsAccepted BY DEF IInv, Waiting, ReturnsAccepted
<1>5. Announced BY DEF IInv, Announcing, Announced, WillAnnounce
<1> QED BY <1>3, <1>4, <1>5
--------------------------------------------------------------------------------
\* For any topics every variable keeps its type, and the list never grows a second entry
\* of one thread for one topic.
THEOREM TypeCorrect == Spec => []TypeOK
BY InitIInv, NextIInv, Bounds, PTL DEF Spec

\* WiCar_MQTT_Connect does not come back before the broker has accepted a session,
\* whichever callback, loss or refusal meets its two locks.
THEOREM NotBeforeAccepted == Spec => []ReturnsAccepted
BY InitIInv, NextIInv, Bounds, PTL DEF Spec

\* Whatever the application and the callbacks subscribe to meanwhile, and however often
\* the link is lost, a topic the broker knows has its entry in the list: only two threads
\* inside topic_add at once can lose one.
THEOREM CallbackForEveryTopic == Spec => []HasItsCallback
<1>1. IInv => HasItsCallback BY DEF IInv
<1> QED BY <1>1, InitIInv, NextIInv, PTL DEF Spec

\* Every loss leaves somebody behind who announces the gateway in the next session, so
\* that at rest on a live link it has been announced.
THEOREM AnnouncedAgain == Spec => []Announced
BY InitIInv, NextIInv, Bounds, PTL DEF Spec
================================================================================
