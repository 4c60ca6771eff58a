---------------------------- MODULE DeviceTable_proofs ----------------------------
(***************************************************************************)
(* The table of devices under any sequence of calls, for any table and     *)
(* array sizes, any infospec arrays, and any number of losses and          *)
(* commands: no entry is there twice, the server is told of no sensor that *)
(* found no place, and between two calls the list of connected sensors is  *)
(* right and every sensor has the items of its newest array.               *)
(***************************************************************************)
EXTENDS DeviceTable, TLAPS, SequenceTheorems

\* The ids in the table are written once and differ.
Ids ==
    /\ cliendId[0] = Gateway
    /\ \A d \in 1 .. gDeviceCount - 1 : cliendId[d] \in Sensors
    /\ \A d, e \in 0 .. gDeviceCount - 1 : cliendId[d] = cliendId[e] => d = e

\* Who is in the table, and with what.
entries == <<gDeviceCount, cliendId, itemCount, items>>

\* The application is between the two stores of a new item.
Half == todo # << >> /\ Head(todo).op = "second"
HalfAt(d, i) ==
    Half /\ d < gDeviceCount /\ cliendId[d] = Head(todo).id /\ i = Head(todo).at

SecondIsFirst == \A k \in 2 .. Len(todo) : todo[k].op # "second"

Halves ==
    /\ SecondIsFirst
    /\ Half => Head(todo).id \in Table
    /\ \A d \in Slots, at \in 0 .. MaxItems - 1 :
          HalfAt(d, at) =>
             /\ itemCount[d] \in {at, at + 1}
             /\ \A i \in 0 .. MaxItems - 1 :
                   i # at /\ items[d][i] # None => items[d][i].name # Head(todo).item.name

\* Nothing lies behind itemCount, but for an item whose count is still to come.
NothingBehind ==
    \A d \in Slots : \A i \in 0 .. MaxItems - 1 :
        itemCount[d] <= i /\ items[d][i] # None => HalfAt(d, i)

NamesDiffer ==
    \A d \in Slots : \A i, j \in Stored(d) : items[d][i].name = items[d][j].name => i = j

\* A sensor is in the table, or there is no room, before its first message is published.
Placed(s) == s \in Table \/ gDeviceCount = MaxDevices
MessagesPlaced ==
    \A k \in 1 .. Len(todo) :
        todo[k].op \in {"connected", "disconnected"} =>
           \/ Placed(todo[k].id)
           \/ \E l \in 1 .. k - 1 : todo[l].op = "create" /\ todo[l].id = todo[k].id
FirstPlaced == MessagesPlaced /\ \A s \in Sensors : known[s] # "never" => Placed(s)

IInv == TypeOK /\ Ids /\ Halves /\ NothingBehind /\ NamesDiffer /\ FirstPlaced
--------------------------------------------------------------------------------
LEMMA IndexFacts ==
    ASSUME TypeOK, NEW s \in Table
    PROVE  IndexOf(s) \in 0 .. gDeviceCount - 1 /\ IndexOf(s) \in Slots /\ cliendId[IndexOf(s)] = s
<1>1. \E d \in 0 .. gDeviceCount - 1 : cliendId[d] = s BY DEF Table
<1>2. IndexOf(s) \in 0 .. gDeviceCount - 1 /\ cliendId[IndexOf(s)] = s BY <1>1 DEF IndexOf
<1>3. gDeviceCount \in 1 .. MaxDevices BY DEF TypeOK
<1> QED BY <1>2, <1>3, SizesAssumption DEF Slots

LEMMA TodoFacts ==
    ASSUME TypeOK, todo # << >>
    PROVE  /\ Head(todo) \in Instructions /\ Head(todo) = todo[1]
           /\ Len(todo) \in Nat \ {0}
           /\ Tail(todo) \in Seq(Instructions) /\ Len(Tail(todo)) = Len(todo) - 1
           /\ \A k \in 1 .. Len(Tail(todo)) : Tail(todo)[k] = todo[k + 1]
<1>1. todo \in Seq(Instructions) BY DEF TypeOK
<1> QED BY <1>1, HeadTailProperties, EmptySeq

\* Putting instructions in front of what is left.
LEMMA Before ==
    ASSUME TypeOK, todo # << >>, NEW new \in Seq(Instructions)
    PROVE  LET all == new \o Tail(todo) IN
           /\ all \in Seq(Instructions) /\ Len(all) = Len(new) + Len(todo) - 1
           /\ \A k \in 1 .. Len(new) : all[k] = new[k]
           /\ \A k \in 2 .. Len(todo) : all[Len(new) + k - 1] = todo[k]
           /\ \A k \in 1 .. Len(all) : k \in 1 .. Len(new) \/ \E l \in 2 .. Len(todo) : k = Len(new) + l - 1
<1>1. /\ Tail(todo) \in Seq(Instructions) /\ Len(Tail(todo)) = Len(todo) - 1
      /\ \A k \in 1 .. Len(Tail(todo)) : Tail(todo)[k] = todo[k + 1]
      /\ Len(todo) \in Nat \ {0}
  BY TodoFacts
<1>2. Len(new) \in Nat BY LenProperties
<1> DEFINE all == new \o Tail(todo)
<1>3. /\ all \in Seq(Instructions) /\ Len(all) = Len(new) + Len(Tail(todo))
      /\ \A k \in 1 .. Len(all) : all[k] = IF k <= Len(new) THEN new[k] ELSE Tail(todo)[k - Len(new)]
  BY <1>1, ConcatProperties
<1> HIDE DEF all
<1>4. ASSUME NEW k \in 2 .. Len(todo)
      PROVE  all[Len(new) + k - 1] = todo[k]
  <2>1. Len(new) + k - 1 \in 1 .. Len(all) /\ ~(Len(new) + k - 1 <= Len(new)) /\ k - 1 \in 1 .. Len(Tail(todo))
    BY <1>1, <1>2, <1>3, SMTT(20)
  <2>2. all[Len(new) + k - 1] = Tail(todo)[(Len(new) + k - 1) - Len(new)] BY <1>3, <2>1
  <2>3. (Len(new) + k - 1) - Len(new) = k - 1 BY <1>2
  <2> QED BY <1>1, <2>1, <2>2, <2>3
<1>5. ASSUME NEW k \in 1 .. Len(all), k \notin 1 .. Len(new)
      PROVE  \E l \in 2 .. Len(todo) : k = Len(new) + l - 1
  <2>1. k - Len(new) + 1 \in 2 .. Len(todo) BY <1>1, <1>2, <1>3, <1>5, SMTT(20)
  <2>2. k = Len(new) + (k - Len(new) + 1) - 1 BY <1>1, <1>2, <1>3
  <2> QED BY <2>1, <2>2, Zenon
<1>6. \A k \in 1 .. Len(new) : all[k] = new[k] BY <1>1, <1>2, <1>3
<1>7. Len(all) = Len(new) + Len(todo) - 1 BY <1>1, <1>2, <1>3
<1> QED BY <1>3, <1>4, <1>5, <1>6, <1>7 DEF all
\* What the head of the call says of the script it leaves.
LEMMA HeadTyped ==
    ASSUME TypeOK, todo # << >>
    PROVE  /\ Head(todo).op \in {"create", "defaults", "connect", "disconnect", "connected",
                                 "disconnected", "subscribe", "items", "add", "second", "infospec"}
                 => It \in Sensors
           /\ Head(todo).op \in {"add", "second"} => Head(todo).item \in Items
           /\ Head(todo).op = "second" => Head(todo).at \in 0 .. MaxItems - 1
           /\ Head(todo).op = "items" => /\ Head(todo).spec \in Specs /\ Head(todo).slash \in BOOLEAN
                                         /\ Head(todo).from \in Nat \ {0}
           /\ Head(todo).op = "infospec" => Head(todo).spec \in Specs
           /\ Head(todo).op = "republish" => Head(todo).dev \in Nat \ {0}
<1>1. Head(todo) \in Instructions BY TodoFacts
<1> QED BY <1>1, Zenon DEF Instructions, It

\* The instructions of a call for sensor s: none is a second store, and the messages
\* are about s.
CallOf(s) ==
    {i \in Instructions : i.op # "second" /\ (i.op \in {"connected", "disconnected"} => i.id = s)}

LEMMA Longer ==
    ASSUME NEW s, NEW p \in Seq(CallOf(s)), NEW q \in Seq(CallOf(s)), Len(p) > 0
    PROVE  /\ p \o q \in Seq(CallOf(s)) /\ Len(p \o q) > 0
           /\ (p \o q)[1] = p[1]
<1> DEFINE All == CallOf(s)
<1> HIDE DEF All
<1>1. p \in Seq(All) /\ q \in Seq(All) BY DEF All
<1>2. Len(p) \in Nat \ {0} /\ Len(q) \in Nat BY <1>1, LenProperties
<1>3. /\ p \o q \in Seq(All) /\ Len(p \o q) = Len(p) + Len(q)
      /\ \A i \in 1 .. Len(p) + Len(q) : (p \o q)[i] = IF i <= Len(p) THEN p[i] ELSE q[i - Len(p)]
  BY <1>1, ConcatProperties
<1>4. 1 \in 1 .. Len(p) + Len(q) /\ 1 <= Len(p) BY <1>2
<1> QED BY <1>2, <1>3, <1>4 DEF All

LEMMA Pieces ==
    ASSUME NEW s \in Sensors, NEW spec \in Specs, NEW slash \in BOOLEAN
    PROVE  /\ \A op \in {"create", "defaults", "connect", "disconnect", "connected",
                            "disconnected", "subscribe"} :
                  Do(op, s) \in Seq(CallOf(s)) /\ Len(Do(op, s)) > 0
                     /\ Do(op, s)[1].op = op /\ Do(op, s)[1].id = s
           /\ Do("topology", Gateway) \in Seq(CallOf(s)) /\ Len(Do("topology", Gateway)) > 0
           /\ Do("deviceinfo", Gateway) \in Seq(CallOf(s))
           /\ AddFrom(s, spec, slash, 1) \in Seq(CallOf(s))
           /\ << [op |-> "infospec", id |-> s, spec |-> spec] >> \in Seq(CallOf(s))
<1>1. ASSUME NEW op \in {"create", "defaults", "connect", "disconnect", "connected",
                          "disconnected", "subscribe"}
      PROVE  [op |-> op, id |-> s] \in CallOf(s)
  BY <1>1 DEF CallOf, Instructions
<1>2. [op |-> "topology", id |-> Gateway] \in CallOf(s) /\ [op |-> "deviceinfo", id |-> Gateway] \in CallOf(s)
  BY DEF CallOf, Instructions
<1>3. [op |-> "items", id |-> s, spec |-> spec, slash |-> slash, from |-> 1] \in CallOf(s)
  BY DEF CallOf, Instructions
<1>4. [op |-> "infospec", id |-> s, spec |-> spec] \in CallOf(s)
  BY DEF CallOf, Instructions
<1> QED BY <1>1, <1>2, <1>3, <1>4 DEF Do, AddFrom

LEMMA RegisterScriptIs ==
    ASSUME NEW s \in Sensors, NEW spec \in Specs
    PROVE  LET all == RegisterScript(s, spec) IN
           all \in Seq(CallOf(s)) /\ Len(all) > 0 /\ all[1].op = "create" /\ all[1].id = s
<1> DEFINE Good(q) == q \in Seq(CallOf(s)) /\ Len(q) > 0 /\ q[1].op = "create" /\ q[1].id = s
           c == Do("create", s)
           d == c \o Do("defaults", s)
           info == Do("topology", Gateway) \o Do("deviceinfo", Gateway)
           told == Do("connected", s) \o Do("subscribe", s)
           a1 == AddFrom(s, spec, TRUE, 1)
           a2 == AddFrom(s, spec, FALSE, 1)
           kept == << [op |-> "infospec", id |-> s, spec |-> spec] >>
<1>1. ASSUME NEW p, Good(p), NEW q \in Seq(CallOf(s))
      PROVE  Good(p \o q)
  BY <1>1, Longer
<1>2. Good(c) BY Pieces
<1>3. Good(d)
  <2>1. Do("defaults", s) \in Seq(CallOf(s)) BY Pieces
  <2> HIDE DEF Good, c
  <2> QED BY <1>1, <1>2, <2>1
<1>4. info \in Seq(CallOf(s)) /\ told \in Seq(CallOf(s)) BY Pieces, Longer
<1>5. a1 \in Seq(CallOf(s)) /\ a2 \in Seq(CallOf(s)) /\ kept \in Seq(CallOf(s))
      /\ Do("connect", s) \in Seq(CallOf(s))
  BY Pieces
<1> HIDE DEF Good, d, info, told, a1, a2, kept
<1>6. Good(d \o info \o a1) BY <1>1, <1>3, <1>4, <1>5
<1>7. Good(d \o info \o a1 \o Do("connect", s) \o told) BY <1>1, <1>4, <1>5, <1>6
<1>8. Good(d \o info \o a1 \o Do("connect", s) \o told \o a2 \o kept) BY <1>1, <1>5, <1>7
<1>9. RegisterScript(s, spec) = d \o info \o a1 \o Do("connect", s) \o told \o a2 \o kept
  BY DEF RegisterScript, PublishInterfaceDeviceInfo, PublishSensorConnect, d, info, told, a1, a2, kept
<1> QED BY <1>8, <1>9 DEF Good

LEMMA ConnectionScripts ==
    ASSUME NEW s \in Sensors
    PROVE  /\ Do("disconnect", s) \o PublishInterfaceDeviceInfo \o PublishSensorDisconnect(s) \in Seq(CallOf(s))
           /\ Do("connect", s) \o PublishInterfaceDeviceInfo \o PublishSensorConnect(s) \in Seq(CallOf(s))
<1> DEFINE info == PublishInterfaceDeviceInfo
           on == PublishSensorConnect(s)
           off == PublishSensorDisconnect(s)
<1>1. /\ \A op \in {"connect", "disconnect", "connected", "disconnected", "subscribe"} :
            Do(op, s) \in Seq(CallOf(s)) /\ Len(Do(op, s)) > 0
      /\ Do("topology", Gateway) \in Seq(CallOf(s)) /\ Len(Do("topology", Gateway)) > 0
      /\ Do("deviceinfo", Gateway) \in Seq(CallOf(s))
  <2>1. /\ [op |-> "topology", id |-> Gateway] \in CallOf(s) /\ [op |-> "deviceinfo", id |-> Gateway] \in CallOf(s)
        /\ \A op \in {"connect", "disconnect", "connected", "disconnected", "subscribe"} :
              [op |-> op, id |-> s] \in CallOf(s)
    BY DEF CallOf, Instructions
  <2> QED BY <2>1 DEF Do
<1>2. info \in Seq(CallOf(s)) /\ on \in Seq(CallOf(s)) /\ off \in Seq(CallOf(s))
  BY <1>1, Longer DEF PublishInterfaceDeviceInfo, PublishSensorConnect, PublishSensorDisconnect
<1> HIDE DEF info, on, off
<1>3. Do("disconnect", s) \o info \in Seq(CallOf(s)) /\ Len(Do("disconnect", s) \o info) > 0
      /\ Do("connect", s) \o info \in Seq(CallOf(s)) /\ Len(Do("connect", s) \o info) > 0
  BY <1>1, <1>2, Longer
<1>4. (Do("disconnect", s) \o info) \o off \in Seq(CallOf(s)) /\ (Do("connect", s) \o info) \o on \in Seq(CallOf(s))
  BY <1>2, <1>3, Longer
<1> QED BY <1>4 DEF info, on, off
--------------------------------------------------------------------------------
LEMMA TableKept ==
    ASSUME IInv, UNCHANGED entries, ~Half \/ UNCHANGED todo
    PROVE  Ids' /\ NamesDiffer' /\ NothingBehind'
<1>1. Ids' BY DEF IInv, Ids, entries
<1>2. NamesDiffer' BY DEF IInv, NamesDiffer, Stored, entries
<1>3. NothingBehind'
  <2>1. CASE ~Half
    BY <2>1 DEF IInv, NothingBehind, HalfAt, entries
  <2>2. CASE UNCHANGED todo
    BY <2>2 DEF IInv, NothingBehind, HalfAt, Half, entries
  <2> QED BY <2>1, <2>2
<1> QED BY <1>1, <1>2, <1>3

LEMMA PlacedKept ==
    ASSUME gDeviceCount' = gDeviceCount, cliendId' = cliendId, NEW s
    PROVE  Placed(s)' <=> Placed(s)
BY DEF Placed, Table

\* The first instruction is done and others may be put before what is left.
LEMMA Queued ==
    ASSUME TypeOK, Halves, FirstPlaced, todo # << >>, Head(todo).op # "create",
           NEW new \in Seq(Instructions), todo' = new \o Tail(todo),
           gDeviceCount' = gDeviceCount, cliendId' = cliendId,
           \A k \in 2 .. Len(new) : new[k].op # "second",
           \A k \in 1 .. Len(new) : new[k].op \in {"connected", "disconnected"} => Placed(new[k].id)
    PROVE  /\ todo' \in Seq(Instructions)
           /\ SecondIsFirst' /\ MessagesPlaced'
           /\ Half' => Len(new) > 0 /\ Head(todo') = new[1] /\ new[1].op = "second"
<1> DEFINE all == new \o Tail(todo)
           n == Len(new)
<1>1. /\ all \in Seq(Instructions) /\ Len(all) = n + Len(todo) - 1
      /\ \A k \in 1 .. n : all[k] = new[k]
      /\ \A k \in 2 .. Len(todo) : all[n + k - 1] = todo[k]
      /\ \A k \in 1 .. Len(all) : k \in 1 .. n \/ \E l \in 2 .. Len(todo) : k = n + l - 1
  BY Before
<1>2. Len(todo) \in Nat \ {0} /\ Head(todo) = todo[1] BY TodoFacts
<1>3. n \in Nat BY LenProperties
<1>4. todo' = all OBVIOUS
<1>5. \A k \in 2 .. Len(todo) : todo[k].op # "second" BY DEF Halves, SecondIsFirst
<1> HIDE DEF all, n
<1>6. ASSUME NEW k \in 2 .. Len(all)
      PROVE  all[k].op # "second"
  <2>1. CASE k \in 1 .. n
    BY <1>1, <1>3, <2>1 DEF n
  <2>2. CASE k \notin 1 .. n
    <3>1. k \in 1 .. Len(all) BY <1>1, <1>2, <1>3
    <3>2. PICK l \in 2 .. Len(todo) : k = n + l - 1 BY <1>1, <2>2, <3>1
    <3> QED BY <1>1, <1>5, <3>2
  <2> QED BY <2>1, <2>2
<1>7. ASSUME NEW k \in 1 .. Len(all), all[k].op \in {"connected", "disconnected"}
      PROVE  \/ Placed(all[k].id)
             \/ \E l \in 1 .. k - 1 : all[l].op = "create" /\ all[l].id = all[k].id
  <2>1. CASE k \in 1 .. n
    BY <1>1, <1>7, <2>1 DEF n
  <2>2. CASE k \notin 1 .. n
    <3>1. PICK j \in 2 .. Len(todo) : k = n + j - 1 BY <1>1, <2>2
    <3>2. all[k] = todo[j] BY <1>1, <3>1
    <3>3. CASE Placed(todo[j].id) BY <3>2, <3>3
    <3>4. CASE \E l \in 1 .. j - 1 : todo[l].op = "create" /\ todo[l].id = todo[j].id
      <4>1. PICK l \in 1 .. j - 1 : todo[l].op = "create" /\ todo[l].id = todo[j].id BY <3>4
      <4>2. l # 1 BY <1>2, <4>1
      <4>3. l \in 2 .. Len(todo) /\ n + l - 1 \in 1 .. k - 1 BY <1>2, <1>3, <3>1, <4>1, <4>2
      <4>4. all[n + l - 1] = todo[l] BY <1>1, <4>3
      <4> QED BY <3>2, <4>1, <4>3, <4>4
    <3>5. j \in 1 .. Len(todo) BY <1>2
    <3> QED BY <1>7, <3>2, <3>3, <3>4, <3>5 DEF FirstPlaced, MessagesPlaced
  <2> QED BY <2>1, <2>2
<1>8. ASSUME all # << >>, Head(all).op = "second"
      PROVE  n > 0 /\ Head(all) = new[1] /\ new[1].op = "second"
  <2>1. Len(all) \in Nat \ {0} /\ Head(all) = all[1] BY <1>1, <1>8, EmptySeq, HeadTailProperties
  <2>2. CASE n > 0 BY <1>1, <1>3, <1>8, <2>1, <2>2
  <2>3. CASE n = 0
    <3>1. 2 \in 2 .. Len(todo) /\ n + 2 - 1 = 1 BY <1>1, <1>2, <2>1, <2>3
    <3>2. all[n + 2 - 1] = todo[2] BY <1>1, <3>1
    <3>3. all[1] = todo[2] BY <3>1, <3>2
    <3> QED BY <1>5, <1>8, <2>1, <3>1, <3>3
  <2> QED BY <1>3, <2>2, <2>3
<1>10. SecondIsFirst' BY <1>4, <1>6 DEF SecondIsFirst
<1>11. MessagesPlaced'
  <2>1. ASSUME NEW k \in 1 .. Len(all), all[k].op \in {"connected", "disconnected"}
        PROVE  \/ all[k].id \in Table \/ gDeviceCount = MaxDevices
               \/ \E l \in 1 .. k - 1 : all[l].op = "create" /\ all[l].id = all[k].id
    <3>1. \/ Placed(all[k].id)
          \/ \E l \in 1 .. k - 1 : all[l].op = "create" /\ all[l].id = all[k].id
      BY <1>7, <2>1
    <3> QED BY <3>1 DEF Placed
  <2>2. Table' = Table BY DEF Table
  <2>3. ASSUME NEW k \in 1 .. Len(todo'), todo'[k].op \in {"connected", "disconnected"}
        PROVE  \/ todo'[k].id \in Table' \/ gDeviceCount' = MaxDevices
               \/ \E l \in 1 .. k - 1 : todo'[l].op = "create" /\ todo'[l].id = todo'[k].id
    BY <1>4, <2>1, <2>2, <2>3
  <2> QED BY <2>3 DEF MessagesPlaced, Placed
<1> QED BY <1>1, <1>4, <1>8, <1>10, <1>11 DEF Half, n

LEMMA TailQueued ==
    ASSUME TypeOK, Halves, FirstPlaced, todo # << >>, Head(todo).op # "create",
           todo' = Tail(todo), gDeviceCount' = gDeviceCount, cliendId' = cliendId
    PROVE  /\ todo' \in Seq(Instructions)
           /\ SecondIsFirst' /\ MessagesPlaced'
           /\ ~Half'
<1>1. << >> \in Seq(Instructions) /\ Len(<< >>) = 0 BY EmptySeq
<1>2. Tail(todo) \in Seq(Instructions) BY TodoFacts
<1>3. << >> \o Tail(todo) = Tail(todo) BY <1>2, ConcatEmptySeq
<1> DEFINE new == << >>
<1>5. new \in Seq(Instructions) /\ todo' = new \o Tail(todo) /\ Len(new) = 0 BY <1>1, <1>3
<1> HIDE DEF new
<1>6. /\ \A k \in 2 .. Len(new) : new[k].op # "second"
      /\ \A k \in 1 .. Len(new) : new[k].op \in {"connected", "disconnected"} => Placed(new[k].id)
  BY <1>5
<1>7. /\ todo' \in Seq(Instructions) /\ SecondIsFirst' /\ MessagesPlaced'
      /\ Half' => Len(new) > 0
  BY <1>5, <1>6, Queued
<1> QED BY <1>5, <1>7

\* A step of the call that leaves the table as it is.
LEMMA TableLeft ==
    ASSUME IInv, todo # << >>, Head(todo).op \notin {"create", "second"}, UNCHANGED entries,
           NEW new \in Seq(Instructions), todo' = new \o Tail(todo) \/ (new = << >> /\ Done),
           \A k \in 1 .. Len(new) : new[k].op # "second",
           \A k \in 1 .. Len(new) : new[k].op \in {"connected", "disconnected"} => Placed(new[k].id),
           \A s \in Sensors : known'[s] # "never" => known[s] # "never" \/ Placed(s)
    PROVE  /\ todo' \in Seq(Instructions)
           /\ Ids' /\ Halves' /\ NothingBehind' /\ NamesDiffer' /\ FirstPlaced'
<1>1. gDeviceCount' = gDeviceCount /\ cliendId' = cliendId BY DEF entries
<1>2. Len(new) \in Nat BY LenProperties
<1>3. /\ todo' \in Seq(Instructions)
      /\ SecondIsFirst' /\ MessagesPlaced'
      /\ ~Half'
  <2>1. CASE todo' = new \o Tail(todo)
    <3>1. \A k \in 2 .. Len(new) : new[k].op # "second" BY <1>2
    <3>2. Len(new) > 0 => new[1].op # "second" BY <1>2
    <3> QED BY <1>1, <2>1, <3>1, <3>2, Queued DEF IInv
  <2>2. CASE Done BY <1>1, <2>2, TailQueued DEF IInv, Done
  <2> QED BY <2>1, <2>2
<1>4. Halves' BY <1>3 DEF Halves, HalfAt
<1>5. ~Half BY DEF Half
<1>6. \A s : Placed(s)' <=> Placed(s) BY <1>1, PlacedKept
<1>7. FirstPlaced' BY <1>3, <1>6 DEF FirstPlaced, IInv
<1> QED BY <1>3, <1>4, <1>5, <1>7, TableKept
--------------------------------------------------------------------------------
LEMMA InitIInv == Init => IInv
<1> SUFFICES ASSUME Init PROVE IInv OBVIOUS
<1> USE DEF Init
<1>1. 0 \in Slots /\ 1 \in 1 .. MaxDevices BY SizesAssumption DEF Slots
<1>2. TypeOK
  <2>1. todo \in Seq(Instructions) BY EmptySeq
  <2>2. Table = {Gateway} BY <1>1 DEF Table
  <2>3. known \in [Sensors -> {"never", "connected", "disconnected"}] OBVIOUS
  <2>4. items \in [Slots -> [0 .. MaxItems - 1 -> Items \cup {None}]] OBVIOUS
  <2>5. itemCount \in [Slots -> 0 .. MaxItems] BY SizesAssumption
  <2> QED BY <1>1, <2>1, <2>3, <2>4, <2>5 DEF TypeOK
<1>3. Ids BY <1>1 DEF Ids
<1>4. Halves BY DEF Halves, SecondIsFirst, Half, HalfAt
<1>5. NothingBehind BY DEF NothingBehind
<1>6. NamesDiffer BY DEF NamesDiffer, Stored
<1>7. FirstPlaced BY DEF FirstPlaced, MessagesPlaced
<1> QED BY <1>2, <1>3, <1>4, <1>5, <1>6, <1>7 DEF IInv

LEMMA CallStep ==
    ASSUME IInv, todo = << >>, NEW s, NEW script \in Seq(CallOf(s)), todo' = script,
           Placed(s) \/ (Len(script) > 0 /\ script[1].op = "create" /\ script[1].id = s),
           UNCHANGED <<table, messages, reader, online>>,
           asked' \in Sensors \cup {Gateway, None}
    PROVE  IInv'
<1>1. ~Half BY DEF Half
<1>2. Ids' /\ NamesDiffer' /\ NothingBehind' BY <1>1, TableKept DEF table, entries
<1> DEFINE All == CallOf(s)
<1>3. \A i \in All : i \in Instructions /\ i.op # "second"
                        /\ (i.op \in {"connected", "disconnected"} => i.id = s)
  BY DEF CallOf
<1> HIDE DEF All
<1>4. script \in Seq(All) /\ Len(script) \in Nat /\ \A k \in 1 .. Len(script) : script[k] \in All
  BY LenProperties, ElementOfSeq DEF All
<1>5. script \in Seq(Instructions) BY <1>3, <1>4, SeqDef
<1>6. TypeOK' BY <1>5 DEF IInv, TypeOK, table, messages, server, reader
<1>7. SecondIsFirst'
  <2>1. \A k \in 2 .. Len(script) : script[k].op # "second" BY <1>3, <1>4
  <2> QED BY <2>1 DEF SecondIsFirst
<1>8. ~Half'
  <2>1. ASSUME script # << >> PROVE Head(script).op # "second"
    <3>1. Head(script) = script[1] /\ 1 \in 1 .. Len(script) BY <1>4, <2>1, EmptySeq, HeadTailProperties
    <3> QED BY <1>3, <1>4, <3>1
  <2> QED BY <2>1 DEF Half
<1>9. Placed(s)' <=> Placed(s) BY PlacedKept DEF table
<1>10. MessagesPlaced'
  <2>1. Table' = Table /\ gDeviceCount' = gDeviceCount BY DEF table, Table
  <2>2. ASSUME NEW k \in 1 .. Len(script), script[k].op \in {"connected", "disconnected"}
        PROVE  \/ Placed(script[k].id)
               \/ \E l \in 1 .. k - 1 : script[l].op = "create" /\ script[l].id = script[k].id
    <3>1. script[k].id = s BY <1>3, <1>4, <2>2
    <3>2. CASE Placed(s) BY <3>1, <3>2
    <3>3. CASE Len(script) > 0 /\ script[1].op = "create" /\ script[1].id = s
      <4>1. k # 1 BY <2>2, <3>3
      <4>2. 1 \in 1 .. k - 1 BY <1>4, <4>1
      <4> QED BY <3>1, <3>3, <4>2
    <3> QED BY <3>2, <3>3
  <2>3. \A k \in 1 .. Len(script) :
            script[k].op \in {"connected", "disconnected"} =>
               \/ script[k].id \in Table \/ gDeviceCount = MaxDevices
               \/ \E l \in 1 .. k - 1 : script[l].op = "create" /\ script[l].id = script[k].id
    BY <2>2, Zenon DEF Placed
  <2> QED BY <2>1, <2>3 DEF MessagesPlaced, Placed
<1>11. FirstPlaced'
  <2>1. Table' = Table /\ gDeviceCount' = gDeviceCount /\ known' = known
    BY DEF table, Table, messages, server
  <2> QED BY <1>10, <2>1 DEF IInv, FirstPlaced, Placed
<1> QED BY <1>2, <1>6, <1>7, <1>8, <1>11 DEF IInv, Halves, HalfAt

LEMMA CallsKeep ==
    ASSUME IInv,
           \/ \E s \in Sensors, spec \in Specs : RegisterSensor(s, spec)
           \/ \E s \in Sensors : SenHubDisconnect(s) \/ SenHubReConnected(s)
           \/ Capability
    PROVE  IInv'
<1>1. asked \in Sensors \cup {Gateway, None} BY DEF IInv, TypeOK
<1>2. ASSUME NEW s \in Sensors, NEW spec \in Specs, RegisterSensor(s, spec)
      PROVE  IInv'
  <2>1. /\ todo = << >> /\ todo' = RegisterScript(s, spec)
        /\ UNCHANGED <<table, messages, reader, online>> /\ asked' = asked
    BY <1>2 DEF RegisterSensor, Call
  <2> QED BY <1>1, <2>1, RegisterScriptIs, CallStep
<1>3. ASSUME NEW s \in Sensors, SenHubDisconnect(s) \/ SenHubReConnected(s)
      PROVE  IInv'
  <2>1. /\ s \in Table /\ todo = << >>
        /\ \/ todo' = Do("disconnect", s) \o PublishInterfaceDeviceInfo \o PublishSensorDisconnect(s)
           \/ todo' = Do("connect", s) \o PublishInterfaceDeviceInfo \o PublishSensorConnect(s)
        /\ UNCHANGED <<table, messages, reader, online>> /\ asked' = asked
    BY <1>3 DEF SenHubDisconnect, SenHubReConnected, Call
  <2>2. todo' \in Seq(CallOf(s)) BY <2>1, ConnectionScripts
  <2>3. Placed(s) BY <2>1 DEF Placed
  <2> QED BY <1>1, <2>1, <2>2, <2>3, CallStep
<1>4. ASSUME Capability
      PROVE  IInv'
  <2>1. /\ todo = << >> /\ asked' = None
        /\ \/ todo' = PublishInterfaceDeviceInfo \o RepublishFrom(1)
           \/ todo' = << >>
        /\ UNCHANGED <<table, messages, reader, online>>
    BY <1>4 DEF Capability
  <2>2. PublishInterfaceDeviceInfo \o RepublishFrom(1) \in Seq(CallOf(Gateway))
    <3>1. [op |-> "topology", id |-> Gateway] \in CallOf(Gateway)
          /\ [op |-> "deviceinfo", id |-> Gateway] \in CallOf(Gateway)
          /\ [op |-> "republish", id |-> Gateway, dev |-> 1] \in CallOf(Gateway)
      BY DEF CallOf, Instructions
    <3>2. Do("topology", Gateway) \in Seq(CallOf(Gateway)) /\ Len(Do("topology", Gateway)) > 0
          /\ Do("deviceinfo", Gateway) \in Seq(CallOf(Gateway))
          /\ RepublishFrom(1) \in Seq(CallOf(Gateway))
      BY <3>1 DEF Do, RepublishFrom
    <3>3. PublishInterfaceDeviceInfo \in Seq(CallOf(Gateway)) /\ Len(PublishInterfaceDeviceInfo) > 0
      BY <3>2, Longer DEF PublishInterfaceDeviceInfo
    <3> QED BY <3>2, <3>3, Longer
  <2>3. << >> \in Seq(CallOf(Gateway)) BY EmptySeq
  <2>4. Placed(Gateway)
    <3>1. cliendId[0] = Gateway /\ 0 \in 0 .. gDeviceCount - 1 BY DEF IInv, Ids, TypeOK
    <3> QED BY <3>1 DEF Placed, Table
  <2> QED BY <2>1, <2>2, <2>3, <2>4, CallStep
<1> QED BY <1>2, <1>3, <1>4
--------------------------------------------------------------------------------
LEMMA AddTyped ==
    ASSUME NEW s \in Sensors, NEW item \in Items
    PROVE  [op |-> "add", id |-> s, item |-> item] \in Instructions
BY DEF Instructions

LEMMA Pair ==
    ASSUME NEW S, NEW a \in S, NEW b \in S
    PROVE  LET two == << a >> \o << b >> IN
           two \in Seq(S) /\ Len(two) = 2 /\ two[1] = a /\ two[2] = b
<1> DEFINE two == << a >> \o << b >>
<1>1. << a >> \in Seq(S) /\ << b >> \in Seq(S) /\ Len(<< a >>) = 1 /\ Len(<< b >>) = 1 OBVIOUS
<1>2. /\ two \in Seq(S) /\ Len(two) = Len(<< a >>) + Len(<< b >>)
      /\ \A i \in 1 .. Len(<< a >>) + Len(<< b >>) :
            two[i] = IF i <= Len(<< a >>) THEN << a >>[i] ELSE << b >>[i - Len(<< a >>)]
  BY <1>1, ConcatProperties
<1> HIDE DEF two
<1> QED BY <1>1, <1>2 DEF two

LEMMA SensorInitKeeps ==
    ASSUME IInv, SensorInit
    PROVE  IInv'
<1>1. /\ todo # << >> /\ Head(todo).op = "defaults" /\ It \in Sensors
      /\ UNCHANGED <<reader, online, asked, gDeviceCount, cliendId, itemCount, items, infospec, messages>>
  BY HeadTyped DEF SensorInit, Run, IInv
<1> DEFINE new == IF It \in Table /\ itemCount[IndexOf(It)] = 0 THEN Add(It, DefaultItems) ELSE << >>
<1>2. new \in Seq(Instructions) /\ \A k \in 1 .. Len(new) : new[k].op = "add"
  <2>1. Add(It, DefaultItems) \in Seq(Instructions)
        /\ \A k \in 1 .. Len(Add(It, DefaultItems)) : Add(It, DefaultItems)[k].op = "add"
    <3> DEFINE n == Len(Defaults)
    <3>1. n \in Nat /\ DOMAIN Defaults = 1 .. n /\ \A k \in 1 .. n : Defaults[k] \in Names
      BY ArraysAssumption, LenProperties, ElementOfSeq
    <3> HIDE DEF n
    <3>2. \A k \in 1 .. n : Item(None, Defaults[k]) \in Items BY <3>1 DEF Item, Items
    <3>3. Add(It, DefaultItems) =
              [k \in 1 .. n |-> [op |-> "add", id |-> It, item |-> Item(None, Defaults[k])]]
      BY <3>1 DEF Add, DefaultItems
    <3>4. [k \in 1 .. n |-> [op |-> "add", id |-> It, item |-> Item(None, Defaults[k])]]
              \in [1 .. n -> Instructions]
      BY <1>1, <3>2, AddTyped
    <3>5. Add(It, DefaultItems) \in Seq(Instructions) BY <3>1, <3>3, <3>4, SeqDef
    <3>6. Len(Add(It, DefaultItems)) = n BY <3>1, <3>3, <3>5, LenProperties
    <3>7. ASSUME NEW k \in 1 .. Len(Add(It, DefaultItems))
          PROVE  Add(It, DefaultItems)[k].op = "add"
      <4>1. k \in 1 .. n BY <3>6
      <4>2. Add(It, DefaultItems)[k] = [op |-> "add", id |-> It, item |-> Item(None, Defaults[k])]
        BY <3>3, <4>1
      <4> QED BY <4>2
    <3> QED BY <3>5, <3>7
  <2> QED BY <2>1, EmptySeq
<1>3. todo' = new \o Tail(todo) \/ (new = << >> /\ Done) BY DEF SensorInit
<1>4. connection' \in [Slots -> BOOLEAN] BY DEF SensorInit, IInv, TypeOK
<1> HIDE DEF new
<1>5. /\ todo' \in Seq(Instructions)
      /\ Ids' /\ Halves' /\ NothingBehind' /\ NamesDiffer' /\ FirstPlaced'
  <2>1. UNCHANGED entries /\ known' = known BY <1>1 DEF entries, messages, server
  <2>2. \A k \in 1 .. Len(new) : new[k].op # "second" /\ new[k].op \notin {"connected", "disconnected"}
    BY <1>2
  <2> QED BY <1>1, <1>2, <1>3, <2>1, <2>2, TableLeft
<1>6. TypeOK' BY <1>1, <1>4, <1>5 DEF IInv, TypeOK, messages, server, reader
<1> QED BY <1>5, <1>6 DEF IInv

LEMMA NextElementKeeps ==
    ASSUME IInv, NextElement
    PROVE  IInv'
<1>1. /\ todo # << >> /\ Head(todo).op = "items" /\ It \in Sensors
      /\ Head(todo).spec \in Specs /\ Head(todo).slash \in BOOLEAN /\ Head(todo).from \in Nat \ {0}
      /\ UNCHANGED <<reader, online, asked, table, messages>>
  BY HeadTyped DEF NextElement, Run, IInv
<1>2. UNCHANGED entries /\ known' = known BY <1>1 DEF entries, table, messages, server
<1>3. todo' \in Seq(Instructions)
      /\ Ids' /\ Halves' /\ NothingBehind' /\ NamesDiffer' /\ FirstPlaced'
  <2>1. CASE Done
    <3>1. << >> \in Seq(Instructions) /\ Len(<< >>) = 0 BY EmptySeq
    <3> DEFINE new == << >>
    <3>2. new \in Seq(Instructions) /\ Len(new) = 0 /\ new = << >> BY <3>1
    <3> HIDE DEF new
    <3>3. \A k \in 1 .. Len(new) : new[k].op # "second" /\ new[k].op \notin {"connected", "disconnected"}
      BY <3>2
    <3> QED BY <1>1, <1>2, <2>1, <3>2, <3>3, TableLeft
  <2>2. ASSUME NEW i \in Left(Head(todo)),
               todo' = Add(It, << Item(Head(todo).spec, Head(todo).spec[i]) >>)
                         \o AddFrom(It, Head(todo).spec, Head(todo).slash, i + 1) \o Tail(todo)
        PROVE  todo' \in Seq(Instructions)
               /\ Ids' /\ Halves' /\ NothingBehind' /\ NamesDiffer' /\ FirstPlaced'
    <3> DEFINE spec == Head(todo).spec
               item == Item(spec, spec[i])
               add == [op |-> "add", id |-> It, item |-> item]
               loop == [op |-> "items", id |-> It, spec |-> spec, slash |-> Head(todo).slash, from |-> i + 1]
    <3>1. spec \in Seq(Names) /\ Len(spec) \in Nat BY <1>1, ArraysAssumption, LenProperties
    <3>2. i \in 1 .. Len(spec) BY <1>1, <2>2, <3>1 DEF Left
    <3>3. spec[i] \in Names BY <3>1, <3>2, ElementOfSeq
    <3>4. item \in Items BY <1>1, <3>3 DEF Item, Items
    <3>5. add \in Instructions BY <1>1, <3>4, AddTyped
    <3>6. loop \in Instructions BY <1>1, <3>2 DEF Instructions
    <3>7. Add(It, << item >>) = << add >> BY DEF Add
    <3>8. AddFrom(It, spec, Head(todo).slash, i + 1) = << loop >> BY DEF AddFrom
    <3>9. todo' = (<< add >> \o << loop >>) \o Tail(todo) BY <2>2, <3>7, <3>8
    <3> DEFINE new == << add >> \o << loop >>
    <3>10. add.op = "add" /\ loop.op = "items" OBVIOUS
    <3> HIDE DEF add, loop
    <3>11. new \in Seq(Instructions) /\ Len(new) = 2 /\ new[1] = add /\ new[2] = loop
      BY <3>5, <3>6, Pair
    <3> HIDE DEF new
    <3>12. 1 .. Len(new) = {1, 2} BY <3>11
    <3>13. \A k \in 1 .. Len(new) : new[k].op # "second" /\ new[k].op \notin {"connected", "disconnected"}
      BY <3>10, <3>11, <3>12
    <3>14. todo' = new \o Tail(todo) BY <3>9 DEF new
    <3> QED BY <1>1, <1>2, <3>11, <3>13, <3>14, TableLeft
  <2> QED BY <2>1, <2>2 DEF NextElement
<1>4. TypeOK' BY <1>1, <1>3 DEF IInv, TypeOK, table, messages, server, reader
<1> QED BY <1>3, <1>4 DEF IInv
--------------------------------------------------------------------------------
LEMMA DoneLeft ==
    ASSUME IInv, todo # << >>, Head(todo).op \notin {"create", "second"}, Done, UNCHANGED entries,
           \A s \in Sensors : known'[s] # "never" => known[s] # "never" \/ Placed(s)
    PROVE  /\ todo' \in Seq(Instructions)
           /\ Ids' /\ Halves' /\ NothingBehind' /\ NamesDiffer' /\ FirstPlaced'
<1> DEFINE new == << >>
<1>1. new \in Seq(Instructions) /\ Len(new) = 0 /\ new = << >> BY EmptySeq
<1> HIDE DEF new
<1>2. \A k \in 1 .. Len(new) : new[k].op # "second" /\ new[k].op \notin {"connected", "disconnected"}
  BY <1>1
<1> QED BY <1>1, <1>2, TableLeft

LEMMA OneVariableKeeps ==
    ASSUME IInv,
           \/ \E op \in {"connect", "disconnect"}, status \in BOOLEAN : ConnectionStatus(op, status)
           \/ SetInfoSpec \/ AddNothing \/ GetTopology \/ PublishDeviceInfo \/ Subscribe
    PROVE  IInv'
<1>1. ASSUME NEW op \in {"connect", "disconnect"}, NEW status \in BOOLEAN, ConnectionStatus(op, status)
      PROVE  IInv'
  <2>1. /\ todo # << >> /\ Head(todo).op = op /\ Done
        /\ UNCHANGED <<reader, online, asked, gDeviceCount, cliendId, itemCount, items, infospec, messages>>
    BY <1>1 DEF ConnectionStatus, Run
  <2>2. connection' \in [Slots -> BOOLEAN] BY <1>1 DEF ConnectionStatus, IInv, TypeOK
  <2>3. /\ todo' \in Seq(Instructions)
        /\ Ids' /\ Halves' /\ NothingBehind' /\ NamesDiffer' /\ FirstPlaced'
    BY <2>1, DoneLeft DEF entries, messages, server
  <2> QED BY <2>1, <2>2, <2>3 DEF IInv, TypeOK, messages, server, reader
<1>2. ASSUME SetInfoSpec
      PROVE  IInv'
  <2>1. /\ todo # << >> /\ Head(todo).op = "infospec" /\ Done /\ Head(todo).spec \in Specs
        /\ UNCHANGED <<reader, online, asked, gDeviceCount, cliendId, itemCount, items, connection, messages>>
    BY <1>2, HeadTyped DEF SetInfoSpec, Run, IInv
  <2>2. infospec' \in [Slots -> Specs \cup {None}] BY <1>2, <2>1 DEF SetInfoSpec, IInv, TypeOK
  <2>3. /\ todo' \in Seq(Instructions)
        /\ Ids' /\ Halves' /\ NothingBehind' /\ NamesDiffer' /\ FirstPlaced'
    BY <2>1, DoneLeft DEF entries, messages, server
  <2> QED BY <2>1, <2>2, <2>3 DEF IInv, TypeOK, messages, server, reader
<1>3. ASSUME AddNothing \/ GetTopology \/ PublishDeviceInfo \/ Subscribe
      PROVE  IInv'
  <2>1. /\ todo # << >> /\ Head(todo).op \in {"add", "topology", "deviceinfo", "subscribe"} /\ Done
        /\ UNCHANGED <<reader, online, asked, table, crashed, known>>
    BY <1>3 DEF AddNothing, GetTopology, PublishDeviceInfo, Subscribe, Run, messages, server
  <2>2. Connected \subseteq Sensors
    BY DEF Connected, IInv, Ids
  <2>3. gIf_SenHublist' \subseteq Sensors /\ listed' \subseteq Sensors
    BY <1>3, <2>2 DEF AddNothing, GetTopology, PublishDeviceInfo, Subscribe, IInv, TypeOK, messages, server
  <2>4. subscribed' \subseteq Sensors
    BY <1>3, <2>1, HeadTyped DEF AddNothing, GetTopology, PublishDeviceInfo, Subscribe, Run, IInv, TypeOK,
                                 messages, server
  <2>5. /\ todo' \in Seq(Instructions)
        /\ Ids' /\ Halves' /\ NothingBehind' /\ NamesDiffer' /\ FirstPlaced'
    BY <2>1, DoneLeft DEF entries, table
  <2> QED BY <2>1, <2>3, <2>4, <2>5 DEF IInv, TypeOK, table, reader
<1> QED BY <1>1, <1>2, <1>3

LEMMA PublishSensorKeeps ==
    ASSUME IInv, NEW op \in {"connected", "disconnected"}, PublishSensor(op)
    PROVE  IInv'
<1>1. /\ todo # << >> /\ Head(todo).op = op /\ Done /\ It \in Sensors
      /\ UNCHANGED <<reader, online, asked, table, gIf_SenHublist, listed, subscribed>>
      /\ crashed' \in BOOLEAN
      /\ known' = IF online /\ ~crashed' THEN [known EXCEPT ![It] = op] ELSE known
  BY HeadTyped DEF PublishSensor, Run, IInv
<1>2. Placed(It)
  <2>1. Head(todo) = todo[1] /\ 1 \in 1 .. Len(todo) BY <1>1, TodoFacts DEF IInv
  <2>2. ~ \E l \in 1 .. 1 - 1 : TRUE OBVIOUS
  <2> QED BY <1>1, <2>1, <2>2 DEF IInv, FirstPlaced, MessagesPlaced, It
<1>3. known \in [Sensors -> {"never", "connected", "disconnected"}] BY DEF IInv, TypeOK
<1>4. known' \in [Sensors -> {"never", "connected", "disconnected"}] BY <1>1, <1>3
<1>5. \A s \in Sensors : known'[s] # "never" => known[s] # "never" \/ Placed(s)
  BY <1>1, <1>2, <1>3
<1>6. /\ todo' \in Seq(Instructions)
      /\ Ids' /\ Halves' /\ NothingBehind' /\ NamesDiffer' /\ FirstPlaced'
  BY <1>1, <1>5, DoneLeft DEF entries, table
<1> QED BY <1>1, <1>4, <1>6 DEF IInv, TypeOK, table, reader

LEMMA RepublishKeeps ==
    ASSUME IInv, Republish
    PROVE  IInv'
<1> DEFINE d == Head(todo).dev
           told == PublishSensorConnect(cliendId[d])
           loop == [op |-> "republish", id |-> Gateway, dev |-> d + 1]
<1>1. /\ todo # << >> /\ Head(todo).op = "republish" /\ d \in Nat \ {0}
      /\ UNCHANGED <<reader, online, asked, table, messages>>
  BY HeadTyped DEF Republish, Run, IInv
<1>2. UNCHANGED entries /\ known' = known BY <1>1 DEF entries, table, messages, server
<1>3. loop \in Instructions BY <1>1 DEF Instructions
<1>4. \/ Done
      \/ d < gDeviceCount /\ todo' = told \o RepublishFrom(d + 1) \o Tail(todo)
      \/ todo' = << >> \o RepublishFrom(d + 1) \o Tail(todo)
  <2>1. gDeviceCount \in Nat BY SizesAssumption DEF IInv, TypeOK
  <2>2. CASE d >= gDeviceCount BY <2>2 DEF Republish, Done
  <2>3. CASE ~(d >= gDeviceCount) /\ connection[d]
    <3>1. d < gDeviceCount BY <1>1, <2>1, <2>3
    <3> QED BY <2>3, <3>1 DEF Republish
  <2>4. CASE ~(d >= gDeviceCount) /\ ~connection[d] BY <2>4 DEF Republish
  <2> QED BY <2>2, <2>3, <2>4
<1>5. CASE Done
  <2>1. /\ todo' \in Seq(Instructions)
        /\ Ids' /\ Halves' /\ NothingBehind' /\ NamesDiffer' /\ FirstPlaced'
    BY <1>1, <1>2, <1>5, DoneLeft
  <2> QED BY <1>1, <2>1 DEF IInv, TypeOK, table, messages, server, reader
<1>6. CASE d < gDeviceCount /\ todo' = told \o RepublishFrom(d + 1) \o Tail(todo)
  <2> DEFINE s == cliendId[d]
             new == told \o RepublishFrom(d + 1)
  <2>1. gDeviceCount \in 1 .. MaxDevices BY DEF IInv, TypeOK
  <2>2. d \in 1 .. gDeviceCount - 1 BY <1>1, <1>6, <2>1
  <2>3. s \in Sensors /\ s \in Table BY <2>2 DEF IInv, Ids, Table
  <2>4. [op |-> "connected", id |-> s] \in CallOf(s) /\ [op |-> "subscribe", id |-> s] \in CallOf(s)
        /\ loop \in CallOf(s)
    BY <1>3, <2>3 DEF CallOf, Instructions
  <2>5. Do("connected", s) \in Seq(CallOf(s)) /\ Len(Do("connected", s)) > 0
        /\ Do("subscribe", s) \in Seq(CallOf(s)) /\ RepublishFrom(d + 1) \in Seq(CallOf(s))
    BY <2>4 DEF Do, RepublishFrom
  <2>6. told \in Seq(CallOf(s)) /\ Len(told) > 0 BY <2>5, Longer DEF PublishSensorConnect
  <2>7. new \in Seq(CallOf(s)) BY <2>5, <2>6, Longer
  <2>8. todo' = new \o Tail(todo) BY <1>6
  <2> HIDE DEF new, s
  <2>9. CallOf(s) \subseteq Instructions BY DEF CallOf
  <2>10. new \in Seq(Instructions) BY <2>7, <2>9, SeqMonotonic
  <2>11. \A k \in 1 .. Len(new) : new[k] \in CallOf(s) BY <2>7, ElementOfSeq
  <2>12. \A k \in 1 .. Len(new) : new[k].op # "second"
                                    /\ (new[k].op \in {"connected", "disconnected"} => new[k].id = s)
    BY <2>11 DEF CallOf
  <2>13. Placed(s) BY <2>3 DEF Placed, s
  <2>14. \A k \in 1 .. Len(new) : new[k].op \in {"connected", "disconnected"} => Placed(new[k].id)
    BY <2>12, <2>13
  <2>15. /\ todo' \in Seq(Instructions)
         /\ Ids' /\ Halves' /\ NothingBehind' /\ NamesDiffer' /\ FirstPlaced'
    BY <1>1, <1>2, <2>8, <2>10, <2>12, <2>14, TableLeft
  <2> QED BY <1>1, <2>15 DEF IInv, TypeOK, table, messages, server, reader
<1>7. CASE todo' = << >> \o RepublishFrom(d + 1) \o Tail(todo)
  <2>1. << >> \o RepublishFrom(d + 1) = << loop >>
    BY <1>3, ConcatEmptySeq DEF RepublishFrom
  <2> DEFINE new == << loop >>
  <2>2. loop.op = "republish" OBVIOUS
  <2> HIDE DEF loop
  <2>3. new \in Seq(Instructions) /\ Len(new) = 1 /\ new[1] = loop BY <1>3
  <2>4. todo' = new \o Tail(todo) BY <1>7, <2>1
  <2> HIDE DEF new
  <2>5. \A k \in 1 .. Len(new) : new[k].op # "second" /\ new[k].op \notin {"connected", "disconnected"}
    BY <2>2, <2>3
  <2>6. /\ todo' \in Seq(Instructions)
        /\ Ids' /\ Halves' /\ NothingBehind' /\ NamesDiffer' /\ FirstPlaced'
    BY <1>1, <1>2, <2>3, <2>4, <2>5, TableLeft
  <2> QED BY <1>1, <2>6 DEF IInv, TypeOK, table, messages, server, reader
<1> QED BY <1>4, <1>5, <1>6, <1>7
--------------------------------------------------------------------------------
LEMMA TailOfCreate ==
    ASSUME IInv, todo # << >>, Head(todo).op = "create", Done,
           It \in Table' \/ gDeviceCount' = MaxDevices, Table \subseteq Table', gDeviceCount = MaxDevices => gDeviceCount' = MaxDevices
    PROVE  todo' \in Seq(Instructions) /\ SecondIsFirst' /\ MessagesPlaced' /\ ~Half'
<1>1. /\ Head(todo) = todo[1] /\ Len(todo) \in Nat \ {0}
      /\ Tail(todo) \in Seq(Instructions) /\ Len(Tail(todo)) = Len(todo) - 1
      /\ \A k \in 1 .. Len(Tail(todo)) : Tail(todo)[k] = todo[k + 1]
  BY TodoFacts DEF IInv
<1> DEFINE rest == Tail(todo)
<1>2. todo' = rest BY DEF Done
<1> HIDE DEF rest
<1>3. rest \in Seq(Instructions) /\ Len(rest) = Len(todo) - 1
      /\ \A k \in 1 .. Len(rest) : rest[k] = todo[k + 1] /\ k + 1 \in 2 .. Len(todo)
  BY <1>1 DEF rest
<1>4. \A k \in 2 .. Len(todo) : todo[k].op # "second" BY DEF IInv, Halves, SecondIsFirst
<1>5. \A k \in 1 .. Len(rest) : rest[k].op # "second" BY <1>3, <1>4
<1>6. SecondIsFirst'
  <2>1. Len(rest) \in Nat BY <1>1, <1>3
  <2>2. \A k \in 2 .. Len(rest) : rest[k].op # "second" BY <1>5, <2>1
  <2> QED BY <1>2, <2>2 DEF SecondIsFirst
<1>7. ~Half'
  <2>1. ASSUME rest # << >> PROVE Head(rest).op # "second"
    <3>1. Head(rest) = rest[1] /\ 1 \in 1 .. Len(rest) BY <1>3, <2>1, EmptySeq, HeadTailProperties
    <3> QED BY <1>5, <3>1
  <2> QED BY <1>2, <2>1 DEF Half
<1>8. It \in Table' \/ gDeviceCount' = MaxDevices OBVIOUS
<1>9. ASSUME NEW k \in 1 .. Len(rest), rest[k].op \in {"connected", "disconnected"}
      PROVE  \/ rest[k].id \in Table' \/ gDeviceCount' = MaxDevices
             \/ \E l \in 1 .. k - 1 : rest[l].op = "create" /\ rest[l].id = rest[k].id
  <2>1. rest[k] = todo[k + 1] /\ k + 1 \in 1 .. Len(todo) BY <1>3
  <2>2. CASE Placed(todo[k + 1].id) BY <2>1, <2>2 DEF Placed
  <2>3. CASE \E l \in 1 .. (k + 1) - 1 : todo[l].op = "create" /\ todo[l].id = todo[k + 1].id
    <3>1. PICK l \in 1 .. (k + 1) - 1 : todo[l].op = "create" /\ todo[l].id = todo[k + 1].id BY <2>3
    <3>2. CASE l = 1
      <4>1. rest[k].id = It BY <1>1, <2>1, <3>1, <3>2 DEF It
      <4> QED BY <1>8, <4>1
    <3>3. CASE l # 1
      <4>1. l - 1 \in 1 .. k - 1 /\ l - 1 \in 1 .. Len(rest) /\ (l - 1) + 1 = l BY <3>1, <3>3
      <4>2. rest[l - 1] = todo[l] BY <1>3, <4>1
      <4> QED BY <2>1, <3>1, <4>1, <4>2
    <3> QED BY <3>2, <3>3
  <2> QED BY <1>9, <2>1, <2>2, <2>3 DEF IInv, FirstPlaced, MessagesPlaced
<1>10. MessagesPlaced'
  <2>1. \A k \in 1 .. Len(rest) :
            rest[k].op \in {"connected", "disconnected"} =>
               \/ rest[k].id \in Table' \/ gDeviceCount' = MaxDevices
               \/ \E l \in 1 .. k - 1 : rest[l].op = "create" /\ rest[l].id = rest[k].id
    BY <1>9
  <2> QED BY <1>2, <2>1 DEF MessagesPlaced, Placed
<1> QED BY <1>2, <1>3, <1>6, <1>7, <1>10

LEMMA CreateKeeps ==
    ASSUME IInv, Create
    PROVE  IInv'
<1>1. /\ todo # << >> /\ Head(todo).op = "create" /\ Done /\ It \in Sensors
      /\ UNCHANGED <<reader, online, asked, connection, itemCount, items, infospec, messages>>
  BY HeadTyped DEF Create, Run, IInv
<1>2. gDeviceCount \in 1 .. MaxDevices /\ cliendId \in [Slots -> Sensors \cup {Gateway, None}]
  BY DEF IInv, TypeOK
<1>3. /\ gDeviceCount' \in 1 .. MaxDevices
      /\ cliendId' \in [Slots -> Sensors \cup {Gateway, None}]
      /\ Ids' /\ (It \in Table' \/ gDeviceCount' = MaxDevices) /\ Table \subseteq Table'
      /\ gDeviceCount = MaxDevices => gDeviceCount' = MaxDevices
  <2>1. CASE It \in Table \/ gDeviceCount >= MaxDevices
    <3>1. UNCHANGED <<cliendId, gDeviceCount>> BY <2>1 DEF Create
    <3>2. Placed(It) BY <1>2, <2>1, SizesAssumption DEF Placed
    <3>3. Table' = Table BY <3>1 DEF Table
    <3>4. It \in Table' \/ gDeviceCount' = MaxDevices BY <3>1, <3>2, <3>3 DEF Placed
    <3> QED BY <1>2, <3>1, <3>3, <3>4 DEF Ids, IInv
  <2>2. CASE ~(It \in Table \/ gDeviceCount >= MaxDevices)
    <3>1. /\ cliendId' = [cliendId EXCEPT ![gDeviceCount] = It]
          /\ gDeviceCount' = gDeviceCount + 1
      BY <2>2 DEF Create
    <3>2. gDeviceCount \in Slots /\ gDeviceCount + 1 \in 1 .. MaxDevices /\ gDeviceCount \in Nat
      BY <1>2, <2>2, SizesAssumption DEF Slots
    <3>3. \A d \in 0 .. gDeviceCount - 1 : d \in Slots /\ d # gDeviceCount /\ cliendId'[d] = cliendId[d]
                                            /\ cliendId[d] # It
      BY <1>2, <2>2, <3>1, <3>2, SizesAssumption DEF Slots, Table
    <3>4. cliendId'[gDeviceCount] = It BY <1>2, <3>1, <3>2
    <3>5. 0 .. gDeviceCount' - 1 = (0 .. gDeviceCount - 1) \cup {gDeviceCount}
          /\ 1 .. gDeviceCount' - 1 = (1 .. gDeviceCount - 1) \cup {gDeviceCount}
          /\ 1 .. gDeviceCount - 1 \subseteq 0 .. gDeviceCount - 1 /\ 0 \in 0 .. gDeviceCount - 1
      BY <1>2, <3>1, <3>2
    <3>6. Table' = Table \cup {It} BY <3>3, <3>4, <3>5 DEF Table
    <3>7. Ids' BY <1>1, <3>3, <3>4, <3>5, Zenon DEF Ids, IInv
    <3>9. cliendId' \in [Slots -> Sensors \cup {Gateway, None}] BY <1>1, <1>2, <3>1
    <3>10. gDeviceCount # MaxDevices BY <1>2, <2>2, SizesAssumption
    <3> QED BY <3>1, <3>2, <3>6, <3>7, <3>9, <3>10
  <2> QED BY <2>1, <2>2
<1>4. todo' \in Seq(Instructions) /\ SecondIsFirst' /\ MessagesPlaced' /\ ~Half'
  BY <1>1, <1>3, TailOfCreate
<1>5. ~Half BY <1>1 DEF Half
<1>6. NamesDiffer' BY <1>1 DEF NamesDiffer, Stored, IInv
<1>7. NothingBehind' BY <1>1, <1>5 DEF NothingBehind, HalfAt, IInv
<1>8. FirstPlaced' BY <1>1, <1>3, <1>4 DEF FirstPlaced, Placed, IInv, messages, server
<1>9. TypeOK' BY <1>1, <1>3, <1>4 DEF IInv, TypeOK, messages, server, reader
<1> QED BY <1>3, <1>4, <1>6, <1>7, <1>8, <1>9 DEF IInv, Halves, HalfAt
--------------------------------------------------------------------------------
\* What WiseAccess_AddItem works on.
LEMMA HasFacts ==
    ASSUME IInv, todo # << >>, Head(todo).op \in {"add", "second"}, It \in Table
    PROVE  /\ It \in Sensors /\ IndexOf(It) \in Slots
           /\ Head(todo).item \in Items /\ Head(todo).item # None
           /\ itemCount[IndexOf(It)] \in 0 .. MaxItems
           /\ items \in [Slots -> [0 .. MaxItems - 1 -> Items \cup {None}]]
           /\ itemCount \in [Slots -> 0 .. MaxItems]
           /\ \A e \in Slots : Stored(e) \subseteq 0 .. MaxItems - 1
<1>1. /\ items \in [Slots -> [0 .. MaxItems - 1 -> Items \cup {None}]]
      /\ itemCount \in [Slots -> 0 .. MaxItems]
  BY DEF IInv, TypeOK
<1>2. It \in Sensors /\ Head(todo).item \in Items BY HeadTyped DEF IInv
<1>3. Head(todo).item # None BY <1>2, ArraysAssumption
<1>4. IndexOf(It) \in Slots BY IndexFacts DEF IInv
<1>5. \A e \in Slots : Stored(e) \subseteq 0 .. MaxItems - 1 BY <1>1, SizesAssumption DEF Stored
<1> QED BY <1>1, <1>2, <1>3, <1>4, <1>5

LEMMA ReplaceKeeps ==
    ASSUME IInv, Replace
    PROVE  IInv'
<1> DEFINE item == Head(todo).item
           d == IndexOf(It)
<1>1. /\ todo # << >> /\ Head(todo).op = "add" /\ Done /\ It \in Table
      /\ items' = [items EXCEPT ![d] = [i \in DOMAIN @ |-> IF i \in Same(d, item.name) THEN item ELSE @[i]]]
      /\ UNCHANGED <<reader, online, asked, gDeviceCount, cliendId, connection, itemCount, infospec, messages>>
  BY DEF Replace, Run, Has
<1>2. /\ d \in Slots /\ item \in Items /\ item # None
      /\ items \in [Slots -> [0 .. MaxItems - 1 -> Items \cup {None}]]
  BY <1>1, HasFacts
<1>3. \A e \in Slots : Stored(e) \subseteq 0 .. MaxItems - 1 BY <1>1, HasFacts
<1> HIDE DEF item, d
<1>4. items' \in [Slots -> [0 .. MaxItems - 1 -> Items \cup {None}]] BY <1>1, <1>2
<1>5. ASSUME NEW e \in Slots, NEW i \in 0 .. MaxItems - 1
      PROVE  /\ items'[e][i] = None <=> items[e][i] = None
             /\ items[e][i] # None /\ i < itemCount[e] /\ i \in Stored(e) => items'[e][i].name = items[e][i].name
  <2>1. CASE e = d /\ i \in Same(d, item.name)
    <3>1. items'[e][i] = item BY <1>1, <1>2, <2>1
    <3>2. items[e][i] # None /\ items[e][i].name = item.name BY <2>1 DEF Same, Stored
    <3> QED BY <1>2, <3>1, <3>2
  <2>2. CASE ~(e = d /\ i \in Same(d, item.name))
    <3>1. items'[e][i] = items[e][i] BY <1>1, <1>2, <2>2
    <3> QED BY <3>1
  <2> QED BY <2>1, <2>2
<1>6. \A e \in Slots : Stored(e)' = Stored(e)
  <2> SUFFICES ASSUME NEW e \in Slots PROVE Stored(e)' = Stored(e) OBVIOUS
  <2>1. itemCount[e] \in 0 .. MaxItems BY DEF IInv, TypeOK
  <2>2. \A i \in 0 .. itemCount[e] - 1 : i \in 0 .. MaxItems - 1 BY <2>1, SizesAssumption
  <2> QED BY <1>1, <1>5, <2>2 DEF Stored
<1>7. NamesDiffer'
  <2> SUFFICES ASSUME NEW e \in Slots, NEW i \in Stored(e), NEW j \in Stored(e),
                      items'[e][i].name = items'[e][j].name
               PROVE  i = j
    BY <1>6 DEF NamesDiffer
  <2>1. /\ i \in 0 .. MaxItems - 1 /\ items[e][i] # None /\ i < itemCount[e]
        /\ j \in 0 .. MaxItems - 1 /\ items[e][j] # None /\ j < itemCount[e]
    <3>1. itemCount[e] \in 0 .. MaxItems BY DEF IInv, TypeOK
    <3> QED BY <1>3, <3>1 DEF Stored
  <2>2. items'[e][i].name = items[e][i].name /\ items'[e][j].name = items[e][j].name
    BY <1>5, <2>1
  <2> QED BY <2>2 DEF IInv, NamesDiffer
<1>8. ~Half BY <1>1 DEF Half
<1>9. NothingBehind' BY <1>1, <1>5, <1>8 DEF NothingBehind, HalfAt, IInv
<1>10. todo' \in Seq(Instructions) /\ SecondIsFirst' /\ MessagesPlaced' /\ ~Half'
  BY <1>1, TailQueued DEF IInv, Done
<1>11. Ids' BY <1>1 DEF Ids, IInv
<1>12. FirstPlaced' BY <1>1, <1>10 DEF FirstPlaced, Placed, Table, IInv, messages, server
<1>13. TypeOK' BY <1>1, <1>4, <1>10 DEF IInv, TypeOK, messages, server, reader
<1> QED BY <1>7, <1>9, <1>10, <1>11, <1>12, <1>13 DEF IInv, Halves, HalfAt

\* The first of the two stores of a new item.
LEMMA Append1Facts ==
    ASSUME IInv, NEW first \in {"count", "item"}, Append1(first),
           NEW d, d = IndexOf(It), NEW at, at = itemCount[d], NEW item, item = Head(todo).item
    PROVE  /\ todo # << >> /\ Head(todo).op = "add" /\ It \in Table /\ ~Has(It, item.name)
           /\ It \in Sensors /\ d \in Slots /\ item \in Items /\ item # None
           /\ at \in 0 .. MaxItems - 1 /\ at + 1 \in 0 .. MaxItems /\ at \in Nat
           /\ items \in [Slots -> [0 .. MaxItems - 1 -> Items \cup {None}]]
           /\ itemCount \in [Slots -> 0 .. MaxItems]
           /\ \A e \in Slots : \A i \in 0 .. MaxItems - 1 : itemCount[e] <= i => items[e][i] = None
           /\ \A i \in 0 .. MaxItems - 1 : items[d][i] # None => items[d][i].name # item.name
           /\ todo' \in Seq(Instructions) /\ SecondIsFirst' /\ MessagesPlaced' /\ Half'
           /\ Head(todo').op = "second" /\ Head(todo').id = It
           /\ Head(todo').item = item /\ Head(todo').at = at
           /\ items' \in [Slots -> [0 .. MaxItems - 1 -> Items \cup {None}]]
           /\ itemCount' \in [Slots -> 0 .. MaxItems]
           /\ itemCount'[d] \in {at, at + 1}
           /\ \A e \in Slots : \A i \in 0 .. MaxItems - 1 :
                 ~(e = d /\ i = at) => items'[e][i] = items[e][i]
           /\ \A e \in Slots : e # d => itemCount'[e] = itemCount[e]
           /\ first = "count" => items' = items
           /\ first = "item" => itemCount' = itemCount
           /\ \A e \in Slots : \A i : HalfAt(e, i)' <=> e = d /\ i = at
<1> DEFINE second == [op |-> "second", id |-> It, item |-> item, at |-> at]
<1>1. /\ todo # << >> /\ Head(todo).op = "add" /\ It \in Table /\ ~Has(It, item.name) /\ at < MaxItems
      /\ itemCount' = IF first = "count" THEN [itemCount EXCEPT ![d] = at + 1] ELSE itemCount
      /\ items' = IF first = "item" THEN [items EXCEPT ![d][at] = item] ELSE items
      /\ todo' = << second >> \o Tail(todo)
      /\ UNCHANGED <<gDeviceCount, cliendId>>
  BY DEF Append1, Run, Room
<1>2. /\ It \in Sensors /\ d \in Slots /\ item \in Items /\ item # None /\ at \in 0 .. MaxItems
      /\ items \in [Slots -> [0 .. MaxItems - 1 -> Items \cup {None}]]
      /\ itemCount \in [Slots -> 0 .. MaxItems]
  BY <1>1, HasFacts
<1>3. at \in 0 .. MaxItems - 1 /\ at + 1 \in 0 .. MaxItems /\ at \in Nat BY <1>1, <1>2, SizesAssumption
<1>4. second \in Instructions BY <1>2, <1>3 DEF Instructions
<1>5. ~Half BY <1>1 DEF Half
<1>6. \A e \in Slots : \A i \in 0 .. MaxItems - 1 : itemCount[e] <= i => items[e][i] = None
  BY <1>5 DEF IInv, NothingBehind, HalfAt
<1>7. \A i \in 0 .. MaxItems - 1 : items[d][i] # None => items[d][i].name # item.name
  <2> SUFFICES ASSUME NEW i \in 0 .. MaxItems - 1, items[d][i] # None, items[d][i].name = item.name
               PROVE  FALSE
    OBVIOUS
  <2>1. ~(at <= i) BY <1>2, <1>6
  <2>2. i \in Stored(d) BY <1>3, <2>1 DEF Stored
  <2>3. i \in Same(d, item.name) BY <2>2 DEF Same
  <2> QED BY <1>1, <2>3 DEF Has
<1>8. second.op = "second" /\ second.id = It /\ second.item = item /\ second.at = at OBVIOUS
<1> HIDE DEF second
<1>9. /\ todo' \in Seq(Instructions) /\ SecondIsFirst' /\ MessagesPlaced'
      /\ Half' => Head(todo') = second
  <2> DEFINE new == << second >>
  <2>1. new \in Seq(Instructions) /\ Len(new) = 1 /\ new[1] = second BY <1>4
  <2>2. todo' = new \o Tail(todo) BY <1>1
  <2> HIDE DEF new
  <2>3. /\ \A k \in 2 .. Len(new) : new[k].op # "second"
        /\ \A k \in 1 .. Len(new) : new[k].op \notin {"connected", "disconnected"}
    BY <1>8, <2>1
  <2> QED BY <1>1, <2>1, <2>2, <2>3, Queued DEF IInv
<1>10. Half' /\ Head(todo') = second
  <2>1. << second >> \in Seq(Instructions) /\ Len(<< second >>) = 1 /\ << second >>[1] = second BY <1>4
  <2>2. Len(todo') = 1 + Len(todo) - 1 /\ todo'[1] = second /\ Len(todo) \in Nat \ {0}
    BY <1>1, <2>1, Before, TodoFacts DEF IInv
  <2>3. todo' # << >> BY <2>2, EmptySeq
  <2>4. Head(todo') = second BY <1>9, <2>2, <2>3, HeadTailProperties
  <2> QED BY <1>8, <2>3, <2>4 DEF Half
<1>11. /\ items' \in [Slots -> [0 .. MaxItems - 1 -> Items \cup {None}]]
       /\ itemCount' \in [Slots -> 0 .. MaxItems]
       /\ itemCount'[d] \in {at, at + 1}
       /\ \A e \in Slots : \A i \in 0 .. MaxItems - 1 :
             ~(e = d /\ i = at) => items'[e][i] = items[e][i]
       /\ \A e \in Slots : e # d => itemCount'[e] = itemCount[e]
  BY <1>1, <1>2, <1>3
<1>12. \A e \in Slots : e < gDeviceCount /\ cliendId[e] = It <=> e = d
  <2>1. d \in 0 .. gDeviceCount - 1 /\ cliendId[d] = It BY <1>1, IndexFacts DEF IInv
  <2>2. gDeviceCount \in 1 .. MaxDevices BY DEF IInv, TypeOK
  <2>3. \A e \in Slots : e < gDeviceCount => e \in 0 .. gDeviceCount - 1 BY <2>2, SizesAssumption DEF Slots
  <2> QED BY <2>1, <2>2, <2>3 DEF IInv, Ids
<1>13. ASSUME NEW e \in Slots, NEW i
       PROVE  HalfAt(e, i)' <=> e = d /\ i = at
  <2>1. HalfAt(e, i)' <=> e < gDeviceCount /\ cliendId[e] = It /\ i = at
    BY <1>1, <1>8, <1>10 DEF HalfAt
  <2> QED BY <1>12, <2>1
<1> QED BY <1>1, <1>2, <1>3, <1>6, <1>7, <1>8, <1>9, <1>10, <1>11, <1>13

LEMMA Append1Keeps ==
    ASSUME IInv, NEW first \in {"count", "item"}, Append1(first)
    PROVE  IInv'
<1>1. PICK d, at, item : d = IndexOf(It) /\ at = itemCount[d] /\ item = Head(todo).item OBVIOUS
<1>2. UNCHANGED <<reader, online, asked, gDeviceCount, cliendId, connection, infospec, messages>>
  BY DEF Append1, Run
<1>3. /\ It \in Table /\ ~Has(It, item.name)
      /\ It \in Sensors /\ d \in Slots /\ item \in Items /\ item # None
      /\ at \in 0 .. MaxItems - 1 /\ at + 1 \in 0 .. MaxItems /\ at \in Nat
      /\ items \in [Slots -> [0 .. MaxItems - 1 -> Items \cup {None}]]
      /\ itemCount \in [Slots -> 0 .. MaxItems]
  BY <1>1, Append1Facts
<1>4. \A e \in Slots : \A i \in 0 .. MaxItems - 1 : itemCount[e] <= i => items[e][i] = None
  BY <1>1, Append1Facts
<1>5. \A i \in 0 .. MaxItems - 1 : items[d][i] # None => items[d][i].name # item.name
  BY <1>1, Append1Facts
<1>6. /\ todo' \in Seq(Instructions) /\ SecondIsFirst' /\ MessagesPlaced' /\ Half'
      /\ Head(todo').op = "second" /\ Head(todo').id = It
      /\ Head(todo').item = item /\ Head(todo').at = at
  BY <1>1, Append1Facts
<1>7. /\ items' \in [Slots -> [0 .. MaxItems - 1 -> Items \cup {None}]]
      /\ itemCount' \in [Slots -> 0 .. MaxItems]
      /\ itemCount'[d] \in {at, at + 1}
      /\ \A e \in Slots : \A i \in 0 .. MaxItems - 1 :
            ~(e = d /\ i = at) => items'[e][i] = items[e][i]
      /\ \A e \in Slots : e # d => itemCount'[e] = itemCount[e]
      /\ first = "count" => items' = items
      /\ first = "item" => itemCount' = itemCount
  BY <1>1, Append1Facts
<1>8. Table' = Table BY <1>2 DEF Table
<1>9. \A e \in Slots : \A i : HalfAt(e, i)' <=> e = d /\ i = at BY <1>1, Append1Facts
<1>10. Halves'
  <2>1. Half' => Head(todo').id \in Table' BY <1>3, <1>6, <1>8
  <2>2. ASSUME NEW e \in Slots, NEW i \in 0 .. MaxItems - 1, HalfAt(e, i)'
        PROVE  /\ itemCount'[e] \in {i, i + 1}
               /\ \A j \in 0 .. MaxItems - 1 :
                     j # i /\ items'[e][j] # None => items'[e][j].name # Head(todo').item.name
    <3>1. e = d /\ i = at BY <1>9, <2>2
    <3>2. Head(todo').item = item BY <1>6
    <3> QED BY <1>5, <1>7, <3>1, <3>2
  <2> QED BY <1>6, <2>1, <2>2 DEF Halves
<1>11. NothingBehind'
  <2> SUFFICES ASSUME NEW e \in Slots, NEW i \in 0 .. MaxItems - 1, itemCount'[e] <= i, items'[e][i] # None
               PROVE  e = d /\ i = at
    BY <1>9 DEF NothingBehind
  <2> SUFFICES ASSUME ~(e = d /\ i = at) PROVE FALSE OBVIOUS
  <2>1. items[e][i] # None BY <1>7
  <2>2. itemCount[e] <= itemCount'[e] /\ itemCount[e] \in Nat /\ itemCount'[e] \in Nat
    <3>1. itemCount[e] \in Nat /\ itemCount'[e] \in Nat BY <1>3, <1>7
    <3>2. CASE e = d BY <1>1, <1>3, <1>7, <3>1, <3>2
    <3> QED BY <1>7, <3>1, <3>2
  <2>3. itemCount[e] <= i BY <2>2
  <2> QED BY <1>4, <2>1, <2>3
<1>12. NamesDiffer'
  <2> SUFFICES ASSUME NEW e \in Slots, NEW i \in Stored(e)', NEW j \in Stored(e)',
                      items'[e][i].name = items'[e][j].name
               PROVE  i = j
    BY DEF NamesDiffer
  <2>1. itemCount'[e] \in 0 .. MaxItems /\ itemCount[e] \in 0 .. MaxItems BY <1>3, <1>7
  <2>2. /\ i \in 0 .. MaxItems - 1 /\ i < itemCount'[e] /\ items'[e][i] # None
        /\ j \in 0 .. MaxItems - 1 /\ j < itemCount'[e] /\ items'[e][j] # None
    BY <2>1, SizesAssumption DEF Stored
  <2>3. ASSUME NEW k \in 0 .. MaxItems - 1, k < itemCount'[e], items'[e][k] # None
        PROVE  k \in Stored(e) /\ items'[e][k] = items[e][k]
    <3>1. ~(e = d /\ k = at)
      <4>1. CASE first = "count"
        <5>1. items' = items BY <1>7, <4>1
        <5>2. items[d][at] = None BY <1>1, <1>3, <1>4
        <5> QED BY <2>3, <5>1, <5>2
      <4>2. CASE first = "item"
        <5>1. itemCount'[d] = at BY <1>1, <1>7, <4>2
        <5> QED BY <1>3, <2>3, <5>1
      <4> QED BY <4>1, <4>2
    <3>2. items'[e][k] = items[e][k] BY <1>7, <3>1
    <3>3. ~(itemCount[e] <= k) BY <1>4, <2>3, <3>2
    <3>4. k \in Stored(e) BY <2>1, <2>3, <3>2, <3>3 DEF Stored
    <3> QED BY <3>2, <3>4
  <2>4. i \in Stored(e) /\ j \in Stored(e) /\ items[e][i].name = items[e][j].name BY <2>2, <2>3
  <2> QED BY <2>4 DEF IInv, NamesDiffer
<1>13. Ids' BY <1>2 DEF Ids, IInv
<1>14. FirstPlaced' BY <1>2, <1>6, <1>8 DEF FirstPlaced, Placed, IInv, messages, server
<1>15. TypeOK' BY <1>2, <1>6, <1>7 DEF IInv, TypeOK, messages, server, reader
<1> QED BY <1>10, <1>11, <1>12, <1>13, <1>14, <1>15 DEF IInv
--------------------------------------------------------------------------------
\* The second of the two stores.
LEMMA Append2Facts ==
    ASSUME IInv, Append2,
           NEW d, d = IndexOf(It), NEW at, at = Head(todo).at, NEW item, item = Head(todo).item
    PROVE  /\ todo # << >> /\ Head(todo).op = "second" /\ Done /\ It \in Table
           /\ d \in Slots /\ at \in 0 .. MaxItems - 1 /\ item \in Items /\ item # None
           /\ items \in [Slots -> [0 .. MaxItems - 1 -> Items \cup {None}]]
           /\ itemCount \in [Slots -> 0 .. MaxItems]
           /\ \A e \in Slots : \A i : HalfAt(e, i) <=> e = d /\ i = at
           /\ itemCount[d] \in {at, at + 1}
           /\ \A i \in 0 .. MaxItems - 1 : i # at /\ items[d][i] # None => items[d][i].name # item.name
           /\ \A e \in Slots : \A i \in 0 .. MaxItems - 1 :
                 itemCount[e] <= i /\ items[e][i] # None => e = d /\ i = at
           /\ items' \in [Slots -> [0 .. MaxItems - 1 -> Items \cup {None}]]
           /\ itemCount' \in [Slots -> 0 .. MaxItems]
           /\ items'[d][at] = item /\ itemCount'[d] = at + 1
           /\ \A e \in Slots : e # d => itemCount'[e] = itemCount[e]
           /\ \A e \in Slots : \A i \in 0 .. MaxItems - 1 :
                 ~(e = d /\ i = at) => items'[e][i] = items[e][i]
<1>1. /\ todo # << >> /\ Head(todo).op = "second" /\ Done
      /\ items' = [items EXCEPT ![d][at] = item]
      /\ itemCount' = [itemCount EXCEPT ![d] = at + 1]
  BY DEF Append2, Run
<1>2. Half /\ It \in Table BY <1>1 DEF Half, IInv, Halves, It
<1>3. /\ d \in Slots /\ item \in Items /\ item # None
      /\ items \in [Slots -> [0 .. MaxItems - 1 -> Items \cup {None}]]
      /\ itemCount \in [Slots -> 0 .. MaxItems]
  BY <1>1, <1>2, HasFacts
<1>4. at \in 0 .. MaxItems - 1 BY <1>1, HeadTyped DEF IInv
<1>5. \A e \in Slots : e < gDeviceCount /\ cliendId[e] = It <=> e = d
  <2>1. d \in 0 .. gDeviceCount - 1 /\ cliendId[d] = It BY <1>2, IndexFacts DEF IInv
  <2>2. gDeviceCount \in 1 .. MaxDevices BY DEF IInv, TypeOK
  <2>3. \A e \in Slots : e < gDeviceCount => e \in 0 .. gDeviceCount - 1 BY <2>2, SizesAssumption DEF Slots
  <2> QED BY <2>1, <2>2, <2>3 DEF IInv, Ids
<1>6. \A e \in Slots : \A i : HalfAt(e, i) <=> e = d /\ i = at BY <1>2, <1>5 DEF HalfAt, It
<1>7. /\ itemCount[d] \in {at, at + 1}
      /\ \A i \in 0 .. MaxItems - 1 : i # at /\ items[d][i] # None => items[d][i].name # item.name
  BY <1>3, <1>4, <1>6 DEF IInv, Halves
<1>8. \A e \in Slots : \A i \in 0 .. MaxItems - 1 :
         itemCount[e] <= i /\ items[e][i] # None => e = d /\ i = at
  BY <1>6 DEF IInv, NothingBehind
<1>9. /\ items' \in [Slots -> [0 .. MaxItems - 1 -> Items \cup {None}]]
      /\ itemCount' \in [Slots -> 0 .. MaxItems]
      /\ items'[d][at] = item /\ itemCount'[d] = at + 1
      /\ \A e \in Slots : e # d => itemCount'[e] = itemCount[e]
      /\ \A e \in Slots : \A i \in 0 .. MaxItems - 1 :
            ~(e = d /\ i = at) => items'[e][i] = items[e][i]
  BY <1>1, <1>3, <1>4, SizesAssumption
<1> QED BY <1>1, <1>2, <1>3, <1>4, <1>6, <1>7, <1>8, <1>9

LEMMA Append2Keeps ==
    ASSUME IInv, Append2
    PROVE  IInv'
<1>1. PICK d, at, item : d = IndexOf(It) /\ at = Head(todo).at /\ item = Head(todo).item OBVIOUS
<1>2. /\ todo # << >> /\ Head(todo).op = "second" /\ Done
      /\ UNCHANGED <<reader, online, asked, gDeviceCount, cliendId, connection, infospec, messages>>
  BY DEF Append2, Run
<1>3. /\ d \in Slots /\ item \in Items /\ item # None
      /\ items \in [Slots -> [0 .. MaxItems - 1 -> Items \cup {None}]]
      /\ itemCount \in [Slots -> 0 .. MaxItems]
  BY <1>1, Append2Facts
<1>4. at \in 0 .. MaxItems - 1 BY <1>1, Append2Facts
<1>5. /\ itemCount[d] \in {at, at + 1}
      /\ \A i \in 0 .. MaxItems - 1 : i # at /\ items[d][i] # None => items[d][i].name # item.name
  BY <1>1, Append2Facts
<1>6. \A e \in Slots : \A i \in 0 .. MaxItems - 1 :
         itemCount[e] <= i /\ items[e][i] # None => e = d /\ i = at
  BY <1>1, Append2Facts
<1>7. /\ items' \in [Slots -> [0 .. MaxItems - 1 -> Items \cup {None}]]
      /\ itemCount' \in [Slots -> 0 .. MaxItems]
      /\ items'[d][at] = item /\ itemCount'[d] = at + 1
      /\ \A e \in Slots : e # d => itemCount'[e] = itemCount[e]
      /\ \A e \in Slots : \A i \in 0 .. MaxItems - 1 :
            ~(e = d /\ i = at) => items'[e][i] = items[e][i]
  BY <1>1, Append2Facts
<1>8. NothingBehind'
  <2> SUFFICES ASSUME NEW e \in Slots, NEW i \in 0 .. MaxItems - 1, itemCount'[e] <= i, items'[e][i] # None
               PROVE  FALSE
    BY DEF NothingBehind
  <2>1. ~(e = d /\ i = at) BY <1>4, <1>7
  <2>2. items[e][i] # None BY <1>7, <2>1
  <2>3. itemCount[e] <= i
    <3>1. itemCount[e] \in Nat /\ itemCount'[e] \in Nat BY <1>3, <1>7
    <3>2. CASE e = d BY <1>4, <1>5, <1>7, <3>1, <3>2
    <3> QED BY <1>7, <3>1, <3>2
  <2> QED BY <1>6, <2>1, <2>2, <2>3
<1>9. NamesDiffer'
  <2> SUFFICES ASSUME NEW e \in Slots, NEW i \in Stored(e)', NEW j \in Stored(e)',
                      items'[e][i].name = items'[e][j].name
               PROVE  i = j
    BY DEF NamesDiffer
  <2>1. itemCount'[e] \in 0 .. MaxItems /\ itemCount[e] \in 0 .. MaxItems BY <1>3, <1>7
  <2>2. /\ i \in 0 .. MaxItems - 1 /\ i < itemCount'[e] /\ items'[e][i] # None
        /\ j \in 0 .. MaxItems - 1 /\ j < itemCount'[e] /\ items'[e][j] # None
    BY <2>1, SizesAssumption DEF Stored
  <2>3. ASSUME NEW k \in 0 .. MaxItems - 1, k < itemCount'[e], items'[e][k] # None, ~(e = d /\ k = at)
        PROVE  k \in Stored(e) /\ items'[e][k] = items[e][k]
    <3>1. items'[e][k] = items[e][k] BY <1>7, <2>3
    <3>2. ~(itemCount[e] <= k) BY <1>6, <2>3, <3>1
    <3> QED BY <2>1, <2>3, <3>1, <3>2 DEF Stored
  <2>4. ASSUME NEW k \in 0 .. MaxItems - 1, k # at, items'[d][k] # None
        PROVE  items'[d][k].name # item.name
    BY <1>3, <1>5, <1>7, <2>4
  <2>5. CASE e = d /\ i = at /\ j # at BY <1>7, <2>2, <2>4, <2>5
  <2>6. CASE e = d /\ j = at /\ i # at BY <1>7, <2>2, <2>4, <2>6
  <2>7. CASE ~(e = d /\ i = at) /\ ~(e = d /\ j = at)
    <3>1. i \in Stored(e) /\ j \in Stored(e) /\ items[e][i].name = items[e][j].name BY <2>2, <2>3, <2>7
    <3> QED BY <3>1 DEF IInv, NamesDiffer
  <2> QED BY <2>5, <2>6, <2>7
<1>10. todo' \in Seq(Instructions) /\ SecondIsFirst' /\ MessagesPlaced' /\ ~Half'
  BY <1>2, TailQueued DEF IInv, Done
<1>11. Ids' BY <1>2 DEF Ids, IInv
<1>12. FirstPlaced' BY <1>2, <1>10 DEF FirstPlaced, Placed, Table, IInv, messages, server
<1>13. TypeOK' BY <1>2, <1>7, <1>10 DEF IInv, TypeOK, messages, server, reader
<1> QED BY <1>8, <1>9, <1>10, <1>11, <1>12, <1>13 DEF IInv, Halves, HalfAt

\* The receive thread and the link leave the table and the call alone.
LEMMA OthersKeep ==
    ASSUME IInv, UNCHANGED <<entries, todo, known>>, TypeOK'
    PROVE  IInv'
<1>1. Ids' /\ NamesDiffer' /\ NothingBehind' BY TableKept
<1>2. Halves' BY DEF Halves, HalfAt, Half, SecondIsFirst, Table, entries, IInv
<1>3. FirstPlaced' BY DEF FirstPlaced, MessagesPlaced, Placed, Table, entries, IInv
<1> QED BY <1>1, <1>2, <1>3 DEF IInv

LEMMA ReaderKeeps ==
    ASSUME IInv,
           \/ \E s \in Sensors, n \in Names : FindDevice(s, n)
           \/ Search \/ Lose \/ ComeBack
           \/ \E s \in Sensors \cup {Gateway} : AskCapability(s)
    PROVE  IInv'
<1> USE DEF table, messages, server, reader, entries
<1>1. ASSUME NEW s \in Sensors, NEW n \in Names, FindDevice(s, n)
      PROVE  IInv'
  <2>1. s \in Table => IndexOf(s) \in Slots BY IndexFacts DEF IInv
  <2>2. 0 \in 0 .. MaxItems BY SizesAssumption
  <2>3. rpc' \in {"idle", "scan"}
        /\ (rpc' = "scan" => scan' \in [dev : Slots, name : Names, search : 0 .. MaxItems])
    BY <1>1, <2>1, <2>2 DEF FindDevice
  <2>4. TypeOK' BY <1>1, <2>3 DEF FindDevice, IInv, TypeOK
  <2> QED BY <1>1, <2>4, OthersKeep DEF FindDevice
<1>2. ASSUME Search
      PROVE  IInv'
  <2>1. scan \in [dev : Slots, name : Names, search : 0 .. MaxItems] /\ itemCount \in [Slots -> 0 .. MaxItems]
    BY <1>2 DEF Search, IInv, TypeOK
  <2>2. crashed' \in BOOLEAN BY <1>2 DEF Search
  <2>3. rpc' \in {"idle", "scan"}
        /\ (rpc' = "scan" => scan' \in [dev : Slots, name : Names, search : 0 .. MaxItems])
    <3>1. scan.search < itemCount[scan.dev] => scan.search + 1 \in 0 .. MaxItems
      <4>1. itemCount[scan.dev] \in 0 .. MaxItems /\ scan.search \in 0 .. MaxItems BY <2>1
      <4> QED BY <4>1, SizesAssumption
    <3> QED BY <1>2, <2>1, <3>1 DEF Search
  <2>4. TypeOK' BY <1>2, <2>2, <2>3 DEF Search, IInv, TypeOK
  <2> QED BY <1>2, <2>4, OthersKeep DEF Search
<1>3. ASSUME Lose \/ ComeBack
      PROVE  IInv'
  <2>1. TypeOK' BY <1>3 DEF Lose, ComeBack, IInv, TypeOK
  <2> QED BY <1>3, <2>1, OthersKeep DEF Lose, ComeBack
<1>4. ASSUME NEW s \in Sensors \cup {Gateway}, AskCapability(s)
      PROVE  IInv'
  <2>1. TypeOK' BY <1>4 DEF AskCapability, IInv, TypeOK
  <2> QED BY <1>4, <2>1, OthersKeep DEF AskCapability
<1> QED BY <1>1, <1>2, <1>3, <1>4
--------------------------------------------------------------------------------
LEMMA NextIInv == IInv /\ [Next]_vars => IInv'
<1> SUFFICES ASSUME IInv, [Next]_vars PROVE IInv' OBVIOUS
<1>1. ASSUME Instruction PROVE IInv'
  <2>1. CASE Create BY <2>1, CreateKeeps
  <2>2. CASE SensorInit BY <2>2, SensorInitKeeps
  <2>3. CASE NextElement BY <2>3, NextElementKeeps
  <2>4. CASE Replace BY <2>4, ReplaceKeeps
  <2>5. CASE \E first \in {"count", "item"} : Append1(first) BY <2>5, Append1Keeps
  <2>6. CASE Append2 BY <2>6, Append2Keeps
  <2>7. CASE \/ ConnectionStatus("connect", TRUE) \/ ConnectionStatus("disconnect", FALSE)
             \/ SetInfoSpec \/ AddNothing \/ GetTopology \/ PublishDeviceInfo \/ Subscribe
    BY <2>7, OneVariableKeeps
  <2>8. CASE PublishSensor("connected") \/ PublishSensor("disconnected") BY <2>8, PublishSensorKeeps
  <2>9. CASE Republish BY <2>9, RepublishKeeps
  <2> QED BY <1>1, <2>1, <2>2, <2>3, <2>4, <2>5, <2>6, <2>7, <2>8, <2>9 DEF Instruction
<1>2. CASE UNCHANGED vars
  <2>1. TypeOK' BY <1>2 DEF vars, table, messages, server, reader, IInv, TypeOK
  <2> QED BY <1>2, <2>1, OthersKeep DEF vars, table, messages, server, entries
<1> QED BY <1>1, <1>2, CallsKeep, ReaderKeeps DEF Next

THEOREM Invariant == Spec => []IInv
BY InitIInv, NextIInv, PTL DEF Spec

\* No index leaves gDevices or a device's items[], however many sensors are registered,
\* whatever their infospec arrays hold.
THEOREM TypeCorrect == Spec => []TypeOK
<1>1. IInv => TypeOK BY DEF IInv
<1> QED BY <1>1, Invariant, PTL

\* A device and an item are found in one place only.
THEOREM NoEntryTwice == Spec => []OneEntryEach
<1>1. IInv => OneEntryEach BY DEF IInv, Ids, NamesDiffer, OneEntryEach
<1> QED BY <1>1, Invariant, PTL

\* The server hears of a sensor that is not in the table only when the table is full.
THEOREM ToldIsPlaced == Spec => []ToldOnlyWhenFull
<1>1. IInv => ToldOnlyWhenFull BY DEF IInv, FirstPlaced, Placed, ToldOnlyWhenFull
<1> QED BY <1>1, Invariant, PTL
--------------------------------------------------------------------------------
(* The list of connected sensors, and the items of the newest array: what  *)
(* the call still has to do for them.                                      *)

\* The rest of call q has an instruction of S behind its k-th.
After(q, k, S) == \E l \in k + 1 .. Len(q) : q[l] \in S
Followed(q, E, S) == \A k \in 1 .. Len(q) : q[k] \in E => After(q, k, S)

Lists == {i \in Instructions : i.op = "topology"}
Disconnects == {i \in Instructions : i.op = "disconnect"}
Connects(s) == {i \in Instructions : i.op \in {"connect", "defaults"} /\ i.id = s}

\* A status that is not in the list has the making of a list behind it, unless
\* WiseSnail_RegisterSensor sets it.
Listing ==
    /\ gIf_SenHublist \subseteq Connected \/ After(todo, 0, Lists)
    /\ \A s \in Connected \ gIf_SenHublist :
          lastCall[s].name = "RegisterSensor" \/ After(todo, 0, Lists)
    /\ Followed(todo, Disconnects, Lists)
    /\ \A s \in Sensors : lastCall[s].name = "RegisterSensor" \/ Followed(todo, Connects(s), Lists)
    /\ \A d \in Slots : d >= gDeviceCount => ~connection[d]

Creates(s) == {i \in Instructions : i.op = "create" /\ i.id = s}
\* What makes s known, or adds default items to it.
Early(s) ==
    {i \in Instructions :
        /\ i.id = s
        /\ \/ i.op \in {"create", "defaults"}
           \/ i.op \in {"add", "second"} /\ i.item.spec = None}
\* What adds the item of array spec with name n.
Adds(s, spec, n) ==
    {i \in Instructions :
        /\ i.id = s
        /\ \/ i.op \in {"add", "second"} /\ i.item = Item(spec, n)
           \/ i.op = "items" /\ i.spec = spec /\ \E j \in Left(i) : spec[j] = n}
Infos(s, spec) == {i \in Instructions : i.op = "infospec" /\ i.id = s /\ i.spec = spec}
\* What adds items of another array.
Foreign(s, spec) ==
    {i \in Instructions :
        /\ i.id = s
        /\ \/ i.op \in {"items", "infospec"} /\ i.spec # spec
           \/ i.op \in {"add", "second"} /\ i.item.spec \notin {None, spec}}

There(s) == s \in Table \/ After(todo, 0, Creates(s))
Kept(s, spec) == s \in Table /\ (infospec[IndexOf(s)] = spec \/ spec \in Long)
Settled(s, spec, n) ==
    /\ s \in Table
    /\ \/ \E i \in Stored(IndexOf(s)) : items[IndexOf(s)][i] = Item(spec, n)
       \/ itemCount[IndexOf(s)] = MaxItems /\ Same(IndexOf(s), n) = {}

EachStored ==
    \A d \in Slots : \A i \in 0 .. itemCount[d] - 1 : items[d][i] = None <=> HalfAt(d, i)

Furnishing ==
    /\ lastCall \in [Sensors -> [name : {"none", "RegisterSensor", "SenHubDisconnect", "SenHubReConnected"},
                                 spec : Specs \cup {None}]]
    /\ EachStored
    /\ \A s \in Sensors : There(s) => lastCall[s].spec \in Specs
    /\ \A s \in Sensors, spec \in Specs :
          lastCall[s].spec = spec =>
             /\ ~ After(todo, 0, Foreign(s, spec))
             /\ Followed(todo, Early(s), Infos(s, spec))
             /\ There(s) => Kept(s, spec) \/ After(todo, 0, Infos(s, spec))
             /\ \A n \in Range(spec) :
                   /\ Followed(todo, Early(s), Adds(s, spec, n))
                   /\ There(s) => Settled(s, spec, n) \/ After(todo, 0, Adds(s, spec, n))

\* What the rest of the call has ahead once its first instruction is done and others
\* are put before what is left.
LEMMA Rest ==
    ASSUME TypeOK, todo # << >>, NEW new \in Seq(Instructions), todo' = new \o Tail(todo), NEW S
    PROVE  /\ After(todo, 1, S) => \A k \in 0 .. Len(new) : After(todo', k, S)
           /\ After(todo, 0, S) <=> Head(todo) \in S \/ After(todo, 1, S)
           /\ After(todo', 0, S) => After(todo, 1, S) \/ \E k \in 1 .. Len(new) : new[k] \in S
           /\ (\E k \in 1 .. Len(new) : new[k] \in S) => After(todo', 0, S)
           /\ \A k \in 1 .. Len(todo') :
                 \/ k \in 1 .. Len(new) /\ todo'[k] = new[k]
                 \/ \E j \in 2 .. Len(todo) : todo'[k] = todo[j] /\ (After(todo, j, S) => After(todo', k, S))
<1>1. /\ todo' \in Seq(Instructions) /\ Len(todo') = Len(new) + Len(todo) - 1
      /\ \A k \in 1 .. Len(new) : todo'[k] = new[k]
      /\ \A k \in 2 .. Len(todo) : todo'[Len(new) + k - 1] = todo[k]
      /\ \A k \in 1 .. Len(todo') : k \in 1 .. Len(new) \/ \E l \in 2 .. Len(todo) : k = Len(new) + l - 1
  BY Before
<1>2. Len(new) \in Nat /\ Len(todo) \in Nat \ {0} /\ Head(todo) = todo[1]
  BY LenProperties, TodoFacts
<1> DEFINE n == Len(new)
           t == Len(todo)
<1> HIDE DEF n, t
<1>3. ASSUME NEW j \in 1 .. t, After(todo, j, S)
      PROVE  \A k \in 0 .. n + j - 1 : After(todo', k, S)
  <2>1. PICK l \in j + 1 .. t : todo[l] \in S BY <1>3 DEF After, t
  <2>2. l \in 2 .. t BY <1>2, <2>1 DEF t
  <2>3. todo'[n + l - 1] \in S BY <1>1, <2>1, <2>2 DEF n, t
  <2>4. \A k \in 0 .. n + j - 1 : n + l - 1 \in k + 1 .. Len(todo') BY <1>1, <1>2, <2>1 DEF n, t
  <2> QED BY <2>3, <2>4 DEF After
<1>4. After(todo, 1, S) => \A k \in 0 .. Len(new) : After(todo', k, S)
  <2>1. 1 \in 1 .. t /\ n + 1 - 1 = n BY <1>2 DEF n, t
  <2> QED BY <1>3, <2>1 DEF n
<1>5. After(todo, 0, S) <=> Head(todo) \in S \/ After(todo, 1, S)
  <2>1. 0 + 1 .. t = {1} \cup (1 + 1 .. t) BY <1>2 DEF t
  <2> QED BY <1>2, <2>1 DEF After, t
<1>6. ASSUME After(todo', 0, S), ~ \E k \in 1 .. Len(new) : new[k] \in S
      PROVE  After(todo, 1, S)
  <2>1. PICK k \in 1 .. Len(todo') : todo'[k] \in S BY <1>6 DEF After
  <2>2. k \notin 1 .. n BY <1>1, <1>6, <2>1 DEF n
  <2>3. PICK l \in 2 .. t : k = n + l - 1 BY <1>1, <2>1, <2>2 DEF n, t
  <2>4. todo[l] \in S BY <1>1, <2>1, <2>3 DEF n, t
  <2> QED BY <2>4 DEF After, t
<1>7. ASSUME NEW k \in 1 .. Len(new), new[k] \in S
      PROVE  After(todo', 0, S)
  <2>1. todo'[k] \in S /\ k \in 0 + 1 .. Len(todo') BY <1>1, <1>2, <1>7
  <2> QED BY <2>1 DEF After
<1>8. ASSUME NEW k \in 1 .. Len(todo'), k \notin 1 .. Len(new)
      PROVE  \E j \in 2 .. Len(todo) : todo'[k] = todo[j] /\ (After(todo, j, S) => After(todo', k, S))
  <2>1. PICK j \in 2 .. t : k = n + j - 1 BY <1>1, <1>8 DEF n, t
  <2>2. todo'[k] = todo[j] BY <1>1, <2>1 DEF n, t
  <2>3. j \in 1 .. t /\ k \in 0 .. n + j - 1 BY <1>2, <2>1 DEF n, t
  <2>4. After(todo, j, S) => After(todo', k, S) BY <1>3, <2>3
  <2> QED BY <2>1, <2>2, <2>4 DEF t
<1> QED BY <1>1, <1>4, <1>5, <1>6, <1>7, <1>8

LEMMA FollowedOn ==
    ASSUME TypeOK, todo # << >>, NEW new \in Seq(Instructions), todo' = new \o Tail(todo),
           NEW E, NEW S, Followed(todo, E, S),
           \A k \in 1 .. Len(new) : new[k] \in E => Head(todo) \in E
    PROVE  Followed(todo', E, S)
<1>0. After(todo, 1, S) => \A l \in 0 .. Len(new) : After(todo', l, S) BY Rest
<1> SUFFICES ASSUME NEW k \in 1 .. Len(todo'), todo'[k] \in E
             PROVE  After(todo', k, S)
  BY DEF Followed
<1>1. Head(todo) = todo[1] /\ Len(todo) \in Nat \ {0} /\ Len(new) \in Nat BY LenProperties, TodoFacts
<1>2. CASE k \in 1 .. Len(new) /\ todo'[k] = new[k]
  <2>1. Head(todo) \in E BY <1>2
  <2>2. After(todo, 1, S) BY <1>1, <2>1 DEF Followed
  <2>3. k \in 0 .. Len(new) BY <1>1, <1>2
  <2> QED BY <1>0, <2>2, <2>3
<1>3. ASSUME NEW j \in 2 .. Len(todo), todo'[k] = todo[j], After(todo, j, S) => After(todo', k, S)
      PROVE  After(todo', k, S)
  <2>1. j \in 1 .. Len(todo) BY <1>1
  <2> QED BY <1>3, <2>1 DEF Followed
<1> QED BY <1>2, <1>3, Rest

\* Nothing is put before what is left.
LEMMA NothingNew ==
    ASSUME TypeOK, todo # << >>, Done
    PROVE  << >> \in Seq(Instructions) /\ todo' = << >> \o Tail(todo)
<1>1. Tail(todo) \in Seq(Instructions) BY TodoFacts
<1> QED BY <1>1, ConcatEmptySeq, EmptySeq DEF Done

--------------------------------------------------------------------------------
(* What each instruction of a call puts before the rest.                   *)

LEMMA DefaultsNew ==
    ASSUME IInv, SensorInit
    PROVE  \E new \in Seq(Instructions) :
              /\ todo' = new \o Tail(todo)
              /\ \A k \in 1 .. Len(new) : new[k].op = "add" /\ new[k].id = It /\ new[k].item.spec = None
<1>1. todo # << >> /\ Head(todo).op = "defaults" /\ It \in Sensors
  BY HeadTyped DEF SensorInit, Run, IInv
<1>2. CASE Done
  <2>1. << >> \in Seq(Instructions) /\ todo' = << >> \o Tail(todo) BY <1>1, <1>2, NothingNew DEF IInv
  <2>2. \A k \in 1 .. Len(<< >>) : FALSE BY EmptySeq
  <2> QED BY <2>1, <2>2, Zenon
<1>3. CASE todo' = Add(It, DefaultItems) \o Tail(todo)
  <2> DEFINE n == Len(Defaults)
             add(k) == [op |-> "add", id |-> It, item |-> Item(None, Defaults[k])]
  <2>1. n \in Nat /\ DOMAIN Defaults = 1 .. n /\ \A k \in 1 .. n : Defaults[k] \in Names
    BY ArraysAssumption, LenProperties, ElementOfSeq
  <2> HIDE DEF n
  <2>2. \A k \in 1 .. n : Item(None, Defaults[k]) \in Items /\ Item(None, Defaults[k]).spec = None
    BY <2>1 DEF Item, Items
  <2>3. Add(It, DefaultItems) = [k \in 1 .. n |-> add(k)] BY <2>1 DEF Add, DefaultItems
  <2>4. \A k \in 1 .. n : add(k) \in Instructions BY <1>1, <2>2, AddTyped
  <2>5. Add(It, DefaultItems) \in [1 .. n -> Instructions] BY <2>3, <2>4
  <2>6. Add(It, DefaultItems) \in Seq(Instructions) /\ Len(Add(It, DefaultItems)) = n
    BY <2>1, <2>5, SeqDef, LenProperties
  <2>7. \A k \in 1 .. n : Add(It, DefaultItems)[k] = add(k) BY <2>3
  <2>8. \A k \in 1 .. n : add(k).op = "add" /\ add(k).id = It /\ add(k).item.spec = None BY <2>2
  <2> HIDE DEF add
  <2>9. \A k \in 1 .. Len(Add(It, DefaultItems)) :
           LET i == Add(It, DefaultItems)[k] IN i.op = "add" /\ i.id = It /\ i.item.spec = None
    BY <2>6, <2>7, <2>8
  <2> QED BY <1>3, <2>6, <2>9, Zenon
<1> QED BY <1>2, <1>3 DEF SensorInit, Done

LEMMA ElementNew ==
    ASSUME IInv, NextElement
    PROVE  \/ Left(Head(todo)) = {} /\ todo' = << >> \o Tail(todo)
           \/ \E i \in Left(Head(todo)), new \in Seq(Instructions) :
                 /\ \A j \in Left(Head(todo)) : i <= j
                 /\ todo' = new \o Tail(todo) /\ Len(new) = 2
                 /\ new[1] = [op |-> "add", id |-> It, item |-> Item(Head(todo).spec, Head(todo).spec[i])]
                 /\ new[2] = [op |-> "items", id |-> It, spec |-> Head(todo).spec,
                              slash |-> Head(todo).slash, from |-> i + 1]
<1>1. /\ todo # << >> /\ It \in Sensors
      /\ Head(todo).spec \in Specs /\ Head(todo).slash \in BOOLEAN /\ Head(todo).from \in Nat \ {0}
  BY HeadTyped DEF NextElement, Run, IInv
<1>2. CASE Left(Head(todo)) = {} /\ Done BY <1>1, <1>2, NothingNew DEF IInv
<1>3. ASSUME NEW i \in Left(Head(todo)), \A j \in Left(Head(todo)) : i <= j,
             todo' = Add(It, << Item(Head(todo).spec, Head(todo).spec[i]) >>)
                       \o AddFrom(It, Head(todo).spec, Head(todo).slash, i + 1) \o Tail(todo)
      PROVE  \E new \in Seq(Instructions) :
                 /\ todo' = new \o Tail(todo) /\ Len(new) = 2
                 /\ new[1] = [op |-> "add", id |-> It, item |-> Item(Head(todo).spec, Head(todo).spec[i])]
                 /\ new[2] = [op |-> "items", id |-> It, spec |-> Head(todo).spec,
                              slash |-> Head(todo).slash, from |-> i + 1]
  <2> DEFINE spec == Head(todo).spec
             item == Item(spec, spec[i])
             add == [op |-> "add", id |-> It, item |-> item]
             loop == [op |-> "items", id |-> It, spec |-> spec, slash |-> Head(todo).slash, from |-> i + 1]
             new == << add >> \o << loop >>
  <2>1. spec \in Seq(Names) /\ Len(spec) \in Nat BY <1>1, ArraysAssumption, LenProperties
  <2>2. i \in 1 .. Len(spec) BY <1>1, <1>3, <2>1 DEF Left
  <2>3. item \in Items
    <3>1. spec[i] \in Names BY <2>1, <2>2, ElementOfSeq
    <3> QED BY <1>1, <3>1 DEF Item, Items
  <2>4. add \in Instructions BY <1>1, <2>3, AddTyped
  <2>5. loop \in Instructions BY <1>1, <2>2 DEF Instructions
  <2>6. todo' = new \o Tail(todo) BY <1>3 DEF Add, AddFrom
  <2>7. new \in Seq(Instructions) /\ Len(new) = 2 /\ new[1] = add /\ new[2] = loop BY <2>4, <2>5, Pair
  <2> HIDE DEF new
  <2> QED BY <2>6, <2>7
<1> QED BY <1>2, <1>3 DEF NextElement

LEMMA RoundNew ==
    ASSUME IInv, Republish
    PROVE  \E new \in Seq(Instructions) :
              /\ todo' = new \o Tail(todo)
              /\ \A k \in 1 .. Len(new) : new[k].op \in {"connected", "subscribe", "republish"}
<1> DEFINE d == Head(todo).dev
           loop == [op |-> "republish", id |-> Gateway, dev |-> d + 1]
           Round == {i \in Instructions : i.op \in {"connected", "subscribe", "republish"}}
<1>1. todo # << >> /\ d \in Nat \ {0}
  BY HeadTyped DEF Republish, Run, IInv
<1>2. loop \in Round BY <1>1 DEF Instructions
<1>3. gDeviceCount \in Nat BY SizesAssumption DEF IInv, TypeOK
<1>4. \E new \in Seq(Round) : todo' = new \o Tail(todo)
  <2>1. CASE Done
    <3>1. << >> \in Seq(Round) BY EmptySeq
    <3> QED BY <1>1, <2>1, <3>1, NothingNew, Zenon DEF IInv
  <2>2. CASE d < gDeviceCount /\ todo' = PublishSensorConnect(cliendId[d]) \o RepublishFrom(d + 1) \o Tail(todo)
    <3> DEFINE told == PublishSensorConnect(cliendId[d])
               next == RepublishFrom(d + 1)
    <3>1. cliendId[d] \in Sensors BY <1>1, <1>3, <2>2 DEF IInv, Ids
    <3>2. told \in Seq(Round)
      <4>1. [op |-> "connected", id |-> cliendId[d]] \in Round /\ [op |-> "subscribe", id |-> cliendId[d]] \in Round
        BY <3>1 DEF Instructions
      <4> HIDE DEF Round
      <4> QED BY <4>1, Pair DEF PublishSensorConnect, Do
    <3>3. next \in Seq(Round)
      <4> HIDE DEF Round
      <4> QED BY <1>2 DEF RepublishFrom
    <3> HIDE DEF told, next, Round
    <3>4. told \o next \in Seq(Round) BY <3>2, <3>3, ConcatProperties
    <3>5. todo' = (told \o next) \o Tail(todo) BY <2>2 DEF told, next
    <3> QED BY <3>4, <3>5
  <2>3. CASE todo' = << >> \o RepublishFrom(d + 1) \o Tail(todo)
    <3>1. << >> \o << loop >> = << loop >> BY <1>2, ConcatEmptySeq
    <3>2. << loop >> \in Seq(Round)
      <4> HIDE DEF Round, loop
      <4> QED BY <1>2
    <3>3. todo' = << loop >> \o Tail(todo) BY <2>3, <3>1 DEF RepublishFrom
    <3> HIDE DEF Round, loop
    <3> QED BY <3>2, <3>3
  <2>4. CASE d >= gDeviceCount BY <2>1, <2>4 DEF Republish, Done
  <2>5. CASE ~(d >= gDeviceCount) /\ connection[d]
    <3>1. d < gDeviceCount BY <1>1, <1>3, <2>5
    <3> QED BY <2>2, <2>5, <3>1 DEF Republish
  <2>6. CASE ~(d >= gDeviceCount) /\ ~connection[d] BY <2>3, <2>6 DEF Republish
  <2> QED BY <2>4, <2>5, <2>6
<1>5. PICK new \in Seq(Round) : todo' = new \o Tail(todo) BY <1>4
<1>6. new \in Seq(Instructions)
  <2>1. Round \subseteq Instructions OBVIOUS
  <2> HIDE DEF Round
  <2> QED BY <2>1, SeqMonotonic
<1>7. \A k \in 1 .. Len(new) : new[k] \in Round
  <2> HIDE DEF Round
  <2> QED BY ElementOfSeq
<1> QED BY <1>5, <1>6, <1>7

LEMMA SecondNew ==
    ASSUME IInv, NEW first \in {"count", "item"}, Append1(first)
    PROVE  LET second == [op |-> "second", id |-> It, item |-> Head(todo).item, at |-> itemCount[IndexOf(It)]] IN
           << second >> \in Seq(Instructions) /\ todo' = << second >> \o Tail(todo)
<1>1. todo # << >> /\ Head(todo).op = "add" /\ It \in Table /\ itemCount[IndexOf(It)] < MaxItems
  BY DEF Append1, Run, Room
<1>2. It \in Sensors /\ Head(todo).item \in Items /\ itemCount[IndexOf(It)] \in 0 .. MaxItems
  BY <1>1, HasFacts
<1>3. itemCount[IndexOf(It)] \in 0 .. MaxItems - 1 BY <1>1, <1>2, SizesAssumption
<1> QED BY <1>2, <1>3 DEF Append1, Instructions
--------------------------------------------------------------------------------
(* The list of connected sensors.                                          *)

ConnectsIn(op) == op \in {"topology", "disconnect", "connect", "defaults"}

\* What is promised of the rest of the call stays promised.
LEMMA ListingRest ==
    ASSUME IInv, Listing, todo # << >>, lastCall' = lastCall,
           NEW new \in Seq(Instructions), todo' = new \o Tail(todo),
           \A k \in 1 .. Len(new) : ~ ConnectsIn(new[k].op)
    PROVE  /\ Followed(todo', Disconnects, Lists)
           /\ \A s \in Sensors : lastCall[s].name = "RegisterSensor" \/ Followed(todo', Connects(s), Lists)
           /\ Head(todo).op # "topology" /\ After(todo, 0, Lists) => After(todo', 0, Lists)
           /\ Head(todo) \in Disconnects => After(todo', 0, Lists)
           /\ \A s \in Sensors : Head(todo) \in Connects(s) =>
                 lastCall[s].name = "RegisterSensor" \/ After(todo', 0, Lists)
<1>1. TypeOK BY DEF IInv
<1>2. Followed(todo', Disconnects, Lists)
  <2>1. \A k \in 1 .. Len(new) : new[k] \notin Disconnects BY DEF Disconnects, ConnectsIn
  <2>2. Followed(todo, Disconnects, Lists) BY DEF Listing
  <2> QED BY <1>1, <2>1, <2>2, FollowedOn
<1>3. ASSUME NEW s \in Sensors, lastCall[s].name # "RegisterSensor"
      PROVE  Followed(todo', Connects(s), Lists)
  <2>1. \A k \in 1 .. Len(new) : new[k] \notin Connects(s) BY DEF Connects, ConnectsIn
  <2>2. Followed(todo, Connects(s), Lists) BY <1>3 DEF Listing
  <2> QED BY <1>1, <2>1, <2>2, FollowedOn
<1>4. After(todo, 1, Lists) => After(todo', 0, Lists)
  <2>1. 0 \in 0 .. Len(new) BY LenProperties
  <2>2. After(todo, 1, Lists) => \A k \in 0 .. Len(new) : After(todo', k, Lists) BY <1>1, Rest
  <2> QED BY <2>1, <2>2
<1>5. Head(todo).op # "topology" /\ After(todo, 0, Lists) => After(todo, 1, Lists)
  <2>1. After(todo, 0, Lists) => Head(todo) \in Lists \/ After(todo, 1, Lists)
    <3>1. 0 + 1 .. Len(todo) = {1} \cup (1 + 1 .. Len(todo)) /\ Head(todo) = todo[1]
      BY <1>1, TodoFacts
    <3> QED BY <3>1 DEF After
  <2> QED BY <2>1 DEF Lists
<1>6. Head(todo) = todo[1] /\ 1 \in 1 .. Len(todo) BY <1>1, TodoFacts
<1>7. Head(todo) \in Disconnects => After(todo, 1, Lists) BY <1>6 DEF Listing, Followed
<1>8. ASSUME NEW s \in Sensors, Head(todo) \in Connects(s)
      PROVE  lastCall[s].name = "RegisterSensor" \/ After(todo, 1, Lists)
  <2>1. lastCall[s].name = "RegisterSensor" \/ Followed(todo, Connects(s), Lists) BY DEF Listing
  <2> QED BY <1>6, <1>8, <2>1 DEF Followed
<1> QED BY <1>2, <1>3, <1>4, <1>5, <1>7, <1>8

\* The status of one sensor changes at most.
LEMMA StatusOf ==
    ASSUME IInv, NEW s \in Table, NEW status \in BOOLEAN,
           connection' = [connection EXCEPT ![IndexOf(s)] = status],
           gDeviceCount' = gDeviceCount, cliendId' = cliendId
    PROVE  /\ status => Connected \subseteq Connected' /\ Connected' \subseteq Connected \cup {s}
           /\ ~status => Connected' \subseteq Connected
           /\ \A d \in Slots : d >= gDeviceCount => connection'[d] = connection[d]
<1>1. IndexOf(s) \in 0 .. gDeviceCount - 1 /\ IndexOf(s) \in Slots /\ cliendId[IndexOf(s)] = s
  BY IndexFacts DEF IInv
<1>2. connection \in [Slots -> BOOLEAN] /\ gDeviceCount \in Nat BY SizesAssumption DEF IInv, TypeOK
<1>3. \A d \in Slots : connection'[d] = IF d = IndexOf(s) THEN status ELSE connection[d] BY <1>1, <1>2
<1>4. 1 .. gDeviceCount - 1 \subseteq Slots BY SizesAssumption DEF IInv, TypeOK, Slots
<1>5. Connected' = {cliendId[d] : d \in {e \in 1 .. gDeviceCount - 1 : connection'[e]}} BY DEF Connected
<1>6. \A d \in Slots : d >= gDeviceCount => d # IndexOf(s) BY <1>1, <1>2 DEF Slots
<1> HIDE DEF IndexOf
<1>7. ~status => Connected' \subseteq Connected BY <1>3, <1>4, <1>5 DEF Connected
<1>8. status => Connected \subseteq Connected' BY <1>3, <1>4, <1>5 DEF Connected
<1>9. Connected' \subseteq Connected \cup {s} BY <1>1, <1>3, <1>4, <1>5 DEF Connected
<1> QED BY <1>3, <1>6, <1>7, <1>8, <1>9

LEMMA ConnectedIn == ASSUME IInv PROVE Connected \subseteq Sensors
BY DEF Connected, IInv, Ids

\* An instruction that changes neither the list nor a status.
LEMMA ListingQuiet ==
    ASSUME IInv, Listing, todo # << >>, lastCall' = lastCall, Head(todo).op # "topology",
           NEW new \in Seq(Instructions), todo' = new \o Tail(todo),
           \A k \in 1 .. Len(new) : ~ ConnectsIn(new[k].op),
           gIf_SenHublist' = gIf_SenHublist, Connected' = Connected,
           \A d \in Slots : d >= gDeviceCount' => ~connection'[d]
    PROVE  Listing'
BY ListingRest DEF Listing

LEMMA ListingConnect ==
    ASSUME IInv, Listing, todo # << >>, lastCall' = lastCall, Head(todo).op \in {"connect", "defaults"},
           NEW new \in Seq(Instructions), todo' = new \o Tail(todo),
           \A k \in 1 .. Len(new) : ~ ConnectsIn(new[k].op),
           UNCHANGED <<gIf_SenHublist, gDeviceCount, cliendId>>, It \in Table,
           connection' = [connection EXCEPT ![IndexOf(It)] = TRUE]
    PROVE  Listing'
<1>1. It \in Sensors /\ Head(todo) \in Connects(It)
  <2>1. Head(todo) \in Instructions BY TodoFacts DEF IInv
  <2> QED BY <2>1, HeadTyped DEF IInv, Connects, It
<1>2. /\ Connected \subseteq Connected' /\ Connected' \subseteq Connected \cup {It}
      /\ \A d \in Slots : d >= gDeviceCount => connection'[d] = connection[d]
  BY StatusOf
<1>3. /\ Followed(todo', Disconnects, Lists)
      /\ \A s \in Sensors : lastCall[s].name = "RegisterSensor" \/ Followed(todo', Connects(s), Lists)
      /\ After(todo, 0, Lists) => After(todo', 0, Lists)
      /\ lastCall[It].name = "RegisterSensor" \/ After(todo', 0, Lists)
  BY <1>1, ListingRest
<1> QED BY <1>2, <1>3 DEF Listing

LEMMA ListingStep ==
    ASSUME IInv, Listing, Instruction
    PROVE  Listing'
<1>1. todo # << >> /\ lastCall' = lastCall BY DEF Instruction, Create, SensorInit, NextElement,
         Replace, Append1, Append2, AddNothing, ConnectionStatus, GetTopology, PublishDeviceInfo,
         PublishSensor, Subscribe, Republish, SetInfoSpec, Run
<1>2. ASSUME Done
      PROVE  \E new \in Seq(Instructions) : todo' = new \o Tail(todo) /\ \A k \in 1 .. Len(new) : FALSE
  <2>1. << >> \in Seq(Instructions) /\ todo' = << >> \o Tail(todo) BY <1>1, <1>2, NothingNew DEF IInv
  <2>2. \A k \in 1 .. Len(<< >>) : FALSE BY EmptySeq
  <2> QED BY <2>1, <2>2, Zenon
<1>3. ASSUME UNCHANGED <<gIf_SenHublist, gDeviceCount, cliendId, connection>>, Head(todo).op # "topology",
             \E new \in Seq(Instructions) :
                todo' = new \o Tail(todo) /\ \A k \in 1 .. Len(new) : ~ ConnectsIn(new[k].op)
      PROVE  Listing'
  <2>1. Connected' = Connected BY <1>3 DEF Connected
  <2>2. \A d \in Slots : d >= gDeviceCount' => ~connection'[d] BY <1>3 DEF Listing
  <2>3. gIf_SenHublist' = gIf_SenHublist BY <1>3
  <2>4. PICK new \in Seq(Instructions) :
                todo' = new \o Tail(todo) /\ \A k \in 1 .. Len(new) : ~ ConnectsIn(new[k].op)
    BY <1>3
  <2> QED BY <1>1, <1>3, <2>1, <2>2, <2>3, <2>4, ListingQuiet
<1> USE DEF Run, table, messages
<1>4. CASE Create
  <2>1. /\ Head(todo).op = "create" /\ Done
        /\ UNCHANGED <<gIf_SenHublist, connection>>
        /\ \/ UNCHANGED <<cliendId, gDeviceCount>>
           \/ /\ cliendId' = [cliendId EXCEPT ![gDeviceCount] = It]
              /\ gDeviceCount' = gDeviceCount + 1 /\ gDeviceCount < MaxDevices
    <3>1. gDeviceCount \in Nat /\ MaxDevices \in Nat BY SizesAssumption DEF IInv, TypeOK
    <3> QED BY <1>4, <3>1 DEF Create
  <2>2. CASE UNCHANGED <<cliendId, gDeviceCount>>
    <3>1. \E new \in Seq(Instructions) :
             todo' = new \o Tail(todo) /\ \A k \in 1 .. Len(new) : ~ ConnectsIn(new[k].op)
      BY <1>2, <2>1
    <3> QED BY <1>3, <2>1, <2>2, <3>1
  <2>3. CASE /\ cliendId' = [cliendId EXCEPT ![gDeviceCount] = It]
             /\ gDeviceCount' = gDeviceCount + 1 /\ gDeviceCount < MaxDevices
    <3>1. gDeviceCount \in Slots /\ gDeviceCount \in Nat \ {0} /\ 1 .. gDeviceCount - 1 \subseteq Slots
          /\ cliendId \in [Slots -> Sensors \cup {Gateway, None}]
      BY <2>3, SizesAssumption DEF IInv, TypeOK, Slots
    <3>2. ~connection[gDeviceCount] BY <3>1 DEF Listing
    <3>3. {e \in 1 .. gDeviceCount' - 1 : connection'[e]} = {e \in 1 .. gDeviceCount - 1 : connection[e]}
      BY <2>1, <2>3, <3>1, <3>2
    <3>4. \A e \in 1 .. gDeviceCount - 1 : cliendId'[e] = cliendId[e] BY <2>3, <3>1
    <3>5. Connected' = Connected BY <3>3, <3>4 DEF Connected
    <3>6. \A d \in Slots : d >= gDeviceCount' => ~connection'[d]
      <4>1. \A d \in Slots : d >= gDeviceCount' => d >= gDeviceCount BY <2>3, <3>1 DEF Slots
      <4> QED BY <2>1, <4>1 DEF Listing
    <3>7. PICK new \in Seq(Instructions) : todo' = new \o Tail(todo) /\ \A k \in 1 .. Len(new) : FALSE
      BY <1>2, <2>1
    <3> QED BY <1>1, <2>1, <3>5, <3>6, <3>7, ListingQuiet
  <2> QED BY <2>1, <2>2, <2>3
<1>5. CASE SensorInit
  <2>1. PICK new \in Seq(Instructions) :
              todo' = new \o Tail(todo) /\ \A k \in 1 .. Len(new) : new[k].op = "add"
    BY <1>5, DefaultsNew
  <2>2. \A k \in 1 .. Len(new) : ~ ConnectsIn(new[k].op) BY <2>1 DEF ConnectsIn
  <2>3. Head(todo).op = "defaults" /\ UNCHANGED <<gIf_SenHublist, gDeviceCount, cliendId>>
    BY <1>5 DEF SensorInit
  <2>4. CASE It \in Table /\ connection' = [connection EXCEPT ![IndexOf(It)] = TRUE]
    BY <1>1, <2>1, <2>2, <2>3, <2>4, ListingConnect
  <2>5. CASE UNCHANGED connection BY <1>3, <2>1, <2>2, <2>3, <2>5
  <2> QED BY <1>5, <2>4, <2>5 DEF SensorInit
<1>6. CASE NextElement
  <2>1. Head(todo).op = "items" /\ UNCHANGED <<gIf_SenHublist, gDeviceCount, cliendId, connection>>
    BY <1>6 DEF NextElement
  <2>2. CASE todo' = << >> \o Tail(todo)
    <3>1. Done
      <4>1. Tail(todo) \in Seq(Instructions) BY <1>1, TodoFacts DEF IInv
      <4> QED BY <2>2, <4>1, ConcatEmptySeq DEF Done
    <3> QED BY <1>2, <1>3, <2>1, <3>1
  <2>3. ASSUME NEW i \in Left(Head(todo)), NEW new \in Seq(Instructions),
               todo' = new \o Tail(todo), Len(new) = 2,
               new[1] = [op |-> "add", id |-> It, item |-> Item(Head(todo).spec, Head(todo).spec[i])],
               new[2] = [op |-> "items", id |-> It, spec |-> Head(todo).spec,
                         slash |-> Head(todo).slash, from |-> i + 1]
        PROVE  Listing'
    <3>1. new[1].op = "add" /\ new[2].op = "items" BY <2>3
    <3>2. \A k \in 1 .. Len(new) : ~ ConnectsIn(new[k].op)
      <4>1. 1 .. Len(new) = {1, 2} BY <2>3
      <4> QED BY <3>1, <4>1 DEF ConnectsIn
    <3> QED BY <1>3, <2>1, <2>3, <3>2
  <2> QED BY <1>6, <2>2, <2>3, ElementNew
<1>7. ASSUME NEW first \in {"count", "item"}, Append1(first)
      PROVE  Listing'
  <2> DEFINE second == [op |-> "second", id |-> It, item |-> Head(todo).item, at |-> itemCount[IndexOf(It)]]
  <2>1. << second >> \in Seq(Instructions) /\ todo' = << second >> \o Tail(todo) BY <1>7, SecondNew
  <2>2. second.op = "second" OBVIOUS
  <2> HIDE DEF second
  <2>3. \A k \in 1 .. Len(<< second >>) : ~ ConnectsIn(<< second >>[k].op) BY <2>2 DEF ConnectsIn
  <2>4. Head(todo).op = "add" /\ UNCHANGED <<gIf_SenHublist, gDeviceCount, cliendId, connection>>
    BY <1>7 DEF Append1
  <2> QED BY <1>3, <2>1, <2>3, <2>4
<1>8. CASE Replace \/ Append2 \/ AddNothing \/ PublishDeviceInfo \/ Subscribe \/ SetInfoSpec
           \/ PublishSensor("connected") \/ PublishSensor("disconnected")
  <2>1. Done /\ Head(todo).op # "topology" /\ UNCHANGED <<gIf_SenHublist, gDeviceCount, cliendId, connection>>
    BY <1>8 DEF Replace, Append2, AddNothing, PublishDeviceInfo, Subscribe, SetInfoSpec, PublishSensor
  <2> QED BY <1>2, <1>3, <2>1
<1>9. CASE Republish
  <2>1. Head(todo).op # "topology" /\ UNCHANGED <<gIf_SenHublist, gDeviceCount, cliendId, connection>>
    BY <1>9 DEF Republish
  <2>2. PICK new \in Seq(Instructions) :
              todo' = new \o Tail(todo)
              /\ \A k \in 1 .. Len(new) : new[k].op \in {"connected", "subscribe", "republish"}
    BY <1>9, RoundNew
  <2>3. \A k \in 1 .. Len(new) : ~ ConnectsIn(new[k].op) BY <2>2 DEF ConnectsIn
  <2> QED BY <1>3, <2>1, <2>2, <2>3
<1>10. CASE ConnectionStatus("connect", TRUE)
  <2>1. Done /\ Head(todo).op = "connect" /\ UNCHANGED <<gIf_SenHublist, gDeviceCount, cliendId>>
    BY <1>10 DEF ConnectionStatus
  <2>2. PICK new \in Seq(Instructions) : todo' = new \o Tail(todo) /\ \A k \in 1 .. Len(new) : FALSE
    BY <1>2, <2>1
  <2>3. CASE It \in Table /\ connection' = [connection EXCEPT ![IndexOf(It)] = TRUE]
    BY <1>1, <2>1, <2>2, <2>3, ListingConnect
  <2>4. CASE UNCHANGED connection BY <1>3, <2>1, <2>2, <2>4
  <2> QED BY <1>10, <2>3, <2>4 DEF ConnectionStatus
<1>11. CASE ConnectionStatus("disconnect", FALSE)
  <2>1. Done /\ Head(todo).op = "disconnect" /\ UNCHANGED <<gIf_SenHublist, gDeviceCount, cliendId>>
    BY <1>11 DEF ConnectionStatus
  <2>2. PICK new \in Seq(Instructions) : todo' = new \o Tail(todo) /\ \A k \in 1 .. Len(new) : FALSE
    BY <1>2, <2>1
  <2>3. CASE It \in Table /\ connection' = [connection EXCEPT ![IndexOf(It)] = FALSE]
    <3>1. Head(todo) \in Disconnects
      <4>1. Head(todo) \in Instructions BY <1>1, TodoFacts DEF IInv
      <4> QED BY <2>1, <4>1 DEF Disconnects
    <3>2. \A d \in Slots : d >= gDeviceCount => connection'[d] = connection[d]
      BY <2>1, <2>3, StatusOf
    <3>3. /\ Followed(todo', Disconnects, Lists)
          /\ \A s \in Sensors : lastCall[s].name = "RegisterSensor" \/ Followed(todo', Connects(s), Lists)
          /\ After(todo', 0, Lists)
      BY <1>1, <2>2, <3>1, ListingRest
    <3> QED BY <1>1, <2>1, <3>2, <3>3 DEF Listing
  <2>4. CASE UNCHANGED connection BY <1>3, <2>1, <2>2, <2>4
  <2> QED BY <1>11, <2>3, <2>4 DEF ConnectionStatus
<1>12. CASE GetTopology
  <2>1. Done /\ gIf_SenHublist' = Connected /\ UNCHANGED <<gDeviceCount, cliendId, connection>>
    BY <1>12 DEF GetTopology
  <2>2. PICK new \in Seq(Instructions) : todo' = new \o Tail(todo) /\ \A k \in 1 .. Len(new) : FALSE
    BY <1>2, <2>1
  <2>3. /\ Followed(todo', Disconnects, Lists)
        /\ \A s \in Sensors : lastCall[s].name = "RegisterSensor" \/ Followed(todo', Connects(s), Lists)
    BY <1>1, <2>2, ListingRest
  <2>4. Connected' = Connected BY <2>1 DEF Connected
  <2> QED BY <1>1, <2>1, <2>3, <2>4 DEF Listing
<1> QED BY <1>4, <1>5, <1>6, <1>7, <1>8, <1>9, <1>10, <1>11, <1>12 DEF Instruction
--------------------------------------------------------------------------------
(* The calls.                                                              *)

\* WiseSnail_RegisterSensor, instruction by instruction.
LEMMA RegisterIs ==
    ASSUME NEW s \in Sensors, NEW spec \in Specs
    PROVE  LET q == RegisterScript(s, spec) IN
           /\ Len(q) = 10
           /\ q[1] = [op |-> "create", id |-> s] /\ q[2] = [op |-> "defaults", id |-> s]
           /\ q[3] = [op |-> "topology", id |-> Gateway] /\ q[4] = [op |-> "deviceinfo", id |-> Gateway]
           /\ q[5] = [op |-> "items", id |-> s, spec |-> spec, slash |-> TRUE, from |-> 1]
           /\ q[6] = [op |-> "connect", id |-> s]
           /\ q[7] = [op |-> "connected", id |-> s] /\ q[8] = [op |-> "subscribe", id |-> s]
           /\ q[9] = [op |-> "items", id |-> s, spec |-> spec, slash |-> FALSE, from |-> 1]
           /\ q[10] = [op |-> "infospec", id |-> s, spec |-> spec]
<1> DEFINE a == [op |-> "create", id |-> s]
           b == [op |-> "defaults", id |-> s]
           c == [op |-> "topology", id |-> Gateway]
           d == [op |-> "deviceinfo", id |-> Gateway]
           e == [op |-> "items", id |-> s, spec |-> spec, slash |-> TRUE, from |-> 1]
           f == [op |-> "connect", id |-> s]
           g == [op |-> "connected", id |-> s]
           h == [op |-> "subscribe", id |-> s]
           i == [op |-> "items", id |-> s, spec |-> spec, slash |-> FALSE, from |-> 1]
           j == [op |-> "infospec", id |-> s, spec |-> spec]
           S == {a, b, c, d, e, f, g, h, i, j}
           ab == << a >> \o << b >>
           cd == << c >> \o << d >>
           gh == << g >> \o << h >>
           p4 == ab \o cd
           p5 == p4 \o << e >>
           p6 == p5 \o << f >>
           p8 == p6 \o gh
           p9 == p8 \o << i >>
           q == p9 \o << j >>
<1>1. RegisterScript(s, spec) = q
  BY DEF RegisterScript, PublishInterfaceDeviceInfo, PublishSensorConnect, Do, AddFrom
<1>2. a \in S /\ b \in S /\ c \in S /\ d \in S /\ e \in S /\ f \in S /\ g \in S /\ h \in S /\ i \in S /\ j \in S
  OBVIOUS
<1> HIDE DEF a, b, c, d, e, f, g, h, i, j, S
<1>3. /\ ab \in Seq(S) /\ Len(ab) = 2 /\ ab[1] = a /\ ab[2] = b
      /\ cd \in Seq(S) /\ Len(cd) = 2 /\ cd[1] = c /\ cd[2] = d
      /\ gh \in Seq(S) /\ Len(gh) = 2 /\ gh[1] = g /\ gh[2] = h
  BY <1>2, Pair
<1>4. \A x \in S : << x >> \in Seq(S) /\ Len(<< x >>) = 1 /\ << x >>[1] = x OBVIOUS
<1> HIDE DEF ab, cd, gh
<1>5. p4 \in Seq(S) /\ Len(p4) = 4 /\ p4[1] = a /\ p4[2] = b /\ p4[3] = c /\ p4[4] = d
  <2>1. /\ p4 \in Seq(S) /\ Len(p4) = Len(ab) + Len(cd)
        /\ \A k \in 1 .. Len(ab) + Len(cd) : p4[k] = IF k <= Len(ab) THEN ab[k] ELSE cd[k - Len(ab)]
    BY <1>3, ConcatProperties, Zenon
  <2>2. p4[2 + 1] = cd[1] /\ p4[2 + 2] = cd[2] BY <1>3, <2>1
  <2> QED BY <1>3, <2>1, <2>2
<1> HIDE DEF p4
<1>6. p5 \in Seq(S) /\ Len(p5) = 5 /\ p5[5] = e /\ \A k \in 1 .. 4 : p5[k] = p4[k]
  <2>1. << e >> \in Seq(S) /\ Len(<< e >>) = 1 /\ << e >>[1] = e BY <1>2, <1>4
  <2>2. /\ p5 \in Seq(S) /\ Len(p5) = Len(p4) + Len(<< e >>)
        /\ \A k \in 1 .. Len(p4) + Len(<< e >>) : p5[k] = IF k <= Len(p4) THEN p4[k] ELSE << e >>[k - Len(p4)]
    BY <1>5, <2>1, ConcatProperties, Zenon
  <2>3. p5[4 + 1] = << e >>[1] BY <1>5, <2>1, <2>2
  <2> QED BY <1>5, <2>1, <2>2, <2>3
<1> HIDE DEF p5
<1>7. p6 \in Seq(S) /\ Len(p6) = 6 /\ p6[6] = f /\ \A k \in 1 .. 5 : p6[k] = p5[k]
  <2>1. << f >> \in Seq(S) /\ Len(<< f >>) = 1 /\ << f >>[1] = f BY <1>2, <1>4
  <2>2. /\ p6 \in Seq(S) /\ Len(p6) = Len(p5) + Len(<< f >>)
        /\ \A k \in 1 .. Len(p5) + Len(<< f >>) : p6[k] = IF k <= Len(p5) THEN p5[k] ELSE << f >>[k - Len(p5)]
    BY <1>6, <2>1, ConcatProperties, Zenon
  <2>3. p6[5 + 1] = << f >>[1] BY <1>6, <2>1, <2>2
  <2> QED BY <1>6, <2>1, <2>2, <2>3
<1> HIDE DEF p6
<1>8. p8 \in Seq(S) /\ Len(p8) = 8 /\ p8[7] = g /\ p8[8] = h /\ \A k \in 1 .. 6 : p8[k] = p6[k]
  <2>1. /\ p8 \in Seq(S) /\ Len(p8) = Len(p6) + Len(gh)
        /\ \A k \in 1 .. Len(p6) + Len(gh) : p8[k] = IF k <= Len(p6) THEN p6[k] ELSE gh[k - Len(p6)]
    BY <1>3, <1>7, ConcatProperties, Zenon
  <2> HIDE DEF p8
  <2>2. p8[6 + 1] = gh[1] /\ p8[6 + 2] = gh[2] BY <1>3, <1>7, <2>1
  <2>3. Len(p8) = 8 BY <1>3, <1>7, <2>1
  <2>4. \A k \in 1 .. 6 : p8[k] = p6[k] BY <1>3, <1>7, <2>1
  <2>5. gh[1] = g /\ gh[2] = h BY <1>3
  <2>6. p8[7] = g BY <2>2, <2>5
  <2>7. p8[8] = h BY <2>2, <2>5
  <2> QED BY <2>1, <2>3, <2>4, <2>6, <2>7
<1> HIDE DEF p8
<1>9. p9 \in Seq(S) /\ Len(p9) = 9 /\ p9[9] = i /\ \A k \in 1 .. 8 : p9[k] = p8[k]
  <2>1. << i >> \in Seq(S) /\ Len(<< i >>) = 1 /\ << i >>[1] = i BY <1>2, <1>4
  <2>2. /\ p9 \in Seq(S) /\ Len(p9) = Len(p8) + Len(<< i >>)
        /\ \A k \in 1 .. Len(p8) + Len(<< i >>) : p9[k] = IF k <= Len(p8) THEN p8[k] ELSE << i >>[k - Len(p8)]
    BY <1>8, <2>1, ConcatProperties, Zenon
  <2>3. p9[8 + 1] = << i >>[1] BY <1>8, <2>1, <2>2
  <2> QED BY <1>8, <2>1, <2>2, <2>3
<1> HIDE DEF p9
<1>10. q \in Seq(S) /\ Len(q) = 10 /\ q[10] = j /\ \A k \in 1 .. 9 : q[k] = p9[k]
  <2>1. << j >> \in Seq(S) /\ Len(<< j >>) = 1 /\ << j >>[1] = j BY <1>2, <1>4
  <2>2. /\ q \in Seq(S) /\ Len(q) = Len(p9) + Len(<< j >>)
        /\ \A k \in 1 .. Len(p9) + Len(<< j >>) : q[k] = IF k <= Len(p9) THEN p9[k] ELSE << j >>[k - Len(p9)]
    BY <1>9, <2>1, ConcatProperties, Zenon
  <2>3. q[9 + 1] = << j >>[1] BY <1>9, <2>1, <2>2
  <2> QED BY <1>9, <2>1, <2>2, <2>3
<1> HIDE DEF q
<1>11. /\ Len(q) = 10 /\ q[1] = a /\ q[2] = b /\ q[3] = c /\ q[4] = d /\ q[5] = e
       /\ q[6] = f /\ q[7] = g /\ q[8] = h /\ q[9] = i /\ q[10] = j
  BY <1>5, <1>6, <1>7, <1>8, <1>9, <1>10
<1> QED BY <1>1, <1>11 DEF a, b, c, d, e, f, g, h, i, j

\* A change of the status, the new list, and two messages.
LEMMA FiveAre ==
    ASSUME NEW a, NEW b, NEW c, NEW d, NEW e
    PROVE  LET q == << a >> \o (<< b >> \o << c >>) \o (<< d >> \o << e >>) IN
           Len(q) = 5 /\ q[1] = a /\ q[2] = b /\ q[3] = c /\ q[4] = d /\ q[5] = e
<1> DEFINE S == {a, b, c, d, e}
           bc == << b >> \o << c >>
           de == << d >> \o << e >>
           p == << a >> \o bc
           q == p \o de
<1>1. a \in S /\ b \in S /\ c \in S /\ d \in S /\ e \in S OBVIOUS
<1> HIDE DEF S
<1>2. /\ << a >> \in Seq(S) /\ Len(<< a >>) = 1 /\ << a >>[1] = a
      /\ bc \in Seq(S) /\ Len(bc) = 2 /\ bc[1] = b /\ bc[2] = c
      /\ de \in Seq(S) /\ Len(de) = 2 /\ de[1] = d /\ de[2] = e
  BY <1>1, Pair
<1> HIDE DEF bc, de
<1>3. p \in Seq(S) /\ Len(p) = 3 /\ p[1] = a /\ p[2] = b /\ p[3] = c
  <2>1. /\ p \in Seq(S) /\ Len(p) = Len(<< a >>) + Len(bc)
        /\ \A k \in 1 .. Len(<< a >>) + Len(bc) : p[k] = IF k <= Len(<< a >>) THEN << a >>[k] ELSE bc[k - Len(<< a >>)]
    BY <1>2, ConcatProperties, Zenon
  <2>2. p[1 + 1] = bc[1] /\ p[1 + 2] = bc[2] BY <1>2, <2>1
  <2> QED BY <1>2, <2>1, <2>2
<1> HIDE DEF p
<1>4. /\ q \in Seq(S) /\ Len(q) = Len(p) + Len(de)
      /\ \A k \in 1 .. Len(p) + Len(de) : q[k] = IF k <= Len(p) THEN p[k] ELSE de[k - Len(p)]
  BY <1>2, <1>3, ConcatProperties, Zenon
<1>5. q[3 + 1] = de[1] /\ q[3 + 2] = de[2] BY <1>2, <1>3, <1>4
<1> HIDE DEF q
<1>6. Len(q) = 5 /\ q[1] = a /\ q[2] = b /\ q[3] = c /\ q[4] = d /\ q[5] = e
  BY <1>2, <1>3, <1>4, <1>5
<1> QED BY <1>6 DEF q, p, bc, de

\* The scripts of SenHubReConnected and SenHubDisconnect.
LEMMA StatusScriptIs ==
    ASSUME NEW s \in Sensors, NEW q,
           \/ q = Do("connect", s) \o PublishInterfaceDeviceInfo \o PublishSensorConnect(s)
           \/ q = Do("disconnect", s) \o PublishInterfaceDeviceInfo \o PublishSensorDisconnect(s)
    PROVE  /\ Len(q) = 5 /\ q[2] = [op |-> "topology", id |-> Gateway]
           /\ \A k \in 1 .. 5 : q[k].op \in {"disconnect", "connect"} => k = 1
           /\ \A k \in 1 .. 5 : q[k].op \in {"disconnect", "connect", "topology", "deviceinfo",
                                             "connected", "disconnected", "subscribe"}
<1>1. PICK a \in {"connect", "disconnect"}, d \in {"connected", "disconnected"} :
         q = << [op |-> a, id |-> s] >>
                \o (<< [op |-> "topology", id |-> Gateway] >> \o << [op |-> "deviceinfo", id |-> Gateway] >>)
                \o (<< [op |-> d, id |-> s] >> \o << [op |-> "subscribe", id |-> s] >>)
  BY DEF PublishInterfaceDeviceInfo, PublishSensorConnect, PublishSensorDisconnect, Do
<1>2. /\ Len(q) = 5 /\ q[1] = [op |-> a, id |-> s] /\ q[2] = [op |-> "topology", id |-> Gateway]
      /\ q[3] = [op |-> "deviceinfo", id |-> Gateway]
      /\ q[4] = [op |-> d, id |-> s] /\ q[5] = [op |-> "subscribe", id |-> s]
  BY <1>1, FiveAre
<1>3. q[1].op = a /\ q[2].op = "topology" /\ q[3].op = "deviceinfo" /\ q[4].op = d /\ q[5].op = "subscribe"
  BY <1>2
<1>4. \A k \in 1 .. 5 : k \in {1, 2, 3, 4, 5} OBVIOUS
<1> QED BY <1>2, <1>3, <1>4

LEMMA CapabilityIs ==
    ASSUME NEW q, q \in {<< >>, PublishInterfaceDeviceInfo \o RepublishFrom(1)}
    PROVE  \A k \in 1 .. Len(q) : q[k].op \in {"topology", "deviceinfo", "republish"}
<1>1. CASE q = << >> BY <1>1
<1>2. CASE q # << >>
  <2> DEFINE a == [op |-> "topology", id |-> Gateway]
             b == [op |-> "deviceinfo", id |-> Gateway]
             c == [op |-> "republish", id |-> Gateway, dev |-> 1]
             S == {a, b, c}
  <2>1. q = (<< a >> \o << b >>) \o << c >> BY <1>2 DEF PublishInterfaceDeviceInfo, RepublishFrom, Do
  <2>2. a \in S /\ b \in S /\ c \in S /\ \A i \in S : i.op \in {"topology", "deviceinfo", "republish"} OBVIOUS
  <2> HIDE DEF S, a, b, c
  <2>3. << a >> \o << b >> \in Seq(S) /\ << c >> \in Seq(S) BY <2>2, Pair
  <2>4. q \in Seq(S) BY <2>1, <2>3, ConcatProperties
  <2> QED BY <2>2, <2>4, ElementOfSeq
<1> QED BY <1>1, <1>2

\* A call that begins changes what it was the last call for, and nothing else.
LEMMA Began ==
    ASSUME NEW name, NEW s \in Sensors, NEW spec, NEW script, Call(name, s, spec, script)
    PROVE  /\ todo = << >> /\ todo' = script /\ UNCHANGED <<table, messages>>
           /\ lastCall' = [lastCall EXCEPT ![s] =
                [name |-> name, spec |-> IF spec = None THEN @.spec ELSE spec]]
BY DEF Call

LEMMA NoneLeft == ASSUME NEW S PROVE ~ After(<< >>, 0, S)
BY DEF After

LEMMA ListingCall ==
    ASSUME IInv, Listing, Furnishing,
           \/ \E s \in Sensors, spec \in Specs : RegisterSensor(s, spec)
           \/ \E s \in Sensors : SenHubDisconnect(s) \/ SenHubReConnected(s)
           \/ Capability
    PROVE  Listing'
<1> USE DEF table, messages
<1>1. lastCall \in [Sensors -> [name : {"none", "RegisterSensor", "SenHubDisconnect", "SenHubReConnected"},
                                spec : Specs \cup {None}]]
  BY DEF Furnishing
<1>2. [op |-> "topology", id |-> Gateway] \in Lists BY DEF Lists, Instructions
<1>3. ASSUME UNCHANGED <<gIf_SenHublist, gDeviceCount, cliendId, connection>>
      PROVE  Connected' = Connected /\ \A d \in Slots : d >= gDeviceCount' => ~connection'[d]
  BY <1>3 DEF Connected, Listing
<1>4. ASSUME NEW s \in Sensors, NEW spec \in Specs, RegisterSensor(s, spec)
      PROVE  Listing'
  <2>1. /\ todo = << >> /\ todo' = RegisterScript(s, spec)
        /\ UNCHANGED <<gIf_SenHublist, gDeviceCount, cliendId, connection>>
        /\ \A u \in Sensors : lastCall'[u].name = IF u = s THEN "RegisterSensor" ELSE lastCall[u].name
    BY <1>1, <1>4, Began DEF RegisterSensor
  <2> DEFINE q == RegisterScript(s, spec)
  <2>2. Len(q) = 10 /\ \A k \in 1 .. 10 :
           /\ q[k].op # "disconnect"
           /\ q[k].op \in {"connect", "defaults"} => q[k].id = s
    <3>1. /\ Len(q) = 10
          /\ q[1] = [op |-> "create", id |-> s] /\ q[2] = [op |-> "defaults", id |-> s]
          /\ q[3] = [op |-> "topology", id |-> Gateway] /\ q[4] = [op |-> "deviceinfo", id |-> Gateway]
          /\ q[5] = [op |-> "items", id |-> s, spec |-> spec, slash |-> TRUE, from |-> 1]
          /\ q[6] = [op |-> "connect", id |-> s]
          /\ q[7] = [op |-> "connected", id |-> s] /\ q[8] = [op |-> "subscribe", id |-> s]
          /\ q[9] = [op |-> "items", id |-> s, spec |-> spec, slash |-> FALSE, from |-> 1]
          /\ q[10] = [op |-> "infospec", id |-> s, spec |-> spec]
      BY RegisterIs
    <3> HIDE DEF q
    <3>2. \A k \in 1 .. 10 : k \in {1, 2, 3, 4, 5, 6, 7, 8, 9, 10} OBVIOUS
    <3>3. q[1].op = "create" /\ q[2].op = "defaults" /\ q[2].id = s /\ q[3].op = "topology" BY <3>1
    <3>4. q[4].op = "deviceinfo" /\ q[5].op = "items" /\ q[6].op = "connect" /\ q[6].id = s BY <3>1
    <3>5. q[7].op = "connected" /\ q[8].op = "subscribe" /\ q[9].op = "items" /\ q[10].op = "infospec"
      BY <3>1
    <3>6. Len(q) = 10 BY <3>1
    <3> QED BY <3>2, <3>3, <3>4, <3>5, <3>6
  <2> HIDE DEF q
  <2>3. Followed(q, Disconnects, Lists) BY <2>2 DEF Followed, Disconnects
  <2>4. \A u \in Sensors : u # s => Followed(q, Connects(u), Lists) BY <2>2 DEF Followed, Connects
  <2>5. gIf_SenHublist \subseteq Connected /\ \A u \in Connected \ gIf_SenHublist : lastCall[u].name = "RegisterSensor"
    BY <2>1, NoneLeft DEF Listing
  <2>6. Connected \subseteq Sensors BY ConnectedIn
  <2> QED BY <1>3, <2>1, <2>3, <2>4, <2>5, <2>6 DEF Listing, q
<1>5. ASSUME NEW s \in Sensors, SenHubDisconnect(s) \/ SenHubReConnected(s)
      PROVE  Listing'
  <2> DEFINE on == Do("connect", s) \o PublishInterfaceDeviceInfo \o PublishSensorConnect(s)
             off == Do("disconnect", s) \o PublishInterfaceDeviceInfo \o PublishSensorDisconnect(s)
  <2>1. /\ todo = << >> /\ todo' \in {on, off}
        /\ UNCHANGED <<gIf_SenHublist, gDeviceCount, cliendId, connection>>
    BY <1>5, Began DEF SenHubDisconnect, SenHubReConnected
  <2>2. ASSUME NEW q \in {on, off}
        PROVE  Len(q) = 5 /\ q[2] = [op |-> "topology", id |-> Gateway]
               /\ \A k \in 1 .. 5 : q[k].op \in {"disconnect", "connect", "defaults"} => k = 1
    <3>1. q = on \/ q = off BY <2>2
    <3>2. /\ Len(q) = 5 /\ q[2] = [op |-> "topology", id |-> Gateway]
          /\ \A k \in 1 .. 5 : q[k].op \in {"disconnect", "connect"} => k = 1
          /\ \A k \in 1 .. 5 : q[k].op \in {"disconnect", "connect", "topology", "deviceinfo",
                                             "connected", "disconnected", "subscribe"}
      BY <3>1, StatusScriptIs
    <3> QED BY <3>2
  <2> HIDE DEF on, off
  <2>3. ASSUME NEW q \in {on, off}
        PROVE  /\ After(q, 0, Lists) /\ Followed(q, Disconnects, Lists)
               /\ \A u \in Sensors : Followed(q, Connects(u), Lists)
    <3>1. 2 \in 0 + 1 .. Len(q) /\ 2 \in 1 + 1 .. Len(q) /\ q[2] \in Lists BY <1>2, <2>2
    <3>2. After(q, 0, Lists) /\ After(q, 1, Lists) BY <3>1, Zenon DEF After
    <3> QED BY <2>2, <3>2 DEF Followed, Disconnects, Connects
  <2> QED BY <1>3, <2>1, <2>3 DEF Listing
<1>6. CASE Capability
  <2>1. /\ todo = << >> /\ todo' \in {<< >>, PublishInterfaceDeviceInfo \o RepublishFrom(1)}
        /\ UNCHANGED <<gIf_SenHublist, gDeviceCount, cliendId, connection, lastCall>>
    BY <1>6 DEF Capability
  <2>2. ASSUME NEW q \in {<< >>, PublishInterfaceDeviceInfo \o RepublishFrom(1)}
        PROVE  /\ Followed(q, Disconnects, Lists)
               /\ \A u \in Sensors : Followed(q, Connects(u), Lists)
    <3>1. \A k \in 1 .. Len(q) : q[k].op \in {"topology", "deviceinfo", "republish"}
      BY <2>2, CapabilityIs
    <3> QED BY <3>1 DEF Followed, Disconnects, Connects
  <2>3. gIf_SenHublist \subseteq Connected /\ \A u \in Connected \ gIf_SenHublist : lastCall[u].name = "RegisterSensor"
    BY <2>1, NoneLeft DEF Listing
  <2> QED BY <1>3, <2>1, <2>2, <2>3 DEF Listing
<1> QED BY <1>4, <1>5, <1>6

LEMMA ListingElse ==
    ASSUME Listing, UNCHANGED <<gIf_SenHublist, gDeviceCount, cliendId, connection, todo, lastCall>>
    PROVE  Listing'
<1>1. Connected' = Connected BY DEF Connected
<1> QED BY <1>1 DEF Listing
--------------------------------------------------------------------------------
(* The items and the capability of the newest array.                       *)

\* Nothing but what belongs to the last array is put before the rest.
Proper(new, s, spec) ==
    \A k \in 1 .. Len(new) :
        new[k] \notin Foreign(s, spec) /\ (new[k] \in Early(s) => Head(todo) \in Early(s))

\* What is promised of the rest of the call stays promised.
LEMMA FurnishingRest ==
    ASSUME IInv, Furnishing, todo # << >>, NEW s \in Sensors, NEW spec \in Specs, lastCall[s].spec = spec,
           NEW new \in Seq(Instructions), todo' = new \o Tail(todo), Proper(new, s, spec)
    PROVE  /\ ~ After(todo', 0, Foreign(s, spec))
           /\ Followed(todo', Early(s), Infos(s, spec))
           /\ \A n \in Range(spec) : Followed(todo', Early(s), Adds(s, spec, n))
           /\ Head(todo) \notin Foreign(s, spec)
           /\ \A S : Head(todo) \notin S /\ After(todo, 0, S) => After(todo', 0, S)
           /\ Head(todo) \in Early(s) =>
                 After(todo', 0, Infos(s, spec)) /\ \A n \in Range(spec) : After(todo', 0, Adds(s, spec, n))
<1>1. TypeOK BY DEF IInv
<1>2. /\ ~ After(todo, 0, Foreign(s, spec))
      /\ Followed(todo, Early(s), Infos(s, spec))
      /\ \A n \in Range(spec) : Followed(todo, Early(s), Adds(s, spec, n))
  BY DEF Furnishing
<1>3. \A k \in 1 .. Len(new) : new[k] \in Early(s) => Head(todo) \in Early(s) BY DEF Proper
<1>4. Followed(todo', Early(s), Infos(s, spec)) BY <1>1, <1>2, <1>3, FollowedOn
<1>5. \A n \in Range(spec) : Followed(todo', Early(s), Adds(s, spec, n)) BY <1>1, <1>2, <1>3, FollowedOn
<1>6. ASSUME NEW S
      PROVE  /\ After(todo, 0, S) <=> Head(todo) \in S \/ After(todo, 1, S)
             /\ After(todo, 1, S) => After(todo', 0, S)
             /\ After(todo', 0, S) => After(todo, 1, S) \/ \E k \in 1 .. Len(new) : new[k] \in S
  <2>1. 0 \in 0 .. Len(new) BY LenProperties
  <2>2. After(todo, 1, S) => \A k \in 0 .. Len(new) : After(todo', k, S) BY <1>1, Rest
  <2>3. After(todo', 0, S) => After(todo, 1, S) \/ \E k \in 1 .. Len(new) : new[k] \in S BY <1>1, Rest
  <2>4. After(todo, 0, S) <=> Head(todo) \in S \/ After(todo, 1, S) BY <1>1, Rest
  <2> QED BY <2>1, <2>2, <2>3, <2>4
<1>7. ~ After(todo', 0, Foreign(s, spec)) /\ Head(todo) \notin Foreign(s, spec)
  BY <1>2, <1>6 DEF Proper
<1>8. Head(todo) = todo[1] /\ 1 \in 1 .. Len(todo) BY <1>1, TodoFacts
<1>9. ASSUME Head(todo) \in Early(s)
      PROVE  After(todo', 0, Infos(s, spec)) /\ \A n \in Range(spec) : After(todo', 0, Adds(s, spec, n))
  <2>1. After(todo, 1, Infos(s, spec)) BY <1>2, <1>8, <1>9 DEF Followed
  <2>2. \A n \in Range(spec) : After(todo, 1, Adds(s, spec, n)) BY <1>2, <1>8, <1>9 DEF Followed
  <2> QED BY <1>6, <2>1, <2>2
<1> QED BY <1>4, <1>5, <1>6, <1>7, <1>9

\* A sensor that is not in the table and is about to be: all is still to come.
LEMMA StillToCome ==
    ASSUME IInv, Furnishing, NEW s \in Sensors, NEW spec \in Specs, lastCall[s].spec = spec,
           After(todo, 1, Creates(s))
    PROVE  After(todo, 1, Infos(s, spec)) /\ \A n \in Range(spec) : After(todo, 1, Adds(s, spec, n))
<1>1. PICK k \in 2 .. Len(todo) : todo[k] \in Creates(s) BY DEF After
<1>2. Len(todo) \in Nat BY LenProperties DEF IInv, TypeOK
<1>3. k \in 1 .. Len(todo) /\ todo[k] \in Early(s) BY <1>1, <1>2 DEF Creates, Early
<1>4. \A l \in k + 1 .. Len(todo) : l \in 1 + 1 .. Len(todo) BY <1>2
<1>5. After(todo, k, Infos(s, spec)) BY <1>3 DEF Furnishing, Followed
<1>6. \A n \in Range(spec) : After(todo, k, Adds(s, spec, n)) BY <1>3 DEF Furnishing, Followed
<1> QED BY <1>4, <1>5, <1>6 DEF After

\* A step of a call, from what it does for each sensor.
LEMMA FurnishingBy ==
    ASSUME IInv, Furnishing, todo # << >>, lastCall' = lastCall, EachStored',
           NEW new \in Seq(Instructions), todo' = new \o Tail(todo),
           \A s \in Sensors : There(s)' => There(s),
           \A s \in Sensors, spec \in Specs :
              lastCall[s].spec = spec =>
                 /\ Proper(new, s, spec)
                 /\ There(s)' => Kept(s, spec)' \/ After(todo', 0, Infos(s, spec))
                 /\ \A n \in Range(spec) :
                       There(s)' => Settled(s, spec, n)' \/ After(todo', 0, Adds(s, spec, n))
    PROVE  Furnishing'
<1>1. lastCall \in [Sensors -> [name : {"none", "RegisterSensor", "SenHubDisconnect", "SenHubReConnected"},
                                spec : Specs \cup {None}]]
  BY DEF Furnishing
<1>2. \A s \in Sensors : There(s)' => lastCall[s].spec \in Specs BY DEF Furnishing
<1>3. ASSUME NEW s \in Sensors, NEW spec \in Specs, lastCall[s].spec = spec
      PROVE  /\ ~ After(todo', 0, Foreign(s, spec))
             /\ Followed(todo', Early(s), Infos(s, spec))
             /\ There(s)' => Kept(s, spec)' \/ After(todo', 0, Infos(s, spec))
             /\ \A n \in Range(spec) :
                   /\ Followed(todo', Early(s), Adds(s, spec, n))
                   /\ There(s)' => Settled(s, spec, n)' \/ After(todo', 0, Adds(s, spec, n))
  <2>1. Proper(new, s, spec) BY <1>3
  <2>2. /\ ~ After(todo', 0, Foreign(s, spec))
        /\ Followed(todo', Early(s), Infos(s, spec))
        /\ \A n \in Range(spec) : Followed(todo', Early(s), Adds(s, spec, n))
    BY <1>3, <2>1, FurnishingRest
  <2> QED BY <1>3, <2>2
<1> QED BY <1>1, <1>2, <1>3 DEF Furnishing

\* A sensor comes into the table by WiseAccess_CreateDevice only.
LEMMA ThereBefore ==
    ASSUME TypeOK, todo # << >>, Table' = Table,
           NEW new \in Seq(Instructions), todo' = new \o Tail(todo),
           \A k \in 1 .. Len(new) : new[k].op # "create",
           NEW s \in Sensors
    PROVE  There(s)' => There(s) /\ (s \in Table \/ After(todo, 1, Creates(s)))
<1>1. After(todo', 0, Creates(s)) => After(todo, 1, Creates(s))
  <2>1. \A k \in 1 .. Len(new) : new[k] \notin Creates(s) BY DEF Creates
  <2>2. After(todo', 0, Creates(s)) => After(todo, 1, Creates(s)) \/ \E k \in 1 .. Len(new) : new[k] \in Creates(s)
    BY Rest
  <2> QED BY <2>1, <2>2
<1>2. After(todo, 1, Creates(s)) => After(todo, 0, Creates(s))
  <2>1. Len(todo) \in Nat BY LenProperties DEF TypeOK
  <2>2. \A l \in 1 + 1 .. Len(todo) : l \in 0 + 1 .. Len(todo) BY <2>1
  <2> QED BY <2>2 DEF After
<1>3. There(s)' <=> s \in Table \/ After(todo', 0, Creates(s)) BY DEF There
<1> QED BY <1>1, <1>2, <1>3 DEF There

Furnishes(op) == op \in {"create", "items", "add", "second", "infospec"}

LEMMA NotHalfNext ==
    ASSUME IInv, todo # << >>, NEW new \in Seq(Instructions), todo' = new \o Tail(todo),
           \A k \in 1 .. Len(new) : new[k].op # "second"
    PROVE  ~Half'
<1> DEFINE S == {i \in Instructions : i.op = "second"}
<1>1. TypeOK /\ Halves BY DEF IInv
<1>2. SUFFICES ASSUME todo' # << >> PROVE Head(todo').op # "second" BY DEF Half
<1>3. ~ After(todo, 1, S) BY <1>1 DEF After, Halves, SecondIsFirst
<1>4. ~ \E k \in 1 .. Len(new) : new[k] \in S OBVIOUS
<1>5. todo' \in Seq(Instructions)
  <2>1. Tail(todo) \in Seq(Instructions) BY <1>1, TodoFacts
  <2> QED BY <2>1, ConcatProperties
<1>6. Head(todo') = todo'[1] /\ 1 \in 0 + 1 .. Len(todo') /\ Head(todo') \in Instructions
  BY <1>2, <1>5, HeadTailProperties, EmptySeq
<1> HIDE DEF S
<1>7. ~ After(todo', 0, S) BY <1>1, <1>3, <1>4, Rest
<1>8. Head(todo') \notin S BY <1>6, <1>7 DEF After
<1> QED BY <1>6, <1>8 DEF S

\* An instruction that leaves the table, and puts at most default items before the rest.
LEMMA FurnishingQuiet ==
    ASSUME IInv, Furnishing, todo # << >>, ~ Furnishes(Head(todo).op),
           UNCHANGED <<entries, infospec, lastCall>>,
           NEW new \in Seq(Instructions), todo' = new \o Tail(todo),
           \A k \in 1 .. Len(new) :
              /\ new[k].op \notin {"create", "items", "second", "infospec"}
              /\ new[k].op = "add" => Head(todo).op = "defaults" /\ new[k].id = It /\ new[k].item.spec = None
              /\ new[k].op # "defaults"
    PROVE  Furnishing'
<1> USE DEF entries
<1>1. TypeOK BY DEF IInv
<1>2. Table' = Table BY DEF Table
<1>3. ~Half BY DEF Half, Furnishes
<1>4. ~Half' BY NotHalfNext
<1>5. EachStored' BY <1>3, <1>4 DEF EachStored, HalfAt, Furnishing
<1>6. \A s \in Sensors : There(s)' => There(s) BY <1>1, <1>2, ThereBefore
<1>7. Head(todo) \in Instructions BY <1>1, TodoFacts
<1>8. ASSUME NEW s \in Sensors, NEW spec \in Specs, lastCall[s].spec = spec
      PROVE  /\ Proper(new, s, spec)
             /\ There(s)' => Kept(s, spec)' \/ After(todo', 0, Infos(s, spec))
             /\ \A n \in Range(spec) :
                   There(s)' => Settled(s, spec, n)' \/ After(todo', 0, Adds(s, spec, n))
  <2>1. Proper(new, s, spec)
    <3> SUFFICES ASSUME NEW k \in 1 .. Len(new)
                 PROVE  new[k] \notin Foreign(s, spec) /\ (new[k] \in Early(s) => Head(todo) \in Early(s))
      BY DEF Proper
    <3>1. new[k] \notin Foreign(s, spec) BY DEF Foreign
    <3>2. new[k] \in Early(s) => new[k].op = "add" /\ new[k].id = s BY DEF Early
    <3>3. new[k] \in Early(s) => Head(todo).op = "defaults" /\ Head(todo).id = s BY <3>2 DEF It
    <3> QED BY <1>7, <3>1, <3>3 DEF Early
  <2>2. \A S : Head(todo) \notin S /\ After(todo, 0, S) => After(todo', 0, S)
    BY <1>8, <2>1, FurnishingRest
  <2>3. Head(todo) \notin Infos(s, spec) /\ \A n : Head(todo) \notin Adds(s, spec, n)
    BY DEF Infos, Adds, Furnishes
  <2>4. Kept(s, spec)' <=> Kept(s, spec) BY <1>2 DEF Kept, IndexOf
  <2>5. \A n : Settled(s, spec, n)' <=> Settled(s, spec, n) BY <1>2 DEF Settled, Stored, Same, IndexOf
  <2>6. There(s) => Kept(s, spec) \/ After(todo, 0, Infos(s, spec)) BY <1>8 DEF Furnishing
  <2>7. \A n \in Range(spec) : There(s) => Settled(s, spec, n) \/ After(todo, 0, Adds(s, spec, n))
    BY <1>8 DEF Furnishing
  <2> QED BY <1>6, <2>1, <2>2, <2>3, <2>4, <2>5, <2>6, <2>7
<1> QED BY <1>5, <1>6, <1>8, FurnishingBy
--------------------------------------------------------------------------------
\* An instruction that is done, with nothing before the rest.
LEMMA DoneProper ==
    ASSUME IInv, todo # << >>, Done, NEW s, NEW spec
    PROVE  /\ << >> \in Seq(Instructions) /\ todo' = << >> \o Tail(todo)
           /\ Proper(<< >>, s, spec) /\ \A k \in 1 .. Len(<< >>) : << >>[k].op # "create"
<1>1. << >> \in Seq(Instructions) /\ todo' = << >> \o Tail(todo) BY NothingNew DEF IInv
<1>2. 1 .. Len(<< >>) = {} BY EmptySeq
<1> QED BY <1>1, <1>2 DEF Proper

\* The promises for sensor s, after an instruction that is about s and done.
LEMMA DoneRest ==
    ASSUME IInv, Furnishing, todo # << >>, Done, Table' = Table,
           NEW s \in Sensors, NEW spec \in Specs, lastCall[s].spec = spec, There(s)'
    PROVE  /\ s \in Table \/ /\ After(todo', 0, Infos(s, spec))
                             /\ \A n \in Range(spec) : After(todo', 0, Adds(s, spec, n))
           /\ Head(todo) \notin Foreign(s, spec)
           /\ Head(todo) \in Early(s) =>
                 After(todo', 0, Infos(s, spec)) /\ \A n \in Range(spec) : After(todo', 0, Adds(s, spec, n))
           /\ \A S : Head(todo) \notin S /\ After(todo, 0, S) => After(todo', 0, S)
           /\ There(s)
<1> DEFINE new == << >>
<1>1. /\ new \in Seq(Instructions) /\ todo' = new \o Tail(todo)
      /\ Proper(new, s, spec) /\ \A k \in 1 .. Len(new) : new[k].op # "create"
  BY DoneProper
<1>2. Len(new) = 0 BY EmptySeq
<1> HIDE DEF new
<1>3. TypeOK BY DEF IInv
<1>4. There(s) /\ (s \in Table \/ After(todo, 1, Creates(s))) BY <1>1, <1>3, ThereBefore
<1>5. ASSUME NEW S, After(todo, 1, S)
      PROVE  After(todo', 0, S)
  <2>1. After(todo, 1, S) => \A k \in 0 .. Len(new) : After(todo', k, S) BY <1>1, <1>3, Rest
  <2> QED BY <1>2, <1>5, <2>1
<1>6. s \in Table \/ /\ After(todo', 0, Infos(s, spec))
                     /\ \A n \in Range(spec) : After(todo', 0, Adds(s, spec, n))
  BY <1>4, <1>5, StillToCome
<1>7. /\ Head(todo) \notin Foreign(s, spec)
      /\ \A S : Head(todo) \notin S /\ After(todo, 0, S) => After(todo', 0, S)
      /\ Head(todo) \in Early(s) =>
            After(todo', 0, Infos(s, spec)) /\ \A n \in Range(spec) : After(todo', 0, Adds(s, spec, n))
  BY <1>1, FurnishingRest
<1> QED BY <1>4, <1>6, <1>7

\* The same, as what a done instruction has to show.
LEMMA FurnishingDone ==
    ASSUME IInv, Furnishing, todo # << >>, Done, lastCall' = lastCall, EachStored', Table' = Table,
           \A s \in Sensors, spec \in Specs :
              lastCall[s].spec = spec /\ There(s)' =>
                 /\ Kept(s, spec)' \/ After(todo', 0, Infos(s, spec))
                 /\ \A n \in Range(spec) : Settled(s, spec, n)' \/ After(todo', 0, Adds(s, spec, n))
    PROVE  Furnishing'
<1> DEFINE new == << >>
<1>1. /\ new \in Seq(Instructions) /\ todo' = new \o Tail(todo)
      /\ \A s, spec : Proper(new, s, spec)
      /\ \A k \in 1 .. Len(new) : new[k].op # "create"
  BY DoneProper
<1> HIDE DEF new
<1>2. \A s \in Sensors : There(s)' => There(s) BY <1>1, ThereBefore DEF IInv
<1> QED BY <1>1, <1>2, FurnishingBy

LEMMA FurnishingElement ==
    ASSUME IInv, Furnishing, NextElement
    PROVE  Furnishing'
<1>1. /\ todo # << >> /\ Head(todo).op = "items" /\ It \in Sensors
      /\ Head(todo).spec \in Specs /\ Head(todo).slash \in BOOLEAN /\ Head(todo).from \in Nat \ {0}
      /\ UNCHANGED <<entries, infospec, lastCall>>
  BY HeadTyped DEF NextElement, Run, IInv, table, entries
<1>2. UNCHANGED <<entries, infospec, lastCall>> BY <1>1
<1> USE DEF entries
<1>3. TypeOK /\ Head(todo) \in Instructions BY <1>1, TodoFacts DEF IInv
<1>4. Table' = Table BY <1>2 DEF Table
<1>5. EachStored'
  <2>1. ~Half BY <1>1 DEF Half
  <2>2. ~Half'
    <3>1. CASE todo' = << >> \o Tail(todo)
      <4>1. << >> \in Seq(Instructions) /\ 1 .. Len(<< >>) = {} BY EmptySeq
      <4> QED BY <1>1, <3>1, <4>1, NotHalfNext
    <3>2. ASSUME NEW i, NEW new \in Seq(Instructions), todo' = new \o Tail(todo), Len(new) = 2,
                 new[1] = [op |-> "add", id |-> It, item |-> Item(Head(todo).spec, Head(todo).spec[i])],
                 new[2] = [op |-> "items", id |-> It, spec |-> Head(todo).spec,
                           slash |-> Head(todo).slash, from |-> i + 1]
          PROVE  ~Half'
      <4>1. new[1].op = "add" /\ new[2].op = "items" /\ 1 .. Len(new) = {1, 2} BY <3>2
      <4>2. \A k \in 1 .. Len(new) : new[k].op # "second" BY <4>1
      <4> QED BY <1>1, <3>2, <4>2, NotHalfNext
    <3> QED BY <3>1, <3>2, ElementNew
  <2> QED BY <1>2, <2>1, <2>2 DEF EachStored, HalfAt, Furnishing
<1>6. ASSUME NEW s \in Sensors, NEW spec \in Specs
      PROVE  /\ Kept(s, spec)' <=> Kept(s, spec)
             /\ \A n : Settled(s, spec, n)' <=> Settled(s, spec, n)
             /\ Head(todo) \notin Infos(s, spec)
  BY <1>1, <1>2, <1>4 DEF Kept, Settled, Stored, Same, IndexOf, Infos
<1>7. CASE Left(Head(todo)) = {} /\ todo' = << >> \o Tail(todo)
  <2>1. Done
    <3>1. Tail(todo) \in Seq(Instructions) BY <1>1, <1>3, TodoFacts
    <3> QED BY <1>7, <3>1, ConcatEmptySeq DEF Done
  <2>2. ASSUME NEW s \in Sensors, NEW spec \in Specs, lastCall[s].spec = spec, There(s)'
        PROVE  /\ Kept(s, spec)' \/ After(todo', 0, Infos(s, spec))
               /\ \A n \in Range(spec) : Settled(s, spec, n)' \/ After(todo', 0, Adds(s, spec, n))
    <3>1. There(s) /\ \A S : Head(todo) \notin S /\ After(todo, 0, S) => After(todo', 0, S)
      BY <1>1, <1>4, <2>1, <2>2, DoneRest
    <3>2. \A n : Head(todo) \notin Adds(s, spec, n) BY <1>1, <1>7 DEF Adds
    <3>3. /\ Kept(s, spec) \/ After(todo, 0, Infos(s, spec))
          /\ \A n \in Range(spec) : Settled(s, spec, n) \/ After(todo, 0, Adds(s, spec, n))
      BY <2>2, <3>1 DEF Furnishing
    <3> QED BY <1>6, <3>1, <3>2, <3>3
  <2> QED BY <1>1, <1>2, <1>4, <1>5, <2>1, <2>2, FurnishingDone
<1>8. ASSUME NEW i \in Left(Head(todo)), NEW new \in Seq(Instructions),
             \A j \in Left(Head(todo)) : i <= j,
             todo' = new \o Tail(todo), Len(new) = 2,
             new[1] = [op |-> "add", id |-> It, item |-> Item(Head(todo).spec, Head(todo).spec[i])],
             new[2] = [op |-> "items", id |-> It, spec |-> Head(todo).spec,
                       slash |-> Head(todo).slash, from |-> i + 1]
      PROVE  Furnishing'
  <2>1. /\ new[1].op = "add" /\ new[1].id = It /\ new[1].item = Item(Head(todo).spec, Head(todo).spec[i])
        /\ new[2].op = "items" /\ new[2].id = It /\ new[2].spec = Head(todo).spec
        /\ new[2].slash = Head(todo).slash /\ new[2].from = i + 1
        /\ new[1].item.spec = Head(todo).spec
    BY <1>8 DEF Item
  <2>2. 1 .. Len(new) = {1, 2} BY <1>8
  <2>3. new[1] \in Instructions /\ new[2] \in Instructions BY <1>8, <2>2, ElementOfSeq
  <2>4. \A k \in 1 .. Len(new) : new[k].op # "create" BY <2>1, <2>2
  <2>5. \A s \in Sensors : There(s)' => There(s) BY <1>1, <1>3, <1>4, <1>8, <2>4, ThereBefore
  <2>6. ASSUME NEW s \in Sensors, NEW spec \in Specs, lastCall[s].spec = spec
        PROVE  /\ Proper(new, s, spec)
               /\ There(s)' => Kept(s, spec)' \/ After(todo', 0, Infos(s, spec))
               /\ \A n \in Range(spec) :
                     There(s)' => Settled(s, spec, n)' \/ After(todo', 0, Adds(s, spec, n))
    <3>1. Head(todo) \notin Foreign(s, spec)
      <4>1. ~ After(todo, 0, Foreign(s, spec)) BY <2>6 DEF Furnishing
      <4>2. After(todo, 0, Foreign(s, spec)) <=> Head(todo) \in Foreign(s, spec) \/ After(todo, 1, Foreign(s, spec))
        BY <1>1, <1>3, <1>8, Rest
      <4> QED BY <4>1, <4>2
    <3>2. It = s => Head(todo).spec = spec BY <1>1, <1>3, <3>1 DEF Foreign, It
    <3>3. Proper(new, s, spec)
      <4>1. None # Head(todo).spec BY <1>1, ArraysAssumption
      <4>2. new[1] \notin Foreign(s, spec) /\ new[1] \notin Early(s) BY <2>1, <3>2, <4>1 DEF Foreign, Early
      <4>3. new[2] \notin Foreign(s, spec) /\ new[2] \notin Early(s) BY <2>1, <3>2 DEF Foreign, Early
      <4> QED BY <2>2, <4>2, <4>3 DEF Proper
    <3>4. \A S : Head(todo) \notin S /\ After(todo, 0, S) => After(todo', 0, S)
      BY <1>1, <1>8, <2>6, <3>3, FurnishingRest
    <3>5. ASSUME NEW n \in Range(spec), Head(todo) \in Adds(s, spec, n)
          PROVE  After(todo', 0, Adds(s, spec, n))
      <4>1. It = s /\ Head(todo).spec = spec BY <1>1, <3>5 DEF Adds, It
      <4>2. PICK j \in Left(Head(todo)) : spec[j] = n BY <1>1, <3>5 DEF Adds
      <4>3. CASE j = i
        <5>1. new[1] \in Adds(s, spec, n) BY <2>1, <2>3, <4>1, <4>2, <4>3 DEF Adds
        <5> QED BY <1>1, <1>3, <1>8, <2>2, <5>1, Rest
      <4>4. CASE j # i
        <5>1. Len(spec) \in Nat BY ArraysAssumption, LenProperties
        <5>2. /\ j \in Head(todo).from .. Len(spec) /\ (spec[j] \in SlashNames) = Head(todo).slash
              /\ i \in Head(todo).from .. Len(spec)
          BY <4>1, <4>2 DEF Left
        <5>3. i <= j BY <1>8
        <5>4. j \in i + 1 .. Len(spec) BY <1>1, <4>4, <5>1, <5>2, <5>3
        <5>5. j \in Left(new[2]) BY <2>1, <4>1, <5>2, <5>4 DEF Left
        <5>6. new[2] \in Adds(s, spec, n) BY <2>1, <2>3, <4>1, <4>2, <5>5 DEF Adds
        <5> QED BY <1>1, <1>3, <1>8, <2>2, <5>6, Rest
      <4> QED BY <4>3, <4>4
    <3>6. There(s) => Kept(s, spec) \/ After(todo, 0, Infos(s, spec)) BY <2>6 DEF Furnishing
    <3>7. \A n \in Range(spec) : There(s) => Settled(s, spec, n) \/ After(todo, 0, Adds(s, spec, n))
      BY <2>6 DEF Furnishing
    <3> QED BY <1>6, <2>5, <3>3, <3>4, <3>5, <3>6, <3>7
  <2> QED BY <1>1, <1>2, <1>5, <1>8, <2>5, <2>6, FurnishingBy
<1> QED BY <1>7, <1>8, ElementNew
--------------------------------------------------------------------------------
LEMMA FurnishingCreate ==
    ASSUME IInv, Furnishing, Create
    PROVE  Furnishing'
<1>1. /\ todo # << >> /\ Head(todo).op = "create" /\ Done /\ It \in Sensors
      /\ UNCHANGED <<itemCount, items, infospec, lastCall>>
      /\ \/ UNCHANGED <<cliendId, gDeviceCount>>
         \/ It \notin Table /\ gDeviceCount < MaxDevices
            /\ cliendId' = [cliendId EXCEPT ![gDeviceCount] = It] /\ gDeviceCount' = gDeviceCount + 1
  <2>1. gDeviceCount \in Nat /\ MaxDevices \in Nat BY SizesAssumption DEF IInv, TypeOK
  <2> QED BY <2>1, HeadTyped DEF Create, Run, IInv
<1>2. Head(todo) \in Instructions BY <1>1, TodoFacts DEF IInv
<1> DEFINE new == << >>
<1>3. /\ new \in Seq(Instructions) /\ todo' = new \o Tail(todo) /\ 1 .. Len(new) = {}
      /\ \A s, spec : Proper(new, s, spec)
  BY <1>1, DoneProper, EmptySeq
<1> HIDE DEF new
<1>4. ~Half /\ ~Half'
  <2>1. \A k \in 1 .. Len(new) : new[k].op # "second" BY <1>3
  <2> QED BY <1>1, <1>3, <2>1, NotHalfNext DEF Half
<1>5. EachStored' BY <1>1, <1>4 DEF EachStored, HalfAt, Furnishing
<1>6. /\ Table' \subseteq Table \cup {It}
      /\ \A s \in Table : s \in Table' /\ IndexOf(s)' = IndexOf(s)
  <2>1. CASE UNCHANGED <<cliendId, gDeviceCount>> BY <2>1 DEF Table, IndexOf
  <2>2. CASE /\ It \notin Table /\ gDeviceCount < MaxDevices
             /\ cliendId' = [cliendId EXCEPT ![gDeviceCount] = It] /\ gDeviceCount' = gDeviceCount + 1
    <3>1. gDeviceCount \in Slots /\ gDeviceCount \in Nat /\ 0 .. gDeviceCount - 1 \subseteq Slots
          /\ cliendId \in [Slots -> Sensors \cup {Gateway, None}]
      BY <2>2, SizesAssumption DEF IInv, TypeOK, Slots
    <3>2. /\ \A d \in 0 .. gDeviceCount - 1 : cliendId'[d] = cliendId[d]
          /\ cliendId'[gDeviceCount] = It
          /\ 0 .. gDeviceCount' - 1 = (0 .. gDeviceCount - 1) \cup {gDeviceCount}
      BY <2>2, <3>1
    <3>3. Table' \subseteq Table \cup {It} /\ Table \subseteq Table' BY <3>2 DEF Table
    <3>4. ASSUME NEW s \in Table
          PROVE  IndexOf(s)' = IndexOf(s)
      <4>1. s # It BY <2>2
      <4>2. \A d : d \in 0 .. gDeviceCount' - 1 /\ cliendId'[d] = s
                     <=> d \in 0 .. gDeviceCount - 1 /\ cliendId[d] = s
        BY <3>2, <4>1
      <4>3. IndexOf(s)' = CHOOSE d \in 0 .. gDeviceCount' - 1 : cliendId'[d] = s BY DEF IndexOf
      <4>4. IndexOf(s) \in 0 .. gDeviceCount - 1 /\ cliendId[IndexOf(s)] = s BY IndexFacts DEF IInv
      <4>5. IndexOf(s)' \in 0 .. gDeviceCount' - 1 /\ cliendId'[IndexOf(s)'] = s BY <4>2, <4>3, <4>4
      <4>6. IndexOf(s)' \in 0 .. gDeviceCount - 1 /\ cliendId[IndexOf(s)'] = s BY <4>2, <4>5
      <4> QED BY <4>4, <4>6 DEF IInv, Ids
    <3> QED BY <3>3, <3>4
  <2> QED BY <1>1, <2>1, <2>2
<1>7. Head(todo) \in Creates(It) /\ Head(todo) \in Early(It) BY <1>1, <1>2 DEF Creates, Early, It
<1>8. TypeOK BY DEF IInv
<1>9. ASSUME NEW s \in Sensors
      PROVE  There(s)' => There(s)
  <2>1. After(todo', 0, Creates(s)) => After(todo, 1, Creates(s))
    <3>1. ~ \E k \in 1 .. Len(new) : new[k] \in Creates(s) BY <1>3
    <3> QED BY <1>1, <1>3, <1>8, <3>1, Rest
  <2>2. After(todo, 0, Creates(s)) <=> Head(todo) \in Creates(s) \/ After(todo, 1, Creates(s))
    BY <1>1, <1>3, <1>8, Rest
  <2>3. s = It => After(todo, 0, Creates(s)) BY <1>7, <2>2
  <2>4. There(s)' <=> s \in Table' \/ After(todo', 0, Creates(s)) BY DEF There
  <2> QED BY <1>6, <2>1, <2>2, <2>3, <2>4 DEF There
<1>10. ASSUME NEW s \in Sensors, NEW spec \in Specs, lastCall[s].spec = spec
       PROVE  /\ There(s)' => Kept(s, spec)' \/ After(todo', 0, Infos(s, spec))
              /\ \A n \in Range(spec) :
                    There(s)' => Settled(s, spec, n)' \/ After(todo', 0, Adds(s, spec, n))
  <2>1. /\ \A S : Head(todo) \notin S /\ After(todo, 0, S) => After(todo', 0, S)
        /\ Head(todo) \in Early(s) =>
              After(todo', 0, Infos(s, spec)) /\ \A n \in Range(spec) : After(todo', 0, Adds(s, spec, n))
    BY <1>1, <1>3, <1>10, FurnishingRest
  <2>2. CASE s = It BY <1>7, <2>1, <2>2
  <2>3. CASE s # It
    <3>1. Head(todo) \notin Infos(s, spec) /\ \A n : Head(todo) \notin Adds(s, spec, n)
      BY <1>1 DEF Infos, Adds
    <3>2. s \in Table => Kept(s, spec)' = Kept(s, spec) BY <1>1, <1>6 DEF Kept
    <3>3. s \in Table => \A n : Settled(s, spec, n)' = Settled(s, spec, n)
      BY <1>1, <1>6 DEF Settled, Stored, Same
    <3>4. There(s) => Kept(s, spec) \/ After(todo, 0, Infos(s, spec)) BY <1>10 DEF Furnishing
    <3>5. \A n \in Range(spec) : There(s) => Settled(s, spec, n) \/ After(todo, 0, Adds(s, spec, n))
      BY <1>10 DEF Furnishing
    <3>6. (Kept(s, spec) => s \in Table) /\ \A n : Settled(s, spec, n) => s \in Table BY DEF Kept, Settled
    <3>7. There(s)' => Kept(s, spec)' \/ After(todo', 0, Infos(s, spec)) BY <1>9, <2>1, <3>1, <3>2, <3>4, <3>6
    <3>8. ASSUME NEW n \in Range(spec), There(s)'
          PROVE  Settled(s, spec, n)' \/ After(todo', 0, Adds(s, spec, n))
      BY <1>9, <2>1, <3>1, <3>3, <3>5, <3>6, <3>8
    <3> QED BY <3>7, <3>8
  <2> QED BY <2>2, <2>3
<1> QED BY <1>1, <1>3, <1>5, <1>9, <1>10, FurnishingBy

\* Which item the instruction at the head adds for the last array.
LEMMA HeadAdds ==
    ASSUME IInv, todo # << >>, Head(todo).op \in {"add", "second"},
           NEW s \in Sensors, NEW spec \in Specs, Head(todo) \notin Foreign(s, spec), Head(todo) \notin Early(s)
    PROVE  /\ It = s => Head(todo).item = Item(spec, Head(todo).item.name)
           /\ \A n : Head(todo) \in Adds(s, spec, n) <=> It = s /\ n = Head(todo).item.name
<1>1. Head(todo) \in Instructions /\ Head(todo).item \in Items BY TodoFacts, HeadTyped DEF IInv
<1>2. It = s => Head(todo).item.spec = spec BY <1>1 DEF Foreign, Early, It
<1>3. It = s => Head(todo).item = Item(spec, Head(todo).item.name) BY <1>1, <1>2 DEF Items, Item
<1>4. ASSUME NEW n, Head(todo) \in Adds(s, spec, n)
      PROVE  It = s /\ n = Head(todo).item.name
  BY <1>4 DEF Adds, Item, It
<1>5. ASSUME NEW n, It = s, n = Head(todo).item.name
      PROVE  Head(todo) \in Adds(s, spec, n)
  BY <1>1, <1>3, <1>5 DEF Adds, It
<1> QED BY <1>3, <1>4, <1>5

LEMMA FurnishingNothing ==
    ASSUME IInv, Furnishing, AddNothing
    PROVE  Furnishing'
<1>1. /\ todo # << >> /\ Head(todo).op = "add" /\ Done
      /\ UNCHANGED <<entries, infospec, lastCall>>
      /\ ~Has(It, Head(todo).item.name) /\ ~Room(It, Head(todo).item.name)
  BY DEF AddNothing, Run, table, entries
<1> USE DEF entries
<1>2. Table' = Table BY <1>1 DEF Table
<1>3. EachStored'
  <2>1. ~Half BY <1>1 DEF Half
  <2>2. ~Half'
    <3>1. << >> \in Seq(Instructions) /\ todo' = << >> \o Tail(todo) /\ 1 .. Len(<< >>) = {}
      BY <1>1, NothingNew, EmptySeq DEF IInv
    <3> QED BY <1>1, <3>1, NotHalfNext
  <2> QED BY <1>1, <2>1, <2>2 DEF EachStored, HalfAt, Furnishing
<1>4. ASSUME NEW s \in Sensors, NEW spec \in Specs, lastCall[s].spec = spec, There(s)'
      PROVE  /\ Kept(s, spec)' \/ After(todo', 0, Infos(s, spec))
             /\ \A n \in Range(spec) : Settled(s, spec, n)' \/ After(todo', 0, Adds(s, spec, n))
  <2>1. /\ s \in Table \/ /\ After(todo', 0, Infos(s, spec))
                          /\ \A n \in Range(spec) : After(todo', 0, Adds(s, spec, n))
        /\ Head(todo) \notin Foreign(s, spec)
        /\ Head(todo) \in Early(s) =>
              After(todo', 0, Infos(s, spec)) /\ \A n \in Range(spec) : After(todo', 0, Adds(s, spec, n))
        /\ \A S : Head(todo) \notin S /\ After(todo, 0, S) => After(todo', 0, S)
        /\ There(s)
    BY <1>1, <1>2, <1>4, DoneRest
  <2>2. SUFFICES ASSUME s \in Table, Head(todo) \notin Early(s)
                 PROVE  /\ Kept(s, spec)' \/ After(todo', 0, Infos(s, spec))
                        /\ \A n \in Range(spec) : Settled(s, spec, n)' \/ After(todo', 0, Adds(s, spec, n))
    BY <2>1
  <2>3. Head(todo) \notin Infos(s, spec) BY <1>1 DEF Infos
  <2>4. Kept(s, spec)' <=> Kept(s, spec) BY <1>1, <1>2 DEF Kept, IndexOf
  <2>5. \A n : Settled(s, spec, n)' <=> Settled(s, spec, n) BY <1>1, <1>2 DEF Settled, Stored, Same, IndexOf
  <2>6. ASSUME NEW n \in Range(spec), Head(todo) \in Adds(s, spec, n)
        PROVE  Settled(s, spec, n)
    <3>1. It = s /\ n = Head(todo).item.name BY <1>1, <2>1, <2>2, <2>6, HeadAdds
    <3>2. Same(IndexOf(s), n) = {} BY <1>1, <2>2, <3>1 DEF Has
    <3>3. ~(itemCount[IndexOf(s)] < MaxItems) BY <1>1, <2>2, <3>1 DEF Room
    <3>4. itemCount[IndexOf(s)] \in 0 .. MaxItems BY <1>1, <2>2, <3>1, HasFacts
    <3> QED BY <2>2, <3>2, <3>3, <3>4, SizesAssumption DEF Settled
  <2>7. /\ Kept(s, spec) \/ After(todo, 0, Infos(s, spec))
        /\ \A n \in Range(spec) : Settled(s, spec, n) \/ After(todo, 0, Adds(s, spec, n))
    BY <1>4, <2>1 DEF Furnishing
  <2> QED BY <2>1, <2>3, <2>4, <2>5, <2>6, <2>7
<1> QED BY <1>1, <1>2, <1>3, <1>4, FurnishingDone

LEMMA FurnishingInfo ==
    ASSUME IInv, Furnishing, SetInfoSpec
    PROVE  Furnishing'
<1>1. /\ todo # << >> /\ Head(todo).op = "infospec" /\ Done /\ Head(todo).spec \in Specs
      /\ UNCHANGED <<entries, lastCall>>
      /\ infospec' = IF It \in Table /\ Head(todo).spec \notin Long
                     THEN [infospec EXCEPT ![IndexOf(It)] = Head(todo).spec] ELSE infospec
  BY HeadTyped DEF SetInfoSpec, Run, IInv, entries
<1> USE DEF entries
<1>2. Table' = Table BY <1>1 DEF Table
<1>3. EachStored'
  <2>1. ~Half BY <1>1 DEF Half
  <2>2. ~Half'
    <3>1. << >> \in Seq(Instructions) /\ todo' = << >> \o Tail(todo) /\ 1 .. Len(<< >>) = {}
      BY <1>1, NothingNew, EmptySeq DEF IInv
    <3> QED BY <1>1, <3>1, NotHalfNext
  <2> QED BY <1>1, <2>1, <2>2 DEF EachStored, HalfAt, Furnishing
<1>4. Head(todo) \in Instructions BY <1>1, TodoFacts DEF IInv
<1>5. ASSUME NEW s \in Sensors, NEW spec \in Specs, lastCall[s].spec = spec, There(s)'
      PROVE  /\ Kept(s, spec)' \/ After(todo', 0, Infos(s, spec))
             /\ \A n \in Range(spec) : Settled(s, spec, n)' \/ After(todo', 0, Adds(s, spec, n))
  <2>1. /\ s \in Table \/ /\ After(todo', 0, Infos(s, spec))
                          /\ \A n \in Range(spec) : After(todo', 0, Adds(s, spec, n))
        /\ Head(todo) \notin Foreign(s, spec)
        /\ \A S : Head(todo) \notin S /\ After(todo, 0, S) => After(todo', 0, S)
        /\ There(s)
    BY <1>1, <1>2, <1>5, DoneRest
  <2>2. SUFFICES ASSUME s \in Table
                 PROVE  /\ Kept(s, spec)' \/ After(todo', 0, Infos(s, spec))
                        /\ \A n \in Range(spec) : Settled(s, spec, n)' \/ After(todo', 0, Adds(s, spec, n))
    BY <2>1
  <2>3. \A n : Head(todo) \notin Adds(s, spec, n) BY <1>1 DEF Adds
  <2>4. \A n : Settled(s, spec, n)' <=> Settled(s, spec, n) BY <1>1, <1>2 DEF Settled, Stored, Same, IndexOf
  <2>5. /\ Kept(s, spec) \/ After(todo, 0, Infos(s, spec))
        /\ \A n \in Range(spec) : Settled(s, spec, n) \/ After(todo, 0, Adds(s, spec, n))
    BY <1>5, <2>1 DEF Furnishing
  <2>6. IndexOf(s)' = IndexOf(s) BY <1>1 DEF IndexOf
  <2>7. IndexOf(s) \in Slots /\ cliendId[IndexOf(s)] = s BY <2>2, IndexFacts DEF IInv
  <2>8. infospec \in [Slots -> Specs \cup {None}] BY DEF IInv, TypeOK
  <2>9. Kept(s, spec)' <=> infospec'[IndexOf(s)] = spec \/ spec \in Long BY <1>2, <2>2, <2>6 DEF Kept
  <2>10. CASE It = s
    <3>1. Head(todo).spec = spec BY <1>1, <1>4, <2>1, <2>10 DEF Foreign, It
    <3>2. infospec'[IndexOf(s)] = spec \/ spec \in Long BY <1>1, <2>2, <2>7, <2>8, <2>10, <3>1
    <3> QED BY <2>1, <2>3, <2>4, <2>5, <2>9, <3>2
  <2>11. CASE It # s
    <3>1. Head(todo) \notin Infos(s, spec) BY <2>11 DEF Infos, It
    <3>2. It \in Table => IndexOf(It) # IndexOf(s)
      <4>1. It \in Table => cliendId[IndexOf(It)] = It BY IndexFacts DEF IInv
      <4> QED BY <2>7, <2>11, <4>1
    <3>3. infospec'[IndexOf(s)] = infospec[IndexOf(s)] BY <1>1, <2>7, <2>8, <3>2
    <3>4. Kept(s, spec) => Kept(s, spec)' BY <2>9, <3>3 DEF Kept
    <3> QED BY <2>1, <2>3, <2>4, <2>5, <3>1, <3>4
  <2> QED BY <2>10, <2>11
<1> QED BY <1>1, <1>2, <1>3, <1>5, FurnishingDone

\* Two sensors have two places.
LEMMA PlacesDiffer ==
    ASSUME IInv, NEW s \in Table, NEW t \in Table, s # t
    PROVE  IndexOf(s) # IndexOf(t)
<1>1. cliendId[IndexOf(s)] = s /\ cliendId[IndexOf(t)] = t BY IndexFacts DEF IInv
<1> QED BY <1>1

LEMMA FurnishingReplace ==
    ASSUME IInv, Furnishing, Replace
    PROVE  Furnishing'
<1> DEFINE item == Head(todo).item
           d == IndexOf(It)
<1>1. /\ todo # << >> /\ Head(todo).op = "add" /\ Done /\ It \in Table /\ Same(d, item.name) # {}
      /\ items' = [items EXCEPT ![d] = [i \in DOMAIN @ |-> IF i \in Same(d, item.name) THEN item ELSE @[i]]]
      /\ UNCHANGED <<gDeviceCount, cliendId, itemCount, infospec, lastCall>>
  BY DEF Replace, Run, Has
<1>2. /\ d \in Slots /\ item \in Items /\ item # None
      /\ items \in [Slots -> [0 .. MaxItems - 1 -> Items \cup {None}]]
      /\ \A e \in Slots : Stored(e) \subseteq 0 .. MaxItems - 1
      /\ \A e \in Slots : itemCount[e] \in 0 .. MaxItems
  BY <1>1, HasFacts DEF IInv, TypeOK
<1>3. Table' = Table /\ \A s : IndexOf(s)' = IndexOf(s) BY <1>1 DEF Table, IndexOf
<1> HIDE DEF item, d
<1>4. /\ \A i \in Same(d, item.name) : items'[d][i] = item
      /\ \A e \in Slots : \A i \in 0 .. MaxItems - 1 :
            ~(e = d /\ i \in Same(d, item.name)) => items'[e][i] = items[e][i]
      /\ \A e \in Slots : Same(e, item.name) \subseteq Stored(e)
      /\ \A e \in Slots : \A n : \A i \in Same(e, n) : items[e][i] # None /\ items[e][i].name = n
  <2>1. \A e, n : Same(e, n) \subseteq Stored(e) BY DEF Same
  <2>2. \A e, n : \A i \in Same(e, n) : items[e][i] # None /\ items[e][i].name = n BY DEF Same, Stored
  <2> QED BY <1>1, <1>2, <2>1, <2>2
<1>5. \A e \in Slots : \A i \in 0 .. MaxItems - 1 : items'[e][i] = None <=> items[e][i] = None
  BY <1>2, <1>4
<1>6. \A e \in Slots : \A i \in 0 .. itemCount[e] - 1 : i \in 0 .. MaxItems - 1
  BY <1>2, SizesAssumption
<1>7. \A e \in Slots : Stored(e)' = Stored(e) BY <1>1, <1>5, <1>6 DEF Stored
<1>8. \A e \in Slots : \A n : Same(e, n)' = Same(e, n)
  <2> SUFFICES ASSUME NEW e \in Slots, NEW n, NEW i \in Stored(e)
               PROVE  items'[e][i].name = n <=> items[e][i].name = n
    BY <1>7 DEF Same
  <2> QED BY <1>2, <1>4
<1>9. EachStored'
  <2>1. ~Half BY <1>1 DEF Half
  <2>2. ~Half'
    <3>1. << >> \in Seq(Instructions) /\ todo' = << >> \o Tail(todo) /\ 1 .. Len(<< >>) = {}
      BY <1>1, NothingNew, EmptySeq DEF IInv
    <3> QED BY <1>1, <3>1, NotHalfNext
  <2> QED BY <1>1, <1>5, <1>6, <2>1, <2>2 DEF EachStored, HalfAt, Furnishing
<1>10. ASSUME NEW s \in Sensors, NEW spec \in Specs, lastCall[s].spec = spec, There(s)'
       PROVE  /\ Kept(s, spec)' \/ After(todo', 0, Infos(s, spec))
              /\ \A n \in Range(spec) : Settled(s, spec, n)' \/ After(todo', 0, Adds(s, spec, n))
  <2>1. /\ s \in Table \/ /\ After(todo', 0, Infos(s, spec))
                          /\ \A n \in Range(spec) : After(todo', 0, Adds(s, spec, n))
        /\ Head(todo) \notin Foreign(s, spec)
        /\ Head(todo) \in Early(s) =>
              After(todo', 0, Infos(s, spec)) /\ \A n \in Range(spec) : After(todo', 0, Adds(s, spec, n))
        /\ \A S : Head(todo) \notin S /\ After(todo, 0, S) => After(todo', 0, S)
        /\ There(s)
    BY <1>1, <1>3, <1>10, DoneRest
  <2>2. SUFFICES ASSUME s \in Table, Head(todo) \notin Early(s)
                 PROVE  /\ Kept(s, spec)' \/ After(todo', 0, Infos(s, spec))
                        /\ \A n \in Range(spec) : Settled(s, spec, n)' \/ After(todo', 0, Adds(s, spec, n))
    BY <2>1
  <2>3. Head(todo) \notin Infos(s, spec) BY <1>1 DEF Infos
  <2>4. Kept(s, spec)' <=> Kept(s, spec) BY <1>1, <1>3 DEF Kept
  <2>5. IndexOf(s) \in Slots /\ (It # s => IndexOf(s) # d) BY <1>1, <2>2, IndexFacts, PlacesDiffer DEF IInv, d
  <2>6. ASSUME NEW n \in Range(spec), Settled(s, spec, n), ~(It = s /\ n = item.name)
        PROVE  Settled(s, spec, n)'
    <3>0. PICK e \in Slots : e = IndexOf(s) BY <2>5
    <3>1. CASE itemCount[e] = MaxItems /\ Same(e, n) = {}
      BY <1>1, <1>3, <1>8, <2>2, <3>0, <3>1 DEF Settled
    <3>2. ASSUME NEW i \in Stored(e), items[e][i] = Item(spec, n)
          PROVE  Settled(s, spec, n)'
      <4>1. items[e][i].name = n BY <3>2 DEF Item
      <4>2. ~(e = d /\ i \in Same(d, item.name))
        <5>1. e = d => It = s BY <2>5, <3>0
        <5> QED BY <1>2, <1>4, <2>6, <4>1, <5>1
      <4>3. items'[e][i] = Item(spec, n) BY <1>2, <1>4, <3>2, <4>2
      <4>4. \E j \in Stored(e)' : items'[e][j] = Item(spec, n) BY <1>7, <3>2, <4>3
      <4> QED BY <1>3, <2>2, <3>0, <4>4 DEF Settled
    <3> QED BY <2>6, <3>0, <3>1, <3>2 DEF Settled
  <2>7. ASSUME NEW n \in Range(spec), It = s, n = item.name
        PROVE  Settled(s, spec, n)'
    <3>1. item = Item(spec, n) BY <1>1, <2>1, <2>2, <2>7, HeadAdds DEF item
    <3>2. PICK i \in Same(d, n) : TRUE BY <1>1, <2>7
    <3>3. items'[d][i] = Item(spec, n) BY <1>4, <2>7, <3>1
    <3>4. PICK e \in Slots : e = d BY <1>2
    <3>5. i \in Stored(e)' BY <1>2, <1>4, <1>7, <2>7, <3>4
    <3>6. e = IndexOf(s)' BY <1>3, <2>7, <3>4 DEF d
    <3> QED BY <2>2, <1>3, <3>3, <3>4, <3>5, <3>6 DEF Settled
  <2>8. \A n : Head(todo) \in Adds(s, spec, n) <=> It = s /\ n = item.name
    BY <1>1, <2>1, <2>2, HeadAdds DEF item
  <2>9. /\ Kept(s, spec) \/ After(todo, 0, Infos(s, spec))
        /\ \A n \in Range(spec) : Settled(s, spec, n) \/ After(todo, 0, Adds(s, spec, n))
    BY <1>10, <2>1 DEF Furnishing
  <2>10. ASSUME NEW n \in Range(spec)
         PROVE  Settled(s, spec, n)' \/ After(todo', 0, Adds(s, spec, n))
    BY <2>1, <2>6, <2>7, <2>8, <2>9
  <2> QED BY <2>1, <2>3, <2>4, <2>9, <2>10
<1> QED BY <1>1, <1>3, <1>9, <1>10, FurnishingDone

LEMMA FurnishingAppend1 ==
    ASSUME IInv, Furnishing, NEW first \in {"count", "item"}, Append1(first)
    PROVE  Furnishing'
<1>1. PICK d, at, item : d = IndexOf(It) /\ at = itemCount[d] /\ item = Head(todo).item OBVIOUS
<1>2. UNCHANGED <<gDeviceCount, cliendId, infospec, lastCall>> BY DEF Append1, Run
<1>3. /\ todo # << >> /\ Head(todo).op = "add" /\ It \in Table
      /\ d \in Slots /\ item \in Items /\ at \in 0 .. MaxItems - 1 /\ at \in Nat
      /\ itemCount \in [Slots -> 0 .. MaxItems] /\ itemCount' \in [Slots -> 0 .. MaxItems]
      /\ \A i \in 0 .. MaxItems - 1 : itemCount[d] <= i => items[d][i] = None
  BY <1>1, Append1Facts
<1>4. /\ itemCount'[d] \in {at, at + 1}
      /\ \A e \in Slots : \A i \in 0 .. MaxItems - 1 :
            ~(e = d /\ i = at) => items'[e][i] = items[e][i]
      /\ \A e \in Slots : e # d => itemCount'[e] = itemCount[e]
      /\ first = "count" => items' = items
      /\ first = "item" => itemCount' = itemCount
  BY <1>1, Append1Facts
<1>5. \A e \in Slots : \A i : HalfAt(e, i)' <=> e = d /\ i = at BY <1>1, Append1Facts
<1>6. TypeOK /\ ~Half /\ Head(todo) \in Instructions BY <1>3, TodoFacts DEF IInv, Half
<1>7. Table' = Table /\ \A s : IndexOf(s)' = IndexOf(s) BY <1>2 DEF Table, IndexOf
<1>8. \A e \in Slots : itemCount[e] <= itemCount'[e] BY <1>1, <1>3, <1>4
<1>9. EachStored'
  <2> SUFFICES ASSUME NEW e \in Slots, NEW i \in 0 .. itemCount'[e] - 1
               PROVE  items'[e][i] = None <=> e = d /\ i = at
    BY <1>5 DEF EachStored
  <2>1. i \in 0 .. MaxItems - 1 /\ i < itemCount'[e] BY <1>3, SizesAssumption
  <2>2. CASE e = d /\ i = at
    <3>1. first = "count" BY <1>1, <1>3, <1>4, <2>1, <2>2
    <3> QED BY <1>1, <1>3, <1>4, <2>1, <2>2, <3>1
  <2>3. CASE ~(e = d /\ i = at)
    <3>1. i < itemCount[e] BY <1>1, <1>3, <1>4, <2>1, <2>3
    <3>2. i \in 0 .. itemCount[e] - 1 BY <1>3, <2>1, <3>1
    <3>3. items[e][i] # None BY <1>6, <3>2 DEF EachStored, HalfAt, Furnishing
    <3> QED BY <1>4, <2>1, <2>3, <3>3
  <2> QED BY <2>2, <2>3
<1> DEFINE second == [op |-> "second", id |-> It, item |-> Head(todo).item, at |-> itemCount[IndexOf(It)]]
           new == << second >>
<1>10. new \in Seq(Instructions) /\ todo' = new \o Tail(todo) BY SecondNew
<1>11. Len(new) = 1 /\ new[1] = second /\ second.op = "second" /\ second.id = It /\ second.item = item
  BY <1>1
<1>12. 1 .. Len(new) = {1} /\ 1 \in 1 .. Len(new) BY <1>11
<1> HIDE DEF second, new
<1>13. new[1].op = "second" /\ new[1].id = It /\ new[1].item = item /\ new[1] \in Instructions
  BY <1>10, <1>11, <1>12, ElementOfSeq
<1>14. \A s \in Sensors : There(s)' => There(s)
  <2>1. \A k \in 1 .. Len(new) : new[k].op # "create" BY <1>12, <1>13
  <2> QED BY <1>3, <1>6, <1>7, <1>10, <2>1, ThereBefore
<1>15. ASSUME NEW s \in Sensors, NEW spec \in Specs, lastCall[s].spec = spec
       PROVE  /\ Proper(new, s, spec)
              /\ There(s)' => Kept(s, spec)' \/ After(todo', 0, Infos(s, spec))
              /\ \A n \in Range(spec) :
                    There(s)' => Settled(s, spec, n)' \/ After(todo', 0, Adds(s, spec, n))
  <2>1. Head(todo) \notin Foreign(s, spec)
    <3>1. ~ After(todo, 0, Foreign(s, spec)) BY <1>15 DEF Furnishing
    <3>2. After(todo, 0, Foreign(s, spec)) <=> Head(todo) \in Foreign(s, spec) \/ After(todo, 1, Foreign(s, spec))
      BY <1>3, <1>6, <1>10, Rest
    <3> QED BY <3>1, <3>2
  <2>2. Proper(new, s, spec)
    <3>1. It = s => item.spec \in {None, spec} BY <1>1, <1>3, <1>6, <2>1 DEF Foreign, It
    <3>2. new[1] \notin Foreign(s, spec) BY <1>13, <3>1 DEF Foreign
    <3>3. new[1] \in Early(s) => Head(todo) \in Early(s) BY <1>1, <1>3, <1>6, <1>13 DEF Early, It
    <3> QED BY <1>12, <3>2, <3>3 DEF Proper
  <2>3. \A S : Head(todo) \notin S /\ After(todo, 0, S) => After(todo', 0, S)
    BY <1>3, <1>10, <1>15, <2>2, FurnishingRest
  <2>4. Head(todo) \notin Infos(s, spec) BY <1>3 DEF Infos
  <2>5. Kept(s, spec)' <=> Kept(s, spec) BY <1>2, <1>7 DEF Kept
  <2>6. ASSUME NEW n, Head(todo) \in Adds(s, spec, n)
        PROVE  After(todo', 0, Adds(s, spec, n))
    <3>1. new[1] \in Adds(s, spec, n) BY <1>1, <1>3, <1>13, <2>6 DEF Adds, It
    <3> QED BY <1>3, <1>6, <1>10, <1>12, <3>1, Rest
  <2>7. ASSUME NEW n, Settled(s, spec, n)
        PROVE  Settled(s, spec, n)'
    <3>1. s \in Table BY <2>7 DEF Settled
    <3>2. PICK e \in Slots : e = IndexOf(s) BY <1>6, <3>1, IndexFacts
    <3>3. ASSUME NEW i \in Stored(e), items[e][i] = Item(spec, n)
          PROVE  Settled(s, spec, n)'
      <4>1. i \in 0 .. itemCount[e] - 1 /\ items[e][i] # None BY DEF Stored
      <4>2. i \in 0 .. MaxItems - 1 /\ i \in 0 .. itemCount'[e] - 1 /\ ~(e = d /\ i = at)
        BY <1>1, <1>3, <1>8, <4>1, SizesAssumption
      <4>3. items'[e][i] = items[e][i] BY <1>4, <4>2
      <4>4. i \in Stored(e)' BY <4>1, <4>2, <4>3 DEF Stored
      <4> QED BY <1>7, <3>1, <3>2, <3>3, <4>3, <4>4 DEF Settled
    <3>4. CASE itemCount[e] = MaxItems /\ Same(e, n) = {}
      <4>1. e # d BY <1>1, <1>3, <3>4, SizesAssumption
      <4>2. itemCount'[e] = MaxItems BY <1>4, <3>4, <4>1
      <4>3. \A i \in 0 .. MaxItems - 1 : items'[e][i] = items[e][i] BY <1>4, <4>1
      <4>4. Stored(e)' = Stored(e) BY <3>4, <4>2, <4>3 DEF Stored
      <4>5. \A i \in Stored(e) : items'[e][i] = items[e][i] BY <3>4, <4>3 DEF Stored
      <4>6. Same(e, n)' = {} BY <3>4, <4>4, <4>5 DEF Same
      <4> QED BY <1>7, <3>1, <3>2, <4>2, <4>6 DEF Settled
    <3> QED BY <2>7, <3>2, <3>3, <3>4 DEF Settled
  <2>8. There(s) => Kept(s, spec) \/ After(todo, 0, Infos(s, spec)) BY <1>15 DEF Furnishing
  <2>9. \A n \in Range(spec) : There(s) => Settled(s, spec, n) \/ After(todo, 0, Adds(s, spec, n))
    BY <1>15 DEF Furnishing
  <2>10. \A n \in Range(spec) : There(s)' => Settled(s, spec, n)' \/ After(todo', 0, Adds(s, spec, n))
    BY <1>14, <2>3, <2>6, <2>7, <2>9
  <2>11. There(s)' => Kept(s, spec)' \/ After(todo', 0, Infos(s, spec))
    BY <1>14, <2>3, <2>4, <2>5, <2>8
  <2> QED BY <2>2, <2>10, <2>11
<1>16. lastCall' = lastCall BY <1>2
<1> QED BY <1>3, <1>9, <1>10, <1>14, <1>15, <1>16, FurnishingBy

LEMMA FurnishingAppend2 ==
    ASSUME IInv, Furnishing, Append2
    PROVE  Furnishing'
<1>1. PICK d, at, item : d = IndexOf(It) /\ at = Head(todo).at /\ item = Head(todo).item OBVIOUS
<1>2. UNCHANGED <<gDeviceCount, cliendId, infospec, lastCall>> BY DEF Append2, Run
<1>3. /\ todo # << >> /\ Head(todo).op = "second" /\ Done /\ It \in Table
      /\ d \in Slots /\ at \in 0 .. MaxItems - 1 /\ item \in Items /\ item # None
      /\ itemCount \in [Slots -> 0 .. MaxItems] /\ itemCount' \in [Slots -> 0 .. MaxItems]
      /\ itemCount[d] \in {at, at + 1}
  BY <1>1, Append2Facts
<1>4. /\ items'[d][at] = item /\ itemCount'[d] = at + 1
      /\ \A e \in Slots : e # d => itemCount'[e] = itemCount[e]
      /\ \A e \in Slots : \A i \in 0 .. MaxItems - 1 :
            ~(e = d /\ i = at) => items'[e][i] = items[e][i]
  BY <1>1, Append2Facts
<1>5. \A e \in Slots : \A i : HalfAt(e, i) <=> e = d /\ i = at BY <1>1, Append2Facts
<1>6. \A e \in Slots : \A i \in 0 .. itemCount[e] - 1 : items[e][i] = None <=> e = d /\ i = at
  BY <1>5 DEF EachStored, Furnishing
<1>7. Table' = Table /\ \A s : IndexOf(s)' = IndexOf(s) BY <1>2 DEF Table, IndexOf
<1>8. \A e \in Slots : itemCount[e] <= itemCount'[e] BY <1>3, <1>4
<1>9. ~Half'
  <2>1. << >> \in Seq(Instructions) /\ todo' = << >> \o Tail(todo) /\ 1 .. Len(<< >>) = {}
    BY <1>3, NothingNew, EmptySeq DEF IInv
  <2> QED BY <1>3, <2>1, NotHalfNext
<1>10. EachStored'
  <2> SUFFICES ASSUME NEW e \in Slots, NEW i \in 0 .. itemCount'[e] - 1
               PROVE  items'[e][i] # None
    BY <1>9 DEF EachStored, HalfAt
  <2>1. i \in 0 .. MaxItems - 1 /\ i < itemCount'[e] BY <1>3, SizesAssumption
  <2>2. CASE e = d /\ i = at BY <1>3, <1>4, <2>2
  <2>3. CASE ~(e = d /\ i = at)
    <3>1. i < itemCount[e] BY <1>3, <1>4, <2>1, <2>3
    <3>2. i \in 0 .. itemCount[e] - 1 BY <1>3, <2>1, <3>1
    <3> QED BY <1>4, <1>6, <2>1, <2>3, <3>2
  <2> QED BY <2>2, <2>3
<1>11. ASSUME NEW s \in Sensors, NEW spec \in Specs, lastCall[s].spec = spec, There(s)'
       PROVE  /\ Kept(s, spec)' \/ After(todo', 0, Infos(s, spec))
              /\ \A n \in Range(spec) : Settled(s, spec, n)' \/ After(todo', 0, Adds(s, spec, n))
  <2>1. /\ s \in Table \/ /\ After(todo', 0, Infos(s, spec))
                          /\ \A n \in Range(spec) : After(todo', 0, Adds(s, spec, n))
        /\ Head(todo) \notin Foreign(s, spec)
        /\ Head(todo) \in Early(s) =>
              After(todo', 0, Infos(s, spec)) /\ \A n \in Range(spec) : After(todo', 0, Adds(s, spec, n))
        /\ \A S : Head(todo) \notin S /\ After(todo, 0, S) => After(todo', 0, S)
        /\ There(s)
    BY <1>3, <1>7, <1>11, DoneRest
  <2>2. SUFFICES ASSUME s \in Table, Head(todo) \notin Early(s)
                 PROVE  /\ Kept(s, spec)' \/ After(todo', 0, Infos(s, spec))
                        /\ \A n \in Range(spec) : Settled(s, spec, n)' \/ After(todo', 0, Adds(s, spec, n))
    BY <2>1
  <2>3. Head(todo) \notin Infos(s, spec) BY <1>3 DEF Infos
  <2>4. Kept(s, spec)' <=> Kept(s, spec) BY <1>2, <1>7 DEF Kept
  <2>5. /\ It = s => item = Item(spec, item.name)
        /\ \A n : Head(todo) \in Adds(s, spec, n) <=> It = s /\ n = item.name
    BY <1>1, <1>3, <2>1, <2>2, HeadAdds
  <2>6. PICK e \in Slots : e = IndexOf(s) BY <2>2, IndexFacts DEF IInv
  <2>7. e = d <=> It = s BY <1>1, <1>3, <2>2, <2>6, PlacesDiffer
  <2>8. ASSUME NEW n, It = s, n = item.name
        PROVE  Settled(s, spec, n)'
    <3>1. items'[d][at] = Item(spec, n) BY <1>4, <2>5, <2>8
    <3>2. at \in Stored(d)' BY <1>3, <1>4, SizesAssumption DEF Stored
    <3> QED BY <1>7, <2>2, <2>6, <2>7, <2>8, <3>1, <3>2 DEF Settled
  <2>9. ASSUME NEW n, Settled(s, spec, n), ~(It = s /\ n = item.name)
        PROVE  Settled(s, spec, n)'
    <3>1. ASSUME NEW i \in Stored(e), items[e][i] = Item(spec, n)
          PROVE  Settled(s, spec, n)'
      <4>1. i \in 0 .. itemCount[e] - 1 /\ items[e][i] # None BY DEF Stored
      <4>2. i \in 0 .. MaxItems - 1 /\ i \in 0 .. itemCount'[e] - 1 BY <1>3, <1>8, <4>1, SizesAssumption
      <4>3. items'[e][i] = items[e][i] BY <1>4, <1>6, <4>1, <4>2
      <4>4. i \in Stored(e)' BY <4>1, <4>2, <4>3 DEF Stored
      <4> QED BY <1>7, <2>2, <2>6, <3>1, <4>3, <4>4 DEF Settled
    <3>2. CASE itemCount[e] = MaxItems /\ Same(e, n) = {}
      <4>1. itemCount'[e] = MaxItems BY <1>3, <1>4, <3>2, SizesAssumption
      <4>2. ASSUME NEW i \in Stored(e)'
            PROVE  items'[e][i].name # n
        <5>1. i \in 0 .. MaxItems - 1 /\ items'[e][i] # None BY <4>1 DEF Stored
        <5>2. CASE e = d /\ i = at BY <1>4, <2>7, <2>9, <5>2
        <5>3. CASE ~(e = d /\ i = at)
          <6>1. items'[e][i] = items[e][i] BY <1>4, <5>1, <5>3
          <6>2. i \in Stored(e) BY <3>2, <5>1, <6>1 DEF Stored
          <6> QED BY <3>2, <6>1, <6>2 DEF Same
        <5> QED BY <5>2, <5>3
      <4>3. Same(e, n)' = {} BY <4>2 DEF Same
      <4> QED BY <1>7, <2>2, <2>6, <4>1, <4>3 DEF Settled
    <3> QED BY <2>6, <2>9, <3>1, <3>2 DEF Settled
  <2>10. /\ Kept(s, spec) \/ After(todo, 0, Infos(s, spec))
         /\ \A n \in Range(spec) : Settled(s, spec, n) \/ After(todo, 0, Adds(s, spec, n))
    BY <1>11, <2>1 DEF Furnishing
  <2>11. ASSUME NEW n \in Range(spec)
         PROVE  Settled(s, spec, n)' \/ After(todo', 0, Adds(s, spec, n))
    BY <2>1, <2>5, <2>8, <2>9, <2>10
  <2> QED BY <2>1, <2>3, <2>4, <2>10, <2>11
<1>12. lastCall' = lastCall BY <1>2
<1> QED BY <1>3, <1>7, <1>10, <1>11, <1>12, FurnishingDone

LEMMA FurnishingStep ==
    ASSUME IInv, Furnishing, Instruction
    PROVE  Furnishing'
<1>1. todo # << >> /\ lastCall' = lastCall BY DEF Instruction, Create, SensorInit, NextElement,
         Replace, Append1, Append2, AddNothing, ConnectionStatus, GetTopology, PublishDeviceInfo,
         PublishSensor, Subscribe, Republish, SetInfoSpec, Run
<1> USE DEF Run, table, entries
<1>2. CASE \/ ConnectionStatus("connect", TRUE) \/ ConnectionStatus("disconnect", FALSE)
           \/ GetTopology \/ PublishDeviceInfo \/ Subscribe
           \/ PublishSensor("connected") \/ PublishSensor("disconnected")
  <2>1. /\ Done /\ UNCHANGED <<entries, infospec, lastCall>>
        /\ Head(todo).op \in {"connect", "disconnect", "topology", "deviceinfo", "subscribe",
                              "connected", "disconnected"}
    BY <1>2 DEF ConnectionStatus, GetTopology, PublishDeviceInfo, Subscribe, PublishSensor
  <2> DEFINE new == << >>
  <2>2. new \in Seq(Instructions) /\ todo' = new \o Tail(todo) BY <1>1, <2>1, NothingNew DEF IInv
  <2>3. 1 .. Len(new) = {} BY EmptySeq
  <2> HIDE DEF new
  <2>4. ~ Furnishes(Head(todo).op) BY <2>1 DEF Furnishes
  <2> QED BY <1>1, <2>1, <2>2, <2>3, <2>4, FurnishingQuiet
<1>3. CASE SensorInit
  <2>1. Head(todo).op = "defaults" /\ UNCHANGED <<entries, infospec, lastCall>> BY <1>3 DEF SensorInit
  <2>2. PICK new \in Seq(Instructions) :
              /\ todo' = new \o Tail(todo)
              /\ \A k \in 1 .. Len(new) : new[k].op = "add" /\ new[k].id = It /\ new[k].item.spec = None
    BY <1>3, DefaultsNew
  <2>3. ~ Furnishes(Head(todo).op) BY <2>1 DEF Furnishes
  <2> QED BY <1>1, <2>1, <2>2, <2>3, FurnishingQuiet
<1>4. CASE Republish
  <2>1. Head(todo).op = "republish" /\ UNCHANGED <<entries, infospec, lastCall>> BY <1>4 DEF Republish
  <2>2. PICK new \in Seq(Instructions) :
              /\ todo' = new \o Tail(todo)
              /\ \A k \in 1 .. Len(new) : new[k].op \in {"connected", "subscribe", "republish"}
    BY <1>4, RoundNew
  <2>3. ~ Furnishes(Head(todo).op) BY <2>1 DEF Furnishes
  <2>4. \A k \in 1 .. Len(new) : new[k].op \notin {"create", "items", "second", "infospec", "add", "defaults"}
    BY <2>2
  <2> QED BY <1>1, <2>1, <2>2, <2>3, <2>4, FurnishingQuiet
<1> QED BY <1>2, <1>3, <1>4, FurnishingCreate, FurnishingElement, FurnishingReplace, FurnishingAppend1,
           FurnishingAppend2, FurnishingNothing, FurnishingInfo DEF Instruction

\* Between two calls there is nothing to come.
LEMMA FurnishingIdle ==
    ASSUME Furnishing, todo = << >>, NEW s \in Sensors, s \in Table
    PROVE  /\ lastCall[s].spec \in Specs
           /\ \A spec \in Specs : lastCall[s].spec = spec =>
                 Kept(s, spec) /\ \A n \in Range(spec) : Settled(s, spec, n)
<1>1. There(s) BY DEF There
<1>2. \A S : ~ After(todo, 0, S) BY NoneLeft
<1> QED BY <1>1, <1>2 DEF Furnishing

\* A new array: all of it is still to come.
LEMMA RegisterFurnishes ==
    ASSUME NEW s \in Sensors, NEW spec \in Specs
    PROVE  LET q == RegisterScript(s, spec) IN
           /\ ~ After(q, 0, Foreign(s, spec))
           /\ Followed(q, Early(s), Infos(s, spec)) /\ After(q, 0, Infos(s, spec))
           /\ \A n \in Range(spec) : Followed(q, Early(s), Adds(s, spec, n)) /\ After(q, 0, Adds(s, spec, n))
           /\ \A u \in Sensors \ {s} : \A k \in 1 .. 10 : q[k].id # u
           /\ Len(q) = 10
<1> DEFINE q == RegisterScript(s, spec)
<1>1. /\ Len(q) = 10
      /\ q[1] = [op |-> "create", id |-> s] /\ q[2] = [op |-> "defaults", id |-> s]
      /\ q[3] = [op |-> "topology", id |-> Gateway] /\ q[4] = [op |-> "deviceinfo", id |-> Gateway]
      /\ q[5] = [op |-> "items", id |-> s, spec |-> spec, slash |-> TRUE, from |-> 1]
      /\ q[6] = [op |-> "connect", id |-> s]
      /\ q[7] = [op |-> "connected", id |-> s] /\ q[8] = [op |-> "subscribe", id |-> s]
      /\ q[9] = [op |-> "items", id |-> s, spec |-> spec, slash |-> FALSE, from |-> 1]
      /\ q[10] = [op |-> "infospec", id |-> s, spec |-> spec]
  BY RegisterIs
<1> HIDE DEF q
<1>2. /\ q[1].op = "create" /\ q[2].op = "defaults" /\ q[3].op = "topology" /\ q[4].op = "deviceinfo"
      /\ q[5].op = "items" /\ q[6].op = "connect" /\ q[7].op = "connected" /\ q[8].op = "subscribe"
      /\ q[9].op = "items" /\ q[10].op = "infospec"
  BY <1>1
<1>3. /\ q[1].id = s /\ q[2].id = s /\ q[3].id = Gateway /\ q[4].id = Gateway /\ q[5].id = s
      /\ q[6].id = s /\ q[7].id = s /\ q[8].id = s /\ q[9].id = s /\ q[10].id = s
  BY <1>1
<1>4. q[5].spec = spec /\ q[9].spec = spec /\ q[10].spec = spec BY <1>1
<1>5. \A k \in 1 .. 10 : k \in {1, 2, 3, 4, 5, 6, 7, 8, 9, 10} OBVIOUS
<1>6. q[5] \in Instructions /\ q[9] \in Instructions /\ q[10] \in Instructions
  BY <1>1 DEF Instructions
<1>7. \A k \in 1 .. 10 : q[k] \in Early(s) => k \in {1, 2} BY <1>2, <1>5 DEF Early
<1>8. \A k \in 1 .. 10 : q[k] \notin Foreign(s, spec) BY <1>2, <1>4, <1>5 DEF Foreign
<1>9. \A k \in {0, 1, 2} : After(q, k, Infos(s, spec))
  <2>1. q[10] \in Infos(s, spec) BY <1>2, <1>3, <1>4, <1>6 DEF Infos
  <2>2. \A k \in {0, 1, 2} : 10 \in k + 1 .. Len(q) BY <1>1
  <2> QED BY <2>1, <2>2 DEF After
<1>10. ASSUME NEW n \in Range(spec)
       PROVE  \A k \in {0, 1, 2} : After(q, k, Adds(s, spec, n))
  <2>1. PICK j \in 1 .. Len(spec) : spec[j] = n
    <3>1. spec \in Seq(Names) BY ArraysAssumption
    <3>2. DOMAIN spec = 1 .. Len(spec) BY <3>1, LenProperties
    <3> QED BY <3>2 DEF Range
  <2>2. q[5] \in Adds(s, spec, n) \/ q[9] \in Adds(s, spec, n)
    <3>1. CASE spec[j] \in SlashNames
      <4>1. /\ q[5].slash = TRUE /\ q[5].from = 1
            /\ Left(q[5]) = {i \in q[5].from .. Len(q[5].spec) : (q[5].spec[i] \in SlashNames) = q[5].slash}
        BY <1>1 DEF Left
      <4>2. Left(q[5]) = {i \in 1 .. Len(spec) : (spec[i] \in SlashNames) = TRUE} BY <1>4, <4>1, Zenon
      <4>3. j \in Left(q[5]) BY <3>1, <4>2, Zenon
      <4> QED BY <1>2, <1>3, <1>4, <1>6, <2>1, <4>3 DEF Adds
    <3>2. CASE spec[j] \notin SlashNames
      <4>1. /\ q[9].slash = FALSE /\ q[9].from = 1
            /\ Left(q[9]) = {i \in q[9].from .. Len(q[9].spec) : (q[9].spec[i] \in SlashNames) = q[9].slash}
        BY <1>1 DEF Left
      <4>2. Left(q[9]) = {i \in 1 .. Len(spec) : (spec[i] \in SlashNames) = FALSE} BY <1>4, <4>1, Zenon
      <4>3. (spec[j] \in SlashNames) = FALSE BY <3>2
      <4>4. j \in Left(q[9]) BY <4>2, <4>3, Zenon
      <4> QED BY <1>2, <1>3, <1>4, <1>6, <2>1, <4>4 DEF Adds
    <3> QED BY <3>1, <3>2
  <2>3. \A k \in {0, 1, 2} : 5 \in k + 1 .. Len(q) /\ 9 \in k + 1 .. Len(q) BY <1>1
  <2> QED BY <2>2, <2>3 DEF After
<1>11. ~ After(q, 0, Foreign(s, spec)) BY <1>1, <1>8 DEF After
<1>12. Followed(q, Early(s), Infos(s, spec)) BY <1>1, <1>7, <1>9 DEF Followed
<1>13. \A n \in Range(spec) : Followed(q, Early(s), Adds(s, spec, n)) BY <1>1, <1>7, <1>10 DEF Followed
<1>14. \A u \in Sensors \ {s} : \A k \in 1 .. 10 : q[k].id # u
  BY <1>3, <1>5, NamesAssumption
<1> QED BY <1>1, <1>9, <1>10, <1>11, <1>12, <1>13, <1>14 DEF q

\* Call q creates nothing and adds nothing for u.
Bare(q, u) ==
    \A k \in 1 .. Len(q) :
        q[k].id = u => q[k].op \notin {"create", "defaults", "items", "add", "second", "infospec"}

LEMMA BareFacts ==
    ASSUME NEW q, NEW u, Bare(q, u), NEW spec
    PROVE  /\ ~ After(q, 0, Creates(u)) /\ ~ After(q, 0, Foreign(u, spec))
           /\ \A S : Followed(q, Early(u), S)
<1>1. ~ After(q, 0, Creates(u)) BY DEF Bare, After, Creates
<1>2. ~ After(q, 0, Foreign(u, spec)) BY DEF Bare, After, Foreign
<1>3. \A k \in 1 .. Len(q) : q[k] \notin Early(u) BY DEF Bare, Early
<1> QED BY <1>1, <1>2, <1>3 DEF Followed

\* A call begins: the table is as the last one left it.
LEMMA BegunFurnished ==
    ASSUME IInv, Furnishing, todo = << >>, todo' \in Seq(Instructions),
           \A k \in 1 .. Len(todo') : todo'[k].op # "second", UNCHANGED <<entries, infospec>>
    PROVE  /\ EachStored'
           /\ \A s \in Sensors : Bare(todo', s) /\ There(s)' => lastCall[s].spec \in Specs
           /\ \A s \in Sensors, spec \in Specs :
                 lastCall[s].spec = spec /\ Bare(todo', s) =>
                    /\ ~ After(todo', 0, Foreign(s, spec))
                    /\ Followed(todo', Early(s), Infos(s, spec))
                    /\ There(s)' => Kept(s, spec)'
                    /\ \A n \in Range(spec) :
                          Followed(todo', Early(s), Adds(s, spec, n)) /\ (There(s)' => Settled(s, spec, n)')
<1> USE DEF entries
<1>1. Table' = Table BY DEF Table
<1>2. ~Half BY DEF Half
<1>3. ~Half'
  <2>1. ASSUME todo' # << >> PROVE Head(todo').op # "second"
    <3>1. Head(todo') = todo'[1] /\ Len(todo') \in Nat \ {0} BY <2>1, EmptySeq, HeadTailProperties
    <3> QED BY <3>1
  <2> QED BY <2>1 DEF Half
<1>4. EachStored' BY <1>2, <1>3 DEF EachStored, HalfAt, Furnishing
<1>5. ASSUME NEW s \in Sensors, Bare(todo', s), There(s)'
      PROVE  s \in Table
  <2>1. ~ After(todo', 0, Creates(s)) BY <1>5, BareFacts
  <2>2. There(s)' <=> s \in Table' \/ After(todo', 0, Creates(s)) BY DEF There
  <2> QED BY <1>1, <1>5, <2>1, <2>2
<1>6. ASSUME NEW s \in Sensors, NEW spec \in Specs
      PROVE  /\ Kept(s, spec)' <=> Kept(s, spec)
             /\ \A n : Settled(s, spec, n)' <=> Settled(s, spec, n)
  BY <1>1 DEF Kept, Settled, Stored, Same, IndexOf
<1>7. ASSUME NEW s \in Sensors, NEW spec \in Specs, lastCall[s].spec = spec, Bare(todo', s)
      PROVE  /\ ~ After(todo', 0, Foreign(s, spec))
             /\ Followed(todo', Early(s), Infos(s, spec))
             /\ There(s)' => Kept(s, spec)'
             /\ \A n \in Range(spec) :
                   Followed(todo', Early(s), Adds(s, spec, n)) /\ (There(s)' => Settled(s, spec, n)')
  <2>1. /\ ~ After(todo', 0, Foreign(s, spec))
        /\ \A S : Followed(todo', Early(s), S)
    BY <1>7, BareFacts
  <2>2. There(s)' => Kept(s, spec) /\ \A n \in Range(spec) : Settled(s, spec, n)
    BY <1>5, <1>7, FurnishingIdle
  <2> QED BY <1>6, <2>1, <2>2
<1> QED BY <1>4, <1>5, <1>7, FurnishingIdle

LEMMA FurnishingCall ==
    ASSUME IInv, Furnishing,
           \/ \E s \in Sensors, spec \in Specs : RegisterSensor(s, spec)
           \/ \E s \in Sensors : SenHubDisconnect(s) \/ SenHubReConnected(s)
           \/ Capability
    PROVE  Furnishing'
<1> USE DEF table, messages, entries
<1> DEFINE Call4 == {"none", "RegisterSensor", "SenHubDisconnect", "SenHubReConnected"}
<1>1. lastCall \in [Sensors -> [name : Call4, spec : Specs \cup {None}]] BY DEF Furnishing
<1>2. todo' \in Seq(Instructions) BY CallsKeep DEF IInv, TypeOK
<1> HIDE DEF Call4
<1>3. ASSUME NEW s \in Sensors, NEW spec \in Specs, RegisterSensor(s, spec)
      PROVE  Furnishing'
  <2>1. /\ todo = << >> /\ todo' = RegisterScript(s, spec) /\ UNCHANGED <<entries, infospec>>
        /\ lastCall' = [lastCall EXCEPT ![s] = [name |-> "RegisterSensor", spec |-> spec]]
    BY <1>3, Began, ArraysAssumption DEF RegisterSensor
  <2>2. /\ lastCall' \in [Sensors -> [name : Call4, spec : Specs \cup {None}]]
        /\ lastCall'[s].spec = spec /\ \A u \in Sensors : u # s => lastCall'[u] = lastCall[u]
    BY <1>1, <2>1 DEF Call4
  <2>3. /\ ~ After(todo', 0, Foreign(s, spec))
        /\ Followed(todo', Early(s), Infos(s, spec)) /\ After(todo', 0, Infos(s, spec))
        /\ \A n \in Range(spec) :
              Followed(todo', Early(s), Adds(s, spec, n)) /\ After(todo', 0, Adds(s, spec, n))
        /\ \A u \in Sensors \ {s} : \A k \in 1 .. 10 : todo'[k].id # u
        /\ Len(todo') = 10
    BY <2>1, RegisterFurnishes
  <2>4. \A k \in 1 .. Len(todo') : todo'[k].op # "second"
    <3>1. todo' \in Seq(CallOf(s)) BY <2>1, RegisterScriptIs
    <3>2. \A i \in CallOf(s) : i.op # "second" BY DEF CallOf
    <3> HIDE DEF CallOf
    <3> QED BY <3>1, <3>2, ElementOfSeq
  <2>5. \A u \in Sensors \ {s} : Bare(todo', u) BY <2>3 DEF Bare
  <2>6. /\ EachStored'
        /\ \A u \in Sensors : u # s /\ There(u)' => lastCall[u].spec \in Specs
        /\ \A u \in Sensors, x \in Specs :
              lastCall[u].spec = x /\ u # s =>
                 /\ ~ After(todo', 0, Foreign(u, x))
                 /\ Followed(todo', Early(u), Infos(u, x))
                 /\ There(u)' => Kept(u, x)'
                 /\ \A n \in Range(x) :
                       Followed(todo', Early(u), Adds(u, x, n)) /\ (There(u)' => Settled(u, x, n)')
    BY <1>2, <2>1, <2>4, <2>5, BegunFurnished
  <2>7. \A u \in Sensors : There(u)' => lastCall'[u].spec \in Specs BY <2>2, <2>6
  <2>8. ASSUME NEW u \in Sensors, NEW x \in Specs, lastCall'[u].spec = x
        PROVE  /\ ~ After(todo', 0, Foreign(u, x))
               /\ Followed(todo', Early(u), Infos(u, x))
               /\ There(u)' => Kept(u, x)' \/ After(todo', 0, Infos(u, x))
               /\ \A n \in Range(x) :
                     /\ Followed(todo', Early(u), Adds(u, x, n))
                     /\ There(u)' => Settled(u, x, n)' \/ After(todo', 0, Adds(u, x, n))
    <3>1. CASE u = s BY <2>2, <2>3, <2>8, <3>1
    <3>2. CASE u # s BY <2>2, <2>6, <2>8, <3>2
    <3> QED BY <3>1, <3>2
  <2> QED BY <2>2, <2>6, <2>7, <2>8 DEF Furnishing, Call4
<1>4. ASSUME todo = << >>, UNCHANGED <<entries, infospec>>,
             lastCall' \in [Sensors -> [name : Call4, spec : Specs \cup {None}]],
             \A u \in Sensors : lastCall'[u].spec = lastCall[u].spec,
             \A k \in 1 .. Len(todo') :
                todo'[k].op \in {"disconnect", "connect", "topology", "deviceinfo", "connected",
                                 "disconnected", "subscribe", "republish"}
      PROVE  Furnishing'
  <2>1. \A k \in 1 .. Len(todo') :
           todo'[k].op \notin {"create", "defaults", "items", "add", "second", "infospec"}
    BY <1>4
  <2>2. \A u \in Sensors : Bare(todo', u) BY <2>1 DEF Bare
  <2>3. /\ EachStored'
        /\ \A u \in Sensors : There(u)' => lastCall[u].spec \in Specs
        /\ \A u \in Sensors, x \in Specs :
              lastCall[u].spec = x =>
                 /\ ~ After(todo', 0, Foreign(u, x))
                 /\ Followed(todo', Early(u), Infos(u, x))
                 /\ There(u)' => Kept(u, x)'
                 /\ \A n \in Range(x) :
                       Followed(todo', Early(u), Adds(u, x, n)) /\ (There(u)' => Settled(u, x, n)')
    BY <1>2, <1>4, <2>1, <2>2, BegunFurnished
  <2> QED BY <1>4, <2>3 DEF Furnishing, Call4
<1>5. ASSUME NEW s \in Sensors, SenHubDisconnect(s) \/ SenHubReConnected(s)
      PROVE  Furnishing'
  <2> DEFINE on == Do("connect", s) \o PublishInterfaceDeviceInfo \o PublishSensorConnect(s)
             off == Do("disconnect", s) \o PublishInterfaceDeviceInfo \o PublishSensorDisconnect(s)
  <2>1. Call("SenHubDisconnect", s, None, off) \/ Call("SenHubReConnected", s, None, on)
    BY <1>5 DEF SenHubDisconnect, SenHubReConnected
  <2> HIDE DEF on, off
  <2>2. PICK name, script :
           /\ name \in {"SenHubDisconnect", "SenHubReConnected"}
           /\ script = on \/ script = off
           /\ Call(name, s, None, script)
    BY <2>1
  <2>3. /\ todo = << >> /\ todo' = script /\ UNCHANGED <<entries, infospec>>
        /\ lastCall' = [lastCall EXCEPT ![s] = [name |-> name, spec |-> @.spec]]
    BY <2>2, Began
  <2>4. /\ lastCall' \in [Sensors -> [name : Call4, spec : Specs \cup {None}]]
        /\ \A u \in Sensors : lastCall'[u].spec = lastCall[u].spec
    BY <1>1, <2>2, <2>3 DEF Call4
  <2>5. /\ Len(script) = 5
        /\ \A k \in 1 .. 5 : script[k].op \in {"disconnect", "connect", "topology", "deviceinfo",
                                               "connected", "disconnected", "subscribe"}
    BY <2>2, StatusScriptIs DEF on, off
  <2>6. \A k \in 1 .. Len(todo') :
           todo'[k].op \in {"disconnect", "connect", "topology", "deviceinfo", "connected",
                            "disconnected", "subscribe", "republish"}
    BY <2>3, <2>5
  <2> QED BY <1>4, <2>3, <2>4, <2>6
<1>6. CASE Capability
  <2>1. /\ todo = << >> /\ todo' \in {<< >>, PublishInterfaceDeviceInfo \o RepublishFrom(1)}
        /\ UNCHANGED <<entries, infospec, lastCall>>
    BY <1>6 DEF Capability
  <2>2. \A k \in 1 .. Len(todo') : todo'[k].op \in {"topology", "deviceinfo", "republish"}
    BY <2>1, CapabilityIs
  <2>3. \A k \in 1 .. Len(todo') :
           todo'[k].op \in {"disconnect", "connect", "topology", "deviceinfo", "connected",
                            "disconnected", "subscribe", "republish"}
    BY <2>2
  <2>4. lastCall' \in [Sensors -> [name : Call4, spec : Specs \cup {None}]] /\ lastCall' = lastCall
    BY <1>1, <2>1
  <2> QED BY <1>4, <2>1, <2>3, <2>4
<1> QED BY <1>3, <1>5, <1>6

LEMMA FurnishingElse ==
    ASSUME Furnishing, UNCHANGED <<entries, infospec, todo, lastCall>>
    PROVE  Furnishing'
<1> USE DEF entries
<1>1. Table' = Table BY DEF Table
<1>2. EachStored' <=> EachStored BY DEF EachStored, HalfAt, Half
<1>3. \A s : There(s)' <=> There(s) BY <1>1 DEF There
<1>4. \A s, spec : Kept(s, spec)' <=> Kept(s, spec) BY <1>1 DEF Kept, IndexOf
<1>5. \A s, spec, n : Settled(s, spec, n)' <=> Settled(s, spec, n)
  BY <1>1 DEF Settled, Stored, Same, IndexOf
<1> QED BY <1>2, <1>3, <1>4, <1>5 DEF Furnishing
--------------------------------------------------------------------------------
LEMMA InitSettled == Init => Listing /\ Furnishing
<1> SUFFICES ASSUME Init PROVE Listing /\ Furnishing OBVIOUS
<1> USE DEF Init
<1>1. \A S : ~ After(todo, 0, S) BY NoneLeft
<1>2. \A E, S : Followed(todo, E, S) BY DEF Followed
<1>3. 0 \in Slots BY SizesAssumption DEF Slots
<1>4. Table = {Gateway} BY <1>3 DEF Table
<1>5. \A s \in Sensors : ~ There(s) BY <1>1, <1>4, NamesAssumption DEF There
<1>6. EachStored BY DEF EachStored
<1>7. lastCall \in [Sensors -> [name : {"none", "RegisterSensor", "SenHubDisconnect", "SenHubReConnected"},
                                spec : Specs \cup {None}]]
  OBVIOUS
<1>8. Furnishing BY <1>1, <1>2, <1>5, <1>6, <1>7 DEF Furnishing
<1>9. Connected = {} /\ gIf_SenHublist = {} /\ \A d \in Slots : ~connection[d] BY DEF Connected
<1> QED BY <1>2, <1>8, <1>9 DEF Listing

LEMMA NextSettled == IInv /\ Listing /\ Furnishing /\ [Next]_vars => Listing' /\ Furnishing'
<1> SUFFICES ASSUME IInv, Listing, Furnishing, [Next]_vars PROVE Listing' /\ Furnishing' OBVIOUS
<1>1. CASE Instruction BY <1>1, ListingStep, FurnishingStep
<1>2. CASE \/ \E s \in Sensors, spec \in Specs : RegisterSensor(s, spec)
           \/ \E s \in Sensors : SenHubDisconnect(s) \/ SenHubReConnected(s)
           \/ Capability
  BY <1>2, ListingCall, FurnishingCall
<1>3. CASE \/ \E s \in Sensors, n \in Names : FindDevice(s, n)
           \/ Search \/ Lose \/ ComeBack \/ UNCHANGED vars
           \/ \E s \in Sensors \cup {Gateway} : AskCapability(s)
  <2>1. UNCHANGED <<table, gIf_SenHublist, todo, lastCall>>
    BY <1>3 DEF FindDevice, Search, AskCapability, Lose, ComeBack, messages, vars
  <2> QED BY <2>1, ListingElse, FurnishingElse DEF table, entries
<1> QED BY <1>1, <1>2, <1>3 DEF Next

THEOREM SettledInvariant == Spec => [](Listing /\ Furnishing)
<1>1. IInv /\ (Listing /\ Furnishing) /\ [Next]_vars => (Listing /\ Furnishing)' BY NextSettled
<1> QED BY <1>1, InitSettled, Invariant, PTL DEF Spec

\* Whatever was registered, disconnected and reconnected, the list of connected sensors
\* is right when the application has no call under way: GetSensorList and GetTopology
\* come after the status in every call but WiseSnail_RegisterSensor.
THEOREM ListIsRight == Spec => []ListRight
<1>1. Listing => ListRight BY NoneLeft DEF Listing, ListRight, Returned
<1> QED BY <1>1, SettledInvariant, PTL

\* However often a sensor was registered again, with whatever arrays, and whatever the
\* default items and the array sizes, WiseSnail_RegisterSensor leaves no half-made item,
\* each name with the last array's item, and the last array's capability.
THEOREM NewestIsKept == Spec => []NewestArray
<1>1. IInv /\ Furnishing => NewestArray
  <2> SUFFICES ASSUME IInv, Furnishing, Returned, NEW s \in Table \cap Sensors
               PROVE  LET d == IndexOf(s)  spec == lastCall[s].spec IN
                      /\ Stored(d) = 0 .. itemCount[d] - 1
                      /\ \A n \in Range(spec) :
                            \/ \E i \in Stored(d) : items[d][i] = Item(spec, n)
                            \/ itemCount[d] = MaxItems /\ Same(d, n) = {}
                      /\ infospec[d] = spec \/ spec \in Long
    BY DEF NewestArray
  <2>1. todo = << >> BY DEF Returned
  <2>2. IndexOf(s) \in Slots BY IndexFacts DEF IInv
  <2>3. PICK spec \in Specs : lastCall[s].spec = spec BY <2>1, FurnishingIdle
  <2>4. Kept(s, spec) /\ \A n \in Range(spec) : Settled(s, spec, n) BY <2>1, <2>3, FurnishingIdle
  <2>5. \A i \in 0 .. itemCount[IndexOf(s)] - 1 : items[IndexOf(s)][i] # None
    BY <2>1, <2>2 DEF Furnishing, EachStored, HalfAt, Half
  <2>6. Stored(IndexOf(s)) = 0 .. itemCount[IndexOf(s)] - 1 BY <2>5 DEF Stored
  <2> QED BY <2>3, <2>4, <2>6 DEF Kept, Settled
<1> QED BY <1>1, Invariant, SettledInvariant, PTL

LEMMA Instructing == ASSUME Instruction PROVE todo # << >>
BY DEF Instruction, Create, SensorInit, NextElement, Replace, Append2, AddNothing, Append1,
       ConnectionStatus, GetTopology, PublishDeviceInfo, PublishSensor, Subscribe, Republish,
       SetInfoSpec, Run

\* With no call under way the receive thread finds an item in every entry it looks at,
\* however many commands come and whatever the application did before: a pointer that
\* points nowhere is followed only while a call is adding an item or publishing.
THEOREM CrashesOnlyInCalls == Spec => CrashOnlyInCalls
<1>1. IInv /\ Furnishing /\ [Next]_vars => [~crashed /\ crashed' => todo # <<>>]_vars
  <2> SUFFICES ASSUME IInv, Furnishing, Next, ~crashed, crashed', todo = << >> PROVE FALSE
    BY DEF vars, messages
  <2>1. ~ Instruction BY Instructing
  <2>2. Search
    BY <2>1 DEF Next, RegisterSensor, SenHubDisconnect, SenHubReConnected, Call, Capability,
               FindDevice, AskCapability, Lose, ComeBack, messages
  <2>3. /\ rpc = "scan" /\ scan.search < itemCount[scan.dev]
        /\ items[scan.dev][scan.search] = None
    BY <2>2 DEF Search
  <2>4. /\ scan.dev \in Slots /\ scan.search \in 0 .. MaxItems
        /\ itemCount[scan.dev] \in 0 .. MaxItems
    BY <2>3 DEF IInv, TypeOK
  <2>5. scan.search \in 0 .. itemCount[scan.dev] - 1
    BY <2>3, <2>4, SizesAssumption
  <2>6. HalfAt(scan.dev, scan.search) BY <2>3, <2>4, <2>5 DEF Furnishing, EachStored
  <2> QED BY <2>6 DEF HalfAt, Half
<1> QED BY <1>1, Invariant, SettledInvariant, PTL DEF Spec, CrashOnlyInCalls
================================================================================
