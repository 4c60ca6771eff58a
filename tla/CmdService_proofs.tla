---------------------------- MODULE CmdService_proofs ----------------------------
(***************************************************************************)
(* The promises of the command service, for every ring size, every set of  *)
(* items and callbacks, and any number of requests and writes.             *)
(*                                                                         *)
(* A session number is handed on from hand to queue to reply.  The proof   *)
(* keeps the numbers on this way apart and in order, follows a set that    *)
(* was applied to its answer, and bounds what a get can have read by what  *)
(* the sets answered so far have written.                                  *)
(***************************************************************************)
EXTENDS CmdService, TLAPS, SequenceTheorems

\* Commands not yet done with are queue[First] to the newest.
First == IF lpc = "advance" THEN 2 ELSE 1

\* Each request is at one place at most, which bounds the counters.
Counted ==
    /\ lpc = "advance" => queue # << >>
    /\ Len(replies) + (Len(queue) - First + 1) + (IF mpc = "idle" THEN 0 ELSE 1) <= received
    /\ clock <= writes + received - (IF mpc = "room" THEN 1 ELSE 0)

\* The newest request is in hand, older ones wait in order, older still are answered.
InOrder ==
    /\ mpc # "idle" => hand.session = received
    /\ \A i \in 1 .. Len(queue) :
          /\ 1 <= queue[i].session
          /\ queue[i].session <= received - (IF mpc = "idle" THEN 0 ELSE 1)
    /\ \A i, j \in 1 .. Len(queue) : i < j => queue[i].session < queue[j].session
    /\ \A k \in 1 .. Len(replies) :
          /\ replies[k].session <= received - (IF mpc = "idle" THEN 0 ELSE 1)
          /\ \A i \in First .. Len(queue) : replies[k].session < queue[i].session
    /\ RepliesInOrder

\* AppliedIsAnswered, by positions.
Covered ==
    \A x \in applied :
        \/ \E i \in First .. Len(queue) : queue[i].session = x
        \/ \E k \in 1 .. Len(replies) : replies[k].session = x
        \/ x \in lost
        \/ mpc = "assign" /\ x = hand.session

\* A set that has been applied keeps its command id and finds room.
SetsAnswered ==
    /\ mpc = "room" => hand.session \notin applied
    /\ mpc = "assign" /\ hand.session \in applied => hand.cmdId = 525 /\ ~Full
    /\ \A i \in 1 .. Len(queue) : queue[i].session \in applied => queue[i].cmdId = 525
    /\ Covered

\* What a get of item i reads.
Cell(i) == IF Getter[i] = "own" THEN own[i] ELSE stored[i]

\* The values sets have written are no newer than what is there now, and what a get
\* has read is no older than the sets answered before it was sent.
Written(c) ==
    /\ c.seen <= Len(replies)
    /\ c.cmdId \in {523, 525} => c.target \in Items
    /\ c.cmdId = 525 /\ Coherent(c.target) => c.value <= Cell(c.target)
    /\ c.cmdId = 129 => c.session <= heartBeatRate
NotOlder(c) ==
    c.cmdId = 523 /\ Coherent(c.target) =>
        \A j \in 1 .. c.seen :
            replies[j].cmdId = 525 /\ replies[j].target = c.target
                => replies[j].value <= c.value
Values ==
    /\ mpc = "room" => hand.cmdId \in {523, 525}
    /\ mpc # "idle" => Written(hand)
    /\ mpc = "assign" => NotOlder(hand)
    /\ \A i \in 1 .. Len(queue) : Written(queue[i]) /\ NotOlder(queue[i])
    /\ \A k \in 1 .. Len(replies) : Written(replies[k])
    /\ GetNotStale

IInv == TypeOK /\ Counted /\ InOrder /\ SetsAnswered /\ Values
--------------------------------------------------------------------------------
(* The queue and the replies as sequences.                                 *)

LEMMA Lengths ==
    ASSUME TypeOK
    PROVE  /\ Len(queue) \in Nat /\ DOMAIN queue = 1 .. Len(queue)
           /\ Len(replies) \in Nat /\ DOMAIN replies = 1 .. Len(replies)
           /\ received \in Nat /\ writes \in Nat /\ clock \in Nat
           /\ \A i \in 1 .. Len(queue) : queue[i] \in Commands
           /\ \A k \in 1 .. Len(replies) : replies[k] \in Commands
<1>1. queue \in Seq(Commands) /\ replies \in Seq(Commands) BY DEF TypeOK
<1>2. received \in Nat /\ writes \in Nat /\ clock \in Nat
  BY BoundsAssumption DEF TypeOK
<1> QED BY <1>1, <1>2, LenProperties, ElementOfSeq

\* Writing the newest value to an item.
LEMMA WriteType ==
    ASSUME NEW n \in Nat, NEW i \in Items, NEW f \in [Items -> 0 .. n]
    PROVE  /\ f \in [Items -> 0 .. (n + 1)]
           /\ [f EXCEPT ![i] = n + 1] \in [Items -> 0 .. (n + 1)]
<1>1. 0 .. n \subseteq 0 .. (n + 1) /\ n + 1 \in 0 .. (n + 1) OBVIOUS
<1> QED BY <1>1

\* Appending puts one command behind the others.
LEMMA Behind ==
    ASSUME NEW s \in Seq(Commands), NEW c \in Commands
    PROVE  /\ Append(s, c) \in Seq(Commands) /\ Len(Append(s, c)) = Len(s) + 1
           /\ \A i \in 1 .. Len(s) : Append(s, c)[i] = s[i]
           /\ Append(s, c)[Len(s) + 1] = c
BY AppendProperties

LEMMA InitIInv == Init => IInv
<1> SUFFICES ASSUME Init PROVE IInv OBVIOUS
<1>1. /\ queue = << >> /\ replies = << >> /\ Len(queue) = 0 /\ Len(replies) = 0
      /\ queue \in Seq(Commands) /\ replies \in Seq(Commands)
  BY EmptySeq DEF Init
<1>2. hand \in Commands BY BoundsAssumption DEF Init, Nothing, Commands
<1>3. TypeOK BY <1>1, <1>2, BoundsAssumption DEF Init, TypeOK
<1>4. Counted BY <1>1 DEF Init, Counted, First
<1>5. InOrder BY <1>1 DEF Init, InOrder, RepliesInOrder
<1>6. SetsAnswered BY <1>1 DEF Init, SetsAnswered, Covered
<1>7. Values BY <1>1 DEF Init, Values, GetNotStale
<1> QED BY <1>3, <1>4, <1>5, <1>6, <1>7 DEF IInv
--------------------------------------------------------------------------------
(* The receive thread.                                                     *)

\* What is bounded by the requests received stays so when one more comes in.
LEMMA OneMore ==
    ASSUME TypeOK, received < MaxReq
    PROVE  /\ received + 1 \in 0 .. MaxReq
           /\ heartBeatRate \in 0 .. (received + 1) /\ received + 1 \in 0 .. (received + 1)
           /\ applied \subseteq 1 .. (received + 1) /\ lost \subseteq 1 .. (received + 1)
<1>1. received \in 0 .. MaxReq /\ heartBeatRate \in 0 .. received BY DEF TypeOK
<1>2. applied \subseteq 1 .. received /\ lost \subseteq 1 .. received BY DEF TypeOK
<1>3. 1 .. received \subseteq 1 .. (received + 1) BY <1>1
<1>4. applied \subseteq 1 .. (received + 1) /\ lost \subseteq 1 .. (received + 1) BY <1>2, <1>3, Zenon
<1> QED BY <1>1, <1>4, BoundsAssumption

\* A request that is handed on.
LEMMA TakeCommand ==
    ASSUME IInv, NEW id \in {-1, 113, 114, 127, 129, 523, 525, 2051, 9999},
           NEW target \in Items \cup {NoName},
           NEW next \in {"room", "assign"}, next = "room" <=> id \in {523, 525},
           id \in {523, 525} => target \in Items,
           Take(Command(id, target, 0), next),
           heartBeatRate' = IF id = 129 THEN received + 1 ELSE heartBeatRate
    PROVE  IInv'
<1> USE Lengths
<1>1. /\ mpc = "idle" /\ received < MaxReq /\ received' = received + 1 /\ mpc' = next
      /\ hand' = Command(id, target, 0)
      /\ UNCHANGED <<queue, lpc, stored, own, clock, writes, applied, replies, lost>>
  BY DEF Take, net
<1>2. TypeOK /\ Counted /\ InOrder /\ SetsAnswered /\ Values BY DEF IInv
<1>3. Len(replies) <= received
  BY <1>2, EmptySeq DEF Counted, First, TypeOK
<1>4. hand' \in Commands
  BY <1>1, <1>2, <1>3, BoundsAssumption DEF Command, Commands
<1>5. /\ hand'.session = received + 1 /\ hand'.cmdId = id /\ hand'.target = target
      /\ hand'.value = 0 /\ hand'.seen = Len(replies)
  BY <1>1 DEF Command
<1>6. TypeOK' BY <1>1, <1>2, <1>4, OneMore DEF TypeOK
<1>7. Counted' BY <1>1, <1>2 DEF Counted, First
<1>8. InOrder' BY <1>1, <1>2, <1>5 DEF InOrder, First, RepliesInOrder
<1>9. SetsAnswered'
  <2>1. received + 1 \notin applied BY <1>2 DEF TypeOK
  <2> QED BY <1>1, <1>2, <1>5, <2>1 DEF SetsAnswered, Covered, First
<1>10. Values'
  <2>1. heartBeatRate <= heartBeatRate' BY <1>2 DEF TypeOK
  <2>2. target \in Items => 0 <= Cell(target) BY <1>2 DEF TypeOK, Cell
  <2>3. ASSUME NEW c \in Commands, Written(c) PROVE Written(c)'
    BY <1>1, <1>2, <2>1, <2>3 DEF Written, Cell, Commands, TypeOK
  <2> QED
    BY <1>1, <1>2, <1>5, <2>2, <2>3, SMTT(20) DEF Values, Written, NotOlder, GetNotStale, Cell
<1> QED BY <1>6, <1>7, <1>8, <1>9, <1>10 DEF IInv

\* A request that ends where it came in.
LEMMA UpdateAgentStep == ASSUME IInv, UpdateAgent PROVE IInv'
<1> USE Lengths
<1>1. /\ mpc = "idle" /\ received < MaxReq /\ received' = received + 1 /\ mpc' = "idle"
      /\ hand' = Nothing
      /\ UNCHANGED <<queue, lpc, stored, own, clock, writes, applied, replies, lost,
                     heartBeatRate>>
  BY DEF UpdateAgent, Take, net
<1>2. TypeOK /\ Counted /\ InOrder /\ SetsAnswered /\ Values BY DEF IInv
<1>3. hand' \in Commands BY <1>1, BoundsAssumption DEF Nothing, Commands
<1>4. TypeOK' BY <1>1, <1>2, <1>3, OneMore DEF TypeOK
<1>5. Counted' BY <1>1, <1>2 DEF Counted, First
<1>6. InOrder'
  <2>1. \A c \in Commands : c.session <= received => c.session <= received + 1
    BY <1>2 DEF Commands
  <2>2. /\ \A k \in 1 .. Len(queue) : 1 <= queue[k].session /\ queue[k].session <= received
        /\ \A k \in 1 .. Len(replies) : replies[k].session <= received
    BY <1>1, <1>2 DEF InOrder
  <2>3. /\ \A k \in 1 .. Len(queue) : queue[k].session <= received + 1
        /\ \A k \in 1 .. Len(replies) : replies[k].session <= received + 1
    BY <1>2, <2>1, <2>2
  <2>4. First' = First BY <1>1 DEF First
  <2>5. RepliesInOrder' BY <1>1, <1>2 DEF InOrder, RepliesInOrder
  <2>6. received' - (IF mpc' = "idle" THEN 0 ELSE 1) = received + 1 BY <1>1, <1>2
  <2>7. /\ \A k, l \in 1 .. Len(queue) : k < l => queue[k].session < queue[l].session
        /\ \A k \in 1 .. Len(replies), l \in First .. Len(queue) :
              replies[k].session < queue[l].session
    BY <1>2 DEF InOrder
  <2> QED BY <1>1, <2>2, <2>3, <2>4, <2>5, <2>6, <2>7 DEF InOrder
<1>7. SetsAnswered' BY <1>1, <1>2 DEF SetsAnswered, Covered, First
<1>8. Values'
  <2>1. \A c \in Commands : Written(c) => Written(c)' BY <1>1 DEF Written, Cell
  <2> QED BY <1>1, <1>2, <2>1 DEF Values, NotOlder, GetNotStale
<1> QED BY <1>4, <1>5, <1>6, <1>7, <1>8 DEF IInv

LEMMA TakeStep ==
    ASSUME IInv,
           \/ Rename \/ RenameByHandler \/ QueryHeartBeatRate \/ UpdateHeartBeatRate
           \/ ServerReconnect \/ GetCapability \/ NotFound
           \/ \E i \in Items, id \in {523, 525} : GetOrSet(id, i)
    PROVE  IInv'
<1>1. ASSUME NEW id \in {-1, 113, 114, 127, 2051, 9999}, TakeAndQueue(id) PROVE IInv'
  BY <1>1, TakeCommand DEF TakeAndQueue
<1>2. CASE UpdateHeartBeatRate BY <1>2, TakeCommand DEF UpdateHeartBeatRate
<1>3. ASSUME NEW i \in Items, NEW id \in {523, 525}, GetOrSet(id, i) PROVE IInv'
  BY <1>3, TakeCommand DEF GetOrSet
<1> QED BY <1>1, <1>2, <1>3
        DEF Rename, RenameByHandler, QueryHeartBeatRate, ServerReconnect, GetCapability, NotFound

LEMMA NoRoomStep == ASSUME IInv, NoRoom PROVE IInv'
<1> USE Lengths
<1>1. /\ mpc = "room" /\ mpc' = "idle"
      /\ UNCHANGED <<received, hand, queue, lpc, data, net>>
  BY DEF NoRoom
<1>2. TypeOK /\ Counted /\ InOrder /\ SetsAnswered /\ Values BY DEF IInv
<1> USE DEF data, net
<1>3. TypeOK' BY <1>1, <1>2 DEF TypeOK
<1>4. Counted' BY <1>1, <1>2 DEF Counted, First
<1>5. InOrder' BY <1>1, <1>2 DEF InOrder, First, RepliesInOrder, Commands
<1>6. SetsAnswered' BY <1>1, <1>2 DEF SetsAnswered, Covered, First
<1>7. Values'
  <2>1. \A c \in Commands : Written(c) => Written(c)' BY <1>1 DEF Written, Cell
  <2>2. hand \in Commands BY <1>2 DEF TypeOK
  <2> QED BY <1>1, <1>2, <2>1, <2>2 DEF Values, NotOlder, GetNotStale
<1> QED BY <1>3, <1>4, <1>5, <1>6, <1>7 DEF IInv

LEMMA SetStep == ASSUME IInv, Set PROVE IInv'
<1> USE Lengths
<1> SUFFICES ASSUME NEW i \in Items, hand.target = i PROVE IInv'
  <2>1. mpc = "room" => hand.target \in Items BY DEF IInv, Values, Written
  <2> QED BY <2>1 DEF Set, ApplySet
<1>1. /\ mpc = "room" /\ hand.cmdId = 525 /\ ~Full /\ clock' = clock + 1
      /\ stored' = (IF Type[i] = "VALUE" THEN [stored EXCEPT ![i] = clock + 1] ELSE stored)
      /\ own' = (IF i \in Setter THEN [own EXCEPT ![i] = clock + 1] ELSE own)
      /\ applied' = applied \cup {hand.session}
      /\ hand' = [hand EXCEPT !.value = clock + 1] /\ mpc' = "assign"
      /\ UNCHANGED <<received, queue, lpc, writes, heartBeatRate, replies, lost>>
  BY DEF Set, ApplySet, Store, net
<1>2. TypeOK /\ Counted /\ InOrder /\ SetsAnswered /\ Values BY DEF IInv
<1>3. hand \in Commands /\ i \in Items /\ hand.session = received
  BY <1>1, <1>2 DEF TypeOK, Values, Written, InOrder
<1>4. clock + 1 \in 0 .. (MaxReq + MaxWrites)
  <2>1. clock <= writes + received - 1 BY <1>1, <1>2 DEF Counted
  <2>2. writes \in 0 .. MaxWrites /\ received \in 0 .. MaxReq BY <1>2 DEF TypeOK
  <2>3. clock \in Nat BY <1>2
  <2> QED BY <2>1, <2>2, <2>3, BoundsAssumption
<1>5. /\ hand' \in Commands /\ hand'.session = hand.session /\ hand'.cmdId = 525
      /\ hand'.target = i /\ hand'.value = clock + 1 /\ hand'.seen = hand.seen
  BY <1>1, <1>3, <1>4 DEF Commands
<1>6. 1 <= received BY <1>1, <1>2, EmptySeq DEF Counted, First, TypeOK
<1>7. stored' \in [Items -> 0 .. clock'] /\ own' \in [Items -> 0 .. clock']
  <2>1. clock \in Nat BY <1>2
  <2>2. stored \in [Items -> 0 .. clock] /\ own \in [Items -> 0 .. clock] BY <1>2 DEF TypeOK
  <2>3. /\ stored \in [Items -> 0 .. (clock + 1)] /\ own \in [Items -> 0 .. (clock + 1)]
        /\ [stored EXCEPT ![i] = clock + 1] \in [Items -> 0 .. (clock + 1)]
        /\ [own EXCEPT ![i] = clock + 1] \in [Items -> 0 .. (clock + 1)]
    BY <1>3, <2>1, <2>2, WriteType
  <2> QED BY <1>1, <2>3
<1>8. TypeOK' BY <1>1, <1>2, <1>3, <1>4, <1>5, <1>6, <1>7 DEF TypeOK
<1>9. Counted' BY <1>1, <1>2 DEF Counted, First
<1>10. InOrder' BY <1>1, <1>2, <1>5 DEF InOrder, First, RepliesInOrder, Commands
<1>11. SetsAnswered'
  <2>1. \A j \in 1 .. Len(queue) : queue[j].session # hand.session
    BY <1>1, <1>2, <1>3 DEF InOrder, Commands
  <2> QED BY <1>1, <1>2, <1>3, <1>5, <2>1 DEF SetsAnswered, Covered, First, Full
<1>12. Values'
  <2>1. \A x \in Items : Cell(x) <= Cell(x)'
    BY <1>1, <1>2, <1>7 DEF Cell, TypeOK
  <2>2. Coherent(i) => Cell(i)' = clock + 1
    BY <1>1, <1>2, <1>3 DEF Coherent, Cell, TypeOK
  <2>3. \A x \in Items : Cell(x) \in Nat /\ Cell(x)' \in Nat
    BY <1>1, <1>2, <1>7 DEF Cell, TypeOK
  <2>4. ASSUME NEW c \in Commands, Written(c) PROVE Written(c)'
    BY <1>1, <1>2, <2>1, <2>3, <2>4 DEF Written, Commands
  <2>5. Written(hand)'
    <3>1. Written(hand) BY <1>1, <1>2 DEF Values
    <3>2. Coherent(i) => hand'.value <= Cell(i)' BY <1>2, <1>5, <2>2
    <3> QED BY <1>1, <1>3, <1>5, <3>1, <3>2 DEF Written
  <2> QED BY <1>1, <1>2, <1>5, <2>4, <2>5 DEF Values, NotOlder, GetNotStale
<1> QED BY <1>8, <1>9, <1>10, <1>11, <1>12 DEF IInv

LEMMA GetStep == ASSUME IInv, Get PROVE IInv'
<1> USE Lengths
<1> SUFFICES ASSUME NEW i \in Items, hand.target = i PROVE IInv'
  <2>1. mpc = "room" => hand.target \in Items BY DEF IInv, Values, Written
  <2> QED BY <2>1 DEF Get
<1>1. /\ mpc = "room" /\ hand.cmdId = 523 /\ mpc' = "assign"
      /\ hand' = (IF Getter[i] = "none" /\ Type[i] # "VALUE"
                    THEN [hand EXCEPT !.cmdId = -1] ELSE [hand EXCEPT !.value = Cell(i)])
      /\ UNCHANGED <<received, queue, lpc, stored, own, clock, writes, heartBeatRate, applied,
                     replies, lost>>
  BY DEF Get, Cell, data, net
<1>2. TypeOK /\ Counted /\ InOrder /\ SetsAnswered /\ Values BY DEF IInv
<1>3. hand \in Commands BY <1>2 DEF TypeOK
<1>4. Cell(i) \in 0 .. clock BY <1>2 DEF Cell, TypeOK
<1>5. clock \in 0 .. (MaxReq + MaxWrites) BY <1>2 DEF TypeOK
<1>6. Cell(i) \in 0 .. (MaxReq + MaxWrites) BY <1>4, <1>5, BoundsAssumption
<1>7. /\ hand' \in Commands /\ hand'.session = hand.session
      /\ hand'.target = i /\ hand'.seen = hand.seen
      /\ hand'.cmdId \in {-1, 523}
      /\ hand'.cmdId = 523 => hand'.value = Cell(i)
  BY <1>1, <1>3, <1>6 DEF Commands
<1>8. TypeOK' BY <1>1, <1>2, <1>7 DEF TypeOK
<1>9. Counted' BY <1>1, <1>2 DEF Counted, First
<1>10. InOrder' BY <1>1, <1>2, <1>7 DEF InOrder, First, RepliesInOrder, Commands
<1>11. SetsAnswered' BY <1>1, <1>2, <1>7 DEF SetsAnswered, Covered, First
<1>12. Values'
  <2>1. \A c \in Commands : Written(c) => Written(c)' BY <1>1 DEF Written, Cell
  <2>2. Written(hand)' BY <1>1, <1>2, <1>7 DEF Values, Written
  <2>3. NotOlder(hand)'
    <3>1. ASSUME NEW j \in 1 .. hand.seen, replies[j].cmdId = 525, replies[j].target = i,
                 Coherent(i)
          PROVE  replies[j].value <= Cell(i)
      <4>1. j \in 1 .. Len(replies)
        BY <1>1, <1>2, <1>3, <3>1 DEF Values, Written, Commands
      <4> QED BY <1>2, <3>1, <4>1 DEF Values, Written
    <3> QED BY <1>1, <1>7, <3>1 DEF NotOlder
  <2> QED BY <1>1, <1>2, <2>1, <2>2, <2>3 DEF Values, NotOlder, GetNotStale
<1> QED BY <1>8, <1>9, <1>10, <1>11, <1>12 DEF IInv

LEMMA AssignStep == ASSUME IInv, Assign PROVE IInv'
<1> USE Lengths
<1>1. /\ mpc = "assign" /\ mpc' = "idle"
      /\ UNCHANGED <<received, hand, lpc, stored, own, clock, writes, heartBeatRate, applied,
                     replies, lost>>
  BY DEF Assign, data, net
<1>2. TypeOK /\ Counted /\ InOrder /\ SetsAnswered /\ Values BY DEF IInv
<1>3. hand \in Commands /\ queue \in Seq(Commands) BY <1>2 DEF TypeOK
<1>4. \A c \in Commands : Written(c) => Written(c)' BY <1>1 DEF Written, Cell
<1>5. CASE Full
  <2>1. queue' = queue BY <1>5 DEF Assign
  <2>2. TypeOK' BY <1>1, <1>2, <2>1 DEF TypeOK
  <2>3. Counted' BY <1>1, <1>2, <2>1 DEF Counted, First
  <2>4. InOrder' BY <1>1, <1>2, <2>1, SMTT(20) DEF InOrder, First, RepliesInOrder, Commands
  <2>5. SetsAnswered' BY <1>1, <1>2, <1>5, <2>1 DEF SetsAnswered, Covered, First
  <2>6. Values' BY <1>1, <1>2, <1>4, <2>1 DEF Values, NotOlder, GetNotStale
  <2> QED BY <2>2, <2>3, <2>4, <2>5, <2>6 DEF IInv
<1>6. CASE ~Full
  <2>1. /\ queue' \in Seq(Commands) /\ Len(queue') = Len(queue) + 1
        /\ \A k \in 1 .. Len(queue) : queue'[k] = queue[k]
        /\ queue'[Len(queue) + 1] = hand
    BY <1>3, <1>6, Behind DEF Assign
  <2>2. \A k \in 1 .. Len(queue') : k \in 1 .. Len(queue) \/ k = Len(queue) + 1
    BY <1>2, <2>1
  <2>3. TypeOK' BY <1>1, <1>2, <1>6, <2>1, BoundsAssumption DEF TypeOK, Full
  <2>4. Counted' BY <1>1, <1>2, <2>1, <2>3, EmptySeq DEF Counted, First, TypeOK
  <2>5. InOrder'
    <3>1. hand.session = received BY <1>1, <1>2 DEF InOrder
    <3>2. /\ received \in Nat
          /\ \A k \in 1 .. Len(queue) :
                queue[k].session \in Int /\ queue[k].session <= received - 1
      BY <1>1, <1>2 DEF InOrder, Commands
    <3>3. \A k \in 1 .. Len(replies) :
             replies[k].session \in Int /\ replies[k].session <= received - 1
      BY <1>1, <1>2 DEF InOrder, Commands
    <3>4. \A k \in 1 .. Len(queue') : 1 <= queue'[k].session /\ queue'[k].session <= received
      <4>1. \A k \in 1 .. Len(queue) : 1 <= queue[k].session BY <1>2 DEF InOrder
      <4>2. 1 <= received BY <1>1, <1>2, EmptySeq DEF Counted, First, TypeOK
      <4> QED BY <2>1, <2>2, <3>1, <3>2, <4>1, <4>2
    <3>5. \A k, l \in 1 .. Len(queue') : k < l => queue'[k].session < queue'[l].session
      <4>1. \A k, l \in 1 .. Len(queue) : k < l => queue[k].session < queue[l].session
        BY <1>2 DEF InOrder
      <4> QED BY <1>2, <2>1, <2>2, <3>1, <3>2, <4>1, SMTT(20)
    <3>6. ASSUME NEW k \in 1 .. Len(replies), NEW l \in First .. Len(queue')
          PROVE  replies[k].session < queue'[l].session
      <4>1. l \in First .. Len(queue) \/ l = Len(queue) + 1 BY <1>2, <2>1 DEF First
      <4>2. l \in First .. Len(queue) => l \in 1 .. Len(queue) BY <1>2 DEF First
      <4>3. l \in First .. Len(queue) => replies[k].session < queue[l].session
        BY <1>2 DEF InOrder
      <4> QED BY <2>1, <3>1, <3>2, <3>3, <4>1, <4>2, <4>3, SMTT(20)
    <3>7. \A k \in 1 .. Len(replies) : replies[k].session <= received
      BY <3>2, <3>3
    <3> QED BY <1>1, <1>2, <3>4, <3>5, <3>6, <3>7 DEF InOrder, First, RepliesInOrder
  <2>6. SetsAnswered'
    <3>1. \A k \in 1 .. Len(queue') : queue'[k].session \in applied => queue'[k].cmdId = 525
      BY <1>1, <1>2, <2>1, <2>2 DEF SetsAnswered
    <3>2. Len(queue) + 1 \in First .. Len(queue')
      BY <1>2, <2>1, EmptySeq DEF First, Counted, TypeOK
    <3>3. Covered'
      BY <1>1, <1>2, <2>1, <3>2 DEF SetsAnswered, Covered, First
    <3> QED BY <1>1, <3>1, <3>3 DEF SetsAnswered
  <2>7. Values'
    <3>1. Written(hand) /\ NotOlder(hand) BY <1>1, <1>2 DEF Values
    <3>2. \A k \in 1 .. Len(queue') : Written(queue'[k]) /\ NotOlder(queue'[k])
      BY <1>2, <2>1, <2>2, <3>1 DEF Values
    <3>3. (\A k \in 1 .. Len(queue) : Written(queue[k]) /\ NotOlder(queue[k]))'
      BY <1>1, <3>2 DEF Written, NotOlder, Cell
    <3> QED BY <1>1, <1>2, <1>4, <3>3 DEF Values, GetNotStale
  <2> QED BY <2>3, <2>4, <2>5, <2>6, <2>7 DEF IInv
<1> QED BY <1>5, <1>6
--------------------------------------------------------------------------------
(* The application.                                                        *)

\* The reply is out, lost, or there is none.
LEMMA DispatchStep == ASSUME IInv, Dispatch PROVE IInv'
<1> USE Lengths
<1>1. /\ lpc = "drain" /\ queue # << >> /\ lpc' = "advance"
      /\ UNCHANGED <<received, mpc, hand, queue, stored, own, clock, writes, heartBeatRate,
                     applied>>
  BY DEF Dispatch, mqtt, data
<1>2. TypeOK /\ Counted /\ InOrder /\ SetsAnswered /\ Values BY DEF IInv
<1>3. queue \in Seq(Commands) /\ replies \in Seq(Commands) BY <1>2 DEF TypeOK
<1>4. Len(queue) \in Nat \ {0} BY <1>1, <1>3, EmptySeq
<1>5. Oldest = queue[1] /\ Oldest \in Commands BY <1>1, <1>3, <1>4, ElementOfSeq DEF Oldest
<1>6. First = 1 /\ First' = 2 BY <1>1 DEF First
<1>7. \A k \in 2 .. Len(queue) : Oldest.session < queue[k].session
  BY <1>2, <1>4, <1>5 DEF InOrder
<1>8. Oldest.session \in 1 .. received /\ Oldest.session \in Int
  <2>1. Oldest.session \in Int BY <1>5 DEF Commands
  <2> QED BY <1>2, <1>4, <1>5, <2>1 DEF InOrder
<1>9. Written(Oldest) /\ NotOlder(Oldest) BY <1>2, <1>4, <1>5 DEF Values
<1>10. CASE UNCHANGED replies
  <2>1. lost' = lost \/ lost' = lost \cup {Oldest.session}
    BY <1>10 DEF Dispatch, Publish
  <2>2. TypeOK' BY <1>1, <1>2, <1>8, <1>10, <2>1 DEF TypeOK
  <2>3. Counted' BY <1>1, <1>2, <1>6, <1>10 DEF Counted
  <2>4. InOrder' BY <1>1, <1>2, <1>6, <1>10 DEF InOrder, RepliesInOrder
  <2>5. SetsAnswered'
    <3>1. Oldest.session \in applied => Oldest.session \in lost'
      <4>1. Oldest.session \in applied => HasReply(Oldest)
        BY <1>2, <1>4, <1>5 DEF SetsAnswered, HasReply
      <4>2. HasReply(Oldest) => Oldest.session \in lost'
        BY <1>3, <1>5, <1>10, Behind DEF Dispatch, Publish
      <4> QED BY <4>1, <4>2
    <3>2. \A k \in First .. Len(queue) : k = 1 \/ k \in 2 .. Len(queue) BY <1>4, <1>6
    <3>3. Covered'
      BY <1>1, <1>2, <1>5, <1>6, <1>10, <2>1, <3>1, <3>2 DEF SetsAnswered, Covered
    <3> QED BY <1>1, <1>2, <3>3 DEF SetsAnswered, Full
  <2>6. Values' BY <1>1, <1>2, <1>10 DEF Values, Written, NotOlder, GetNotStale, Cell
  <2> QED BY <2>2, <2>3, <2>4, <2>5, <2>6 DEF IInv
<1>11. ASSUME NEW r \in {Oldest, [Oldest EXCEPT !.value = heartBeatRate]},
              r.cmdId = 127 => r.value = heartBeatRate,
              r.cmdId # 127 => r = Oldest,
              replies' = Append(replies, r), UNCHANGED lost
       PROVE  IInv'
  <2>1. heartBeatRate \in 0 .. (MaxReq + MaxWrites)
    BY <1>2, BoundsAssumption DEF TypeOK
  <2>2. /\ r \in Commands /\ r.session = Oldest.session /\ r.cmdId = Oldest.cmdId
        /\ r.target = Oldest.target /\ r.seen = Oldest.seen
    BY <1>5, <2>1 DEF Commands
  <2>3. /\ replies' \in Seq(Commands) /\ Len(replies') = Len(replies) + 1
        /\ \A k \in 1 .. Len(replies) : replies'[k] = replies[k]
        /\ replies'[Len(replies) + 1] = r
    BY <1>3, <1>11, <2>2, Behind
  <2>4. \A k \in 1 .. Len(replies') : k \in 1 .. Len(replies) \/ k = Len(replies) + 1
    BY <1>2, <2>3
  <2>5. TypeOK' BY <1>1, <1>2, <1>11, <2>3 DEF TypeOK
  <2>6. Counted' BY <1>1, <1>2, <1>6, <2>3 DEF Counted
  <2>7. InOrder'
    <3>1. \A k \in 1 .. Len(replies) :
             replies[k].session \in Int /\ replies[k].session < Oldest.session
      BY <1>2, <1>4, <1>5, <1>6 DEF InOrder, Commands
    <3>2. \A k \in 1 .. Len(replies') : replies'[k].session <= Oldest.session
      BY <1>8, <2>2, <2>3, <2>4, <3>1
    <3>3. RepliesInOrder'
      <4>1. \A k, l \in 1 .. Len(replies) : k < l => replies[k].session < replies[l].session
        BY <1>2 DEF InOrder, RepliesInOrder
      <4>2. \A k, l \in 1 .. Len(replies') : k < l => replies'[k].session < replies'[l].session
        BY <1>2, <2>2, <2>3, <2>4, <3>1, <4>1
      <4> QED BY <4>2 DEF RepliesInOrder
    <3>4. Oldest.session <= received - (IF mpc = "idle" THEN 0 ELSE 1)
      BY <1>2, <1>4, <1>5 DEF InOrder
    <3>5. ASSUME NEW k \in 1 .. Len(replies')
          PROVE  /\ replies'[k].session <= received - (IF mpc = "idle" THEN 0 ELSE 1)
                 /\ \A i \in 2 .. Len(queue) : replies'[k].session < queue[i].session
      <4>1. replies'[k].session \in Int BY <1>8, <2>2, <2>3, <2>4, <3>1
      <4>2. \A i \in 2 .. Len(queue) : queue[i].session \in Int BY <1>2 DEF Commands
      <4>3. received \in Nat BY <1>2
      <4> QED BY <1>7, <1>8, <3>2, <3>4, <4>1, <4>2, <4>3
    <3> QED BY <1>1, <1>2, <1>6, <3>3, <3>5 DEF InOrder
  <2>8. SetsAnswered'
    <3>1. Len(replies) + 1 \in 1 .. Len(replies') BY <1>2, <2>3
    <3>2. \A k \in First .. Len(queue) : k = 1 \/ k \in 2 .. Len(queue) BY <1>4, <1>6
    <3>3. \A k \in 1 .. Len(replies) : k \in 1 .. Len(replies') BY <1>2, <2>3
    <3>4. ASSUME NEW x \in applied
          PROVE  \/ \E i \in 2 .. Len(queue) : queue[i].session = x
                 \/ \E k \in 1 .. Len(replies') : replies'[k].session = x
                 \/ x \in lost
                 \/ mpc = "assign" /\ x = hand.session
      BY <1>2, <1>5, <2>2, <2>3, <3>1, <3>2, <3>3 DEF SetsAnswered, Covered
    <3>5. Covered' BY <1>1, <1>6, <1>11, <3>4 DEF Covered
    <3> QED BY <1>1, <1>2, <3>5 DEF SetsAnswered, Full
  <2>9. Values'
    <3>1. \A c \in Commands : Written(c) => Written(c)'
      BY <1>1, <1>2, <2>3 DEF Written, Cell, Commands
    <3>2. \A c \in Commands : c.seen <= Len(replies) /\ NotOlder(c) => NotOlder(c)'
      <4> SUFFICES ASSUME NEW c \in Commands, c.seen <= Len(replies), NotOlder(c)
                   PROVE  NotOlder(c)'
        OBVIOUS
      <4>1. c.seen \in Int BY DEF Commands
      <4>2. \A j \in 1 .. c.seen : j \in 1 .. Len(replies) BY <1>2, <4>1
      <4>3. \A j \in 1 .. c.seen : replies'[j] = replies[j] BY <2>3, <4>2
      <4> QED BY <4>3 DEF NotOlder
    <3>3. Written(r) BY <1>9, <1>11, <2>2 DEF Written
    <3>4. \A k \in 1 .. Len(replies') : Written(replies'[k]) /\ replies'[k].seen \in Int
      <4>1. \A c \in Commands : c.seen \in Int BY DEF Commands
      <4>2. \A k \in 1 .. Len(replies) : replies[k] \in Commands /\ Written(replies[k])
        BY <1>2 DEF Values
      <4> QED BY <2>2, <2>3, <2>4, <3>3, <4>1, <4>2
    <3>5. (\A k \in 1 .. Len(replies) : Written(replies[k]))'
      <4>1. Len(replies) \in Nat BY <1>2
      <4> QED BY <1>1, <2>3, <3>4, <4>1 DEF Written, Cell
    <3>6. GetNotStale'
      <4>1. ASSUME NEW j \in 1 .. r.seen
            PROVE  /\ replies'[j] = replies[j] /\ Written(replies[j])
                   /\ j \in 1 .. Len(replies)
        <5>1. j \in 1 .. Len(replies) BY <1>2, <2>2, <3>3 DEF Written, Commands
        <5> QED BY <1>2, <2>3, <5>1 DEF Values
      <4>2. ASSUME NEW j \in 1 .. r.seen
            PROVE  /\ r.cmdId = 523 /\ replies'[j].cmdId = 525
                         /\ replies'[j].target = r.target /\ Coherent(r.target)
                      => replies'[j].value <= r.value
                   /\ r.cmdId = 127 /\ replies'[j].cmdId = 129
                      => replies'[j].session <= r.value
        BY <1>9, <1>11, <2>2, <4>1 DEF NotOlder, Written
      <4>3. ASSUME NEW k \in 1 .. Len(replies), NEW j \in 1 .. replies[k].seen
            PROVE  replies'[k] = replies[k] /\ replies'[j] = replies[j]
        <5>1. j \in 1 .. Len(replies) BY <1>2 DEF Values, Written, Commands
        <5> QED BY <2>3, <5>1
      <4>4. ASSUME NEW k \in 1 .. Len(replies'), NEW j \in 1 .. replies'[k].seen
            PROVE  /\ replies'[k].cmdId = 523 /\ replies'[j].cmdId = 525
                         /\ replies'[j].target = replies'[k].target
                         /\ Coherent(replies'[k].target)
                      => replies'[j].value <= replies'[k].value
                   /\ replies'[k].cmdId = 127 /\ replies'[j].cmdId = 129
                      => replies'[j].session <= replies'[k].value
        <5>1. CASE k \in 1 .. Len(replies)
          <6>1. replies'[k] = replies[k] BY <2>3, <5>1
          <6>2. replies'[j] = replies[j] /\ j \in 1 .. replies[k].seen BY <4>3, <5>1, <6>1
          <6>3. GetNotStale BY <1>2 DEF Values
          <6> QED BY <5>1, <6>1, <6>2, <6>3 DEF GetNotStale
        <5>2. CASE k = Len(replies) + 1 BY <2>3, <4>2, <5>2, SMTT(20)
        <5> QED BY <2>4, <5>1, <5>2
      <4> QED BY <4>4 DEF GetNotStale
    <3>7. hand \in Commands BY <1>2 DEF TypeOK
    <3>8. \A k \in 1 .. Len(queue) : queue[k].seen <= Len(replies)
      BY <1>2 DEF Values, Written
    <3>9. mpc = "assign" => hand.seen <= Len(replies) BY <1>2 DEF Values, Written
    <3> QED BY <1>1, <1>2, <3>1, <3>2, <3>5, <3>6, <3>7, <3>8, <3>9 DEF Values
  <2> QED BY <2>5, <2>6, <2>7, <2>8, <2>9 DEF IInv
<1>12. CASE HasReply(Oldest)
  <2> DEFINE r == IF Oldest.cmdId = 127 THEN [Oldest EXCEPT !.value = heartBeatRate] ELSE Oldest
  <2>1. Publish(r) BY <1>12 DEF Dispatch
  <2>2. /\ r \in {Oldest, [Oldest EXCEPT !.value = heartBeatRate]}
        /\ r.cmdId = 127 => r.value = heartBeatRate
        /\ r.cmdId # 127 => r = Oldest
    BY <1>5 DEF Commands
  <2> QED BY <1>10, <1>11, <2>1, <2>2 DEF Publish
<1> QED BY <1>10, <1>12 DEF Dispatch

\* The head of the queue is done with, and the others move up.
LEMMA AdvanceStep == ASSUME IInv, AdvanceTail PROVE IInv'
<1> USE Lengths
<1>1. /\ lpc = "advance" /\ lpc' = "drain" /\ queue' = Tail(queue)
      /\ UNCHANGED <<received, mpc, hand, stored, own, clock, writes, heartBeatRate, applied,
                     replies, lost>>
  BY DEF AdvanceTail, mqtt, data, net
<1>2. TypeOK /\ Counted /\ InOrder /\ SetsAnswered /\ Values BY DEF IInv
<1>3. queue \in Seq(Commands) /\ queue # << >> BY <1>1, <1>2 DEF TypeOK, Counted
<1>4. /\ queue' \in Seq(Commands) /\ Len(queue') = Len(queue) - 1
      /\ \A i \in 1 .. Len(queue') : queue'[i] = queue[i + 1]
  BY <1>1, <1>3, HeadTailProperties
<1>5. First = 2 /\ First' = 1 BY <1>1 DEF First
<1>6. \A i \in 1 .. Len(queue') : i + 1 \in 2 .. Len(queue) /\ i + 1 \in 1 .. Len(queue)
  BY <1>2, <1>4
<1>7. TypeOK'
  <2>1. Len(queue') <= MaxCmds - 1 BY <1>2, <1>4, BoundsAssumption DEF TypeOK
  <2> QED BY <1>1, <1>2, <1>4, <2>1 DEF TypeOK
<1>8. Counted' BY <1>1, <1>2, <1>4, <1>5 DEF Counted
<1>9. InOrder'
  <2>1. \A i, j \in 1 .. Len(queue') : i < j => queue'[i].session < queue'[j].session
    BY <1>2, <1>4, <1>6, SMTT(20) DEF InOrder
  <2>2. \A i \in 1 .. Len(queue') :
           /\ 1 <= queue'[i].session
           /\ queue'[i].session <= received - (IF mpc = "idle" THEN 0 ELSE 1)
           /\ \A k \in 1 .. Len(replies) : replies[k].session < queue'[i].session
    BY <1>2, <1>4, <1>5, <1>6, SMTT(20) DEF InOrder
  <2> QED BY <1>1, <1>2, <1>5, <2>1, <2>2 DEF InOrder, RepliesInOrder
<1>10. SetsAnswered'
  <2>1. \A i \in 2 .. Len(queue) : i - 1 \in 1 .. Len(queue') /\ queue'[i - 1] = queue[i]
    BY <1>2, <1>4
  <2>2. Covered'
    <3>1. ASSUME NEW i \in First .. Len(queue)
          PROVE  \E j \in 1 .. Len(queue') : queue'[j].session = queue[i].session
      BY <1>5, <2>1
    <3>2. ASSUME NEW x \in applied
          PROVE  \/ \E j \in 1 .. Len(queue') : queue'[j].session = x
                 \/ \E k \in 1 .. Len(replies) : replies[k].session = x
                 \/ x \in lost
                 \/ mpc = "assign" /\ x = hand.session
      BY <1>2, <3>1, SMTT(20) DEF SetsAnswered, Covered
    <3> QED BY <1>1, <1>5, <3>2 DEF Covered
  <2>3. \A i \in 1 .. Len(queue') : queue'[i].session \in applied => queue'[i].cmdId = 525
    BY <1>2, <1>4, <1>6 DEF SetsAnswered
  <2>4. ~Full => ~Full' BY <1>2, <1>4, BoundsAssumption DEF Full
  <2> QED BY <1>1, <1>2, <2>2, <2>3, <2>4 DEF SetsAnswered
<1>11. Values'
  <2>1. \A i \in 1 .. Len(queue') : Written(queue'[i]) /\ NotOlder(queue'[i])
    BY <1>2, <1>4, <1>6 DEF Values
  <2>2. (\A i \in 1 .. Len(queue) : Written(queue[i]) /\ NotOlder(queue[i]))'
    BY <1>1, <2>1 DEF Written, NotOlder, Cell
  <2>3. \A c \in Commands : Written(c) => Written(c)' BY <1>1 DEF Written, Cell
  <2>4. hand \in Commands BY <1>2 DEF TypeOK
  <2> QED BY <1>1, <1>2, <2>2, <2>3, <2>4 DEF Values, NotOlder, GetNotStale
<1> QED BY <1>7, <1>8, <1>9, <1>10, <1>11 DEF IInv

\* Entering the Handler and leaving it.
LEMMA HandlerStep == ASSUME IInv, EnterHandler \/ LeaveHandler PROVE IInv'
<1> USE Lengths
<1>1. /\ lpc # "advance" /\ lpc' \in {"drain", "out"}
      /\ UNCHANGED <<received, mpc, hand, queue, stored, own, clock, writes, heartBeatRate,
                     applied, replies, lost>>
  BY DEF EnterHandler, LeaveHandler, mqtt, data, net
<1>2. TypeOK /\ Counted /\ InOrder /\ SetsAnswered /\ Values BY DEF IInv
<1>3. First' = First BY <1>1 DEF First
<1>4. TypeOK' BY <1>1, <1>2 DEF TypeOK
<1>5. Counted' BY <1>1, <1>2, <1>3 DEF Counted
<1>6. InOrder' BY <1>1, <1>2, <1>3 DEF InOrder, RepliesInOrder
<1>7. SetsAnswered' BY <1>1, <1>2, <1>3 DEF SetsAnswered, Covered, Full
<1>8. Values' BY <1>1, <1>2 DEF Values, Written, NotOlder, GetNotStale, Cell
<1> QED BY <1>4, <1>5, <1>6, <1>7, <1>8 DEF IInv

\* The application writes a value: what is there never gets older.
LEMMA WriteStep == ASSUME IInv, NEW i \in Items, Update(i) \/ Sense(i) PROVE IInv'
<1> USE Lengths
<1>1. /\ writes < MaxWrites /\ writes' = writes + 1 /\ clock' = clock + 1
      /\ \/ stored' = [stored EXCEPT ![i] = clock + 1] /\ own' = own
         \/ own' = [own EXCEPT ![i] = clock + 1] /\ stored' = stored
      /\ UNCHANGED <<received, mpc, hand, queue, lpc, heartBeatRate, applied, replies, lost>>
  BY DEF Update, Sense, mqtt, net
<1>2. TypeOK /\ Counted /\ InOrder /\ SetsAnswered /\ Values BY DEF IInv
<1>3. clock + 1 \in 0 .. (MaxReq + MaxWrites)
  <2>1. clock <= writes + received BY <1>2 DEF Counted
  <2>2. writes \in 0 .. MaxWrites /\ received \in 0 .. MaxReq BY <1>2 DEF TypeOK
  <2>3. clock \in Nat BY <1>2
  <2> QED BY <1>1, <2>1, <2>2, <2>3, BoundsAssumption
<1>4. stored' \in [Items -> 0 .. clock'] /\ own' \in [Items -> 0 .. clock']
  <2>1. clock \in Nat BY <1>2
  <2>2. stored \in [Items -> 0 .. clock] /\ own \in [Items -> 0 .. clock] BY <1>2 DEF TypeOK
  <2> HIDE <1>2
  <2>3. /\ stored \in [Items -> 0 .. (clock + 1)] /\ own \in [Items -> 0 .. (clock + 1)]
        /\ [stored EXCEPT ![i] = clock + 1] \in [Items -> 0 .. (clock + 1)]
        /\ [own EXCEPT ![i] = clock + 1] \in [Items -> 0 .. (clock + 1)]
    BY <2>1, <2>2, WriteType
  <2> QED BY <1>1, <2>3
<1>5. TypeOK' BY <1>1, <1>2, <1>3, <1>4, BoundsAssumption DEF TypeOK
<1>6. Counted' BY <1>1, <1>2 DEF Counted, First
<1>7. InOrder' BY <1>1, <1>2 DEF InOrder, RepliesInOrder, First
<1>8. SetsAnswered' BY <1>1, <1>2 DEF SetsAnswered, Covered, Full, First
<1>9. Values'
  <2>1. \A x \in Items : Cell(x) \in Nat /\ Cell(x)' \in Nat /\ Cell(x) <= Cell(x)'
    <3> SUFFICES ASSUME NEW x \in Items
                 PROVE  /\ Cell(x) \in Nat /\ Cell(x)' \in Nat /\ Cell(x) <= Cell(x)'
      OBVIOUS
    <3>1. stored[x] \in 0 .. clock /\ own[x] \in 0 .. clock /\ clock \in Nat
      BY <1>2 DEF TypeOK
    <3>2. stored'[x] \in {stored[x], clock + 1} /\ own'[x] \in {own[x], clock + 1}
      BY <1>1, <1>2 DEF TypeOK
    <3> QED BY <3>1, <3>2 DEF Cell
  <2>2. \A c \in Commands : Written(c) => Written(c)'
    BY <1>1, <2>1 DEF Written, Commands
  <2>3. hand \in Commands BY <1>2 DEF TypeOK
  <2> QED BY <1>1, <1>2, <2>2, <2>3 DEF Values, NotOlder, GetNotStale
<1> QED BY <1>5, <1>6, <1>7, <1>8, <1>9 DEF IInv
--------------------------------------------------------------------------------
LEMMA Stutter == ASSUME IInv, UNCHANGED vars PROVE IInv'
<1> USE DEF vars, mqtt, data, net
<1>1. TypeOK' BY DEF IInv, TypeOK
<1>2. Counted' BY DEF IInv, Counted, First
<1>3. InOrder' BY DEF IInv, InOrder, RepliesInOrder, First
<1>4. SetsAnswered' BY DEF IInv, SetsAnswered, Covered, Full, First
<1>5. Values' BY DEF IInv, Values, Written, NotOlder, GetNotStale, Cell
<1> QED BY <1>1, <1>2, <1>3, <1>4, <1>5 DEF IInv

LEMMA NextIInv == IInv /\ [Next]_vars => IInv'
BY Stutter, TakeStep, UpdateAgentStep, NoRoomStep, SetStep, GetStep, AssignStep,
   DispatchStep, AdvanceStep, HandlerStep, WriteStep
   DEF Next, MqttThread, MainLoop

\* Every reachable state satisfies the inductive invariant.
THEOREM Invariant == Spec => []IInv
BY InitIInv, NextIInv, PTL DEF Spec

\* Every variable keeps its type, and the queue never outgrows the ring, for every ring
\* size, set of items and callbacks, and number of requests and writes.
THEOREM TypeCorrect == Spec => []TypeOK
<1>1. IInv => TypeOK BY DEF IInv
<1> QED BY <1>1, Invariant, PTL

\* The server is answered in the order in which it asked, and never twice.
THEOREM OneReplyInOrder == Spec => []RepliesInOrder
<1>1. IInv => RepliesInOrder BY DEF IInv, InOrder
<1> QED BY <1>1, Invariant, PTL

\* What a set has changed the server is told, unless the reply is lost on its way.
THEOREM NoSilentSet == Spec => []AppliedIsAnswered
<1>1. IInv => AppliedIsAnswered
  <2> SUFFICES ASSUME IInv PROVE AppliedIsAnswered OBVIOUS
  <2>1. Covered BY DEF IInv, SetsAnswered
  <2>2. \A i \in First .. Len(queue) : queue[i].session \in Sessions(Undone)
    BY DEF First, Undone, Sessions
  <2>3. \A k \in 1 .. Len(replies) : replies[k].session \in Answered
    BY DEF Answered, Sessions
  <2> QED BY <2>1, <2>2, <2>3 DEF Covered, AppliedIsAnswered
<1> QED BY <1>1, Invariant, PTL

\* Whatever was set and confirmed before the server asked, the answer is no older,
\* however sets, gets, updates and replies of the two threads interleave.
THEOREM NeverStale == Spec => []GetNotStale
<1>1. IInv => GetNotStale BY DEF IInv, Values
<1> QED BY <1>1, Invariant, PTL
================================================================================
