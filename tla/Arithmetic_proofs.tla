---------------------------- MODULE Arithmetic_proofs ----------------------------
(***************************************************************************)
(* The two parts of the gateway that live on integer arithmetic, with      *)
(* theorems for numbers of every size.                                     *)
(*                                                                         *)
(* The arena hands out disjoint blocks inside its buffer for every size of *)
(* buffer, block, header and growth, however often it has to grow; and the *)
(* functions that build messages in it never make it grow, nor use a block *)
(* that was given back.                                                    *)
(*                                                                         *)
(* The heartbeat is in time for every int but 0 that the server sends as   *)
(* its rate, every width of the int and every moment at which the MQTT     *)
(* thread changes it.                                                      *)
(***************************************************************************)
EXTENDS MemClients, Heartbeat, SequenceTheorems, TLAPS

--------------------------------------------------------------------------------
(* The arena of wisememory.c.                                              *)

\* Rounding up to a multiple of g.
LEMMA RoundUp ==
    ASSUME NEW x \in Nat, NEW g \in Nat \ {0}
    PROVE  g * ((x + g - 1) \div g) \in Nat /\ g * ((x + g - 1) \div g) >= x
BY Z3

\* The blocks fill the buffer from below and end where the next one begins.
BelowCurrent == \A b \in blocks : b.at + b.len <= current

IInv == TypeOK /\ BlocksApart /\ BelowCurrent

\* The loop of WiseMem_Alloc ends with enough room, and only adds to it.
LEMMA GrownFacts ==
    ASSUME NEW need \in Nat, remain \in Nat
    PROVE  Grown(need) \in Nat /\ remain + Grown(need) >= need
<1>1. CASE need <= remain BY <1>1 DEF Grown
<1>2. CASE ~(need <= remain)
  <2> DEFINE x == need - remain
  <2>1. x \in Nat BY <1>2
  <2> HIDE DEF x
  <2>2. Growth \in Nat \ {0} BY SizesAssumption
  <2>3. Growth * ((x + Growth - 1) \div Growth) \in Nat
        /\ Growth * ((x + Growth - 1) \div Growth) >= x
    BY <2>1, <2>2, RoundUp
  <2>4. Grown(need) = Growth * ((x + Growth - 1) \div Growth) BY <1>2 DEF Grown, x
  <2>5. remain + x = need BY <1>2 DEF x
  <2> DEFINE y == Growth * ((x + Growth - 1) \div Growth)
  <2>6. y \in Nat /\ y >= x /\ Grown(need) = y BY <2>3, <2>4
  <2> HIDE DEF y
  <2> QED BY <2>1, <2>5, <2>6
<1> QED BY <1>1, <1>2

LEMMA LengthNat == ASSUME NEW len \in Nat PROVE Length(len) \in Nat
BY SizesAssumption DEF Length

LEMMA InitIInv == Init => IInv
BY SizesAssumption DEF Init, IInv, TypeOK, BlocksApart, BelowCurrent, BlockType

\* An empty arena is a good one.
LEMMA EmptyStep == ASSUME IInv, Release \/ Reinit PROVE IInv'
<1>1. blocks' = {} /\ current' = 0 BY DEF Release, Reinit
<1>2. TypeOK'
  BY <1>1, SizesAssumption DEF IInv, TypeOK, Release, Reinit, BlockType
<1> QED BY <1>1, <1>2 DEF IInv, BlocksApart, BelowCurrent

LEMMA AllocStep == ASSUME IInv, NEW len \in Nat, Alloc(len) PROVE IInv'
<1> DEFINE n == Length(len)
           more == Grown(n + Header)
           b0 == Block(len)
<1>1. n \in Nat BY LengthNat
<1>2. Header \in Nat \ {0} /\ n + Header \in Nat BY <1>1, SizesAssumption
<1>3. more \in Nat /\ remain + more >= n + Header
  BY <1>2, GrownFacts DEF IInv, TypeOK
<1>4. /\ size' = size + more /\ current' = current + (n + Header)
      /\ remain' = remain + more - (n + Header)
      /\ blocks' = blocks \cup {b0} /\ moves' = b0.moves
      /\ garbage' = garbage
      /\ written' = IF current' > written THEN current' ELSE written
  BY DEF Alloc
<1>5. b0.at = current + Header /\ b0.len = n BY DEF Block
<1>6. b0 \in BlockType
  <2>1. current + Header \in Nat BY <1>2 DEF IInv, TypeOK
  <2>2. (IF more > 0 THEN moves + 1 ELSE moves) \in Nat BY DEF IInv, TypeOK
  <2>3. (current >= written /\ current + n + Header <= garbage) \in BOOLEAN OBVIOUS
  <2> QED BY <1>1, <2>1, <2>2, <2>3 DEF Block, BlockType
<1> HIDE DEF n, more, b0
<1>7. size' \in Nat /\ current' \in Nat /\ remain' \in Nat /\ current' + remain' = size'
  BY <1>1, <1>2, <1>3, <1>4 DEF IInv, TypeOK
<1>8. current' <= size'
  <2>1. \A c, r, s \in Nat : c + r = s => c <= s OBVIOUS
  <2> QED BY <1>7, <2>1
<1>9. TypeOK'
  <2>2. blocks' \subseteq BlockType BY <1>4, <1>6 DEF IInv, TypeOK
  <2>3. moves' \in Nat BY <1>4, <1>6 DEF BlockType
  <2>4. written' \in Nat /\ garbage' \in Nat BY <1>4, <1>7 DEF IInv, TypeOK
  <2> QED BY <1>7, <2>2, <2>3, <2>4 DEF TypeOK
<1>10. \A b \in blocks : /\ b.at \in Nat /\ b.len \in Nat
                        /\ Header <= b.at /\ b.at + b.len <= current
  BY DEF IInv, TypeOK, BlockType, BlocksApart, BelowCurrent
<1>11. current \in Nat /\ size \in Nat /\ current <= size BY DEF IInv, TypeOK
<1>12. BelowCurrent'
  <2> SUFFICES ASSUME NEW b \in blocks' PROVE b.at + b.len <= current'
    BY DEF BelowCurrent
  <2>1. CASE b \in blocks BY <2>1, <1>1, <1>2, <1>4, <1>10, <1>11
  <2>2. CASE b = b0 BY <2>2, <1>1, <1>2, <1>4, <1>5, <1>11
  <2> QED BY <1>4, <2>1, <2>2
<1>13. \A b \in blocks' : Header <= b.at /\ b.at + b.len <= size'
  <2> SUFFICES ASSUME NEW b \in blocks' PROVE Header <= b.at /\ b.at + b.len <= size'
    OBVIOUS
  <2>1. Header <= b.at
    <3>1. CASE b \in blocks BY <3>1, <1>10
    <3>2. CASE b = b0 BY <3>2, <1>2, <1>5, <1>11
    <3> QED BY <1>4, <3>1, <3>2
  <2>2. b.at \in Nat /\ b.len \in Nat BY <1>9 DEF TypeOK, BlockType
  <2>3. b.at + b.len <= current' BY <1>12 DEF BelowCurrent
    <2>5. b.at + b.len <= size' BY <1>7, <1>8, <2>2, <2>3
  <2> QED BY <2>1, <2>5
<1>14. \A b, c \in blocks' :
          b # c => b.at + b.len <= c.at - Header \/ c.at + c.len <= b.at - Header
  <2> SUFFICES ASSUME NEW b \in blocks', NEW c \in blocks', b # c
               PROVE  b.at + b.len <= c.at - Header \/ c.at + c.len <= b.at - Header
    OBVIOUS
  <2>1. CASE b \in blocks /\ c \in blocks BY <2>1 DEF IInv, BlocksApart
  <2>2. CASE b \in blocks /\ c = b0 BY <2>2, <1>2, <1>5, <1>10, <1>11
  <2>3. CASE b = b0 /\ c \in blocks BY <2>3, <1>2, <1>5, <1>10, <1>11
  <2> QED BY <1>4, <2>1, <2>2, <2>3
<1> QED BY <1>9, <1>12, <1>13, <1>14 DEF IInv, BlocksApart

LEMMA NextIInv == IInv /\ [Next]_arena => IInv'
<1> SUFFICES ASSUME IInv, [Next]_arena PROVE IInv' OBVIOUS
<1>1. CASE UNCHANGED arena
  BY <1>1 DEF arena, IInv, TypeOK, BlocksApart, BelowCurrent
<1>2. CASE Release \/ Reinit BY <1>2, EmptyStep
<1>3. ASSUME NEW len \in Nat, Alloc(len) PROVE IInv' BY <1>3, AllocStep
<1> QED BY <1>1, <1>2, <1>3 DEF Next

THEOREM Invariant == Spec => []IInv
BY InitIInv, NextIInv, PTL DEF Spec

\* No byte of the buffer is lost or counted twice, whatever was allocated.
THEOREM ArenaTyped == Spec => []TypeOK
<1>1. IInv => TypeOK BY DEF IInv
<1> QED BY <1>1, Invariant, PTL

\* No two blocks overlap and none leaves the buffer, for all sizes.
THEOREM NoOverlap == Spec => []BlocksApart
<1>1. IInv => BlocksApart BY DEF IInv
<1> QED BY <1>1, Invariant, PTL
--------------------------------------------------------------------------------
(* The functions that build messages in the arena: every sequence of calls *)
(* they make leaves them their blocks until they give them back.           *)

Functions ==
    {GivesBack, GetTopology, Message4, PublishSensorMessage, RegisterInterface,
     SixBlocks(128), SixBlocks(1024), Response, ResponseGivenBack}

\* What the i-th arena call of a function takes from the buffer, and what the
\* calls after the first k still take.
Cost(f, i) ==
    IF i \in 1 .. Len(f) /\ f[i].do = "alloc" THEN f[i].len + Header ELSE 0
Need(f, k) ==
    Cost(f, k + 1) + Cost(f, k + 2) + Cost(f, k + 3) + Cost(f, k + 4)
    + Cost(f, k + 5) + Cost(f, k + 6) + Cost(f, k + 7) + Cost(f, k + 8)

\* What all those functions have in common: they release the arena at their end
\* and only there, fit in the buffer, and use only what they allocated before.
Lengths(f) == Len(f) \in 1 .. 8 /\ \A i \in 1 .. Len(f) : f[i].len \in Nat
Frees(f) == \A i \in 1 .. Len(f) : f[i].do = "release" <=> i = Len(f)
OwnBlocks(f) ==
    \A i \in 1 .. Len(f) : f[i].do = "use" =>
        \A p \in f[i].names : \E j \in 1 .. i - 1 : f[j].do = "alloc" /\ p \in f[j].names
FitsAll(f) == Need(f, 0) <= 16384 + 6 * Header
Orderly(f) == Lengths(f) /\ Frees(f) /\ OwnBlocks(f) /\ FitsAll(f)

\* The buffer never grew, and no byte above current was written since it was new.
Untouched ==
    /\ size = MaxBuffer /\ moves = 0 /\ garbage = MaxBuffer
    /\ written = current /\ FreshIsZero

\* The call goes through orderly functions; what the first still takes is there.
OnItsWay ==
    /\ todo \in Seq(Functions) /\ done \in Nat
    /\ todo = << >> => done = 0
    /\ done = 0 => current = 0
    /\ todo # << >> => /\ done < Len(Head(todo))
                       /\ current + Need(Head(todo), done) <= MaxBuffer

\* What the function has allocated so far is still its own.
Held ==
    todo # << >> =>
        \A j \in 1 .. done : Head(todo)[j].do = "alloc" =>
            \A p \in Head(todo)[j].names :
                p \in DOMAIN pointers /\ pointers[p] \in blocks /\ pointers[p].moves = moves

CInv == IInv /\ Untouched /\ OnItsWay /\ Held

LEMMA GivesBackOrderly == Orderly(GivesBack)
<1> DEFINE f == GivesBack
<1>1. /\ Len(f) = 1
      /\ f[1].do = "release"
      /\ \A i \in 1 .. 1 : f[i].len \in Nat
  BY DEF GivesBack, Free
<1> QED BY <1>1, SizesAssumption DEF Orderly, Lengths, Frees, OwnBlocks, FitsAll, Need, Cost

LEMMA GetTopologyOrderly == Orderly(GetTopology)
<1> DEFINE f == GetTopology
<1>1. /\ Len(f) = 3
      /\ f[1].do = "alloc" /\ f[2].do = "use" /\ f[3].do = "release"
      /\ f[1].names = {"topology"} /\ f[2].names = {"topology"}
      /\ f[1].len = 1024 /\ f[2].len = 0 /\ f[3].len = 0
  BY DEF GetTopology, A, Use, Free
<1> HIDE DEF f
<1>2. Lengths(f) BY <1>1 DEF Lengths
<1>3. Frees(f) BY <1>1 DEF Frees
<1>4. OwnBlocks(f) BY <1>1 DEF OwnBlocks
<1>5. FitsAll(f) BY <1>1, SizesAssumption DEF FitsAll, Need, Cost
<1> QED BY <1>2, <1>3, <1>4, <1>5 DEF Orderly, f

LEMMA Message4Orderly == Orderly(Message4)
<1> DEFINE f == Message4
<1>1. /\ Len(f) = 6
      /\ f[1].do = "alloc" /\ f[2].do = "alloc" /\ f[3].do = "alloc" /\ f[4].do = "alloc"
      /\ f[5].do = "use" /\ f[6].do = "release"
      /\ f[1].names = {"topic"} /\ f[2].names = {"message"}
      /\ f[3].names = {"senhublist"} /\ f[4].names = {"infoString"}
      /\ f[5].names = {"topic", "message", "senhublist", "infoString"}
      /\ f[1].len = 128 /\ f[2].len = 8192 /\ f[3].len = 4096 /\ f[4].len = 1024
      /\ f[5].len = 0 /\ f[6].len = 0
  BY DEF Message4, A, Use, Free, Four
<1> HIDE DEF f
<1>2. Lengths(f) BY <1>1 DEF Lengths
<1>3. Frees(f) BY <1>1 DEF Frees
<1>4. OwnBlocks(f) BY <1>1 DEF OwnBlocks
<1>5. FitsAll(f) BY <1>1, SizesAssumption DEF FitsAll, Need, Cost
<1> QED BY <1>2, <1>3, <1>4, <1>5 DEF Orderly, f

LEMMA PublishSensorMessageOrderly == Orderly(PublishSensorMessage)
<1> DEFINE f == PublishSensorMessage
<1>1. /\ Len(f) = 4
      /\ f[1].do = "alloc" /\ f[2].do = "alloc" /\ f[3].do = "use" /\ f[4].do = "release"
      /\ f[1].names = {"topic"} /\ f[2].names = {"message"} /\ f[3].names = {"topic", "message"}
      /\ f[1].len = 128 /\ f[2].len = 8192 /\ f[3].len = 0 /\ f[4].len = 0
  BY DEF PublishSensorMessage, A, Use, Free
<1> HIDE DEF f
<1>2. Lengths(f) BY <1>1 DEF Lengths
<1>3. Frees(f) BY <1>1 DEF Frees
<1>4. OwnBlocks(f) BY <1>1 DEF OwnBlocks
<1>5. FitsAll(f) BY <1>1, SizesAssumption DEF FitsAll, Need, Cost
<1> QED BY <1>2, <1>3, <1>4, <1>5 DEF Orderly, f

LEMMA RegisterInterfaceOrderly == Orderly(RegisterInterface)
<1> DEFINE f == RegisterInterface
<1>1. /\ Len(f) = 3
      /\ f[1].do = "alloc" /\ f[2].do = "use" /\ f[3].do = "release"
      /\ f[1].names = {"topic"} /\ f[2].names = {"topic"}
      /\ f[1].len = 128 /\ f[2].len = 0 /\ f[3].len = 0
  BY DEF RegisterInterface, A, Use, Free
<1> HIDE DEF f
<1>2. Lengths(f) BY <1>1 DEF Lengths
<1>3. Frees(f) BY <1>1 DEF Frees
<1>4. OwnBlocks(f) BY <1>1 DEF OwnBlocks
<1>5. FitsAll(f) BY <1>1, SizesAssumption DEF FitsAll, Need, Cost
<1> QED BY <1>2, <1>3, <1>4, <1>5 DEF Orderly, f

LEMMA SixBlocksOrderly ==
    ASSUME NEW n \in Nat, n <= 1024 PROVE Orderly(SixBlocks(n))
<1> DEFINE f == SixBlocks(n)
<1>1. /\ Len(f) = 8
      /\ f[1].do = "alloc" /\ f[2].do = "alloc" /\ f[3].do = "alloc" /\ f[4].do = "alloc"
      /\ f[5].do = "alloc" /\ f[6].do = "alloc" /\ f[7].do = "use" /\ f[8].do = "release"
      /\ f[1].names = {"topic"} /\ f[2].names = {"message"}
      /\ f[3].names = {"senhublist"} /\ f[4].names = {"infoString"}
      /\ f[5].names = {"netString"} /\ f[6].names = {"actionString"}
      /\ f[7].names = {"topic", "message", "senhublist", "infoString", "netString", "actionString"}
      /\ f[1].len = n /\ f[2].len = 8192 /\ f[3].len = 4096 /\ f[4].len = 1024
      /\ f[5].len = 1024 /\ f[6].len = 1024 /\ f[7].len = 0 /\ f[8].len = 0
  BY DEF SixBlocks, Six, Four, A, Use, Free
<1> HIDE DEF f
<1>2. Lengths(f) BY <1>1 DEF Lengths
<1>3. Frees(f) BY <1>1 DEF Frees
<1>4. OwnBlocks(f) BY <1>1 DEF OwnBlocks
<1>5. FitsAll(f) BY <1>1, SizesAssumption DEF FitsAll, Need, Cost
<1> QED BY <1>2, <1>3, <1>4, <1>5 DEF Orderly, f

LEMMA ResponseOrderly == Orderly(Response)
<1> DEFINE f == Response
<1>1. /\ Len(f) = 5
      /\ f[1].do = "alloc" /\ f[2].do = "alloc" /\ f[3].do = "alloc" /\ f[4].do = "use"
      /\ f[5].do = "release"
      /\ f[1].names = {"topic"} /\ f[2].names = {"message"} /\ f[3].names = {"jsonvalue"}
      /\ f[4].names = {"topic", "message", "jsonvalue"}
      /\ f[1].len = 128 /\ f[2].len = 8192 /\ f[3].len = 1024 /\ f[4].len = 0
      /\ f[5].len = 0
  BY DEF Response, A, Use, Free
<1> HIDE DEF f
<1>2. Lengths(f) BY <1>1 DEF Lengths
<1>3. Frees(f) BY <1>1 DEF Frees
<1>4. OwnBlocks(f) BY <1>1 DEF OwnBlocks
<1>5. FitsAll(f) BY <1>1, SizesAssumption DEF FitsAll, Need, Cost
<1> QED BY <1>2, <1>3, <1>4, <1>5 DEF Orderly, f

LEMMA ResponseGivenBackOrderly == Orderly(ResponseGivenBack)
<1> DEFINE f == ResponseGivenBack
<1>1. /\ Len(f) = 4
      /\ f[1].do = "alloc" /\ f[2].do = "alloc" /\ f[3].do = "alloc" /\ f[4].do = "release"
      /\ f[1].names = {"topic"} /\ f[2].names = {"message"} /\ f[3].names = {"jsonvalue"}
      /\ f[1].len = 128 /\ f[2].len = 8192 /\ f[3].len = 1024 /\ f[4].len = 0
  BY DEF ResponseGivenBack, A, Use, Free
<1> HIDE DEF f
<1>2. Lengths(f) BY <1>1 DEF Lengths
<1>3. Frees(f) BY <1>1 DEF Frees
<1>4. OwnBlocks(f) BY <1>1 DEF OwnBlocks
<1>5. FitsAll(f) BY <1>1, SizesAssumption DEF FitsAll, Need, Cost
<1> QED BY <1>2, <1>3, <1>4, <1>5 DEF Orderly, f

LEMMA FunctionsOrderly == \A f \in Functions : Orderly(f)
BY GivesBackOrderly, GetTopologyOrderly, Message4Orderly, PublishSensorMessageOrderly,
   RegisterInterfaceOrderly, SixBlocksOrderly, ResponseOrderly, ResponseGivenBackOrderly
   DEF Functions

\* Every API call goes through those functions only.
LEMMA CallsFunctions == Calls \subseteq Seq(Functions)
<1>1. /\ GivesBack \in Functions /\ GetTopology \in Functions /\ Message4 \in Functions
      /\ PublishSensorMessage \in Functions /\ RegisterInterface \in Functions
      /\ SixBlocks(128) \in Functions /\ SixBlocks(1024) \in Functions
      /\ Response \in Functions /\ ResponseGivenBack \in Functions
  BY DEF Functions
<1> DEFINE Ways == Seq(Functions)
           one(f) == <<f>>
           two(f, g) == <<f, g>>
<1>2. \A f, g \in Functions : one(f) \in Ways /\ two(f, g) \in Ways
  <2> HIDE DEF Functions
  <2> QED OBVIOUS
<1>3. \A s, t \in Ways : s \o t \in Ways OBVIOUS
<1>4. \A n \in Nat : Republish(n) \in Ways BY <1>1 DEF Republish
<1>5. PublishInterfaceInfoSpecMessage = one(Message4)
  BY DEF PublishInterfaceInfoSpecMessage
<1>6. PublishInterfaceDeviceInfoMessage = two(GetTopology, Message4)
  BY DEF PublishInterfaceDeviceInfoMessage
<1>7. RegisterSensor = one(GivesBack) \o PublishInterfaceDeviceInfoMessage
                       \o two(PublishSensorMessage, SixBlocks(128))
  BY DEF RegisterSensor
<1>8. SenHubMessage = PublishInterfaceDeviceInfoMessage \o one(PublishSensorMessage)
  BY DEF SenHubMessage
<1>9. Write = one(SixBlocks(1024)) BY DEF Write
<1>10. \A n \in Nat :
          ResponseInterface(n) =
             one(ResponseGivenBack) \o PublishInterfaceInfoSpecMessage
             \o PublishInterfaceDeviceInfoMessage \o Republish(n) \o one(GivesBack)
  BY DEF ResponseInterface
<1>11. Calls = {one(RegisterInterface), one(Message4), RegisterSensor, SenHubMessage, Write,
                one(PublishSensorMessage), one(Response)}
               \cup {ResponseInterface(n) : n \in 0 .. Sensors}
  BY DEF Calls, ConnectBySSL
<1> HIDE DEF Ways, one, two
<1>12. PublishInterfaceInfoSpecMessage \in Ways /\ PublishInterfaceDeviceInfoMessage \in Ways
  BY <1>1, <1>2, <1>5, <1>6
<1>13. RegisterSensor \in Ways /\ SenHubMessage \in Ways /\ Write \in Ways
  BY <1>1, <1>2, <1>3, <1>7, <1>8, <1>9, <1>12
<1>14. \A n \in Nat : ResponseInterface(n) \in Ways
  <2> TAKE n \in Nat
  <2>1. one(ResponseGivenBack) \o PublishInterfaceInfoSpecMessage
        \o PublishInterfaceDeviceInfoMessage \in Ways
    BY <1>1, <1>2, <1>3, <1>12
  <2>2. Republish(n) \in Ways /\ one(GivesBack) \in Ways BY <1>1, <1>2, <1>4
  <2> QED BY <2>1, <2>2, <1>3, <1>10
<1>15. Calls \subseteq Ways
  <2>1. \A n \in 0 .. Sensors : n \in Nat BY ClientsAssumption
  <2> QED BY <1>1, <1>2, <1>11, <1>13, <1>14, <2>1
<1> QED BY <1>15 DEF Ways

--------------------------------------------------------------------------------
\* What is still needed shrinks by what the next call takes.
LEMMA CostNat ==
    ASSUME NEW f, Lengths(f), NEW i \in Nat PROVE Cost(f, i) \in Nat
BY SizesAssumption DEF Cost, Lengths

LEMMA NeedShrinks ==
    ASSUME NEW f, Lengths(f), NEW k \in Nat
    PROVE  /\ Need(f, k) \in Nat
           /\ Need(f, k) = Cost(f, k + 1) + Need(f, k + 1)
<1>1. \A i \in 1 .. 9 : Cost(f, k + i) \in Nat BY CostNat
<1>2. Cost(f, k + 9) = 0 BY DEF Cost, Lengths
<1>3. /\ (k + 1) + 1 = k + 2 /\ (k + 1) + 2 = k + 3 /\ (k + 1) + 3 = k + 4
      /\ (k + 1) + 4 = k + 5 /\ (k + 1) + 5 = k + 6 /\ (k + 1) + 6 = k + 7
      /\ (k + 1) + 7 = k + 8 /\ (k + 1) + 8 = k + 9
  OBVIOUS
<1>4. Need(f, k + 1) =
         Cost(f, k + 2) + Cost(f, k + 3) + Cost(f, k + 4) + Cost(f, k + 5)
         + Cost(f, k + 6) + Cost(f, k + 7) + Cost(f, k + 8) + Cost(f, k + 9)
  BY <1>3 DEF Need
<1> HIDE DEF Cost
<1> QED BY <1>1, <1>2, <1>4 DEF Need

\* An empty buffer is large enough for the function that comes first.
LEMMA RoomForFirst ==
    ASSUME NEW s \in Seq(Functions), s # << >>
    PROVE  0 < Len(Head(s)) /\ 0 + Need(Head(s), 0) <= MaxBuffer
<1> DEFINE f == Head(s)
           n == Need(f, 0)
           l == Len(f)
<1>1. Orderly(f)
  <2>1. f \in Functions
    <3> HIDE DEF Functions
    <3> QED OBVIOUS
  <2> QED BY <2>1, FunctionsOrderly
<1>2. n \in Nat /\ n <= 16384 + 6 * Header /\ l \in 1 .. 8
  BY <1>1, NeedShrinks DEF Orderly, FitsAll, Lengths
<1> HIDE DEF f, n, l
<1>3. 0 < l BY <1>2
<1>4. 0 + n <= MaxBuffer BY <1>2, ClientsAssumption, SizesAssumption
<1> QED BY <1>3, <1>4 DEF f, n, l

\* The function that is under way.
LEMMA Ahead ==
    ASSUME CInv, todo # << >>
    PROVE  /\ Head(todo) \in Functions /\ Tail(todo) \in Seq(Functions)
           /\ Orderly(Head(todo))
           /\ done \in Nat /\ done + 1 \in 1 .. Len(Head(todo))
           /\ Len(Head(todo)) \in 1 .. 8
           /\ Current.len \in Nat
<1>1. todo \in Seq(Functions) /\ done \in Nat /\ done < Len(Head(todo))
  BY DEF CInv, OnItsWay
<1>2. Head(todo) \in Functions /\ Tail(todo) \in Seq(Functions)
  <2> HIDE DEF Functions
  <2> QED BY <1>1
<1>3. Orderly(Head(todo)) BY <1>2, FunctionsOrderly
<1>4. Len(Head(todo)) \in 1 .. 8 BY <1>3 DEF Orderly, Lengths
<1>5. done + 1 \in 1 .. Len(Head(todo)) BY <1>1, <1>4
<1> QED BY <1>1, <1>2, <1>3, <1>4, <1>5 DEF Current, Orderly, Lengths

LEMMA ClientsInit == InitClients => CInv
<1> SUFFICES ASSUME InitClients PROVE CInv OBVIOUS
<1>1. IInv BY InitIInv DEF InitClients
<1>2. Untouched BY DEF InitClients, Init, Untouched, FreshIsZero
<1>3. OnItsWay
  <2>1. << >> \in Seq(Functions) BY EmptySeq, Zenon
  <2> QED BY <2>1 DEF InitClients, Init, OnItsWay
<1>4. Held BY DEF InitClients, Held
<1> QED BY <1>1, <1>2, <1>3, <1>4 DEF CInv

LEMMA BeginStep == ASSUME CInv, Begin PROVE CInv'
<1>1. IInv'
  BY DEF CInv, IInv, Begin, arena, TypeOK, BlocksApart, BelowCurrent
<1>2. Untouched' BY DEF CInv, Begin, arena, Untouched, FreshIsZero
<1>3. /\ todo' \in Seq(Functions) /\ done' = 0 /\ current' = 0
  BY CallsFunctions DEF Begin, CInv, OnItsWay, arena
<1>5. OnItsWay' BY <1>3, RoomForFirst DEF OnItsWay
<1>6. Held' BY <1>3 DEF Held
<1> QED BY <1>1, <1>2, <1>5, <1>6 DEF CInv

LEMMA RestartStep == ASSUME CInv, Restart PROVE CInv'
<1>1. IInv' BY EmptyStep DEF CInv, Restart
<1>2. /\ todo' = << >> /\ done' = 0 /\ current' = 0 /\ todo' \in Seq(Functions)
  BY DEF CInv, Restart, call, OnItsWay, Reinit
<1>3. Untouched' BY DEF Restart, Reinit, Untouched, FreshIsZero
<1> QED BY <1>1, <1>2, <1>3 DEF CInv, OnItsWay, Held

\* The call that ends a function, and only it, is the release.
LEMMA StepLast ==
    ASSUME CInv, NEW do, Step(do)
    PROVE  /\ todo # << >> /\ Current.do = do
           /\ do = "release" => todo' = Tail(todo) /\ done' = 0
           /\ do # "release" => /\ todo' = todo /\ done' = done + 1
                                /\ done + 1 < Len(Head(todo))
<1>1. todo # << >> /\ Current.do = do BY DEF Step
<1>2. /\ Orderly(Head(todo)) /\ done + 1 \in 1 .. Len(Head(todo)) /\ done \in Nat
      /\ Len(Head(todo)) \in 1 .. 8
  BY <1>1, Ahead
<1>3. do = "release" <=> done + 1 = Len(Head(todo))
  BY <1>1, <1>2 DEF Orderly, Frees, Current
<1> QED BY <1>1, <1>2, <1>3 DEF Step

LEMMA UseStep == ASSUME CInv, UseBlocks PROVE CInv'
<1>1. /\ todo # << >> /\ Current.do = "use" /\ todo' = todo /\ done' = done + 1
      /\ done + 1 < Len(Head(todo)) /\ done \in Nat
  BY StepLast, Ahead DEF UseBlocks
<1>2. UNCHANGED <<arena, pointers>> BY DEF UseBlocks
<1>3. IInv' BY <1>2 DEF CInv, IInv, arena, TypeOK, BlocksApart, BelowCurrent
<1>4. Untouched' BY <1>2 DEF CInv, arena, Untouched, FreshIsZero
<1>5. OnItsWay'
  <2>1. current + Need(Head(todo), done) <= MaxBuffer /\ todo \in Seq(Functions)
    BY <1>1 DEF CInv, OnItsWay
  <2>2. Cost(Head(todo), done + 1) = 0 BY <1>1 DEF Cost, Current
  <2>3. Need(Head(todo), done) = Need(Head(todo), done + 1) /\ Need(Head(todo), done) \in Nat
    <3>1. Lengths(Head(todo)) BY <1>1, Ahead DEF Orderly
    <3>2. Need(Head(todo), done + 1) \in Nat BY <1>1, <3>1, NeedShrinks
    <3>3. Need(Head(todo), done) = Cost(Head(todo), done + 1) + Need(Head(todo), done + 1)
      BY <1>1, <3>1, NeedShrinks
    <3> DEFINE n == Need(Head(todo), done + 1)
    <3>4. n \in Nat /\ Need(Head(todo), done) = 0 + n BY <2>2, <3>2, <3>3
    <3> HIDE DEF n
    <3>5. 0 + n = n BY <3>4
    <3> QED BY <3>4, <3>5 DEF n
  <2>4. current + Need(Head(todo), done + 1) <= MaxBuffer BY <2>1, <2>3
  <2>5. done + 1 # 0 /\ done + 1 \in Nat /\ current' = current BY <1>1, <1>2 DEF arena
  <2> QED BY <1>1, <2>1, <2>4, <2>5 DEF OnItsWay
<1>6. Held'
  <2>1. ASSUME NEW j \in 1 .. done + 1, Head(todo)[j].do = "alloc" PROVE j \in 1 .. done
    BY <1>1, <2>1 DEF Current
  <2> QED BY <1>1, <1>2, <2>1 DEF CInv, Held, arena
<1> QED BY <1>3, <1>4, <1>5, <1>6 DEF CInv

LEMMA ReleaseStep == ASSUME CInv, CallRelease PROVE CInv'
<1>1. todo # << >> /\ todo' = Tail(todo) /\ done' = 0
  BY StepLast DEF CallRelease
<1>2. IInv' BY EmptyStep DEF CInv, CallRelease
<1>3. Release BY DEF CallRelease
<1>4. current \in Nat /\ current <= MaxBuffer
  <2>1. current \in Nat /\ current + Need(Head(todo), done) <= MaxBuffer
    BY <1>1 DEF CInv, OnItsWay, IInv, TypeOK
  <2>2. Need(Head(todo), done) \in Nat BY <1>1, Ahead, NeedShrinks DEF Orderly
  <2> QED BY <2>1, <2>2, SizesAssumption
<1>5. Untouched'
  BY <1>3, <1>4, SizesAssumption DEF CInv, Untouched, FreshIsZero, Release
<1>6. todo' \in Seq(Functions) BY <1>1, Ahead
<1>8. current' = 0 BY <1>3 DEF Release
<1>9. OnItsWay' BY <1>1, <1>6, <1>8, RoomForFirst DEF OnItsWay
<1>10. Held' BY <1>1 DEF Held
<1> QED BY <1>2, <1>5, <1>9, <1>10 DEF CInv

LEMMA AllocBlockStep == ASSUME CInv, CallAlloc PROVE CInv'
<1> DEFINE len == Current.len
           b == Block(len)
<1>1. /\ todo # << >> /\ Current.do = "alloc" /\ todo' = todo /\ done' = done + 1
      /\ done + 1 < Len(Head(todo)) /\ done \in Nat /\ len \in Nat
      /\ done + 1 \in 1 .. Len(Head(todo))
  BY StepLast, Ahead DEF CallAlloc
<1>2. Alloc(len) BY DEF CallAlloc
<1>3. IInv' BY <1>1, <1>2, AllocStep DEF CInv
<1>4. /\ Length(len) \in Nat /\ Length(len) <= len
  BY <1>1, LengthNat, SizesAssumption DEF Length
\* The room the function still needs covers this block.
<1>5. /\ Need(Head(todo), done) = len + Header + Need(Head(todo), done + 1)
      /\ Need(Head(todo), done + 1) \in Nat
  <2>1. Lengths(Head(todo)) BY <1>1, Ahead DEF Orderly
  <2>2. Cost(Head(todo), done + 1) = len + Header BY <1>1 DEF Cost, Current
  <2> QED BY <1>1, <2>1, <2>2, NeedShrinks
<1>6. /\ current \in Nat /\ remain \in Nat /\ Header \in Nat \ {0} /\ MaxBuffer \in Nat
      /\ current + Need(Head(todo), done) <= MaxBuffer /\ current + remain = MaxBuffer
  BY <1>1, SizesAssumption DEF CInv, OnItsWay, IInv, TypeOK, Untouched
<1> HIDE DEF len
<1>7. /\ current + (Length(len) + Header) + Need(Head(todo), done + 1) <= MaxBuffer
      /\ Length(len) + Header <= remain
      /\ Length(len) + Header \in Nat
  <2> DEFINE n == Need(Head(todo), done + 1)
             m == Length(len)
  <2>1. /\ n \in Nat /\ m \in Nat /\ len \in Nat /\ m <= len
        /\ current + (len + Header + n) <= MaxBuffer
    BY <1>1, <1>4, <1>5, <1>6
  <2> HIDE DEF n, m
  <2>2. current + (m + Header) + n <= MaxBuffer /\ m + Header \in Nat BY <2>1, <1>6
  <2>3. m + Header <= remain BY <2>1, <2>2, <1>6
  <2> QED BY <2>2, <2>3 DEF n, m
<1>8. Grown(Length(len) + Header) = 0 BY <1>7 DEF Grown
<1>9. /\ b.moves = moves /\ b.zeroed
  <2>1. current + Length(len) + Header <= garbage
    BY <1>4, <1>5, <1>6, <1>7 DEF CInv, Untouched
  <2>2. current >= written BY <1>6 DEF CInv, Untouched
  <2>3. b.moves = IF Grown(Length(len) + Header) > 0 THEN moves + 1 ELSE moves
    BY DEF Block
  <2>4. b.zeroed = (current >= written /\ current + Length(len) + Header <= garbage)
    BY DEF Block
  <2> HIDE DEF b
  <2>5. b.zeroed BY <2>1, <2>2, <2>4, Zenon
  <2>6. b.moves = moves BY <1>8, <2>3
  <2> QED BY <2>5, <2>6
<1> HIDE DEF b
<1>10. /\ size' = size + 0 /\ current' = current + (Length(len) + Header)
       /\ blocks' = blocks \cup {b} /\ moves' = moves /\ garbage' = garbage
       /\ written' = IF current' > written THEN current' ELSE written
  BY <1>2, <1>8, <1>9 DEF Alloc, b
<1>11. Untouched'
  <2>1. written' = current' BY <1>6, <1>7, <1>10 DEF CInv, Untouched
  <2>2. \A c \in blocks' : c.zeroed BY <1>9, <1>10 DEF CInv, Untouched, FreshIsZero
  <2> QED BY <1>6, <1>10, <2>1, <2>2 DEF CInv, Untouched, FreshIsZero
<1>12. OnItsWay'
  <2>1. current' + Need(Head(todo), done + 1) <= MaxBuffer BY <1>7, <1>10
  <2>2. todo \in Seq(Functions) BY DEF CInv, OnItsWay
  <2> QED BY <1>1, <2>1, <2>2 DEF OnItsWay
<1>13. Held'
  <2> SUFFICES ASSUME NEW j \in 1 .. done + 1, Head(todo)[j].do = "alloc",
                      NEW p \in Head(todo)[j].names
               PROVE  /\ p \in DOMAIN pointers' /\ pointers'[p] \in blocks'
                      /\ pointers'[p].moves = moves'
    BY <1>1 DEF Held
  <2>1. pointers' = [q \in DOMAIN pointers \cup Current.names |->
                       IF q \in Current.names THEN b ELSE pointers[q]]
    BY DEF CallAlloc, b, len
  <2>2. CASE p \in Current.names BY <2>1, <2>2, <1>9, <1>10
  <2>3. CASE p \notin Current.names
    <3>1. j \in 1 .. done BY <1>1, <2>3 DEF Current
    <3>2. p \in DOMAIN pointers /\ pointers[p] \in blocks /\ pointers[p].moves = moves
      BY <1>1, <3>1 DEF CInv, Held
    <3> QED BY <2>1, <2>3, <3>2, <1>10
  <2> QED BY <2>2, <2>3
<1> QED BY <1>3, <1>11, <1>12, <1>13 DEF CInv

LEMMA ClientsNext == CInv /\ [NextClients]_vars => CInv'
<1> SUFFICES ASSUME CInv, [NextClients]_vars PROVE CInv' OBVIOUS
<1>1. CASE UNCHANGED vars
  BY <1>1 DEF vars, arena, call, CInv, IInv, TypeOK, BlocksApart, BelowCurrent,
              Untouched, FreshIsZero, OnItsWay, Held
<1> QED BY <1>1, BeginStep, AllocBlockStep, UseStep, ReleaseStep, RestartStep DEF NextClients

THEOREM ClientsInvariant == ClientsSpec => []CInv
BY ClientsInit, ClientsNext, PTL DEF ClientsSpec

\* No function writes or sends through a pointer whose block was released or
\* moved, for every size of the buffer's header and every number of sensors.
THEOREM PointersLive == ClientsSpec => []UsesLive
<1>1. CInv => UsesLive
  <2> SUFFICES ASSUME CInv, todo # << >>, Current.do = "use", NEW p \in Current.names
               PROVE  pointers[p] \in blocks /\ pointers[p].moves = moves
    BY DEF UsesLive
  <2>1. Orderly(Head(todo)) /\ done + 1 \in 1 .. Len(Head(todo)) /\ done \in Nat
    BY Ahead
  <2>2. PICK j \in 1 .. (done + 1) - 1 :
           Head(todo)[j].do = "alloc" /\ p \in Head(todo)[j].names
    BY <2>1 DEF Orderly, OwnBlocks, Current
  <2>3. j \in 1 .. done BY <2>1
  <2> QED BY <2>2, <2>3 DEF CInv, Held
<1> QED BY <1>1, ClientsInvariant, PTL

\* Every block comes zeroed, so that a string nobody filled is empty.
THEOREM BlocksComeZeroed == ClientsSpec => []FreshIsZero
<1>1. CInv => FreshIsZero BY DEF CInv, Untouched
<1> QED BY <1>1, ClientsInvariant, PTL

\* The functions never make the arena do what its own specification does not
\* allow, so that what is proved of the arena holds of it in their hands.
THEOREM ClientsUseArena == ClientsSpec => Spec
<1>1. InitClients => Init BY DEF InitClients
<1>2. CInv /\ [NextClients]_vars => [Next]_arena
  <2> SUFFICES ASSUME CInv, [NextClients]_vars PROVE [Next]_arena OBVIOUS
  <2>1. CASE CallAlloc
    <3>1. todo # << >> /\ Alloc(Current.len) BY <2>1 DEF CallAlloc, Step
    <3> QED BY <3>1, Ahead DEF Next
  <2>2. CASE CallRelease BY <2>2 DEF CallRelease, Next
  <2>3. CASE Restart BY <2>3 DEF Restart, Next
  <2>4. CASE Begin \/ UseBlocks \/ UNCHANGED vars
    BY <2>4 DEF Begin, UseBlocks, vars
  <2> QED BY <2>1, <2>2, <2>3, <2>4 DEF NextClients
<1> QED BY <1>1, <1>2, ClientsInvariant, PTL DEF ClientsSpec, Spec

--------------------------------------------------------------------------------
(* The heartbeat of WiseAccess_Handler.                                    *)

\* The successor's remainder, read backwards: away from a multiple of r, one
\* step back lowers the remainder by one.
LEMMA ModStep ==
    ASSUME NEW c \in Int, NEW r \in Nat \ {0}, c % r # 0
    PROVE  (c - 1) % r = (c % r) - 1
BY Z3T(60)

LEMMA ModRange ==
    ASSUME NEW c \in Int, NEW r \in Nat \ {0}
    PROVE  c % r \in 0 .. (r - 1)
BY Z3

\* What the second statement of the Handler adds to count.
LEMMA OneMod ==
    ASSUME NEW r \in Nat \ {0}
    PROVE  1 % r = IF r = 1 THEN 0 ELSE 1
<1>1. CASE r = 1 BY <1>1, Z3
<1>2. CASE r > 1 BY <1>2, Z3
<1> QED BY <1>1, <1>2, Z3

Rate == Period

\* The number tested last: count, or the one before it once it was advanced.
Tested == IF hpc = "step" THEN count ELSE count - 1

\* No call since the last heartbeat found a multiple of the rate, so there were
\* no more of them than the remainder of the last number tested; those before an
\* overflow add at most a period.  After an overflow every call counts from
\* IntMin, so the next overflow is not reached within the two periods: no int is
\* further from 0 than half of the way round.  A rate of 0 promises nothing.
Phase ==
    heartBeatRate # 0 =>
        /\ since <= (Tested % Rate) + (IF wrapped THEN Rate - 1 ELSE 0)
        /\ wrapped => Tested - IntMin + 1 <= since

RateInv == HeartbeatTypeOK /\ Phase

--------------------------------------------------------------------------------
LEMMA Ints == IntMax \in Nat /\ IntMin \in Int /\ IntMin = -IntMax - 1
BY IntMaxAssumption DEF IntMin

LEMMA PeriodType ==
    ASSUME NEW r \in IntMin .. IntMax, r # 0
    PROVE  (IF r < 0 THEN -r ELSE r) \in 1 .. IntMax + 1
BY Ints

LEMMA RateType ==
    /\ HeartbeatTypeOK => heartBeatRate \in IntMin .. IntMax
    /\ HeartbeatTypeOK /\ heartBeatRate # 0 => Rate \in 1 .. IntMax + 1
<1>1. HeartbeatTypeOK => heartBeatRate \in IntMin .. IntMax
  BY RatesAssumption DEF HeartbeatTypeOK
<1> QED BY <1>1, PeriodType DEF Rate, Period

LEMMA HeartbeatInit == InitHeartbeat => RateInv
<1> SUFFICES ASSUME InitHeartbeat PROVE RateInv OBVIOUS
<1>1. HeartbeatTypeOK
  <2>1. 0 \in IntMin .. IntMax BY Ints
  <2> QED BY <2>1 DEF InitHeartbeat, HeartbeatTypeOK
<1>2. ASSUME heartBeatRate # 0
      PROVE  since <= (Tested % Rate) + (IF wrapped THEN Rate - 1 ELSE 0)
  <2>1. Tested \in Int /\ Rate \in Nat \ {0} /\ since = 0 /\ wrapped = FALSE
    BY <1>1, <1>2, RateType, Ints DEF InitHeartbeat, Tested
  <2>2. Tested % Rate \in 0 .. (Rate - 1) BY <2>1, ModRange
  <2> QED BY <2>1, <2>2
<1>3. ~wrapped BY DEF InitHeartbeat
<1> QED BY <1>1, <1>2, <1>3 DEF RateInv, Phase

LEMMA RateInvBound == RateInv => HeartbeatInTime
<1> SUFFICES ASSUME RateInv, heartBeatRate # 0
             PROVE  since < (IF wrapped THEN 2 * Rate ELSE Rate)
  BY DEF HeartbeatInTime, Rate
<1>1. Rate \in Nat \ {0} /\ Tested \in Int /\ since \in Nat
  BY RateType, Ints DEF RateInv, HeartbeatTypeOK, Tested
<1>2. Tested % Rate \in 0 .. (Rate - 1) BY <1>1, ModRange
<1> QED BY <1>1, <1>2 DEF RateInv, Phase

LEMMA SetRateStep == ASSUME RateInv, NEW r \in Rates, SetHeartBeatRate(r) PROVE RateInv'
<1>1. HeartbeatTypeOK' BY DEF RateInv, HeartbeatTypeOK, SetHeartBeatRate
<1>2. since' = 0 /\ wrapped' = FALSE BY DEF SetHeartBeatRate
<1>3. ASSUME heartBeatRate' # 0
      PROVE  since' <= (Tested' % Rate') + (IF wrapped' THEN Rate' - 1 ELSE 0)
  <2>1. Tested' \in Int
    BY Ints DEF RateInv, HeartbeatTypeOK, SetHeartBeatRate, Tested
  <2>2. Rate' \in Nat \ {0}
    <3>1. heartBeatRate' \in IntMin .. IntMax
      BY RatesAssumption DEF SetHeartBeatRate
    <3>2. heartBeatRate' # 0 BY <1>3
    <3>3. (IF heartBeatRate' < 0 THEN -heartBeatRate' ELSE heartBeatRate') \in 1 .. IntMax + 1
      BY <3>1, <3>2, PeriodType
    <3>4. Rate' \in 1 .. IntMax + 1 BY <3>3 DEF Rate, Period
    <3> QED BY <3>4, Ints
  <2> DEFINE m == Tested' % Rate'
  <2>3. m \in 0 .. (Rate' - 1) BY <2>1, <2>2, ModRange
  <2> HIDE DEF m
  <2>4. since' <= m + (IF wrapped' THEN Rate' - 1 ELSE 0) BY <1>2, <2>2, <2>3
  <2> QED BY <2>4 DEF m
<1>4. ~wrapped' BY <1>2
<1> QED BY <1>1, <1>3, <1>4 DEF RateInv, Phase

LEMMA TestRateStep == ASSUME RateInv, TestRate PROVE RateInv'
<1>1. HeartbeatTypeOK'
  <2>1. since' \in Nat /\ wrapped' \in BOOLEAN BY DEF RateInv, HeartbeatTypeOK, TestRate
  <2>2. stopped' \in BOOLEAN BY DEF TestRate, Undefined
  <2> QED BY <2>1, <2>2 DEF RateInv, HeartbeatTypeOK, TestRate
<1>2. heartBeatRate' = heartBeatRate BY DEF TestRate
<1>3. CASE heartBeatRate = 0 BY <1>1, <1>2, <1>3 DEF RateInv, Phase
<1>4. CASE heartBeatRate # 0
  <2>1. /\ count \in Int /\ since \in Nat /\ Rate \in Nat \ {0}
        /\ Tested = count - 1 /\ Tested' = count /\ Rate' = Rate
    BY <1>4, RateType, Ints DEF RateInv, HeartbeatTypeOK, TestRate, Tested, Rate, Period
  <2>2. Due <=> count % Rate = 0 BY <1>4 DEF Due, Remainder, Rate
  <2>3. CASE Due
    <3>1. count % Rate = 0 /\ since' = 0 /\ wrapped' = FALSE BY <2>2, <2>3 DEF TestRate
    <3> QED BY <1>1, <2>1, <3>1 DEF RateInv, Phase
  <2>4. CASE ~Due
    <3>1. count % Rate # 0 /\ since' = since + 1 /\ wrapped' = wrapped
      BY <2>2, <2>4 DEF TestRate, RateInv, HeartbeatTypeOK
    <3>2. (count - 1) % Rate = (count % Rate) - 1 BY <2>1, <3>1, ModStep
    <3>3. count % Rate \in Int BY <2>1, ModRange
    <3>4. since' <= (Tested' % Rate') + (IF wrapped' THEN Rate' - 1 ELSE 0)
      BY <1>4, <2>1, <3>1, <3>2, <3>3 DEF RateInv, Phase
    <3>5. wrapped' => Tested' - IntMin + 1 <= since'
      BY <1>4, <2>1, <3>1, Ints DEF RateInv, Phase
    <3> QED BY <1>1, <3>4, <3>5 DEF RateInv, Phase, IntMin
  <2> QED BY <2>3, <2>4
<1> QED BY <1>3, <1>4

LEMMA AdvanceStep == ASSUME RateInv, Advance PROVE RateInv'
<1>1. /\ count \in IntMin .. IntMax /\ since \in Nat /\ IntMax \in Nat
      /\ Tested = count /\ Tested' = count' - 1 /\ since' = since
      /\ hpc' = "test" /\ count' = Wrap(count + Remainder(1))
      /\ wrapped' = (wrapped \/ count' < count) /\ wrapped \in BOOLEAN
      /\ heartBeatRate' = heartBeatRate /\ Rate' = Rate /\ stopped' \in BOOLEAN
  BY Ints DEF RateInv, HeartbeatTypeOK, Advance, Tested, Undefined, Rate, Period
<1>2. ASSUME count' \in IntMin .. IntMax PROVE HeartbeatTypeOK'
  BY <1>1, <1>2 DEF RateInv, HeartbeatTypeOK, IntMin
<1>3. CASE heartBeatRate = 0
  <2>1. count' = IF count = IntMax THEN IntMin ELSE count + 1
    BY <1>1, <1>3, Ints DEF Remainder, Wrap
  <2>2. count' \in IntMin .. IntMax BY <1>1, <2>1, Ints
  <2> QED BY <1>1, <1>2, <1>3, <2>2 DEF RateInv, Phase
<1>4. CASE heartBeatRate # 0
  <2>1. Rate \in Nat \ {0} /\ Rate <= IntMax + 1 BY <1>1, <1>4, RateType DEF RateInv
  <2>2. Remainder(1) = IF Rate = 1 THEN 0 ELSE 1
    BY <1>4, <2>1, OneMod DEF Remainder, Rate
  <2>3. count % Rate \in 0 .. (Rate - 1) BY <1>1, <2>1, Ints, ModRange
  <2>4. /\ since <= (count % Rate) + (IF wrapped THEN Rate - 1 ELSE 0)
        /\ wrapped => count - IntMin + 1 <= since
    BY <1>1, <1>4 DEF RateInv, Phase
  <2>5. CASE Rate = 1
    <3>1. count' = count /\ wrapped' = wrapped BY <1>1, <2>2, <2>5, Ints DEF Wrap
    <3>2. (count - 1) % Rate \in 0 .. (Rate - 1) BY <1>1, <2>1, Ints, ModRange
    <3>3. since' <= ((count - 1) % Rate) + (IF wrapped THEN Rate - 1 ELSE 0)
      BY <1>1, <2>3, <2>4, <2>5, <3>2
    <3>4. wrapped => (count - 1) - IntMin + 1 <= since' BY <1>1, <2>4, Ints
    <3>5. HeartbeatTypeOK' BY <1>1, <1>2, <3>1
    <3> QED BY <1>1, <3>1, <3>3, <3>4, <3>5 DEF RateInv, Phase, IntMin
  <2>6. CASE Rate # 1 /\ count < IntMax
    <3>1. count' = count + 1 /\ wrapped' = wrapped BY <1>1, <2>2, <2>6, Ints DEF Wrap
    <3>2. HeartbeatTypeOK' BY <1>1, <1>2, <2>6, <3>1, Ints
    <3>3. Tested' = count BY <1>1, <3>1, Ints
    <3> QED BY <1>1, <2>4, <3>1, <3>2, <3>3 DEF RateInv, Phase, IntMin
  <2>7. CASE Rate # 1 /\ count = IntMax
    <3>1. count' = IntMin /\ wrapped' = TRUE
      <4>1. count + Remainder(1) = IntMax + 1 BY <1>1, <2>2, <2>7
      <4>2. count' = IntMin /\ count' < count BY <1>1, <2>7, <4>1, Ints DEF Wrap
      <4> QED BY <1>1, <4>2
    <3>2. ~wrapped
      <4> SUFFICES ASSUME wrapped PROVE FALSE OBVIOUS
      <4>1. IntMax - IntMin + 1 <= since BY <2>4, <2>7
      <4>2. since <= (Rate - 1) + (Rate - 1) BY <1>1, <2>1, <2>3, <2>4
      <4> QED BY <1>1, <2>1, <4>1, <4>2, Ints
    <3>3. since <= Rate - 1 BY <1>1, <2>1, <2>3, <2>4, <3>2
    <3>4. Tested' = IntMin - 1 BY <1>1, <3>1
    <3>5. (IntMin - 1) % Rate \in 0 .. (Rate - 1) BY <2>1, Ints, ModRange
    <3>6. since' <= ((IntMin - 1) % Rate) + (Rate - 1) BY <1>1, <2>1, <3>3, <3>5
    <3>7. HeartbeatTypeOK' BY <1>1, <1>2, <3>1, Ints
    <3>8. (IntMin - 1) - IntMin + 1 <= since' BY <1>1, Ints
    <3> QED BY <1>1, <3>1, <3>4, <3>6, <3>7, <3>8 DEF RateInv, Phase, IntMin
  <2> QED BY <1>1, <2>5, <2>6, <2>7, Ints
<1> QED BY <1>3, <1>4

LEMMA HeartbeatNext == RateInv /\ [NextHeartbeat]_heartbeat => RateInv'
<1> SUFFICES ASSUME RateInv, [NextHeartbeat]_heartbeat PROVE RateInv' OBVIOUS
<1>1. CASE UNCHANGED heartbeat
  BY <1>1 DEF heartbeat, RateInv, HeartbeatTypeOK, Phase, Tested, Rate, Period, IntMin
<1>2. ASSUME NEW r \in Rates, SetHeartBeatRate(r) PROVE RateInv' BY <1>2, SetRateStep
<1>3. CASE TestRate BY <1>3, TestRateStep
<1>4. CASE Advance BY <1>4, AdvanceStep
<1> QED BY <1>1, <1>2, <1>3, <1>4 DEF NextHeartbeat, Handler

\* Every reachable state satisfies the inductive invariant.
THEOREM HeartbeatInvariant == HeartbeatSpec => []RateInv
BY HeartbeatInit, HeartbeatNext, PTL DEF HeartbeatSpec

\* count stays an int although it is never reset, whatever ints the server sends.
THEOREM HeartbeatTyped == HeartbeatSpec => []HeartbeatTypeOK
<1>1. RateInv => HeartbeatTypeOK BY DEF RateInv
<1> QED BY <1>1, HeartbeatInvariant, PTL

\* At any rate the server can send, negative or up to the last int, and 0 alone left
\* out, it never waits longer than a period for a heartbeat, or two around an overflow of
\* count, although the rate changes between any two statements.
THEOREM InTime == HeartbeatSpec => []HeartbeatInTime
BY HeartbeatInvariant, RateInvBound, PTL
================================================================================
