---------------------------- MODULE CmdQueue_proofs ----------------------------
(***************************************************************************)
(* Proofs about the command ring for every ring size, every set of         *)
(* commands and every set of slot members: types, the inductive invariant  *)
(* that keeps the two threads apart, the safety properties it implies, and *)
(* that the ring implements the bounded FIFO of CmdFifo.                   *)
(***************************************************************************)
EXTENDS CmdQueue, TLAPS, SequenceTheorems

\* Succ without the modulo: the next slot, or the first after the last.
LEMMA SuccCases ==
    ASSUME NEW i \in Slots
    PROVE  /\ Succ(i) \in Slots
           /\ Succ(i) = IF i + 1 = MaxCmds THEN 0 ELSE i + 1
<1>1. CASE i + 1 = MaxCmds
  <2>1. MaxCmds % MaxCmds = 0
    BY MaxCmdsAssumption
  <2> QED
    BY <1>1, <2>1, MaxCmdsAssumption DEF Succ, Slots
<1>2. CASE i + 1 # MaxCmds
  <2>1. i + 1 \in 0 .. MaxCmds - 1
    BY <1>2, MaxCmdsAssumption DEF Slots
  <2> QED
    BY <1>2, <2>1, MaxCmdsAssumption DEF Succ, Slots
<1> QED
  BY <1>1, <1>2

LEMMA WholeType ==
    ASSUME NEW c \in Cmds \cup {NoCmd}
    PROVE  Whole(c) \in Slot
BY DEF Whole, Slot
--------------------------------------------------------------------------------
\* In program order the head never overtakes the stores into its slot.
InOrder == ppc # "late"

\* The slots between tail and head, by index.
InQueue(i) == IF gCmdTail <= gCmdHead THEN gCmdTail <= i /\ i < gCmdHead
                                      ELSE gCmdTail <= i \/ i < gCmdHead

\* What the MQTT thread knows: it fills the slot at the head, there is room, and
\* the members already stored are the command's.
ProducerInv ==
    /\ ppc # "idle" => offered \in Cmds
    /\ ppc = "fill" => /\ slot = gCmdHead
                       /\ ~Full
                       /\ \A f \in Fields \ unwritten : gCmds[slot][f] = offered
    /\ ppc = "assign" /\ applied => ~Full
    /\ ppc = "refused" => ~applied

\* What the main loop knows: its slot is in the queue and what it loaded is in it.
ConsumerInv ==
    /\ cpc # "poll" => gCmdHead # gCmdTail
    /\ cpc = "read" => \A f \in Fields \ unread : got[f] = gCmds[gCmdTail][f]
    /\ cpc = "advance" => last = gCmds[gCmdTail]

RingInv == \A i \in Slots : InQueue(i) => \E c \in Cmds : gCmds[i] = Whole(c)

IInv == TypeOK /\ InOrder /\ ProducerInv /\ ConsumerInv /\ RingInv

LEMMA InitIInv == Init => IInv
<1> SUFFICES ASSUME Init PROVE IInv
  OBVIOUS
<1>0. 0 \in Slots
  BY MaxCmdsAssumption DEF Slots
<1>1. TypeOK
  BY <1>0, WholeType DEF Init, TypeOK, Slot
<1>2. RingInv
  BY MaxCmdsAssumption DEF Init, RingInv, InQueue, Slots
<1> QED
  BY <1>1, <1>2 DEF Init, IInv, InOrder, ProducerInv, ConsumerInv
--------------------------------------------------------------------------------
LEMMA TypeStep ==
    ASSUME TypeOK, [Next]_vars
    PROVE  TypeOK'
<1> USE DEF TypeOK, ring, producer, consumer
<1>1. CASE \E c \in Cmds, next \in {"room", "assign"} : Receive(c, next)
  BY <1>1 DEF Receive
<1>2. CASE NoRoom \/ Apply \/ Refuse \/ Refused \/ Claim
  BY <1>2 DEF NoRoom, Apply, Refuse, Refused, Claim
<1>3. CASE \E f \in Fields : Fill(f)
  BY <1>3 DEF Fill, Slot
<1>4. CASE AdvanceHead
  BY <1>4, SuccCases DEF AdvanceHead
<1>5. CASE Poll \/ Dispatch
  BY <1>5 DEF Poll, Dispatch
<1>6. CASE \E f \in Fields : Read(f)
  BY <1>6 DEF Read, Slot
<1>7. CASE AdvanceTail
  BY <1>7, SuccCases DEF AdvanceTail
<1>8. CASE UNCHANGED vars
  BY <1>8 DEF vars
<1> QED
  BY <1>1, <1>2, <1>3, <1>4, <1>5, <1>6, <1>7, <1>8 DEF Next, MqttThread, MainLoop

\* A slot of the queue is never the one at the head, and the slot the main loop
\* works on is in the queue.
LEMMA QueueFacts ==
    ASSUME TypeOK
    PROVE  /\ ~InQueue(gCmdHead)
           /\ gCmdHead # gCmdTail => InQueue(gCmdTail)
BY MaxCmdsAssumption DEF TypeOK, InQueue, Slots

\* Advancing the head adds exactly the slot it leaves.
LEMMA HeadStep ==
    ASSUME TypeOK, ~Full, gCmdHead' = Succ(gCmdHead), gCmdTail' = gCmdTail,
           NEW i \in Slots
    PROVE  InQueue(i)' <=> InQueue(i) \/ i = gCmdHead
<1>1. Succ(gCmdHead) = IF gCmdHead + 1 = MaxCmds THEN 0 ELSE gCmdHead + 1
  BY SuccCases DEF TypeOK
<1> QED
  BY <1>1, MaxCmdsAssumption DEF TypeOK, Full, InQueue, Slots

\* Advancing the tail removes exactly the slot it leaves.
LEMMA TailStep ==
    ASSUME TypeOK, gCmdHead # gCmdTail, gCmdTail' = Succ(gCmdTail),
           gCmdHead' = gCmdHead, NEW i \in Slots
    PROVE  /\ InQueue(i)' <=> InQueue(i) /\ i # gCmdTail
           /\ ~Full => Succ(gCmdHead) # gCmdTail'
<1>1. Succ(gCmdTail) = IF gCmdTail + 1 = MaxCmds THEN 0 ELSE gCmdTail + 1
  BY SuccCases DEF TypeOK
<1>2. Succ(gCmdHead) = IF gCmdHead + 1 = MaxCmds THEN 0 ELSE gCmdHead + 1
  BY SuccCases DEF TypeOK
<1>3. InQueue(i)' <=> InQueue(i) /\ i # gCmdTail
  BY <1>1, MaxCmdsAssumption DEF TypeOK, InQueue, Slots
<1>4. Succ(gCmdHead) # gCmdTail'
  BY <1>1, <1>2, MaxCmdsAssumption DEF TypeOK, Slots
<1> QED
  BY <1>3, <1>4

LEMMA NextIInv ==
    ASSUME IInv, [Next]_vars
    PROVE  IInv'
<1> USE DEF IInv, InOrder
<1>0. TypeOK /\ TypeOK'
  BY TypeStep
<1>1. CASE \E c \in Cmds, next \in {"room", "assign"} : Receive(c, next)
  BY <1>0, <1>1 DEF Receive, ProducerInv, ConsumerInv, RingInv, InQueue, ring, consumer
<1>2. CASE NoRoom \/ Apply \/ Refuse \/ Refused
  BY <1>0, <1>2 DEF NoRoom, Apply, Refuse, Refused, ProducerInv, ConsumerInv, RingInv,
                    InQueue, Full, ring, consumer
<1>3. CASE Claim
  BY <1>0, <1>3 DEF Claim, ProducerInv, ConsumerInv, RingInv, InQueue, Full, ring, consumer
<1>4. ASSUME NEW f \in Fields, Fill(f)
      PROVE  IInv'
  <2>1. /\ ppc = "fill" /\ slot = gCmdHead /\ f \in unwritten
        /\ gCmds' = [gCmds EXCEPT ![slot][f] = offered]
        /\ UNCHANGED <<gCmdHead, gCmdTail, ppc, offered, applied, slot>>
        /\ UNCHANGED <<cpc, got, unread, last>>
        /\ unwritten' = unwritten \ {f}
    BY <1>4 DEF Fill, ProducerInv, consumer
  <2>2. gCmds[slot] \in [Fields -> Cmds \cup {NoCmd}] /\ slot \in Slots
    BY <1>0 DEF TypeOK, Slot
  <2>3. \A i \in Slots : i # gCmdHead => gCmds'[i] = gCmds[i]
    BY <1>0, <2>1 DEF TypeOK
  <2>4. ProducerInv'
    <3>1. \A g \in Fields \ unwritten' : gCmds'[slot][g] = offered
      BY <1>0, <2>1, <2>2 DEF ProducerInv, TypeOK, Slot
    <3> QED
      BY <2>1, <3>1 DEF ProducerInv, Full
  <2>5. ConsumerInv'
    BY <1>0, <2>1, <2>3 DEF ConsumerInv, TypeOK
  <2>6. RingInv'
    BY <1>0, <2>1, <2>3, QueueFacts DEF RingInv, InQueue
  <2> QED
    BY <1>0, <2>1, <2>4, <2>5, <2>6
<1>5. CASE AdvanceHead
  <2>1. /\ ~Full /\ slot = gCmdHead /\ offered \in Cmds
        /\ \A f \in Fields : gCmds[gCmdHead][f] = offered
        /\ gCmdHead' = Succ(gCmdHead)
        /\ gCmdTail' = gCmdTail /\ gCmds' = gCmds
        /\ ppc' = "idle" /\ UNCHANGED <<offered, applied, slot, unwritten>>
        /\ UNCHANGED <<cpc, got, unread, last>>
    BY <1>5 DEF AdvanceHead, ProducerInv, consumer
  <2>2. gCmds[gCmdHead] = Whole(offered)
    BY <1>0, <2>1 DEF TypeOK, Slot, Whole
  <2>3. RingInv'
    BY <1>0, <2>1, <2>2, HeadStep DEF RingInv
  <2>4. ConsumerInv'
    BY <1>0, <2>1 DEF ConsumerInv, Full
  <2> QED
    BY <1>0, <2>1, <2>3, <2>4 DEF ProducerInv
<1>6. CASE Poll \/ Dispatch
  <2>1. UNCHANGED <<gCmds, gCmdHead, gCmdTail, ppc, offered, applied, slot, unwritten>>
    BY <1>6 DEF Poll, Dispatch, ring, producer
  <2>2. ConsumerInv'
    <3>1. CASE Poll
      BY <1>0, <2>1, <3>1 DEF Poll, ConsumerInv
    <3>2. CASE Dispatch
      <4>1. gCmds[gCmdTail] \in Slot /\ got \in Slot
        BY <1>0 DEF TypeOK
      <4>2. \A f \in Fields : got[f] = gCmds[gCmdTail][f]
        BY <3>2 DEF Dispatch, ConsumerInv
      <4>3. got = gCmds[gCmdTail]
        BY <4>1, <4>2 DEF Slot
      <4> QED
        BY <2>1, <3>2, <4>3 DEF Dispatch, ConsumerInv
    <3> QED
      BY <1>6, <3>1, <3>2
  <2> QED
    BY <1>0, <2>1, <2>2 DEF ProducerInv, RingInv, InQueue, Full
<1>7. ASSUME NEW f \in Fields, Read(f)
      PROVE  IInv'
  <2>1. UNCHANGED <<gCmds, gCmdHead, gCmdTail, ppc, offered, applied, slot, unwritten>>
    BY <1>7 DEF Read, ring, producer
  <2>2. ConsumerInv'
    BY <1>0, <1>7, <2>1 DEF Read, ConsumerInv, TypeOK, Slot
  <2> QED
    BY <1>0, <2>1, <2>2 DEF ProducerInv, RingInv, InQueue, Full
<1>8. CASE AdvanceTail
  <2>1. /\ gCmdHead # gCmdTail /\ gCmdTail' = Succ(gCmdTail)
        /\ UNCHANGED <<gCmds, gCmdHead, ppc, offered, applied, slot, unwritten>>
        /\ cpc' = "poll" /\ UNCHANGED <<got, unread, last>>
    BY <1>8 DEF AdvanceTail, ConsumerInv, producer
  <2>2. ~Full => ~Full'
    BY <1>0, <2>1, TailStep, SuccCases DEF TypeOK, Full
  <2>3. RingInv'
    BY <1>0, <2>1, TailStep DEF RingInv
  <2>4. ProducerInv'
    BY <2>1, <2>2 DEF ProducerInv
  <2> QED
    BY <1>0, <2>1, <2>3, <2>4 DEF ConsumerInv
<1>9. CASE UNCHANGED vars
  BY <1>0, <1>9 DEF vars, ring, producer, consumer, ProducerInv, ConsumerInv, RingInv,
                    InQueue, Full
<1> QED
  BY <1>1, <1>2, <1>3, <1>4, <1>5, <1>6, <1>7, <1>8, <1>9 DEF Next, MqttThread, MainLoop

\* The inductive invariant holds in every reachable state.
THEOREM Invariant == Spec => []IInv
<1>1. IInv /\ [Next]_vars => IInv'
  BY NextIInv
<1> QED
  BY InitIInv, <1>1, PTL DEF Spec

\* Types: in particular gCmdHead and gCmdTail never index outside gCmds.
THEOREM TypeCorrect == Spec => []TypeOK
<1>1. IInv => TypeOK
  BY DEF IInv
<1> QED
  BY Invariant, <1>1, PTL

\* The slot AssignCmd stores into is never the slot the Handler is using.
THEOREM ThreadsApart == Spec => []NeverSameSlot
<1>1. IInv => NeverSameSlot
  BY DEF IInv, InOrder, ProducerInv, ConsumerInv, NeverSameSlot
<1> QED
  BY Invariant, <1>1, PTL

\* A command whose callback has run always finds room in the ring.
THEOREM AppliedIsQueued == Spec => []AppliedIsNeverRefused
<1>1. IInv => AppliedIsNeverRefused
  BY DEF IInv, ProducerInv, AppliedIsNeverRefused
<1> QED
  BY Invariant, <1>1, PTL

\* Whatever the Handler dispatches is one whole command.
THEOREM NoTornDispatch == Spec => []DispatchedWhole
<1>1. IInv => DispatchedWhole
  BY QueueFacts DEF IInv, ConsumerInv, RingInv, TypeOK, DispatchedWhole
<1> QED
  BY Invariant, <1>1, PTL
--------------------------------------------------------------------------------
(* The refinement.  The k-th slot of the queue is At(k).                   *)

\* The first Used slots from the tail on are the slots of the queue.
LEMMA AtFacts ==
    ASSUME TypeOK
    PROVE  /\ Used \in 0 .. MaxCmds - 1
           /\ Used = 0 <=> gCmdHead = gCmdTail
           /\ \A k \in 0 .. (Used - 1) : At(k) \in Slots /\ InQueue(At(k))
           /\ At(0) = gCmdTail
           /\ At(Used) = gCmdHead
           /\ ~Full => Used < MaxCmds - 1
<1>1. Succ(gCmdHead) = IF gCmdHead + 1 = MaxCmds THEN 0 ELSE gCmdHead + 1
  BY SuccCases DEF TypeOK
<1> QED
  BY <1>1, MaxCmdsAssumption DEF TypeOK, Used, At, InQueue, Slots, Full

\* No slot between tail and head is ever half written.
THEOREM QueueIsWhole == Spec => []QueuedSlotsWhole
<1>1. IInv => QueuedSlotsWhole
  BY AtFacts DEF IInv, RingInv, QueuedSlotsWhole
<1> QED
  BY Invariant, <1>1, PTL

Items == {Whole(c) : c \in Cmds}
N == Used - Dispatched

\* The abstract queue is a sequence of whole commands, N of them.
QueueOK ==
    /\ N \in Nat
    /\ N <= Used
    /\ Queue \in Seq(Items)
    /\ Len(Queue) = N
    /\ \A k \in 1 .. N : Queue[k] = gCmds[At(k - 1 + Dispatched)]

LEMMA QueueType == IInv => QueueOK
<1> SUFFICES ASSUME IInv PROVE QueueOK
  OBVIOUS
<1>1. Used \in Nat /\ Dispatched \in {0, 1} /\ (Dispatched = 1 => Used # 0)
  BY AtFacts, MaxCmdsAssumption DEF IInv, ConsumerInv, Dispatched
<1>2. N \in Nat /\ N <= Used
  BY <1>1 DEF N
<1>3. ASSUME NEW k \in 1 .. N
      PROVE  gCmds[At(k - 1 + Dispatched)] \in Items
  <2>1. k - 1 + Dispatched \in 0 .. (Used - 1)
    BY <1>1, <1>3 DEF N
  <2>2. At(k - 1 + Dispatched) \in Slots /\ InQueue(At(k - 1 + Dispatched))
    BY <2>1, AtFacts DEF IInv
  <2> QED
    BY <2>2 DEF IInv, RingInv, Items
<1>4. Queue = [k \in 1 .. N |-> gCmds[At(k - 1 + Dispatched)]]
  BY DEF Queue, N
<1>5. Queue \in Seq(Items)
  BY <1>2, <1>3, <1>4, IsASeq
<1>6. Len(Queue) = N
  BY <1>2, <1>4, <1>5
<1> QED
  BY <1>2, <1>4, <1>5, <1>6 DEF QueueOK

LEMMA QueueTypeNext == IInv' => QueueOK'
BY QueueType, PTL

\* A step that moves neither the tail nor the head nor a slot of the queue, and
\* neither starts nor ends a dispatch, leaves the abstract queue alone.
LEMMA QueueUnchanged ==
    ASSUME IInv, gCmdHead' = gCmdHead, gCmdTail' = gCmdTail, Dispatched' = Dispatched,
           \A i \in Slots : InQueue(i) => gCmds'[i] = gCmds[i]
    PROVE  Queue' = Queue
<1>1. Used' = Used /\ N' = N
  BY DEF Used, N
<1>2. \A k \in 1 .. N : gCmds'[At(k - 1 + Dispatched)] = gCmds[At(k - 1 + Dispatched)]
  <2>1. \A k \in 1 .. N : k - 1 + Dispatched \in 0 .. (Used - 1)
    BY QueueType, AtFacts, MaxCmdsAssumption DEF IInv, N, Dispatched, QueueOK
  <2> QED
    BY <2>1, AtFacts DEF IInv
<1>3. \A k \in 1 .. N : At(k - 1 + Dispatched)' = At(k - 1 + Dispatched)
  BY DEF At
<1> QED
  BY <1>1, <1>2, <1>3 DEF Queue, N

\* Advancing the head appends the command that was just stored.
LEMMA PutStep ==
    ASSUME IInv, AdvanceHead
    PROVE  Fifo!Put(Whole(offered))
<1>1. /\ ~Full /\ slot = gCmdHead /\ offered \in Cmds
      /\ \A f \in Fields : gCmds[gCmdHead][f] = offered
      /\ gCmdHead' = Succ(gCmdHead)
      /\ gCmdTail' = gCmdTail /\ gCmds' = gCmds /\ cpc' = cpc /\ last' = last
  BY DEF AdvanceHead, IInv, ProducerInv, consumer
<1>2. gCmds[gCmdHead] = Whole(offered)
  BY <1>1 DEF IInv, TypeOK, Slot, Whole
<1>3. Used < MaxCmds - 1
  BY <1>1, AtFacts DEF IInv
<1>4. Succ(gCmdHead) = IF gCmdHead + 1 = MaxCmds THEN 0 ELSE gCmdHead + 1
  BY SuccCases DEF IInv, TypeOK
<1>5. Used' = Used + 1 /\ Dispatched' = Dispatched /\ Dispatched \in {0, 1}
  BY <1>1, <1>3, <1>4, MaxCmdsAssumption DEF IInv, TypeOK, Used, Dispatched, Slots, Full
<1>6. Used \in Nat /\ N \in Nat /\ N' = N + 1
  BY <1>5, QueueType, AtFacts, MaxCmdsAssumption DEF N, IInv, QueueOK
<1>7. IInv'
  BY NextIInv DEF Next, MqttThread
<1>8. Whole(offered) \in Items
  BY <1>1 DEF Items
<1> DEFINE A == Append(Queue, Whole(offered))
<1>9. /\ A \in Seq(Items) /\ Len(A) = N + 1
      /\ \A k \in 1 .. N : A[k] = Queue[k]
      /\ A[N + 1] = Whole(offered)
  BY <1>8, QueueType, AppendProperties DEF QueueOK
<1>10. /\ Queue' \in Seq(Items) /\ Len(Queue') = N + 1
       /\ \A k \in 1 .. N + 1 : Queue'[k] = gCmds[At(k - 1 + Dispatched)]
  <2>1. /\ Queue' \in Seq(Items) /\ Len(Queue') = N'
        /\ \A k \in 1 .. N' : Queue'[k] = gCmds'[At(k - 1 + Dispatched)']
    BY <1>7, QueueTypeNext DEF QueueOK
  <2>2. \A k \in 1 .. N' : At(k - 1 + Dispatched)' = At(k - 1 + Dispatched)
    BY <1>1, <1>5 DEF At
  <2> QED
    BY <1>1, <1>6, <2>1, <2>2
<1>11. \A k \in 1 .. N + 1 : Queue'[k] = A[k]
  <2>1. \A k \in 1 .. N : Queue'[k] = A[k]
    BY <1>6, <1>9, <1>10, QueueType DEF QueueOK
  <2>2. Queue'[N + 1] = Whole(offered)
    <3>1. N + 1 - 1 + Dispatched = Used
      BY <1>5, <1>6 DEF N
    <3> QED
      BY <1>2, <1>6, <1>10, <3>1, AtFacts DEF IInv
  <2> QED
    BY <1>6, <1>9, <2>1, <2>2
<1>12. Queue' = A
  BY <1>9, <1>10, <1>11, SeqEqual
<1>13. Len(Queue) < MaxCmds - 1
  BY <1>3, <1>6, QueueType, MaxCmdsAssumption DEF QueueOK
<1> QED
  BY <1>1, <1>12, <1>13 DEF Fifo!Put

\* Dispatching takes the command at the head of the abstract queue.
LEMMA TakeStep ==
    ASSUME IInv, Dispatch
    PROVE  Fifo!Take
<1>1. /\ gCmdHead # gCmdTail /\ cpc = "read" /\ cpc' = "advance" /\ last' = got
      /\ \A f \in Fields : got[f] = gCmds[gCmdTail][f]
      /\ UNCHANGED <<gCmds, gCmdHead, gCmdTail>>
  BY DEF Dispatch, IInv, ConsumerInv, ring
<1>2. got = gCmds[gCmdTail]
  <2>1. gCmds[gCmdTail] \in Slot /\ got \in Slot
    BY DEF IInv, TypeOK
  <2> QED
    BY <1>1, <2>1 DEF Slot
<1>3. Dispatched = 0 /\ Dispatched' = 1 /\ Used' = Used /\ Used \in Nat /\ Used # 0
  BY <1>1, AtFacts, MaxCmdsAssumption DEF Dispatched, Used, IInv
<1>4. N = Used /\ N' = Used - 1 /\ N' \in Nat
  BY <1>3 DEF N
<1>5. IInv'
  BY NextIInv DEF Next, MainLoop
<1>6. Queue # << >> /\ Head(Queue) = Queue[1]
  BY <1>3, <1>4, QueueType DEF QueueOK
<1>7. Queue[1] = gCmds[gCmdTail]
  <2>1. 1 \in 1 .. N /\ 1 - 1 + Dispatched = 0
    BY <1>3, <1>4
  <2> QED
    BY <2>1, QueueType, AtFacts DEF IInv, QueueOK
<1>8. /\ Tail(Queue) \in Seq(Items) /\ Len(Tail(Queue)) = Used - 1
      /\ \A k \in 1 .. Used - 1 : Tail(Queue)[k] = Queue[k + 1]
  BY <1>4, <1>6, QueueType, HeadTailProperties DEF QueueOK
<1>9. /\ Queue' \in Seq(Items) /\ Len(Queue') = Used - 1
      /\ \A k \in 1 .. Used - 1 : Queue'[k] = gCmds[At(k)]
  <2>1. /\ Queue' \in Seq(Items) /\ Len(Queue') = N'
        /\ \A k \in 1 .. N' : Queue'[k] = gCmds'[At(k - 1 + Dispatched)']
    BY <1>5, QueueTypeNext DEF QueueOK
  <2>2. \A k \in 1 .. N' : At(k - 1 + Dispatched)' = At(k)
    BY <1>1, <1>3, <1>4 DEF At
  <2> QED
    BY <1>1, <1>4, <2>1, <2>2
<1>10. \A k \in 1 .. Used - 1 : Queue[k + 1] = gCmds[At(k)]
  <2>1. \A k \in 1 .. Used - 1 : k + 1 \in 1 .. N /\ k + 1 - 1 + Dispatched = k
    BY <1>3, <1>4
  <2> QED
    BY <2>1, QueueType DEF QueueOK
<1>11. Queue' = Tail(Queue)
  BY <1>3, <1>8, <1>9, <1>10, SeqEqual
<1> QED
  BY <1>1, <1>2, <1>6, <1>7, <1>11 DEF Fifo!Take

\* Moving the tail past a dispatched slot changes nothing for the buffer's users.
LEMMA TailStutter ==
    ASSUME IInv, AdvanceTail
    PROVE  Queue' = Queue
<1>1. /\ gCmdHead # gCmdTail /\ cpc = "advance" /\ cpc' = "poll"
      /\ gCmdTail' = Succ(gCmdTail) /\ UNCHANGED <<gCmds, gCmdHead>>
  BY DEF AdvanceTail, IInv, ConsumerInv
<1>2. Succ(gCmdTail) = IF gCmdTail + 1 = MaxCmds THEN 0 ELSE gCmdTail + 1
  BY SuccCases DEF IInv, TypeOK
<1>3. Dispatched = 1 /\ Dispatched' = 0 /\ Used \in Nat /\ Used' = Used - 1
  BY <1>1, <1>2, MaxCmdsAssumption DEF IInv, TypeOK, Used, Dispatched, Slots
<1>4. N' = N /\ N = Used - 1
  BY <1>3 DEF N
<1>5. \A k \in 1 .. N : At(k - 1 + Dispatched)' = At(k - 1 + Dispatched)
  <2>1. \A k \in 1 .. N : k - 1 + Dispatched = k /\ (k - 1 + Dispatched)' = k - 1
    BY <1>3
  <2>2. \A k \in 1 .. N : At(k - 1)' = At(k)
    <3>1. Used <= MaxCmds - 1
      BY AtFacts, MaxCmdsAssumption DEF IInv
    <3> QED
      BY <1>1, <1>2, <1>3, <1>4, <3>1, MaxCmdsAssumption DEF IInv, TypeOK, At, Slots
  <2> QED
    BY <1>1, <1>3, <2>1, <2>2 DEF At
<1> QED
  BY <1>1, <1>4, <1>5 DEF Queue, N

LEMMA InitRefines == ASSUME Init PROVE Fifo!Init
<1>1. IInv /\ last = Whole(NoCmd)
  BY InitIInv DEF Init
<1>2. Used = 0 /\ Dispatched = 0
  BY MaxCmdsAssumption DEF Init, Used, Dispatched
<1>3. Len(Queue) = 0 /\ Queue \in Seq(Items)
  BY <1>1, <1>2, QueueType DEF QueueOK, N
<1>4. Queue = << >>
  BY <1>3, EmptySeq
<1> QED
  BY <1>1, <1>4 DEF Fifo!Init

LEMMA NextRefines ==
    ASSUME IInv, [Next]_vars
    PROVE  [Fifo!Next]_Fifo!vars
<1> USE DEF Fifo!vars
<1>1. ASSUME UNCHANGED <<gCmdHead, gCmdTail, last>>, Dispatched' = Dispatched,
             gCmds' = gCmds
      PROVE  UNCHANGED Fifo!vars
  BY <1>1, QueueUnchanged
<1>2. CASE \E c \in Cmds, next \in {"room", "assign"} : Receive(c, next)
  BY <1>1, <1>2 DEF Receive, ring, consumer, Dispatched
<1>3. CASE NoRoom \/ Apply \/ Refuse \/ Refused \/ Claim
  BY <1>1, <1>3 DEF NoRoom, Apply, Refuse, Refused, Claim, ring, consumer, Dispatched
<1>4. ASSUME NEW f \in Fields, Fill(f)
      PROVE  UNCHANGED Fifo!vars
  <2>1. /\ slot = gCmdHead /\ gCmds' = [gCmds EXCEPT ![slot][f] = offered]
        /\ UNCHANGED <<gCmdHead, gCmdTail, last>> /\ Dispatched' = Dispatched
    BY <1>4 DEF Fill, IInv, InOrder, ProducerInv, consumer, Dispatched
  <2>2. \A i \in Slots : InQueue(i) => gCmds'[i] = gCmds[i]
    BY <2>1, QueueFacts DEF IInv, TypeOK
  <2> QED
    BY <2>1, <2>2, QueueUnchanged
<1>5. CASE AdvanceHead
  BY <1>5, PutStep DEF Fifo!Next, IInv, ProducerInv, AdvanceHead
<1>6. CASE Dispatch
  BY <1>6, TakeStep DEF Fifo!Next
<1>7. CASE AdvanceTail
  BY <1>7, TailStutter DEF AdvanceTail
<1>8. CASE Poll
  BY <1>1, <1>8 DEF Poll, ring, Dispatched
<1>9. CASE \E f \in Fields : Read(f)
  BY <1>1, <1>9 DEF Read, ring, Dispatched
<1>10. CASE UNCHANGED vars
  BY <1>1, <1>10 DEF vars, ring, consumer, Dispatched
<1> QED
  BY <1>2, <1>3, <1>4, <1>5, <1>6, <1>7, <1>8, <1>9, <1>10 DEF Next, MqttThread, MainLoop

\* The ring implements the bounded FIFO of whole commands.
THEOREM Refinement == Spec => ImplementsFifo
<1>1. Init => Fifo!Init
  BY InitRefines
<1>2. IInv /\ [Next]_vars => [Fifo!Next]_Fifo!vars
  BY NextRefines
<1> QED
  BY Invariant, <1>1, <1>2, PTL DEF Spec, ImplementsFifo, Fifo!Spec
--------------------------------------------------------------------------------
(* The ring when a store to gCmdHead overtakes the stores into the slot.   *)

WeakInv ==
    /\ gCmdHead \in Slots /\ gCmdTail \in Slots
    /\ ppc \in {"idle", "room", "assign", "refused", "fill", "late"}
    /\ applied \in BOOLEAN
    /\ ppc = "fill" \/ (ppc = "assign" /\ applied) => ~Full
    /\ ppc = "refused" => ~applied
    /\ cpc # "poll" => gCmdHead # gCmdTail

LEMMA WeakStep ==
    ASSUME WeakInv, [WeakNext]_vars
    PROVE  WeakInv'
<1>1. /\ Succ(gCmdHead) \in Slots /\ Succ(gCmdTail) \in Slots
      /\ Succ(gCmdHead) = IF gCmdHead + 1 = MaxCmds THEN 0 ELSE gCmdHead + 1
      /\ Succ(gCmdTail) = IF gCmdTail + 1 = MaxCmds THEN 0 ELSE gCmdTail + 1
  BY SuccCases DEF WeakInv
<1>2. CASE \E c \in Cmds, next \in {"room", "assign"} : Receive(c, next)
  BY <1>2 DEF WeakInv, Receive, Full, ring, consumer
<1>3. CASE NoRoom \/ Apply \/ Refuse \/ Refused \/ Claim
  <2>1. UNCHANGED <<gCmdHead, gCmdTail, cpc>> /\ Full' = Full
    BY <1>3 DEF NoRoom, Apply, Refuse, Refused, Claim, Full, ring, consumer
  <2>2. CASE NoRoom \/ Refused BY <2>1, <2>2 DEF WeakInv, NoRoom, Refused
  <2>3. CASE Apply BY <2>1, <2>3 DEF WeakInv, Apply
  <2>4. CASE Refuse BY <2>1, <2>4, Zenon DEF WeakInv, Refuse
  <2>5. CASE Claim BY <2>1, <2>5 DEF WeakInv, Claim
  <2> QED BY <1>3, <2>2, <2>3, <2>4, <2>5
<1>4. CASE \E f \in Fields : Fill(f)
  BY <1>4 DEF WeakInv, Fill, Full, consumer
<1>5. CASE AdvanceHead \/ AdvanceEarly
  <2>1. /\ ppc = "fill" /\ gCmdHead' = Succ(gCmdHead) /\ ppc' \in {"idle", "late"}
        /\ UNCHANGED <<gCmdTail, applied, cpc>>
    BY <1>5 DEF AdvanceHead, AdvanceEarly, consumer
  <2>2. gCmdHead' # gCmdTail' BY <2>1 DEF WeakInv, Full
  <2> QED BY <1>1, <2>1, <2>2 DEF WeakInv
<1>6. CASE Arrived
  BY <1>6 DEF WeakInv, Arrived, Full, ring, consumer
<1>7. CASE Poll \/ Dispatch \/ \E f \in Fields : Read(f)
  BY <1>7 DEF WeakInv, Poll, Dispatch, Read, Full, ring, producer
<1>8. CASE AdvanceTail
  <2>1. /\ cpc = "advance" /\ gCmdTail' = Succ(gCmdTail) /\ cpc' = "poll"
        /\ UNCHANGED <<gCmdHead, ppc, applied>>
    BY <1>8 DEF AdvanceTail, producer
  <2>2. Succ(gCmdHead) # Succ(gCmdTail)
    BY <1>1, <2>1, MaxCmdsAssumption DEF WeakInv, Slots
  <2>3. ~Full' BY <2>1, <2>2 DEF Full, Succ
  <2> QED BY <1>1, <2>1, <2>3 DEF WeakInv
<1>9. CASE UNCHANGED vars
  BY <1>9 DEF WeakInv, Full, vars, ring, producer, consumer
<1> QED
  BY <1>2, <1>3, <1>4, <1>5, <1>6, <1>7, <1>8, <1>9 DEF WeakNext, Next, MqttThread, MainLoop

\* Also on a processor that shows the main loop the head before the slot, a get or set
\* whose callback has run finds the room that CmdReceive saw.
THEOREM AppliedIsQueuedWeakly == WeakSpec => []AppliedIsNeverRefused
<1>1. Init => WeakInv
  <2>1. 0 \in Slots BY MaxCmdsAssumption DEF Slots
  <2> QED BY <2>1 DEF Init, WeakInv
<1>2. WeakInv /\ [WeakNext]_vars => WeakInv'
  BY WeakStep
<1>3. WeakInv => AppliedIsNeverRefused
  BY DEF WeakInv, AppliedIsNeverRefused
<1> QED
  BY <1>1, <1>2, <1>3, PTL DEF WeakSpec
================================================================================
