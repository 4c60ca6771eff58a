------------------------------- MODULE CmdQueue --------------------------------
(***************************************************************************)
(* The command ring of src/wiseaccess.c, one statement at a time.          *)
(*                                                                         *)
(* gCmds[MAX_CMDS] is filled by WiseAccess_AssignCmd, which runs on the    *)
(* MQTT client's receive thread, and emptied by WiseAccess_Handler, which  *)
(* runs on the application's thread inside WiseSnail_MainLoop.  No lock    *)
(* protects it (the API mutex is not taken by the callbacks): the two      *)
(* threads meet only in gCmdHead and gCmdTail, so every test, every store  *)
(* into a slot and every load from one is a step of its own.               *)
(*                                                                         *)
(* A command is an element of Cmds.  A slot holds one value per struct     *)
(* member, so a slot that mixes two commands is a state of this model.     *)
(***************************************************************************)
EXTENDS Integers, Sequences

CONSTANTS MaxCmds,   \* MAX_CMDS of inc/wiseconfig.h
          Cmds,      \* the commands the server may send
          Fields,    \* the members of WiseAgent_CMD that are written and read
          NoCmd      \* the contents of a member of the zeroed gCmds

ASSUME MaxCmdsAssumption == MaxCmds \in Nat \ {0}
ASSUME NoCmdAssumption == NoCmd \notin Cmds
ASSUME FieldsAssumption == Fields # {}

VARIABLES
    gCmds,       \* the ring: one function of Fields per slot
    gCmdHead,    \* next slot to fill, written by the MQTT thread only
    gCmdTail,    \* next slot to dispatch, written by the main loop only
    ppc,         \* where the MQTT thread is
    offered,     \* the command it was handed
    applied,     \* CmdReceive has already called setValue / getValue for it
    slot,        \* AssignCmd's pointer `cmd`, as an index
    unwritten,   \* the members AssignCmd has not stored yet
    cpc,         \* where the main loop is
    got,         \* the members WiseAccess_Handler has loaded so far
    unread,      \* the members it has not loaded yet
    last         \* the command it dispatched last

ring == <<gCmds, gCmdHead, gCmdTail>>
producer == <<ppc, offered, applied, slot, unwritten>>
consumer == <<cpc, got, unread, last>>
vars == <<ring, producer, consumer>>

Slots == 0 .. MaxCmds - 1
Whole(c) == [f \in Fields |-> c]

SuccUnwrapped(i) == i + 1                     \* faulty: the modulo forgotten
Succ(i) == (i + 1) % MaxCmds

NeverFull == FALSE                            \* faulty: the test for room forgotten
Full == Succ(gCmdHead) = gCmdTail

Init ==
    /\ gCmds = [i \in Slots |-> Whole(NoCmd)]
    /\ gCmdHead = 0
    /\ gCmdTail = 0
    /\ ppc = "idle"
    /\ offered = NoCmd
    /\ applied = FALSE
    /\ slot = 0
    /\ unwritten = {}
    /\ cpc = "poll"
    /\ got = Whole(NoCmd)
    /\ unread = {}
    /\ last = Whole(NoCmd)
--------------------------------------------------------------------------------
(* The MQTT thread.  Rename, capability and heartbeat commands go straight *)
(* to AssignCmd; for get (523) and set (525) CmdReceive first looks for    *)
(* room, then runs the application's callback, then calls AssignCmd.       *)

Receive(c, next) ==
    /\ ppc = "idle"
    /\ offered' = c
    /\ applied' = FALSE
    /\ ppc' = next
    /\ UNCHANGED <<slot, unwritten, ring, consumer>>

\* No room: CmdReceive returns, the command is neither applied nor queued.
NoRoom ==
    /\ ppc = "room"
    /\ Full
    /\ ppc' = "idle"
    /\ UNCHANGED <<offered, applied, slot, unwritten, ring, consumer>>

\* Faulty: the callback runs before the test for room.
ApplyUntested ==
    /\ ppc = "room"
    /\ applied' = TRUE
    /\ ppc' = "assign"
    /\ UNCHANGED <<offered, slot, unwritten, ring, consumer>>

Apply ==
    /\ ppc = "room"
    /\ ~Full
    /\ applied' = TRUE
    /\ ppc' = "assign"
    /\ UNCHANGED <<offered, slot, unwritten, ring, consumer>>

\* AssignCmd returns 0.
Refuse ==
    /\ ppc = "assign"
    /\ Full
    /\ ppc' = "refused"
    /\ UNCHANGED <<offered, applied, slot, unwritten, ring, consumer>>

Refused ==
    /\ ppc = "refused"
    /\ ppc' = "idle"
    /\ UNCHANGED <<offered, applied, slot, unwritten, ring, consumer>>

Claim ==
    /\ ppc = "assign"
    /\ ~Full
    /\ ppc' = "fill"
    /\ slot' = gCmdHead
    /\ unwritten' = Fields
    /\ UNCHANGED <<offered, applied, ring, consumer>>

Fill(f) ==
    /\ ppc \in {"fill", "late"}
    /\ f \in unwritten
    /\ gCmds' = [gCmds EXCEPT ![slot][f] = offered]
    /\ unwritten' = unwritten \ {f}
    /\ UNCHANGED <<gCmdHead, gCmdTail, ppc, offered, applied, slot, consumer>>

\* Faulty: the head is advanced before the slot is filled.
AdvanceHeadFirst ==
    /\ ppc = "fill"
    /\ gCmdHead' = Succ(gCmdHead)
    /\ ppc' = "late"
    /\ UNCHANGED <<gCmds, gCmdTail, offered, applied, slot, unwritten, consumer>>

AdvanceHead ==
    /\ ppc = "fill"
    /\ unwritten = {}
    /\ gCmdHead' = Succ(gCmdHead)
    /\ ppc' = "idle"
    /\ UNCHANGED <<gCmds, gCmdTail, offered, applied, slot, unwritten, consumer>>

MqttThread ==
    \/ \E c \in Cmds, next \in {"room", "assign"} : Receive(c, next)
    \/ NoRoom \/ Apply \/ Refuse \/ Refused \/ Claim \/ AdvanceHead
    \/ \E f \in Fields : Fill(f)
--------------------------------------------------------------------------------
(* The main loop: while(gCmdHead != gCmdTail) { read; dispatch; advance }. *)

\* Faulty: an order where the ring needs an inequality.
PollUnwrapped ==
    /\ cpc = "poll"
    /\ gCmdHead > gCmdTail
    /\ cpc' = "read"
    /\ unread' = Fields
    /\ UNCHANGED <<got, last, ring, producer>>

Poll ==
    /\ cpc = "poll"
    /\ gCmdHead # gCmdTail
    /\ cpc' = "read"
    /\ unread' = Fields
    /\ UNCHANGED <<got, last, ring, producer>>

Read(f) ==
    /\ cpc = "read"
    /\ f \in unread
    /\ got' = [got EXCEPT ![f] = gCmds[gCmdTail][f]]
    /\ unread' = unread \ {f}
    /\ UNCHANGED <<cpc, last, ring, producer>>

Dispatch ==
    /\ cpc = "read"
    /\ unread = {}
    /\ last' = got
    /\ cpc' = "advance"
    /\ UNCHANGED <<got, unread, ring, producer>>

\* Faulty: the queue is emptied after one command.
AdvanceTailToHead ==
    /\ cpc = "advance"
    /\ gCmdTail' = gCmdHead
    /\ cpc' = "poll"
    /\ UNCHANGED <<gCmds, gCmdHead, got, unread, last, producer>>

AdvanceTail ==
    /\ cpc = "advance"
    /\ gCmdTail' = Succ(gCmdTail)
    /\ cpc' = "poll"
    /\ UNCHANGED <<gCmds, gCmdHead, got, unread, last, producer>>

MainLoop ==
    \/ Poll \/ Dispatch \/ AdvanceTail
    \/ \E f \in Fields : Read(f)
--------------------------------------------------------------------------------
Next == MqttThread \/ MainLoop

\* The application calls WiseSnail_MainLoop again and again (sample/test.c).
Spec == Init /\ [][Next]_vars /\ WF_vars(MainLoop)

(* gCmdHead is a plain int: on a processor that reorders stores (ARM) the  *)
(* main loop may see the new head while members of the slot are still on   *)
(* their way.  They arrive before the thread's next command.               *)
AdvanceEarly ==
    /\ ppc = "fill"
    /\ unwritten # {}
    /\ gCmdHead' = Succ(gCmdHead)
    /\ ppc' = "late"
    /\ UNCHANGED <<gCmds, gCmdTail, offered, applied, slot, unwritten, consumer>>

Arrived ==
    /\ ppc = "late"
    /\ unwritten = {}
    /\ ppc' = "idle"
    /\ UNCHANGED <<offered, applied, slot, unwritten, ring, consumer>>

WeakNext == Next \/ AdvanceEarly \/ Arrived
WeakSpec == Init /\ [][WeakNext]_vars /\ WF_vars(MainLoop)
--------------------------------------------------------------------------------
Slot == [Fields -> Cmds \cup {NoCmd}]

\* Every variable keeps its type; the indices never leave the array gCmds.
TypeOK ==
    /\ gCmds \in [Slots -> Slot]
    /\ gCmdHead \in Slots
    /\ gCmdTail \in Slots
    /\ ppc \in {"idle", "room", "assign", "refused", "fill", "late"}
    /\ offered \in Cmds \cup {NoCmd}
    /\ applied \in BOOLEAN
    /\ slot \in Slots
    /\ unwritten \in SUBSET Fields
    /\ cpc \in {"poll", "read", "advance"}
    /\ got \in Slot
    /\ unread \in SUBSET Fields
    /\ last \in Slot

\* How many slots lie between tail and head, and where the k-th of them is.
Used == IF gCmdTail <= gCmdHead THEN gCmdHead - gCmdTail
                                ELSE gCmdHead + MaxCmds - gCmdTail
At(k) == IF gCmdTail + k < MaxCmds THEN gCmdTail + k
                                   ELSE gCmdTail + k - MaxCmds

\* Every slot between tail and head holds one whole command of the server: the
\* main loop can never be shown a slot that AssignCmd has half written.
QueuedSlotsWhole ==
    \A k \in 0 .. (Used - 1) : \E c \in Cmds : gCmds[At(k)] = Whole(c)

\* While AssignCmd is storing into a slot and the Handler is using one, these
\* are two different slots, although neither thread ever waits for the other.
NeverSameSlot ==
    ppc \in {"fill", "late"} /\ cpc # "poll" => slot # gCmdTail

\* A get or set whose callback has run is always queued for its answer: the
\* room CmdReceive saw before the callback is still there when AssignCmd looks
\* again, however long the callback takes.
AppliedIsNeverRefused == ~(ppc = "refused" /\ applied)

\* Whatever the main loop dispatches is one whole command.
DispatchedWhole ==
    cpc = "advance" => \E c \in Cmds : last = Whole(c)

\* The queue as the abstract buffer sees it: a slot leaves it when its command
\* is dispatched, one step before gCmdTail moves past it.
Dispatched == IF cpc = "advance" THEN 1 ELSE 0
Queue == [k \in 1 .. (Used - Dispatched) |-> gCmds[At(k - 1 + Dispatched)]]

Fifo == INSTANCE CmdFifo
            WITH Items <- {Whole(c) : c \in Cmds}, Capacity <- MaxCmds - 1,
                 Nothing <- Whole(NoCmd), queue <- Queue, out <- last

\* The ring, driven by two threads without a lock, is a bounded FIFO of whole
\* commands: none accepted is lost, repeated, reordered or mixed with another.
ImplementsFifo == Fifo!Spec

\* Every position the head has reached is reached by the tail: a command that
\* was accepted is dispatched, however many the server keeps sending.
EveryCommandReached ==
    \A i \in Slots : (gCmdHead = i) ~> (gCmdTail = i)
================================================================================
