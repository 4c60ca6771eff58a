------------------------------- MODULE CmdService -------------------------------
(***************************************************************************)
(* What happens to a command of the server, from the payload the MQTT      *)
(* client hands over to the reply it is answered with.                     *)
(*                                                                         *)
(* Two threads.  The MQTT client's receive thread runs _on_message_recv    *)
(* (WISECore.c), the on_... callbacks (wiseagentlite.c) and CmdReceive     *)
(* (wiseaccess.c): it applies the command and queues what the reply needs. *)
(* The application's thread calls WiseSnail_MainLoop, whose                *)
(* WiseAccess_Handler takes the commands out and publishes the replies,    *)
(* and WiseSnail_Update, which writes the same items.  The API mutex keeps *)
(* these two calls apart; the receive thread takes no lock.                *)
(*                                                                         *)
(* The queue is the bounded FIFO that CmdQueue shows the ring to be, with  *)
(* the slot in use until gCmdTail moves.  Requests are numbered as they    *)
(* arrive (their session ids); values are numbered as they are written, so *)
(* that an older value is a smaller number.                                *)
(*                                                                         *)
(* A set is assumed to carry a value of its item's type, in a payload that *)
(* CmdReceive can read to its end.                                         *)
(***************************************************************************)
EXTENDS Integers, Sequences, FiniteSets

CONSTANTS MaxCmds,     \* MAX_CMDS: one slot of the ring stays free
          Items,       \* the items of one device
          Type,        \* item |-> "VALUE" | "STRING" | "CUSTOMIZE"
          Setter,      \* the items whose setValue is not NULL
          Getter,      \* item |-> "none" | "default" (DefaultStringGet) | "own"
          NoName,      \* a zeroed handleName or name
          MaxReq,      \* bound: requests the server sends
          MaxWrites    \* bound: values the application writes

ASSUME BoundsAssumption == MaxCmds \in Nat \ {0} /\ MaxReq \in Nat /\ MaxWrites \in Nat
ASSUME ItemsAssumption ==
    /\ Type \in [Items -> {"VALUE", "STRING", "CUSTOMIZE"}]
    /\ Setter \subseteq Items
    /\ Getter \in [Items -> {"none", "default", "own"}]
ASSUME NamesAssumption == NoName \notin Items

VARIABLES
    received,    \* how many requests have arrived
    mpc,         \* the receive thread: "idle", "room" (get / set found), "assign"
    hand,        \* the command it is working on
    queue,       \* gCmds from gCmdTail to gCmdHead
    lpc,         \* the application: "out" of the Handler, "drain", "advance"
    stored,      \* item->value / item->string
    own,         \* the application's variable behind the callbacks
    clock,       \* ghost: the number of the newest value
    writes,      \* values the application wrote
    heartBeatRate, \* ghost: the number of the request that set it
    applied,     \* ghost: the sets whose value and callback have been applied
    replies,     \* ghost: the commands whose reply was published, in order
    lost         \* ghost: requests whose reply was not published

mqtt == <<received, mpc, hand>>
data == <<stored, own, clock, writes, heartBeatRate, applied>>
net == <<replies, lost>>
vars == <<mqtt, queue, lpc, data, net>>

\* `seen` is a ghost: how many replies were out when the request arrived.
Command(id, target, value) ==
    [session |-> received + 1, cmdId |-> id, target |-> target,
     value |-> value, seen |-> Len(replies)]
Nothing == [session |-> 0, cmdId |-> -1, target |-> NoName, value |-> 0, seen |-> 0]

Full == Len(queue) >= MaxCmds - 1

Init ==
    /\ received = 0 /\ mpc = "idle" /\ hand = Nothing
    /\ queue = << >> /\ lpc = "out"
    /\ stored = [i \in Items |-> 0] /\ own = [i \in Items |-> 0]
    /\ clock = 0 /\ writes = 0
    /\ heartBeatRate = 0 /\ applied = {}
    /\ replies = << >> /\ lost = {}
--------------------------------------------------------------------------------
(* The receive thread: one payload at a time.                              *)

Take(cmd, next) ==
    /\ mpc = "idle"
    /\ received < MaxReq
    /\ received' = received + 1
    /\ hand' = cmd
    /\ mpc' = next
    /\ UNCHANGED <<queue, lpc, stored, own, clock, writes, applied, net>>

TakeAndQueue(id) == Take(Command(id, NoName, 0), "assign") /\ UNCHANGED heartBeatRate

\* on_rename stores the name and queues the command id of the REPLY.
Rename == TakeAndQueue(114)

\* Case 113 of CmdReceive: a rename whose handler is not "general".
RenameByHandler == TakeAndQueue(113)

\* on_update prints the request; nothing is queued, as for a get or set of a
\* device that CmdReceive does not find.
UpdateAgent == Take(Nothing, "idle") /\ UNCHANGED heartBeatRate

QueryHeartBeatRate == TakeAndQueue(127)

UpdateHeartBeatRate ==
    /\ Take(Command(129, NoName, 0), "assign")
    /\ heartBeatRate' = received + 1

\* The connect messages these two lead to are the subject of DeviceTable.
ServerReconnect == TakeAndQueue(9999)
GetCapability == TakeAndQueue(2051)

\* CmdNotFound: no such item, or a command CmdReceive does not know.
NotFound == TakeAndQueue(-1)

GetOrSet(id, i) ==
    /\ Take(Command(id, i, 0), "room")
    /\ UNCHANGED heartBeatRate

NoRoom ==
    /\ mpc = "room"
    /\ Full
    /\ mpc' = "idle"
    /\ UNCHANGED <<received, hand, queue, lpc, data, net>>

StoreNone(i, v) == stored                     \* faulty: item->value not written
Store(i, v) == IF Type[i] = "VALUE" THEN [stored EXCEPT ![i] = v] ELSE stored

\* Case 525: numbers are stored in the item, strings and raw data only handed
\* to the callback in a buffer of their own.
ApplySet ==
    LET i == hand.target IN
    /\ mpc = "room" /\ hand.cmdId = 525
    /\ clock' = clock + 1
    /\ stored' = Store(i, clock')
    /\ own' = IF i \in Setter THEN [own EXCEPT ![i] = clock'] ELSE own
    /\ applied' = applied \cup {hand.session}
    /\ hand' = [hand EXCEPT !.value = clock']
    /\ mpc' = "assign"
    /\ UNCHANGED <<received, queue, lpc, writes, heartBeatRate, net>>

Set == ~Full /\ ApplySet

\* Case 523.  Only a number can be read without a getValue callback; a string
\* is copied into 256 fresh bytes.
Get ==
    LET i == hand.target IN
    /\ mpc = "room" /\ hand.cmdId = 523
    /\ ~Full
    /\ hand' = IF Getter[i] = "none" /\ Type[i] # "VALUE"
                 THEN [hand EXCEPT !.cmdId = -1]
                 ELSE [hand EXCEPT !.value = IF Getter[i] = "own" THEN own[i] ELSE stored[i]]
    /\ mpc' = "assign"
    /\ UNCHANGED <<received, queue, lpc, data, net>>

AssignUntested ==                             \* faulty: the oldest overwritten
    /\ mpc = "assign"
    /\ queue' = Append(queue, hand)
    /\ mpc' = "idle"
    /\ UNCHANGED <<received, hand, lpc, data, net>>

\* WiseAccess_AssignCmd: the callers do not look at what it returns.
Assign ==
    /\ mpc = "assign"
    /\ queue' = IF Full THEN queue ELSE Append(queue, hand)
    /\ mpc' = "idle"
    /\ UNCHANGED <<received, hand, lpc, data, net>>

MqttThread ==
    \/ Rename \/ RenameByHandler \/ UpdateAgent \/ QueryHeartBeatRate \/ UpdateHeartBeatRate
    \/ ServerReconnect \/ GetCapability \/ NotFound
    \/ \E i \in Items, id \in {523, 525} : GetOrSet(id, i)
    \/ NoRoom \/ Set \/ Get \/ Assign
--------------------------------------------------------------------------------
(* The application.                                                        *)

Newest == queue[Len(queue)]                   \* faulty: a stack, not a queue
Oldest == Head(queue)

\* The command ids WiseAccess_Handler has a reply for.  The one to 113 is addressed
\* to gDevices[-1]: whoever the bytes in front of the table name.
HasReply(cmd) == cmd.cmdId \in {113, 127, 129, 523, 525, 2051}

\* core_publish and its relatives fail when the connection is not up, which it
\* may cease to be at any time; their result is not looked at.
Publish(cmd) ==
    \/ replies' = Append(replies, cmd) /\ UNCHANGED lost
    \/ lost' = lost \cup {cmd.session} /\ UNCHANGED replies

EnterHandler ==
    /\ lpc = "out"
    /\ lpc' = "drain"
    /\ UNCHANGED <<mqtt, queue, data, net>>

\* The switch of WiseAccess_Handler: a command id it does not know is skipped.
Dispatch ==
    /\ lpc = "drain"
    /\ queue # << >>
    /\ lpc' = "advance"
    /\ IF HasReply(Oldest)
         THEN Publish(IF Oldest.cmdId = 127
                        THEN [Oldest EXCEPT !.value = heartBeatRate] ELSE Oldest)
         ELSE UNCHANGED <<replies, lost>>
    /\ UNCHANGED <<mqtt, queue, data>>

AdvanceKnown ==                               \* faulty: `continue` for an unknown id
    /\ lpc = "advance"
    /\ queue' = IF HasReply(Oldest) \/ Oldest.cmdId = 9999 THEN Tail(queue) ELSE queue
    /\ lpc' = "drain"
    /\ UNCHANGED <<mqtt, data, net>>

AdvanceTail ==
    /\ lpc = "advance"
    /\ queue' = Tail(queue)
    /\ lpc' = "drain"
    /\ UNCHANGED <<mqtt, data, net>>

LeaveHandler ==
    /\ lpc = "drain"
    /\ queue = << >>
    /\ lpc' = "out"
    /\ UNCHANGED <<mqtt, queue, data, net>>

\* WiseSnail_Update: WiseAccess_AccessVariable writes the item.
Update(i) ==
    /\ lpc = "out"
    /\ writes < MaxWrites
    /\ writes' = writes + 1
    /\ clock' = clock + 1
    /\ stored' = [stored EXCEPT ![i] = clock']
    /\ UNCHANGED <<mqtt, queue, lpc, own, heartBeatRate, applied, net>>

\* The application changes the variable its callbacks use.
Sense(i) ==
    /\ writes < MaxWrites
    /\ writes' = writes + 1
    /\ clock' = clock + 1
    /\ own' = [own EXCEPT ![i] = clock']
    /\ UNCHANGED <<mqtt, queue, lpc, stored, heartBeatRate, applied, net>>

MainLoop == EnterHandler \/ Dispatch \/ AdvanceTail \/ LeaveHandler

Next == MqttThread \/ MainLoop \/ \E i \in Items : Update(i) \/ Sense(i)

\* The application keeps calling WiseSnail_MainLoop; callbacks return.
Spec ==
    /\ Init /\ [][Next]_vars
    /\ WF_vars(MainLoop) /\ WF_vars(NoRoom \/ Set \/ Get \/ Assign)
--------------------------------------------------------------------------------
Commands ==
    [session : 0 .. MaxReq, cmdId : {-1, 113, 114, 127, 129, 523, 525, 2051, 9999},
     target : Items \cup {NoName}, value : 0 .. (MaxReq + MaxWrites), seen : 0 .. MaxReq]

\* Every variable keeps its type, and the queue its capacity.
TypeOK ==
    /\ received \in 0 .. MaxReq
    /\ mpc \in {"idle", "room", "assign"}
    /\ hand \in Commands
    /\ queue \in Seq(Commands) /\ Len(queue) <= MaxCmds - 1
    /\ lpc \in {"out", "drain", "advance"}
    /\ stored \in [Items -> 0 .. clock] /\ own \in [Items -> 0 .. clock]
    /\ clock \in 0 .. (MaxReq + MaxWrites) /\ writes \in 0 .. MaxWrites
    /\ heartBeatRate \in 0 .. received
    /\ applied \subseteq 1 .. received /\ lost \subseteq 1 .. received
    /\ replies \in Seq(Commands)

\* The commands whose reply is still to be built: the head of the queue is
\* done with once it has been dispatched.
Undone == {queue[k] : k \in (IF lpc = "advance" THEN 2 ELSE 1) .. Len(queue)}
Sessions(cmds) == {cmd.session : cmd \in cmds}
Answered == Sessions({replies[k] : k \in 1 .. Len(replies)})

\* The server sees the replies in the order of its requests, each once.
RepliesInOrder ==
    \A j, k \in 1 .. Len(replies) : j < k => replies[j].session < replies[k].session

\* A set whose callback has run is on its way to its reply: the application is
\* never changed by a set that the full queue then drops without an answer.
AppliedIsAnswered ==
    applied \subseteq Sessions(Undone) \cup Answered \cup lost
                     \cup (IF mpc = "assign" THEN {hand.session} ELSE {})

\* An item whose get reads what its set writes.
Coherent(i) ==
    IF i \in Setter THEN Getter[i] = "own" \/ (Type[i] = "VALUE" /\ Getter[i] = "none")
                    ELSE Type[i] = "VALUE" /\ Getter[i] = "none"

\* The reply to a get or to a heartbeat query never carries a value older than
\* one the server had already been told it set when it sent the request.
GetNotStale ==
    \A k \in 1 .. Len(replies) : \A j \in 1 .. replies[k].seen :
        /\ replies[k].cmdId = 523 /\ replies[j].cmdId = 525
              /\ replies[j].target = replies[k].target /\ Coherent(replies[k].target)
           => replies[j].value <= replies[k].value
        /\ replies[k].cmdId = 127 /\ replies[j].cmdId = 129
           => replies[j].session <= replies[k].value

\* Every command in the queue that has a reply is answered, or its reply is
\* lost because the connection is down, however many commands keep coming.
EventuallyAnswered ==
    \A s \in 1 .. MaxReq :
        (\E cmd \in Undone : HasReply(cmd) /\ cmd.session = s)
            ~> (s \in Answered \cup lost)
================================================================================
