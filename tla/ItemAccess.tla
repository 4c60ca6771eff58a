------------------------------- MODULE ItemAccess -------------------------------
(***************************************************************************)
(* The items of one sensor, read and written by three parties: the server  *)
(* (CmdReceive on the receive thread), the replies to it (WiseAgent_       *)
(* Response, later, on the application's thread), and the application,     *)
(* which registers the sensor again with other items and updates them.     *)
(*                                                                         *)
(* A value travels in an untagged union twice.  WiseAgent_InfoSpec holds   *)
(* an item's value, which its type tells how to read.  WiseAgent_CmdData   *)
(* holds a command's value: CmdReceive fills the member that the payload   *)
(* asks for, WiseAgent_Response reads and frees the one that the type of   *)
(* items[itemId] asks for, the item as it is by then.                      *)
(*                                                                         *)
(* Reading a union by the wrong member is undefined: a number printed is   *)
(* garbage, a pointer followed or freed ends the process or does not.      *)
(***************************************************************************)
EXTENDS Naturals, FiniteSets, SequencesExt

CONSTANTS
    Items,            \* the application's WiseSnail_InfoSpec objects
    NameOf, TypeOf,   \* item |-> its name, a sequence; "number", "string" or "raw"
    Readable,         \* the items with a getValue
    Default,          \* those of them whose getValue is DefaultStringGet
    FirstTables,      \* items[] when the server asks first
    Arrays,           \* arrays the sensor is registered with again
    Slots,            \* MAX_ITEMS
    Room,             \* commands the ring holds
    MaxRequests, MaxCalls     \* bounds: of the server's requests, of the application's calls

ASSUME ItemsAssumption ==
    /\ Default \subseteq Readable /\ Readable \subseteq Items
    /\ \A o \in Default : TypeOf[o] = "string"
    /\ \A table \in FirstTables : table \in Seq(Items) /\ Len(table) <= Slots
    /\ Arrays \subseteq Seq(Items) /\ Slots \in Nat /\ Room \in Nat
    /\ MaxRequests \in Nat /\ MaxCalls \in Nat
    /\ NameOf \in [Items -> Seq(STRING)] /\ TypeOf \in [Items -> {"number", "string", "raw"}]

VARIABLES
    items,       \* gDevices[d].items
    content,     \* item |-> which member of its union was written last
    app,         \* what the application's call has left to do
    cmd,         \* what CmdReceive works on
    queue,       \* the ring
    heap,        \* the strings and raw data that commands brought
    crashed,
    sent,        \* requests and calls so far
    printed,     \* ghost: the kind of reply the last step printed
    blame        \* ghost: what has happened that the code does not provide for

vars == <<items, content, app, cmd, queue, heap, crashed, sent, printed, blame>>

Kinds == {"number", "string", "raw", "badformat", "odd", "escaped"}
Targets == {NameOf[o] : o \in Items}
Requests ==
    [do : {"get"}, target : Targets, kind : {"none"}, service : BOOLEAN]
        \cup [do : {"set"}, target : Targets, kind : Kinds, service : BOOLEAN]
Idle == [stage |-> "idle"]
Silence == "silence"
Publish == "publish"     \* in app: the message at the end of a call

\* Nobody reads past a crash.
Alive == ~crashed
--------------------------------------------------------------------------------
(* Registration: WiseAccess_AddItem for each element of the array.         *)

ReplacesPrefix(table, o) ==                    \* faulty: strncmp as in the lookup
    {i \in DOMAIN table : IsPrefix(NameOf[table[i]], NameOf[o])}
Replaces(table, o) == {i \in DOMAIN table : NameOf[table[i]] = NameOf[o]}

RoomAlways(table) == TRUE                      \* faulty: items[] not bounded
HasRoom(table) == Len(table) < Slots

AddItem(table, o) ==
    IF Replaces(table, o) # {}
      THEN [table EXCEPT ![CHOOSE i \in Replaces(table, o) :
                             \A j \in Replaces(table, o) : i <= j] = o]
      ELSE IF HasRoom(table) THEN Append(table, o) ELSE table

Init ==
    /\ items \in FirstTables
    /\ content = TypeOf
    /\ app = << >>
    /\ cmd = Idle /\ queue = << >> /\ heap = {}
    /\ crashed = FALSE
    /\ sent = [requests |-> 0, calls |-> 0]
    /\ printed = Silence /\ blame = {}

\* The slots commands under way will be read through.
InFlight == {queue[k].at : k \in DOMAIN queue} \cup
            (IF cmd.stage \in {"found", "filled"} THEN {cmd.at} ELSE {})

BeginCall ==
    /\ Alive
    /\ app = << >> /\ sent.calls < MaxCalls
    /\ sent' = [sent EXCEPT !.calls = @ + 1]
    /\ printed' = Silence

RegisterSensor(array) ==
    /\ BeginCall
    /\ app' = array \o <<Publish>>
    /\ UNCHANGED <<items, content, cmd, queue, heap, crashed, blame>>

AddNext ==
    /\ Alive
    /\ app # << >> /\ Head(app) # Publish
    /\ app' = Tail(app)
    /\ items' = AddItem(items, Head(app))
    /\ blame' = IF \E i \in InFlight \cap DOMAIN items : TypeOf[items'[i]] # TypeOf[items[i]]
                    /\ NameOf[items[i]] = NameOf[Head(app)]
                  THEN blame \cup {"retyped"} ELSE blame
    /\ printed' = Silence
    /\ UNCHANGED <<content, cmd, queue, heap, crashed, sent>>

\* WiseSnail_Update: WiseAccess_AccessVariable, then the device's data info.
Update(o) ==
    /\ BeginCall
    /\ o \in ToSet(items)
    /\ content' = [content EXCEPT ![o] = TypeOf[o]]
    /\ app' = <<Publish>>
    /\ UNCHANGED <<items, cmd, queue, heap, crashed, blame>>

\* The capability or the data info is printed, every item by its type.
PublishItems ==
    /\ Alive
    /\ app # << >> /\ Head(app) = Publish
    /\ app' = Tail(app)
    /\ crashed' \in {FALSE, \E o \in ToSet(items) : TypeOf[o] # "number" /\ content[o] = "number"}
    /\ printed' = Silence
    /\ UNCHANGED <<items, content, cmd, queue, heap, sent, blame>>
--------------------------------------------------------------------------------
(* CmdReceive, from the search for the item on.                            *)

Matches(target) == {i \in DOMAIN items : IsPrefix(NameOf[items[i]], target)}
LastMatch(target) ==                           \* faulty: the search goes on
    CHOOSE i \in Matches(target) : \A j \in Matches(target) : i >= j
FirstMatch(target) ==
    CHOOSE i \in Matches(target) : \A j \in Matches(target) : i <= j

HasQueueRoom == Len(queue) < Room
Unknown == [do |-> "unknown", at |-> 0]
Enqueue(c) == queue' = IF HasQueueRoom THEN Append(queue, c) ELSE queue

\* A request for an item that is there; without room it is dropped.
Find(r) ==
    /\ Alive
    /\ cmd = Idle /\ sent.requests < MaxRequests
    /\ Matches(r.target) # {}
    /\ sent' = [sent EXCEPT !.requests = @ + 1]
    /\ cmd' = IF HasQueueRoom
                THEN [stage |-> "found", id |-> sent.requests, request |-> r,
                      at |-> FirstMatch(r.target), item |-> items[FirstMatch(r.target)],
                      filled |-> "nothing"]
                ELSE Idle
    /\ printed' = Silence
    /\ UNCHANGED <<items, content, app, queue, heap, crashed, blame>>

NotFound(r) ==
    /\ Alive
    /\ cmd = Idle /\ sent.requests < MaxRequests
    /\ Matches(r.target) = {}
    /\ sent' = [sent EXCEPT !.requests = @ + 1]
    /\ Enqueue(Unknown)
    /\ printed' = Silence
    /\ UNCHANGED <<items, content, app, cmd, heap, crashed, blame>>

Fill(member) == cmd' = [cmd EXCEPT !.stage = "filled", !.filled = member]
Found(do) == Alive /\ cmd.stage = "found" /\ cmd.request.do = do

\* A number goes to the item at once, whatever the item's type.
StoreNumber ==
    /\ Found("set") /\ cmd.request.kind = "number"
    /\ Fill("number")
    /\ content' = [content EXCEPT ![cmd.item] = "number"]
    /\ UNCHANGED <<queue, heap>>

Allocated(c, member) == [id |-> c.id, member |-> member, service |-> c.request.service]

\* strdup, or malloc and the decoded bytes; the item keeps what it has.
StorePointer ==
    /\ Found("set") /\ cmd.request.kind \in {"string", "raw"}
    /\ Fill(cmd.request.kind)
    /\ heap' = heap \cup {Allocated(cmd, cmd.request.kind)}
    /\ UNCHANGED <<content, queue>>

\* The switch has no case: cmddata stays as it was on the stack.
StoreNothing ==
    /\ Found("set") /\ cmd.request.kind = "odd"
    /\ Fill("nothing")
    /\ UNCHANGED <<content, queue, heap>>

StoreUnknownFormat ==
    /\ Found("set") /\ cmd.request.kind = "badformat"
    /\ cmd' = Idle
    /\ Enqueue(Unknown)
    /\ UNCHANGED <<content, heap>>

\* The search for the closing quote finds the escaped one again and again.
Hang ==
    /\ Found("set") /\ cmd.request.kind = "escaped"
    /\ cmd' = [cmd EXCEPT !.stage = "hung"]
    /\ UNCHANGED <<content, queue, heap>>

Set ==
    /\ StoreNumber \/ StorePointer \/ StoreNothing \/ StoreUnknownFormat \/ Hang
    /\ blame' = IF cmd.request.kind \in {TypeOf[cmd.item], "badformat", "escaped"}
                  THEN blame ELSE blame \cup {"other kind"}
    /\ printed' = Silence
    /\ UNCHANGED <<items, app, crashed, sent>>

\* DefaultStringGet copies the string the item's union points to.
Get ==
    /\ Found("get")
    /\ IF TypeOf[cmd.item] = "number" \/ cmd.item \in Readable
         THEN Fill(TypeOf[cmd.item]) /\ UNCHANGED queue
         ELSE cmd' = Idle /\ Enqueue(Unknown)
    /\ heap' = IF TypeOf[cmd.item] = "string" /\ cmd.item \in Readable
                 THEN heap \cup {Allocated(cmd, "string")} ELSE heap
    /\ crashed' \in {FALSE, cmd.item \in Default /\ content[cmd.item] = "number"}
    /\ printed' = Silence
    /\ UNCHANGED <<items, content, app, sent, blame>>

Assign ==
    /\ Alive
    /\ cmd.stage = "filled"
    /\ Enqueue([do |-> cmd.request.do, at |-> cmd.at, id |-> cmd.id, filled |-> cmd.filled,
                name |-> NameOf[cmd.item], target |-> cmd.request.target,
                service |-> cmd.request.service])
    /\ cmd' = Idle
    /\ printed' = Silence
    /\ UNCHANGED <<items, content, app, heap, crashed, sent, blame>>

MqttThread == (\E r \in Requests : Find(r) \/ NotFound(r)) \/ Set \/ Get \/ Assign
--------------------------------------------------------------------------------
(* WiseAgent_Response, on the application's thread.                        *)

FreesGetOnly(c, type) == type = "string" /\ c.do = "get"    \* faulty: sets forgotten
Frees(c, type) ==
    \/ type = "string"
    \/ type = "raw" /\ c.do = "set" /\ c.service

\* The member of cmddata that is printed; a success alone prints none.
Prints(c) == c.do = "get" \/ c.service

\* The reply to a set through the Service handler does not pass sprintf what its format
\* asks for: of a number the name is missing and the status code is taken for a pointer,
\* of raw data a pointer is taken for the status code.
WrongArguments(c, type) == c.do = "set" /\ c.service /\ type \in {"number", "raw"}

Respond(c, type) ==
    LET wrong == c.filled # type
        pointer == type # "number" /\ (Prints(c) \/ Frees(c, type))
    IN  /\ crashed' \in {FALSE, (wrong /\ pointer) \/ (WrongArguments(c, type) /\ type = "number")}
        /\ heap' = IF Frees(c, type) /\ ~wrong THEN {h \in heap : h.id # c.id} ELSE heap
        /\ printed' = IF Prints(c) /\ (wrong \/ WrongArguments(c, type))
                        THEN "garbage" ELSE "reply"
        /\ blame' = IF WrongArguments(c, type) THEN blame \cup {"service set"} ELSE blame

Answer ==
    /\ Alive
    /\ app = << >> /\ queue # << >>
    /\ queue' = Tail(queue)
    /\ IF Head(queue).do = "unknown"
         THEN printed' = Silence /\ UNCHANGED <<crashed, heap, blame>>
         ELSE Respond(Head(queue), TypeOf[items[Head(queue).at]])
    /\ UNCHANGED <<items, content, app, cmd, sent>>

Next ==
    \/ MqttThread \/ Answer \/ AddNext \/ PublishItems
    \/ \E array \in Arrays : RegisterSensor(array)
    \/ \E o \in Items : Update(o)

Spec == Init /\ [][Next]_vars
--------------------------------------------------------------------------------
Members == {"number", "string", "raw", "nothing"}
InHand ==
    [stage : {"found", "filled", "hung"}, id : 0 .. MaxRequests - 1, request : Requests,
     at : 1 .. Slots, item : Items, filled : Members]
Queued ==
    [do : {"get", "set"}, at : 1 .. Slots, id : 0 .. MaxRequests - 1, filled : Members,
     name : Targets, target : Targets, service : BOOLEAN]

\* Every variable keeps its type, and the items stay within items[].
TypeOK ==
    /\ items \in Seq(Items) /\ Len(items) <= Slots
    /\ content \in [Items -> {"number", "string", "raw"}]
    /\ app \in Seq(Items \cup {Publish})
    /\ cmd \in InHand \cup {Idle}
    /\ queue \in Seq(Queued \cup {Unknown}) /\ Len(queue) <= Room
    /\ sent \in [requests : 0 .. MaxRequests, calls : 0 .. MaxCalls]
    /\ heap \subseteq [id : 0 .. MaxRequests - 1, member : {"string", "raw"}, service : BOOLEAN]
    /\ crashed \in BOOLEAN /\ printed \in {Silence, "reply", "garbage"}
    /\ blame \subseteq {"retyped", "other kind", "service set"}

\* The commands under way that will be answered through an item.
Addressed == {c \in ToSet(queue) : c.do # "unknown"}

\* What a command reaches when it is answered has the name it had when it came,
\* however often the sensor is registered again in between: a slot of items[]
\* never changes its name.
SlotKeepsName ==
    \A c \in Addressed : c.at \in DOMAIN items /\ NameOf[items[c.at]] = c.name

\* A command goes astray (matching is by prefix) only to an item that was
\* registered before the one it names.
ReachesItsTarget ==
    \A c \in Addressed :
        c.name # c.target => \A i \in 1 .. c.at : NameOf[items[i]] # c.target

\* The process follows no wild pointer and prints no garbage, unless the server sent
\* a kind of value that is not the item's, or the application registered another type
\* under a name a command was waiting for, or a number or raw data was set through the
\* Service handler.  In particular registering a sensor again with other objects of the same
\* names and types is safe at any time.
CrashHasCause == crashed \/ printed = "garbage" => blame # {}

\* As long as the server sends values of the item's kind and no item under way gets
\* another type, every string and every raw datum still allocated belongs to a command under way, but for the raw data of sets that
\* came through IoTGW or SenHub, which are never freed.
NothingKept ==
    blame \subseteq {"service set"} =>
        \A h \in heap :
            \/ cmd.stage = "filled" /\ cmd.id = h.id
            \/ \E c \in Addressed : c.id = h.id
            \/ h.member = "raw" /\ ~h.service
================================================================================
