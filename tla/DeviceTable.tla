------------------------------- MODULE DeviceTable -------------------------------
(***************************************************************************)
(* The table of devices and their items, and what the server is told of    *)
(* them.                                                                   *)
(*                                                                         *)
(* The application's thread registers, disconnects and reconnects sensors  *)
(* (wiseagentlite.c) and answers capability queries from the Handler       *)
(* (WiseAgent_Response); the API mutex makes these calls one after the     *)
(* other.  The MQTT client's receive thread looks devices and items up in  *)
(* the same table without a lock (CmdReceive).  A call is a list of        *)
(* instructions, one for each function or statement that the receive       *)
(* thread or a lost link may come between.                                 *)
(*                                                                         *)
(* The gateway is device 0 and registered.  Its topics are subscribed on   *)
(* every connection (module Connection), those of a sensor only with its   *)
(* connect or disconnect message.                                          *)
(***************************************************************************)
EXTENDS Naturals, Sequences, FiniteSets, SequencesExt

CONSTANTS
    Sensors, Gateway,  \* device ids
    MaxDevices,        \* MAX_DEVICES
    MaxItems,          \* MAX_ITEMS
    Defaults,          \* names of gSensorDefaultItem, in order
    Specs,             \* the infospec arrays: an array is the sequence of its names
    SlashNames,        \* the names that begin with "/"
    Long,              \* the infospecs whose message is over 4096 bytes
    None,              \* no item, device, infospec or query
    MaxCalls,          \* bound: calls of the application
    MaxLosses,         \* bound: losses of the link
    MaxCommands        \* bound: get and set commands

ASSUME SizesAssumption == MaxDevices \in Nat \ {0} /\ MaxItems \in Nat
ASSUME BoundsAssumption == MaxCalls \in Nat /\ MaxLosses \in Nat /\ MaxCommands \in Nat
ASSUME NamesAssumption == Gateway \notin Sensors /\ None \notin Sensors \cup {Gateway}

VARIABLES
    gDeviceCount,
    cliendId, connection, itemCount, items, infospec,  \* gDevices, field by field
    gIf_SenHublist,
    todo,        \* what is left of the application's call
    rpc,         \* the receive thread: "idle" or "scan"
    scan,        \* the device, the name it looks for and its search index
    crashed,     \* a pointer that points nowhere was followed
    online,
    asked,       \* the device of the capability query that waits in gCmds
    known,       \* server: the last connect or disconnect message of a sensor
    listed,      \* server: the last SenHubList
    subscribed,  \* broker: the sensors whose topic is subscribed
    lastCall,    \* ghost: the last call for a sensor, and its infospec
    calls, losses, commands

table == <<gDeviceCount, cliendId, connection, itemCount, items, infospec>>
reader == <<rpc, scan, commands>>
server == <<known, listed, subscribed>>
messages == <<gIf_SenHublist, crashed, server>>
vars == <<table, messages, todo, reader, online, asked, lastCall, calls, losses>>

Names == Range(Defaults) \cup UNION {Range(spec) : spec \in Specs}
Slots == 0 .. MaxDevices - 1
Item(spec, name) == [spec |-> spec, name |-> name]
Items == [spec : Specs \cup {None}, name : Names]

ASSUME ArraysAssumption ==
    /\ Defaults \in Seq(Names) /\ Specs \subseteq Seq(Names)
    /\ None \notin Items /\ None \notin Specs

DefaultItems == [i \in DOMAIN Defaults |-> Item(None, Defaults[i])]

Table == {cliendId[d] : d \in 0 .. gDeviceCount - 1}
\* WiseAccess_FindDevice.  Ids are written below gDeviceCount only once, so its
\* loop gives what one look gives.
IndexOf(s) == CHOOSE d \in 0 .. gDeviceCount - 1 : cliendId[d] = s
\* WiseAccess_GetTopology and WiseAccess_Republish...: device 0 is the gateway.
Connected == {cliendId[d] : d \in {e \in 1 .. gDeviceCount - 1 : connection[e]}}

Init ==
    /\ gDeviceCount = 1
    /\ cliendId = [d \in Slots |-> IF d = 0 THEN Gateway ELSE None]
    /\ connection = [d \in Slots |-> FALSE]
    /\ itemCount = [d \in Slots |-> 0]
    /\ items = [d \in Slots |-> [i \in 0 .. MaxItems - 1 |-> None]]
    /\ infospec = [d \in Slots |-> None]
    /\ gIf_SenHublist = {}
    /\ todo = <<>>
    /\ rpc = "idle" /\ scan = None /\ commands = 0
    /\ crashed = FALSE
    /\ online = TRUE
    /\ asked = None
    /\ known = [s \in Sensors |-> "never"] /\ listed = {} /\ subscribed = {}
    /\ lastCall = [s \in Sensors |-> [name |-> "none", spec |-> None]]
    /\ calls = 0 /\ losses = 0
--------------------------------------------------------------------------------
(* The calls, as lists of instructions.                                    *)

Do(op, s) == <<[op |-> op, id |-> s]>>
Add(s, list) == [i \in DOMAIN list |-> [op |-> "add", id |-> s, item |-> list[i]]]

\* The loop over the elements of an infospec array with a "/" at the front of their
\* name, or over those without.
AddFrom(s, spec, slash, from) ==
    <<[op |-> "items", id |-> s, spec |-> spec, slash |-> slash, from |-> from]>>

PublishInterfaceDeviceInfo == Do("topology", Gateway) \o Do("deviceinfo", Gateway)
PublishSensorConnect(s) == Do("connected", s) \o Do("subscribe", s)
PublishSensorDisconnect(s) == Do("disconnected", s) \o Do("subscribe", s)
RepublishFrom(d) == <<[op |-> "republish", id |-> Gateway, dev |-> d]>>

RegisterScript(s, spec) ==
    Do("create", s) \o Do("defaults", s) \o PublishInterfaceDeviceInfo
        \o AddFrom(s, spec, TRUE, 1) \o Do("connect", s) \o PublishSensorConnect(s)
        \o AddFrom(s, spec, FALSE, 1)
        \o <<[op |-> "infospec", id |-> s, spec |-> spec]>>

Call(name, s, spec, script) ==
    /\ todo = <<>> /\ ~crashed
    /\ calls < MaxCalls
    /\ calls' = calls + 1
    /\ todo' = script
    /\ lastCall' = [lastCall EXCEPT ![s] =
           [name |-> name, spec |-> IF spec = None THEN @.spec ELSE spec]]
    /\ UNCHANGED <<table, messages, reader, online, asked, losses>>

RegisterSensor(s, spec) == Call("RegisterSensor", s, spec, RegisterScript(s, spec))

SenHubDisconnect(s) ==
    /\ s \in Table
    /\ Call("SenHubDisconnect", s, None,
            Do("disconnect", s) \o PublishInterfaceDeviceInfo \o PublishSensorDisconnect(s))

SenHubReConnectedListFirst(s) ==                 \* faulty: the list before the status
    /\ s \in Table
    /\ Call("SenHubReConnected", s, None,
            PublishInterfaceDeviceInfo \o Do("connect", s) \o PublishSensorConnect(s))

SenHubReConnected(s) ==
    /\ s \in Table
    /\ Call("SenHubReConnected", s, None,
            Do("connect", s) \o PublishInterfaceDeviceInfo \o PublishSensorConnect(s))

\* WiseAccess_Handler takes command 2051 out; WiseAgent_Response answers with the
\* infospec of a sensor, or with all that the gateway has to tell.
Capability ==
    /\ todo = <<>> /\ ~crashed
    /\ asked # None
    /\ asked' = None
    /\ todo' = IF asked = Gateway THEN PublishInterfaceDeviceInfo \o RepublishFrom(1) ELSE <<>>
    /\ UNCHANGED <<table, messages, reader, online, lastCall, calls, losses>>
--------------------------------------------------------------------------------
(* The instructions.                                                       *)

It == Head(todo).id
Run(op) ==
    /\ todo # <<>> /\ ~crashed /\ Head(todo).op = op
    /\ UNCHANGED <<reader, online, asked, lastCall, calls, losses>>
Done == todo' = Tail(todo)

CreateEarly ==                                   \* faulty: full one device early
    /\ Run("create") /\ Done
    /\ IF It \in Table \/ gDeviceCount >= MaxDevices - 1
       THEN UNCHANGED <<cliendId, gDeviceCount>>
       ELSE /\ cliendId' = [cliendId EXCEPT ![gDeviceCount] = It]
            /\ gDeviceCount' = gDeviceCount + 1
    /\ UNCHANGED <<connection, itemCount, items, infospec, messages>>

\* WiseAccess_CreateDevice.  An id that is not written yet is the id of no command,
\* so that the receive thread sees no difference between its two stores.
Create ==
    /\ Run("create") /\ Done
    /\ IF It \in Table \/ gDeviceCount >= MaxDevices
       THEN UNCHANGED <<cliendId, gDeviceCount>>
       ELSE /\ cliendId' = [cliendId EXCEPT ![gDeviceCount] = It]
            /\ gDeviceCount' = gDeviceCount + 1
    /\ UNCHANGED <<connection, itemCount, items, infospec, messages>>

\* The rest of WiseAccess_SensorInit: a device without items gets the default ones.
SensorInit ==
    /\ Run("defaults")
    /\ IF It \in Table /\ itemCount[IndexOf(It)] = 0
       THEN /\ connection' = [connection EXCEPT ![IndexOf(It)] = TRUE]
            /\ todo' = Add(It, DefaultItems) \o Tail(todo)
       ELSE UNCHANGED connection /\ Done
    /\ UNCHANGED <<gDeviceCount, cliendId, itemCount, items, infospec, messages>>

Left(loop) == {i \in loop.from .. Len(loop.spec) :
                  (loop.spec[i] \in SlashNames) = loop.slash}

\* To the next element of the array that the loop adds, or behind the loop.
NextElement ==
    /\ Run("items")
    /\ \/ Left(Head(todo)) = {} /\ Done
       \/ \E i \in Left(Head(todo)) :
             /\ \A j \in Left(Head(todo)) : i <= j
             /\ todo' = Add(It, <<Item(Head(todo).spec, Head(todo).spec[i])>>)
                          \o AddFrom(It, Head(todo).spec, Head(todo).slash, i + 1) \o Tail(todo)
    /\ UNCHANGED <<table, messages>>

Stored(d) == {i \in 0 .. itemCount[d] - 1 : items[d][i] # None}
Same(d, name) == {i \in Stored(d) : items[d][i].name = name}
HasNever(s, name) == FALSE                       \* faulty: nothing is found
Has(s, name) == s \in Table /\ Same(IndexOf(s), name) # {}
RoomAlways(s, name) == s \in Table /\ ~Has(s, name)  \* faulty: no limit
Room(s, name) == s \in Table /\ ~Has(s, name) /\ itemCount[IndexOf(s)] < MaxItems

ReplaceNone ==                                   \* faulty: the older item stays
    /\ Run("add") /\ Done
    /\ Has(It, Head(todo).item.name)
    /\ UNCHANGED <<table, messages>>

\* WiseAccess_AddItem of a name the device has: the new array's item replaces it.
Replace ==
    /\ Run("add") /\ Done
    /\ Has(It, Head(todo).item.name)
    /\ LET item == Head(todo).item  d == IndexOf(It) IN
       items' = [items EXCEPT ![d] = [i \in DOMAIN @ |->
                    IF i \in Same(d, item.name) THEN item ELSE @[i]]]
    /\ UNCHANGED <<gDeviceCount, cliendId, connection, itemCount, infospec, messages>>

\* Of a new name: itemCount and items[i] are two stores, which the compiler and the
\* receive thread may see in either order.
Append1(first) ==
    /\ Run("add")
    /\ Room(It, Head(todo).item.name)
    /\ LET item == Head(todo).item  d == IndexOf(It)  at == itemCount[IndexOf(It)] IN
       /\ itemCount' = IF first = "count" THEN [itemCount EXCEPT ![d] = at + 1] ELSE itemCount
       /\ items' = IF first = "item" THEN [items EXCEPT ![d][at] = item] ELSE items
       /\ todo' = <<[op |-> "second", id |-> It, item |-> item, at |-> at]>> \o Tail(todo)
    /\ UNCHANGED <<gDeviceCount, cliendId, connection, infospec, messages>>

Append2Lost ==                                   \* faulty: the entry stays empty
    /\ Run("second") /\ Done
    /\ itemCount' = [itemCount EXCEPT ![IndexOf(It)] = Head(todo).at + 1]
    /\ UNCHANGED <<gDeviceCount, cliendId, connection, items, infospec, messages>>

Append2 ==
    /\ Run("second") /\ Done
    /\ LET d == IndexOf(It)  at == Head(todo).at IN
       /\ items' = [items EXCEPT ![d][at] = Head(todo).item]
       /\ itemCount' = [itemCount EXCEPT ![d] = at + 1]
    /\ UNCHANGED <<gDeviceCount, cliendId, connection, infospec, messages>>

\* No such device, or no room: false, which no caller looks at.
AddNothing ==
    /\ Run("add") /\ Done
    /\ ~Has(It, Head(todo).item.name) /\ ~Room(It, Head(todo).item.name)
    /\ UNCHANGED <<table, messages>>

ConnectionStatus(op, status) ==
    /\ Run(op) /\ Done
    /\ connection' = IF It \in Table
                     THEN [connection EXCEPT ![IndexOf(It)] = status] ELSE connection
    /\ UNCHANGED <<gDeviceCount, cliendId, itemCount, items, infospec, messages>>

GetTopology ==
    /\ Run("topology") /\ Done
    /\ gIf_SenHublist' = Connected
    /\ UNCHANGED <<table, crashed, server>>

PublishDeviceInfo ==
    /\ Run("deviceinfo") /\ Done
    /\ listed' = IF online THEN gIf_SenHublist ELSE listed
    /\ UNCHANGED <<table, gIf_SenHublist, crashed, known, subscribed>>

\* The message names the sensor: of a device that is not in the table WiseAccess_Get
\* leaves shname as it was on the stack, and the pointer may point anywhere.
PublishSensor(op) ==
    /\ Run(op) /\ Done
    /\ crashed' \in IF It \in Table THEN {FALSE} ELSE BOOLEAN
    /\ known' = IF online /\ ~crashed' THEN [known EXCEPT ![It] = op] ELSE known
    /\ UNCHANGED <<table, gIf_SenHublist, listed, subscribed>>

Subscribe ==
    /\ Run("subscribe") /\ Done
    /\ subscribed' = IF online THEN subscribed \cup {It} ELSE subscribed
    /\ UNCHANGED <<table, gIf_SenHublist, crashed, known, listed>>

RepublishNone ==                                 \* faulty: the list alone
    /\ Run("republish") /\ Done
    /\ UNCHANGED <<table, messages>>

\* WiseAccess_RepublishSensorConnectMessage: one round of its loop.
Republish ==
    /\ Run("republish")
    /\ LET d == Head(todo).dev IN
       todo' = IF d >= gDeviceCount THEN Tail(todo)
               ELSE (IF connection[d] THEN PublishSensorConnect(cliendId[d]) ELSE <<>>)
                       \o RepublishFrom(d + 1) \o Tail(todo)
    /\ UNCHANGED <<table, messages>>

\* WiseAccess_SetInfoSpec, after the message was published.
SetInfoSpec ==
    /\ Run("infospec") /\ Done
    /\ infospec' = IF It \in Table /\ Head(todo).spec \notin Long
                   THEN [infospec EXCEPT ![IndexOf(It)] = Head(todo).spec] ELSE infospec
    /\ UNCHANGED <<gDeviceCount, cliendId, connection, itemCount, items, messages>>

Instruction ==
    \/ Create \/ SensorInit \/ NextElement \/ Replace \/ Append2 \/ AddNothing
    \/ \E first \in {"count", "item"} : Append1(first)
    \/ ConnectionStatus("connect", TRUE) \/ ConnectionStatus("disconnect", FALSE)
    \/ GetTopology \/ PublishDeviceInfo \/ PublishSensor("connected")
    \/ PublishSensor("disconnected") \/ Subscribe \/ Republish \/ SetInfoSpec
--------------------------------------------------------------------------------
(* The receive thread.                                                     *)

\* CmdReceive of a get or set: FindDevice, then the search over the items.
FindDevice(s, name) ==
    /\ rpc = "idle" /\ ~crashed /\ online
    /\ s \in subscribed
    /\ commands < MaxCommands
    /\ commands' = commands + 1
    /\ IF s \in Table
       THEN rpc' = "scan" /\ scan' = [dev |-> IndexOf(s), name |-> name, search |-> 0]
       ELSE UNCHANGED <<rpc, scan>>
    /\ UNCHANGED <<table, messages, todo, online, asked, lastCall, calls, losses>>

Search ==
    /\ rpc = "scan" /\ ~crashed
    /\ LET more == scan.search < itemCount[scan.dev]
           item == items[scan.dev][scan.search] IN
       /\ crashed' = (more /\ item = None)
       /\ IF more /\ item # None /\ item.name # scan.name
          THEN scan' = [scan EXCEPT !.search = @ + 1] /\ UNCHANGED rpc
          ELSE scan' = None /\ rpc' = "idle"
    /\ UNCHANGED <<table, gIf_SenHublist, todo, commands, online, asked, server,
                   lastCall, calls, losses>>

\* Command 2051: a device the table does not have counts as the gateway.
AskCapability(s) ==
    /\ rpc = "idle" /\ ~crashed /\ online
    /\ s \in subscribed \cup {Gateway}
    /\ asked = None
    /\ asked' = IF s \in Table THEN s ELSE Gateway
    /\ UNCHANGED <<table, messages, todo, reader, online, lastCall, calls, losses>>

\* A clean session: the broker forgets the subscriptions.
Lose ==
    /\ online /\ ~crashed
    /\ losses < MaxLosses
    /\ losses' = losses + 1
    /\ online' = FALSE
    /\ subscribed' = {}
    /\ UNCHANGED <<table, gIf_SenHublist, todo, reader, crashed, asked, known, listed,
                   lastCall, calls>>

\* on_connect_cb registers the gateway alone.
ComeBack ==
    /\ ~online /\ ~crashed
    /\ online' = TRUE
    /\ UNCHANGED <<table, messages, todo, reader, asked, lastCall, calls, losses>>

Next ==
    \/ \E s \in Sensors, spec \in Specs : RegisterSensor(s, spec)
    \/ \E s \in Sensors : SenHubDisconnect(s) \/ SenHubReConnected(s)
    \/ Capability \/ Instruction
    \/ \E s \in Sensors, n \in Names : FindDevice(s, n)
    \/ Search
    \/ \E s \in Sensors \cup {Gateway} : AskCapability(s)
    \/ Lose \/ ComeBack

\* The application calls WiseSnail_MainLoop for ever.
Spec == Init /\ [][Next]_vars /\ WF_vars(Instruction) /\ WF_vars(Capability)
--------------------------------------------------------------------------------
\* What a call can have left to do.
Instructions ==
    [op : {"topology", "deviceinfo"}, id : {Gateway}]
        \cup [op : {"create", "defaults", "connect", "disconnect", "connected",
                    "disconnected", "subscribe"}, id : Sensors]
        \cup [op : {"items"}, id : Sensors, spec : Specs, slash : BOOLEAN, from : Nat \ {0}]
        \cup [op : {"add"}, id : Sensors, item : Items]
        \cup [op : {"second"}, id : Sensors, item : Items, at : 0 .. MaxItems - 1]
        \cup [op : {"infospec"}, id : Sensors, spec : Specs]
        \cup [op : {"republish"}, id : {Gateway}, dev : Nat \ {0}]

\* Every variable keeps its type, and no index leaves gDevices or a device's items[].
TypeOK ==
    /\ gDeviceCount \in 1 .. MaxDevices
    /\ todo \in Seq(Instructions)
    /\ cliendId \in [Slots -> Sensors \cup {Gateway, None}]
    /\ connection \in [Slots -> BOOLEAN]
    /\ itemCount \in [Slots -> 0 .. MaxItems]
    /\ items \in [Slots -> [0 .. MaxItems - 1 -> Items \cup {None}]]
    /\ infospec \in [Slots -> Specs \cup {None}]
    /\ gIf_SenHublist \subseteq Sensors /\ listed \subseteq Sensors
    /\ subscribed \subseteq Sensors
    /\ known \in [Sensors -> {"never", "connected", "disconnected"}]
    /\ rpc \in {"idle", "scan"}
    /\ rpc = "scan" => scan \in [dev : Slots, name : Names, search : 0 .. MaxItems]
    /\ asked \in Sensors \cup {Gateway, None}
    /\ crashed \in BOOLEAN /\ online \in BOOLEAN

Returned == todo = <<>> /\ ~crashed

\* No device and no item is in the table twice, however often sensors are
\* registered again: CmdReceive and WiseAccess_Update take the first they find.
OneEntryEach ==
    /\ \A d, e \in 0 .. gDeviceCount - 1 : cliendId[d] = cliendId[e] => d = e
    /\ \A d \in Slots : \A i, j \in Stored(d) :
           items[d][i].name = items[d][j].name => i = j

\* When WiseSnail_RegisterSensor has returned no entry is left without its item,
\* every name of the last array leads to that array's item unless the device is
\* full, and the capability kept for the server is that array's unless too long.
NewestArray ==
    Returned =>
        \A s \in Table \cap Sensors :
            LET d == IndexOf(s)  spec == lastCall[s].spec IN
            /\ Stored(d) = 0 .. itemCount[d] - 1
            /\ \A n \in Range(spec) :
                  \/ \E i \in Stored(d) : items[d][i] = Item(spec, n)
                  \/ itemCount[d] = MaxItems /\ Same(d, n) = {}
            /\ infospec[d] = spec \/ spec \in Long

\* The receive thread looks items up without a lock.  It follows an entry without an
\* item only while a call of the application is adding one.
CrashOnlyInCalls == [][~crashed /\ crashed' => todo # <<>>]_vars

\* The server is told of a sensor that commands do not find only when the table of
\* devices is full: nobody looks at what WiseAccess_CreateDevice returned.
ToldOnlyWhenFull ==
    \A s \in Sensors :
        known[s] # "never" /\ s \notin Table => gDeviceCount = MaxDevices

\* Between calls the list of connected sensors is right, but for one that came back
\* by WiseSnail_RegisterSensor instead of WiseSnail_SenHubReConnected: that call
\* makes the list before it sets the status.
ListRight ==
    Returned =>
        /\ gIf_SenHublist \subseteq Connected
        /\ \A s \in Connected \ gIf_SenHublist : lastCall[s].name = "RegisterSensor"

Told ==
    /\ listed = Connected
    /\ \A s \in Connected : known[s] = "connected" /\ s \in subscribed

\* Whatever was lost while the link was down, and whatever list is out of date: once
\* the server asks the gateway for its capability, it is told which sensors are
\* connected and can reach them, if the link holds.
CapabilityRepairs == (asked = Gateway) ~> (Told \/ ~online \/ crashed)
================================================================================
