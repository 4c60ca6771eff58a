-------------------------------- MODULE MemClients --------------------------------
(***************************************************************************)
(* The functions of wiseagentlite.c and wiseaccess.c that build messages   *)
(* in the arena, each as the sequence of arena calls it makes.  An API     *)
(* call goes through several of them, one after the other, and only one    *)
(* API call runs at a time.                                                *)
(*                                                                         *)
(* Nobody checks what WiseMem_Alloc returns, whether the buffer moved, or  *)
(* whether a function called in between released the caller's blocks: the  *)
(* order of the calls alone keeps the pointers good.                       *)
(***************************************************************************)
EXTENDS WiseMem, Sequences

CONSTANT Sensors       \* bound: connected sensors, republished one by one

\* The largest message takes 16384 bytes in six blocks.
ASSUME ClientsAssumption == Sensors \in Nat /\ 16384 + 6 * Header <= MaxBuffer

VARIABLES
    todo,      \* the functions the API call has still to go through
    done,      \* how many arena calls of the first of them are made
    pointers   \* the pointers it holds: name |-> block

call == <<todo, done>>
vars == <<arena, call, pointers>>

A(name, len) == [do |-> "alloc", names |-> {name}, len |-> len]
Use(names) == [do |-> "use", names |-> names, len |-> 0]
Free == [do |-> "release", names |-> {}, len |-> 0]

--------------------------------------------------------------------------------
(* The functions.                                                          *)

GivesBack == <<Free>>
GetTopology == <<A("topology", 1024), Use({"topology"}), Free>>

Four == {"topic", "message", "senhublist", "infoString"}
Message4 ==
    <<A("topic", 128), A("message", 8192), A("senhublist", 4096), A("infoString", 1024),
      Use(Four), Free>>

\* PublishSensorConnectMessage and PublishSensorDisconnectMessage.
PublishSensorMessage ==
    <<A("topic", 128), A("message", 8192), Use({"topic", "message"}), Free>>

RegisterInterface == <<A("topic", 128), Use({"topic"}), Free>>

Six == Four \cup {"netString", "actionString"}
SixBlocks(topicLen) ==
    <<A("topic", topicLen), A("message", 8192), A("senhublist", 4096),
      A("infoString", 1024), A("netString", 1024), A("actionString", 1024),
      Use(Six), Free>>

\* WiseAgent_Response; a capability request to the gateway (2052) gives its own
\* blocks back and has the other functions publish.
Response ==
    <<A("topic", 128), A("message", 8192), A("jsonvalue", 1024),
      Use({"topic", "message", "jsonvalue"}), Free>>
ResponseGivenBack == <<A("topic", 128), A("message", 8192), A("jsonvalue", 1024), Free>>
--------------------------------------------------------------------------------
(* The API calls, and what the Handler does for the server.                *)

ConnectBySSL == <<Message4>>
PublishInterfaceInfoSpecMessage == <<Message4>>
TopologyInside ==                             \* faulty: collected among the blocks
    << <<A("topic", 128), A("message", 8192), A("senhublist", 4096), A("infoString", 1024)>>
       \o GetTopology \o <<Use(Four), Free>> >>
PublishInterfaceDeviceInfoMessage == <<GetTopology, Message4>>

RegisterSensor ==
    <<GivesBack>> \o PublishInterfaceDeviceInfoMessage
    \o <<PublishSensorMessage, SixBlocks(128)>>
\* SenHubDisconnect and SenHubReConnected.
SenHubMessage == PublishInterfaceDeviceInfoMessage \o <<PublishSensorMessage>>
Write == <<SixBlocks(1024)>>

Republish(n) == [i \in 1 .. n |-> PublishSensorMessage]
ResponseInterface(n) ==
    <<ResponseGivenBack>> \o PublishInterfaceInfoSpecMessage
    \o PublishInterfaceDeviceInfoMessage \o Republish(n) \o <<GivesBack>>

Calls ==
    {<<RegisterInterface>>, ConnectBySSL, RegisterSensor, SenHubMessage, Write,
     <<PublishSensorMessage>>, <<Response>>}
    \cup {ResponseInterface(n) : n \in 0 .. Sensors}
--------------------------------------------------------------------------------
InitClients == Init /\ todo = << >> /\ done = 0 /\ pointers = << >>

Begin ==
    /\ todo = << >>
    /\ todo' \in Calls
    /\ UNCHANGED <<arena, done, pointers>>

\* The arena call that is next, and the way on behind it.
Current == Head(todo)[done + 1]
Step(do) ==
    /\ todo # << >> /\ Current.do = do
    /\ IF done + 1 = Len(Head(todo))
         THEN todo' = Tail(todo) /\ done' = 0
         ELSE done' = done + 1 /\ UNCHANGED todo

CallAlloc ==
    /\ Step("alloc")
    /\ Alloc(Current.len)
    /\ pointers' = [p \in DOMAIN pointers \cup Current.names |->
                      IF p \in Current.names THEN Block(Current.len) ELSE pointers[p]]

UseBlocks == Step("use") /\ UNCHANGED <<arena, pointers>>

\* The pointers go out of scope with the call that held them.
CallRelease ==
    /\ Step("release")
    /\ Release
    /\ pointers' = IF todo' = << >> THEN << >> ELSE pointers

\* WiseSnail_Uninit and the next WiseSnail_Init.
Restart ==
    /\ todo = << >>
    /\ Reinit
    /\ UNCHANGED <<call, pointers>>

NextClients == Begin \/ CallAlloc \/ UseBlocks \/ CallRelease \/ Restart

ClientsSpec == InitClients /\ [][NextClients]_vars
--------------------------------------------------------------------------------
\* A block is only read or written while it is the caller's: no function it
\* called since has released the arena, and no allocation has moved the buffer.
UsesLive ==
    todo # << >> /\ Current.do = "use" =>
        \A p \in Current.names :
            pointers[p] \in blocks /\ pointers[p].moves = moves

\* WiseAgent_Write takes an empty infoString, netString or actionString for "not
\* filled": every block it gets must come zeroed.
FreshIsZero == \A b \in blocks : b.zeroed
================================================================================
