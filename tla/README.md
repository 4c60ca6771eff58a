# WiseSnail in TLA+

WiseSnail is the C library by which a gateway tells a WISE-PaaS server about itself, its sensor
network interface and its sensors, and answers the server's commands. These modules model the
library's own code: `src/src`, `src/library/WiseCore`, and both carriers under `src/library/WiseCarrier`
for Linux: Paho, which the default build uses, and Mosquitto.

## 1. Inventory

Threads: the **application's** thread (every `WiseSnail_...` call, one at a time under `pmutex`), the
MQTT client's **receive** thread (`message_callback` down to `CmdReceive` and the `on_...` callbacks),
the carrier's **reconnect** thread, and the MQTT client's thread for each **lost** connection. Only the
first takes a lock; the others share plain globals with it. With the Mosquitto carrier one **loop** thread
of the library runs all callbacks and reconnects by itself.

| Component (code) | State | Operations | What is hard | What makes it correct |
|---|---|---|---|---|
| Command ring (`wiseaccess.c`) | `gCmds`, `gCmdHead`, `gCmdTail` | `AssignCmd` (receive thread), the loop of `Handler` (application) | no lock; a full ring; visibility of the slot before the head | a bounded FIFO of whole commands; nobody waits; all accepted commands are reached |
| Command service (`wiseaccess.c`, `wiseagentlite.c`, `WISECore.c`) | the items' values, the rate, the name, strings on the heap | `CmdReceive` (get, set, capability), `on_rename`, `on_..heartbeatrate`, `on_server_reconnect`, `Response`, `Update` | applied at once, answered later by another thread; full ring; lost link; unknown ids; untagged unions; items replaced in between | replies in order, each once; no set without its answer; no stale get; a command reaches the item it was meant for; buffers freed |
| Heartbeat (`wiseaccess.c`) | `heartBeatRate`, `count` | the test and step in `Handler`, `SetHeartBeatRate` | operator precedence, overflow, the rate changed between two statements | never longer than one period without a heartbeat |
| Connection (`PahoCarrier.c`, `MQTTConnector.c`, `WISECore.c`, `wiseagentlite.c`) | `conn_state`, `iStatus`, `gLosted`, `g_bInited` | connect, reconnect, lost callback, registration | four threads, three flags, no lock | one connect at a time; a loss is repaired and the gateway registered again |
| WISECore buffers (`WISECore.c`, `PahoCarrier.c`) | `strTopicBuff`, `strPayloadBuff`, `pubmsg`, the will options | the `core_...` functions, on the application's and on the reconnect thread | shared without a lock; pointers kept across a reconnect | a message goes out on its topic; the gateway is never declared gone; the server is heard |
| Mosquitto carrier (`MosquittoCarrier.c`, `topic.c`) | `g_connect_mutex`, `g_connect_mutex_p`, `pSubscribeTopics`, a queue of message ids | connect, callbacks, subscribe, publish | a mutex locked twice; a pointer tested and then used; a list appended to by two threads | connect returns, and only after the broker accepted; every subscription has its callback |
| Message arena (`wisememory.c`) | `buffer`, `size`, `current`, `remain` | `Alloc`, `Release`, `Init`, `Destory` | `realloc` moves the blocks; `Release` frees everybody's | blocks apart, live when used, zeroed |
| Device table (`wiseaccess.c`, `wiseagentlite.c`) | `gDevices`, `gDeviceCount`, `gIf_SenHublist` | `RegisterSensor`, `SenHubDisconnect`, `SenHubReConnected`, capability, the lookup of `CmdReceive` | read without a lock; limits; messages lost with the link; an array replaced by another | no duplicates; the newest array; the server's view right, or repaired by a capability query |
| Public API (`WiseSnail.c`) | `pmutex` | the `WiseSnail_...` functions | test before lock; `Uninit` | calls one at a time |
| Storage, base64, utilities, payload parser | | one small file, pure functions | | |
| AdvJSON | | a JSON library the gateway does not call | | |

Interactions: receive thread -> ring -> `Handler` -> arena -> `core_publish` -> carrier; the application's calls
and `CmdReceive` meet in the device table and in the items' values; the connection decides which of the
messages arrive, and its loss removes the broker's subscriptions; the registration after a loss meets the application's
calls in the message buffers. PROJECT.json lists every component and every hazard with its line.

## 2. Modules and plan

| Module | Models | Status |
|---|---|---|
| `CmdFifo` | abstract: a bounded FIFO | done |
| `CmdQueue`, `CmdQueue_proofs` | the ring, statement by statement; it implements `CmdFifo` | done, proved |
| `CmdService`, `CmdService_proofs` | commands from payload to reply, over the FIFO that `CmdQueue` is shown to be | done, proved |
| `ItemAccess`, `ItemAccess_proofs` | the items of a sensor between commands, replies and registrations: prefix search, unions, buffers | done, proved |
| `Heartbeat` | the counter and the rate | done, proved |
| `Connection`, `Connection_proofs` | connect, loss, reconnect, registration | done, safety proved |
| `CoreMessages`, `CoreMessages_proofs` | the shared message buffers and the will options | done, proved |
| `Mosquitto`, `Mosquitto_proofs` | the other carrier: the connect mutex, the callbacks, the topic list | done, safety proved |
| `WiseMem` | the arena | done, proved |
| `MemClients` | every caller's sequence of arena calls, over `WiseMem`, which it implements | done, proved |
| `Arithmetic_proofs` | the theorems of `WiseMem`, `MemClients` and `Heartbeat` | done |
| `DeviceTable`, `DeviceTable_proofs` | table, topology, registration, lookup without lock | done, safety proved |

What could come next: the life cycle of the API (`Uninit` against running calls and threads, a second
`WiseSnail_Connect`), and an abstract set of registered devices that `DeviceTable` implements for the receive thread.

## 3. How the modules correspond to the code

Definitions have the names of the functions they stand for; PROJECT.json gives the lines of each. A definition whose comment
says *faulty* is not the code: it is a plausible error of the definition behind it, which a property must notice.

**CmdQueue.** `gCmds`, `gCmdHead`, `gCmdTail` are the code's. `ppc` is where `CmdReceive`/`AssignCmd` stand:
the test for room at wiseaccess.c:651 (`NoRoom`, `Apply`), the test of `AssignCmd` (`Refuse`, `Claim`),
each store into the slot (`Fill`, in any order, since the compiler may choose one) and the head
(`AdvanceHead`). `cpc` is the loop of `WiseAccess_Handler`: `Poll`, one load for each member (`Read`),
`Dispatch`, `AdvanceTail`. A slot is a function of `Fields`, so a slot that mixes two commands is a state.
`WeakSpec` adds a store to `gCmdHead` that overtakes the stores into the slot, as ARM (which the
library's README names) allows for plain ints. `ImplementsFifo` maps the slots from tail to head to the
abstract queue; a command leaves it when it is dispatched, one step before the tail moves.

**CmdService.** The queue is that FIFO. One action for each kind of payload (`Rename`, `RenameByHandler`, `UpdateAgent`,
`QueryHeartBeatRate`, `UpdateHeartBeatRate`, `ServerReconnect`, `GetCapability`, `NotFound`, `GetOrSet`),
then `NoRoom`, `Set`, `Get` and `Assign` for the rest of `CmdReceive`. `Dispatch` is the switch of the
Handler with `WiseAgent_Response`; `Publish` may fail since nobody looks at what `core_publish` returns.
Values are numbered as they are written, so "older" is "smaller". Here a set carries a value of its item's type, and the
items stay; `ItemAccess` does without both.

**ItemAccess.** One sensor. `items` is `gDevices[d].items`, a sequence of the application's `WiseSnail_InfoSpec` objects; their names are
sequences of parts, so that one may be a prefix of another. `content` says which member of an item's union was written last,
`filled` which member of a command's `cmddata`. `Find` is the search of `CmdReceive` (`strncmp` with the length of the item's name,
first match); the store actions are the `switch` on the kind of the payload's value, `Hang` the search for a closing quote behind an
escaped one. `Respond` is `WiseAgent_Response` for commands 524 and 526, reading the type of `items[itemId]` as it is by
then. A wrong member read as a pointer may end the process or not (`crashed'` is a choice); `blame` remembers what happened
that the code does not provide for.

**Heartbeat.** `TestRate` and `Advance` are the two statements at wiseaccess.c:1217-1220, `%` binding tighter than
`+`; `Wrap` is two's complement. The rate changes between them too, and to any int, as `atoi` and `SetHeartBeatRate` check nothing. A division that
C leaves undefined (by 0, or of the least int by -1) ends the process (`stopped`, as on x86) or yields what a processor without a trap computes (ARM).

**Connection.** `pc["app"]` walks through `WiseAgent_RegisterInterface`, `core_initialize`, `WiCar_MQTT_Connect`,
`connect_callback`, `_on_connect_cb`, `on_connect_cb` and the registration; `pc["reconnect"]` through
`ReconnectThreadStart` and the same callbacks; `lost[n]` through `lostconnect_callback`,
`_on_lostconnect_cb`, `on_lostconnect_cb`. Each store to a shared flag is a step. `Drop` is the network. The application connects once; when that fails
(`"failed"`) it may end, as `sample/test.c` does, or stay while the reconnect thread goes on.

**CoreMessages.** A function is a sequence of the steps between which the other thread may run: the test of the status, formatting the
payload, formatting the topic, storing `pubmsg.payload`, sending. A buffer holds the name of what was formatted into it. A step with the argument `Buffer`
takes what the shared buffer holds when it runs, as the code does through its pointers: so does `OpenSession`, with the will. One `sprintf` is one step: a
buffer caught half formatted is not in the model. `todo` has the functions a thread still runs, `done` the steps of the first that it has
behind it, `Current` the next one. `Own` is what the application publishes through `core_publish`, any set of messages that are not the will. How the flags follow a loss is the subject of `Connection`; here they follow at once.

**Mosquitto.** `FirstLock` to `Return` are the statements of `_connect`; `g_connect_mutex_p` is read twice, by the test and by the lock, and `LoadMutex` may
meet the NULL that `on_connect_callback` has stored in between. `Accept`, `SetOnline`, the registration, `ClearLosted`, `Unlock`, `ResetMutexp` are
`on_connect_callback` with rc 0; `LostCallback`, `SetOffline` and `SetLosted` are the same with a refusal, and `on_disconnect_callback`: the first asks for the
next session, or fails to, before the others tell anybody of the loss, as `mosquitto_reconnect_async` comes first. `topic_add` is two steps: finding the
last entry, and the store behind it. `SendSubscribe` may fail without a socket. `Retry` and `Lose` are libmosquitto and the network.

**WiseMem, MemClients.** Offsets instead of addresses. `Block` records whether the block came zeroed and in
which placement of the buffer (`moves`). `MemClients` lists, for every function that builds a message, its
calls of the arena with the real sizes, those of its callees in their place. `call` is the call of the application, `todo` the functions it
still goes through, `done` how many arena calls of the first are made, and `Current` the next one.

**DeviceTable.** The arrays of `gDevices` are functions of the device number. A call of the application is a list
of instructions, one for each function or statement that the receive thread or a loss of the link can come
between; a loop is an instruction that puts its next round before itself (`NextElement`, `Republish`).
`Append1`/`Append2` are the two stores of `WiseAccess_FindItem` in either order. `Search` is the loop of
`CmdReceive`, one entry a step. `known`, `listed`, `subscribed` are what reached the server and the broker.
Names are atoms, matched whole, and items have no values: both are in `ItemAccess`.

## 4. What the runs check

| Run | Bounds | What it shows |
|---|---|---|
| `queue` | ring of 4, 2 commands, 2 members | `QueuedSlotsWhole`, `NeverSameSlot`, `AppliedIsNeverRefused`, `ImplementsFifo`, and `EveryCommandReached` |
| `service` | ring of 3, 3 requests of any kind, a number and a string item, 1 write by the application | `RepliesInOrder`, `AppliedIsAnswered`, `GetNotStale`, `EventuallyAnswered` |
| `item_access` | 6 objects, 3 slots, ring with room for 2, 2 requests, 2 calls; two first tables, three arrays | `SlotKeepsName`, `ReachesItsTarget`, `CrashHasCause`, `NothingKept` |
| `heartbeat` | rates -32, -7, -1, 0, 1, 2, 3, 5, 7, 20, 31; 6-bit int | `HeartbeatInTime` across overflows |
| `connection` | 3 losses | `OneConnect`, `Repaired` |
| `messages` | 2 messages of the application's own | `AloneIsWhole`, `NeverDeclaredGone`, `HearsServer` |
| `mosquitto` | one of the server's topics and a sensor's | `ReturnsAccepted`, `HasItsCallback`, `Announced`, `ConnectReturns` |
| `mem_clients` | the code's sizes, up to 2 connected sensors | `BlocksApart`, `UsesLive`, `FreshIsZero` |
| `device_table` | 2 sensors, a table with room for the gateway and one of them, 2 items a device, 2 arrays, 3 calls, 1 loss, 1 command | `OneEntryEach`, `NewestArray`, `ToldOnlyWhenFull`, `ListRight`, `CrashOnlyInCalls`, `CapabilityRepairs` |
| `reconnects`, `will`, `subscribes` | as `connection` with 2 losses, `messages`, `mosquitto` | the three findings below |

Every run of a module with a `TypeOK` checks it, too.

Why these bounds are enough. A ring of four wraps after four commands and is full after three, so
full, empty and wrapped states all meet each other; the proofs cover every size. Three requests suffice
for `RepliesInOrder` and `GetNotStale`, which relate two replies, with a third that finds the ring
full. In `item_access` a name is a prefix of another in both orders of registration; one array replaces an item by another object of its
type, one by an object of another type, and one adds and finds no room; two requests put two replies into a full ring while two
calls change the items under them. In `connection` a third loss can hit the repair of the second, which hits the repair of the first.
In `heartbeat` the rates are the limits of the int, both sides of 0, and one over half of the limit. In `mosquitto` two topics and two threads are
enough for an entry that is cut off the list, and for one that is stored behind an entry cut off before.
In `messages` and `mosquitto` links break and calls come for ever in a finite state space; two messages of the application's own, one of
them on a topic that functions of `WISECore.c` use too, stand for all of them.
In `device_table` one sensor gets the last free device and the other finds the table full; the second array replaces one
default item, adds one, and finds no room for the last; it is also the one whose message is too long. Three calls
are a registration, and two of registration again, disconnection or reconnection in any order.
In `mem_clients` every call ends with an empty arena, so that only the number of sensors is bounded. What the bounds leave open for the safety
properties the proofs of section 6 close: they hold for every value of these constants.

Deadlock is checked except in `connection` and its companion (nothing happens on a link that holds once the losses are
used up), in `heartbeat` (a division may end the process), in `device_table` and `item_access` (calls and requests are
bounded, and a crash ends everything), and in `mosquitto` and its companion (a wild pointer ends the process).

### Findings

Three runs expect a violation and say where the code and its documents disagree:

- `reconnects`: a loss between `MQTTClient_connect` and `conn_state = CONNECT` is overwritten; WISECore.h:162-163 says that
  the client reconnects automatically.
- `will`: the will options point into `strTopicBuff` and `strPayloadBuff`. After a reconnect the broker has the last
  message the gateway formatted for its will, on that message's topic; WISEConnector.h:159 calls the argument the topic of the will.
- `subscribes`: `WiCar_MQTT_Subscribe` of the Mosquitto carrier answers true, and sends nothing, for a topic it subscribed to before. The session is
  clean, and `on_connect_cb` subscribes through the same function: from the first reconnect on the gateway is deaf, against WiseCarrier_MQTT.h:249.

### Results worth knowing that are not disagreements

- `heartbeat`: `count = (count+1%heartBeatRate)` never starts again at the rate, and is still in time. At the
  overflow the phase shifts, which costs less than one period. A negative rate works like its absolute value; a rate of 0, which
  `atoi` makes of a text without a number, ends the process or all but stops the heartbeat.
- `queue`: the ring needs no lock in program order. With reordered stores (`WeakSpec`) a command may be dispatched before
  it is whole; that an applied command is queued still holds, and is proved.
- `item_access`: registering a sensor again is safe at any time as long as names keep their types. What is not safe: a value of another
  kind than the item's, another type under an old name, and a number or raw data set through the Service handler, whose `sprintf`
  calls (wiseaccess.c:288, 295, 302, 323) do not pass the arguments their formats ask for.
- `item_access`: an item shadows every item registered after it whose name begins with its name.
- `messages`: while the registration after a loss runs beside a call of the application, a message may go out on the topic of
  another, and a subscription to another's topic. What goes out is never the message that declares the gateway gone.
- `mosquitto`: `WiCar_MQTT_Connect` that returns false has waited until a later retry was accepted; the application then ends on a live link.
  Two threads that add a topic at once may lose one of them, and with it the callback for its messages.
- `device_table`: a sensor that comes back by `WiseSnail_RegisterSensor` is missing from the list until the next
  list is made, and the receive thread can follow an entry that is counted and not yet stored.
- Seen while modelling, and plain from the code: a rename through the general handler is queued under id 114, which the Handler does not know,
  and is never answered (wiseagentlite.c:280); the connect message after a server reconnect of a sensor names no device (wiseagentlite.c:296);
  `WiseAgent_RegisterInterface` subscribes before `core_initialize` and the subscription is lost (wiseagentlite.c:220).

## 5. Fairness

- `CmdQueue`, `CmdService`, `Heartbeat`: weak fairness of the main loop. The samples call `WiseSnail_MainLoop`
  in an endless loop, and the Handler waits for nobody. The receive thread is fair only inside one payload
  (`NoRoom`, `Set`, `Get`, `Assign`); no fairness is assumed of the server.
- `Connection`: weak fairness of the two threads and of each lost callback, which have no lock to wait for, and strong
  fairness of a successful `MQTTClient_connect` of the reconnect thread: the broker does not refuse for ever. Without
  that no reconnection can be promised. Losses are not fair.
- `Mosquitto`: weak fairness of the application inside `_connect` and inside a `core_...` function, of the callbacks, and of the
  library's retry; strong fairness of `Accept`, for the same reason, and of a CONNECT surviving the callbacks that asked for it: the network does not for ever
  lose every attempt before the callback has returned. New calls and losses are not fair.
- `DeviceTable`: weak fairness of the instructions of a running call and of the Handler answering a capability
  query. Losses, reconnections and the application's calls are not fair.
- `CoreMessages` and `ItemAccess` state no fairness: they have safety properties only.

## 6. Proofs

All constants are arbitrary but for the named assumptions in the modules.

- **CmdQueue_proofs** (assumes `MaxCmds > 0`, members exist, `NoCmd` is no command). `IInv` adds to the types:
  what the receive thread knows (the slot it fills is the one at the head, there is room, the members stored so
  far are the command's; an applied command still has its room), what the main loop knows (its slot is queued, the
  members loaded so far are the slot's), and that every slot between tail and head holds one whole command. None of
  the safety properties is inductive alone: `NeverSameSlot` needs the room, the room after the
  callback needs that only the other thread moves the tail, and `DispatchedWhole` needs both. From `IInv` follow `TypeCorrect`,
  `ThreadsApart`, `AppliedIsQueued`, `NoTornDispatch`, `QueueIsWhole`, and, with lemmas on how `Used` and `At` change with each
  index, `Refinement`: `Spec => ImplementsFifo`. `AppliedIsQueuedWeakly` proves the one promise that survives `WeakSpec`,
  from an invariant about types and room only.
- **CmdService_proofs** (assumes a ring of at least one slot, types and callbacks of the items). `Counted` bounds replies, queue and
  hand together by the requests received, `InOrder` keeps the session numbers apart and growing on the way from hand to queue to reply,
  `SetsAnswered` follows an applied set and keeps its room, `Values` says that what is in the item is no older than
  what any set on the way has written, and what a get has read no older than any set confirmed before it was sent. `OneReplyInOrder`, `NoSilentSet` and `NeverStale`
  follow.
- **ItemAccess_proofs** (assumes items have names, types and fit into the slots at first). `IInv` says of the command in hand and of each in the queue that its slot has
  the name it was found under and no earlier slot the name the server meant (`Reaches`). Lemmas: `AddItem` keeps every slot's name and the
  limit; the first match is the least. `SameName`, `FirstComeFirst` and `TypeCorrect` follow. `Fits` relates the kinds: unless something is
  blamed, the union of every item and the data of every command on the way are filled as the type of the item now in the slot
  reads them, which takes `Reaches` and that a registration with another type under way is blamed. `NoWildPointer` follows. `Owned` says that commands on the
  way have different ids and that a buffer on the heap with the id of one is of the kind that command holds and came through its handler, so that the reply frees
  the right member; with it `NothingKept` is inductive, and `NothingLeaks` follows.
- **DeviceTable_proofs** (assumes positive sizes, names apart, `None` is no sensor, item or array, and arrays are sequences of names). `IInv` adds to the
  types that ids are written once and differ (`Ids`), what is known
  between the two stores of a new item, in either order (`Halves`, `NothingBehind`: an entry without its count, or a count without its
  entry, exists only there), that names differ, and that every connect message still to come is for a sensor that is placed, or will be before
  it by a `create`, or for a full table (`FirstPlaced`). `NoEntryTwice` and `ToldIsPlaced` follow.
  `NewestArray` and `ListRight` speak of moments between calls, so their invariants say what a call that is under way has still ahead of it
  (`After`, `Followed`). `Listing`: a list that is wrong will be made again by the call, unless the sensor came back by `RegisterSensor`; and every change of a
  status that is still to come has a new list behind it, with the same exception. `Furnishing`: an entry below the count is empty only between the two stores
  (`EachStored`); each name of a sensor's last array is settled (it has that array's item, or no room), or an instruction that will add it is ahead,
  and behind every instruction that could unsettle it; the same for the capability; and no instruction of an older array is left.
  `ListIsRight` and `NewestIsKept` follow, and `CrashesOnlyInCalls`, an action property, from `EachStored`.
- **Connection_proofs** (assumes a natural number of losses). `Beginning` says that nothing can have been lost before the application's own connect
  returned, so that `conn_state` keeps the reconnect thread in its poll; with "the reconnect thread connects only on a dead link" it is
  inductive, and `NeverTwice` follows.
- **Mosquitto_proofs** (any topics). `Waiting`: the pointer is NULL, or the mutex free after the first lock, only once the broker has accepted; `NotBeforeAccepted`
  follows. `Scripts` gives the form of what a thread has left to do. `Lists`: a thread that is adding a topic has no entry for it yet, and the end it found is
  still the end, unless both threads came there at once; with it `HasItsCallback` is inductive, and `CallbackForEveryTopic` follows.
  `Session` says what the flags tell of the link (after a loss the next session may be asked for before `gLosted` stands, but the one loop thread sets it
  before it hears the broker's answer; on a live link without it the application is still in `_connect`), `Announcing` who has still to announce the gateway; `AnnouncedAgain` needs both. `TypeCorrect` follows from `Places`, `Scripts`
  and `Lists`, which bounds the topic list by its having no entry twice.
- **CoreMessages_proofs** (assumes that the application's own messages have neither the topic nor the text of the will). Lemmas show of every function that it
  formats each buffer before it publishes from it, writes nothing of the will after `core_connect`, and, alone, sends only what it means. The
  invariant carries that over to the threads: `Undisturbed` (a thread that meets no other finds in the buffers what its function wrote
  last), `Cleared` (even when the threads meet, what a function publishes from is clear of the will), `Subscribing` (a session's three topics are
  subscribed, or their subscription is ahead or under way), and `Beginning` (the first connect comes before everything else).
  `WholeWhenAlone`, `NotDeclaredGone` and `ServerHeard` follow.
- **Arithmetic_proofs**, arena (sizes are naturals, header and growth positive). `IInv` adds that every block ends at or before `current`.
  `ArenaTyped` (with `current + remain = size`) and `NoOverlap` follow.
- **Arithmetic_proofs**, clients of the arena (assumes any number of sensors and a buffer of at least 16384 bytes and six headers; the code's has
  20480). Lemmas show of every function that it releases at its end and only there, uses only what it has allocated before, and needs no more than that.
  `OnItsWay` says that what the function still takes is there, so that the arena never grows; then nothing moves and everything above `current` is as it was when
  cleared (`Untouched`), and what the function has allocated is still its own (`Held`). `PointersLive` and `BlocksComeZeroed`
  follow, and `ClientsUseArena`: `ClientsSpec` implements the arena's `Spec`, with the identity as refinement mapping.
- **Arithmetic_proofs**, heartbeat (assumes only that `IntMax` is a natural and rates are ints). `Phase` bounds, at a rate that is not 0, the calls since the last
  heartbeat by the remainder of the number tested last, plus a period after an overflow, and says that after an
  overflow `count` is still near its minimum, so that a second overflow cannot come within the two periods: no period is longer than `IntMax + 1`, half of
  the way round. `InTime` and `HeartbeatTyped` follow.

Every safety property that a run checks and the code satisfies is a theorem. Only model-checked: liveness (`EveryCommandReached`, `EventuallyAnswered`, `Repaired`, `ConnectReturns`,
`CapabilityRepairs`), which needs fairness and ENABLED, out of the prover's reach; and, by their nature, the three properties of the findings, which the code violates.

## 7. What is not modelled

- The contents of messages: JSON formats, topics, time stamps. No property is about them.
- A buffer of `WISECore.c` caught in the middle of one `sprintf`, and a broken set of flags around a loss together with the buffers.
- `liteparse.c`, the cutting of strings in `CmdReceive`, base64 and the utilities: sequential functions on characters, whose result is an
  input of `CmdService` and `ItemAccess`.
- The values of items that several sensors share (`gSensorDefaultItem`).
- `WiseSnail_Uninit` racing with calls, a second `WiseSnail_Connect`, disconnecting: the samples do none of them. The hazards list says what the code does there.
- The Mosquitto carrier's queue of message ids: the gateway publishes with QoS 0 only, which does not use it. Nor its disconnect and `Uninit`.
- TLS and login parameters: passed through to the MQTT client.
- `wisestorage.c`: reads and writes one file from one thread.
- AdvJSON: not called by the gateway. Windows carriers, samples other than for the order of calls they make.
- The vendored libraries and headers (OpenSSL, Paho, Mosquitto under `src/project`): most lines of the repository, not its own program. The
  share of the repository's lines that is modelled is small for that reason.
