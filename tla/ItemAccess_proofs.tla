---------------------------- MODULE ItemAccess_proofs ----------------------------
(***************************************************************************)
(* The items of a sensor under commands, replies and registrations: a slot *)
(* of items[] never changes its name, and the search finds the first item  *)
(* that can be meant, for any items, arrays and number of commands.        *)
(***************************************************************************)
EXTENDS ItemAccess, TLAPS, WellFoundedInduction, SequenceTheorems

\* What holds of a command from the search on: it goes to slot `at`, whose item has
\* the name it had then; an item of the name the server meant is not before it.
Reaches(at, name, target) ==
    /\ at \in DOMAIN items /\ NameOf[items[at]] = name
    /\ name # target => \A i \in 1 .. at : NameOf[items[i]] # target

IInv ==
    /\ TypeOK
    /\ \A c \in Addressed : Reaches(c.at, c.name, c.target)
    /\ cmd.stage \in {"found", "filled"} =>
          Reaches(cmd.at, NameOf[cmd.item], cmd.request.target)
--------------------------------------------------------------------------------
(* Lemmas about sequences and the two searches.                            *)

LEMMA Tables == ASSUME TypeOK PROVE items \in Seq(Items) /\ DOMAIN items = 1 .. Len(items)
BY LenProperties DEF TypeOK

LEMMA Least ==
    ASSUME NEW T, T \subseteq Nat, T # {}
    PROVE  \E x \in T : \A y \in T : x <= y
<1>1. PICK x \in T : \A y \in T : ~(<<y, x>> \in OpToRel(<, Nat))
  BY NatLessThanWellFounded, WFMin
<1>2. \A y \in T : ~(y < x) BY <1>1 DEF OpToRel
<1> QED BY <1>2

LEMMA FirstMatchFirst ==
    ASSUME NEW target, TypeOK, Matches(target) # {}
    PROVE  /\ FirstMatch(target) \in 1 .. Len(items)
           /\ \A i \in 1 .. FirstMatch(target) : i # FirstMatch(target) => i \notin Matches(target)
<1>1. Matches(target) \subseteq 1 .. Len(items) BY Tables DEF Matches
<1>2. \E i \in Matches(target) : \A j \in Matches(target) : i <= j BY <1>1, Least
<1>3. /\ FirstMatch(target) \in Matches(target)
      /\ \A j \in Matches(target) : FirstMatch(target) <= j
  BY <1>2 DEF FirstMatch
<1> QED BY <1>1, <1>3

\* A name matches itself.
LEMMA OwnName ==
    ASSUME NEW target \in Targets, NEW i \in DOMAIN items, NameOf[items[i]] = target
    PROVE  i \in Matches(target)
<1>1. target \in Seq(STRING) BY ItemsAssumption DEF Targets
<1> QED BY <1>1 DEF Matches, IsPrefix

\* Adding an item changes no name of the table and does not leave it.
LEMMA AddKeepsNames ==
    ASSUME NEW table \in Seq(Items), Len(table) <= Slots, NEW o \in Items
    PROVE  /\ AddItem(table, o) \in Seq(Items) /\ Len(AddItem(table, o)) <= Slots
           /\ \A i \in DOMAIN table :
                 i \in DOMAIN AddItem(table, o) /\ NameOf[AddItem(table, o)[i]] = NameOf[table[i]]
<1> DEFINE first == CHOOSE i \in Replaces(table, o) : \A j \in Replaces(table, o) : i <= j
<1>1. CASE Replaces(table, o) # {}
  <2>1. Replaces(table, o) \subseteq 1 .. Len(table) BY DEF Replaces
  <2>2. first \in Replaces(table, o) BY <1>1, <2>1, Least
  <2>3. NameOf[table[first]] = NameOf[o] /\ first \in 1 .. Len(table) BY <2>1, <2>2 DEF Replaces
  <2>4. AddItem(table, o) = [table EXCEPT ![first] = o] BY <1>1 DEF AddItem
  <2> HIDE DEF first
  <2> QED BY <2>3, <2>4, ExceptSeq, LenProperties
<1>2. CASE Replaces(table, o) = {} /\ HasRoom(table)
  <2>1. AddItem(table, o) = Append(table, o) BY <1>2 DEF AddItem
  <2> QED BY <1>2, <2>1, ItemsAssumption, AppendProperties, LenProperties DEF HasRoom
<1>3. CASE Replaces(table, o) = {} /\ ~HasRoom(table)
  BY <1>3 DEF AddItem
<1> QED BY <1>1, <1>2, <1>3

LEMMA EnqueueAddressed ==
    ASSUME TypeOK, NEW c \in Queued \cup {Unknown}, Enqueue(c)
    PROVE  /\ queue' \in Seq(Queued \cup {Unknown}) /\ Len(queue') <= Room
           /\ \A d \in Addressed' : d \in Addressed \/ (d = c /\ c \in Queued)
<1> DEFINE All == Queued \cup {Unknown}
<1>1. queue \in Seq(All) /\ Len(queue) <= Room BY DEF TypeOK
<1>2. queue' = queue \/ (queue' = Append(queue, c) /\ Len(queue) < Room)
  BY DEF Enqueue, HasQueueRoom
<1>3. c \in All OBVIOUS
<1> HIDE DEF All
<1>4. queue' \in Seq(All) /\ Len(queue') <= Room
  <2>1. CASE queue' = queue BY <1>1, <2>1
  <2>2. CASE queue' = Append(queue, c) /\ Len(queue) < Room
    <3>1. Append(queue, c) \in Seq(All) /\ Len(Append(queue, c)) = Len(queue) + 1
      BY <1>1, <1>3, AppendProperties
    <3>2. Len(queue) \in Nat BY <1>1, LenProperties
    <3> QED BY <2>2, <3>1, <3>2, ItemsAssumption
  <2> QED BY <1>2, <2>1, <2>2
<1>5. \A i \in DOMAIN queue' : queue'[i] = c \/ (i \in DOMAIN queue /\ queue'[i] = queue[i])
  BY <1>1, <1>2, <1>3, AppendProperties, LenProperties
<1>6. \A d \in Addressed' : d \in Addressed \/ (d = c /\ d.do # "unknown")
  BY <1>5 DEF Addressed, ToSet
<1>7. c.do # "unknown" => c \in Queued BY DEF Unknown
<1> QED BY <1>4, <1>6, <1>7 DEF All

LEMMA TailAddressed ==
    ASSUME TypeOK, queue # << >>, queue' = Tail(queue)
    PROVE  /\ queue' \in Seq(Queued \cup {Unknown}) /\ Len(queue') <= Room
           /\ Addressed' \subseteq Addressed
<1> DEFINE All == Queued \cup {Unknown}
<1>1. queue \in Seq(All) /\ Len(queue) <= Room BY DEF TypeOK
<1> HIDE DEF All
<1>2. /\ queue' \in Seq(All) /\ Len(queue') = Len(queue) - 1
      /\ \A i \in DOMAIN queue' : i + 1 \in DOMAIN queue /\ queue'[i] = queue[i + 1]
  BY <1>1, HeadTailProperties, LenProperties
<1>3. Addressed' \subseteq Addressed BY <1>2 DEF Addressed, ToSet
<1> QED BY <1>1, <1>2, <1>3, LenProperties, ItemsAssumption DEF All

LEMMA HeadAddressed ==
    ASSUME TypeOK, queue # << >>, Head(queue).do # "unknown"
    PROVE  Head(queue) \in Addressed
<1> DEFINE All == Queued \cup {Unknown}
<1>1. queue \in Seq(All) BY DEF TypeOK
<1> HIDE DEF All
<1>2. Head(queue) = queue[1] /\ 1 \in DOMAIN queue
  BY <1>1, EmptySeq, LenProperties, HeadTailProperties
<1> QED BY <1>2 DEF Addressed, ToSet

LEMMA AddressedQueued == TypeOK => Addressed \subseteq Queued
<1> SUFFICES ASSUME TypeOK, NEW c \in Addressed PROVE c \in Queued OBVIOUS
<1> DEFINE All == Queued \cup {Unknown}
<1>1. queue \in Seq(All) BY DEF TypeOK
<1> HIDE DEF All
<1>2. c \in All BY <1>1, ElementOfSeq, LenProperties DEF Addressed, ToSet
<1>3. c.do # "unknown" BY DEF Addressed
<1> QED BY <1>2, <1>3 DEF All, Unknown

\* What has been queued stays, and a command that room was found for is queued.
LEMMA EnqueueKeeps ==
    ASSUME TypeOK, NEW c \in Queued \cup {Unknown}, Enqueue(c)
    PROVE  /\ Addressed \subseteq Addressed'
           /\ Len(queue) < Room /\ c.do # "unknown" => c \in Addressed'
<1> DEFINE All == Queued \cup {Unknown}
<1>1. queue \in Seq(All) BY DEF TypeOK
<1>2. \/ queue' = queue /\ ~(Len(queue) < Room)
      \/ queue' = Append(queue, c)
  BY DEF Enqueue, HasQueueRoom
<1>3. c \in All OBVIOUS
<1> HIDE DEF All
<1>4. CASE queue' = queue /\ ~(Len(queue) < Room) BY <1>4 DEF Addressed
<1>5. CASE queue' = Append(queue, c)
  <2>1. /\ queue' \in Seq(All) /\ Len(queue') = Len(queue) + 1
        /\ \A i \in 1 .. Len(queue) : queue'[i] = queue[i]
        /\ queue'[Len(queue) + 1] = c
    BY <1>1, <1>3, <1>5, AppendProperties
  <2>2. /\ Len(queue) \in Nat /\ DOMAIN queue = 1 .. Len(queue)
        /\ DOMAIN queue' = 1 .. Len(queue) + 1
    BY <1>1, <2>1, LenProperties
  <2>3. ToSet(queue) \subseteq ToSet(queue') /\ c \in ToSet(queue') BY <2>1, <2>2 DEF ToSet
  <2> QED BY <2>3 DEF Addressed
<1> QED BY <1>2, <1>4, <1>5

\* A reply that the command is unknown is queued, or dropped.
LEMMA UnknownQueued == ASSUME TypeOK, Enqueue(Unknown) PROVE Addressed' = Addressed
<1>1. Unknown \notin Queued BY DEF Unknown, Queued
<1> QED BY <1>1, EnqueueAddressed, EnqueueKeeps

LEMMA AnsweredHead ==
    ASSUME TypeOK, queue # << >>, queue' = Tail(queue), NEW c \in Addressed
    PROVE  c \in Addressed' \/ c = Head(queue)
<1> DEFINE All == Queued \cup {Unknown}
<1>1. queue \in Seq(All) BY DEF TypeOK
<1> HIDE DEF All
<1>2. /\ Head(queue) = queue[1] /\ queue' \in Seq(All) /\ Len(queue') = Len(queue) - 1
      /\ \A i \in 1 .. Len(queue') : queue'[i] = queue[i + 1]
      /\ Len(queue) \in Nat /\ DOMAIN queue = 1 .. Len(queue) /\ DOMAIN queue' = 1 .. Len(queue')
  BY <1>1, HeadTailProperties, LenProperties
<1>3. PICK i \in 1 .. Len(queue) : c = queue[i] BY <1>2 DEF Addressed, ToSet
<1>4. CASE i = 1 BY <1>2, <1>3, <1>4
<1>5. CASE i # 1
  <2>1. i - 1 \in DOMAIN queue' /\ queue'[i - 1] = c
    <3>1. i - 1 \in 1 .. Len(queue') /\ (i - 1) + 1 = i BY <1>2, <1>5
    <3> QED BY <1>2, <1>3, <3>1
  <2> QED BY <2>1 DEF Addressed, ToSet
<1> QED BY <1>4, <1>5
--------------------------------------------------------------------------------
(* The application's side.                                                 *)

LEMMA InitIInv == Init => IInv
<1> SUFFICES ASSUME Init PROVE IInv OBVIOUS
<1>1. items \in Seq(Items) /\ Len(items) <= Slots BY ItemsAssumption DEF Init
<1>2. queue = << >> /\ queue \in Seq(Queued \cup {Unknown}) /\ Len(queue) = 0
  BY EmptySeq DEF Init
<1>3. Addressed = {} BY <1>2, LenProperties DEF Addressed, ToSet
<1>4. app \in Seq(Items \cup {Publish}) BY EmptySeq DEF Init
<1>5. /\ sent \in [requests : 0 .. MaxRequests, calls : 0 .. MaxCalls]
      /\ Len(queue) <= Room
  BY <1>2, ItemsAssumption DEF Init
<1>6. content \in [Items -> {"number", "string", "raw"}] BY ItemsAssumption DEF Init
<1>7. TypeOK
  BY <1>1, <1>2, <1>4, <1>5, <1>6 DEF Init, TypeOK, Silence
<1> QED BY <1>3, <1>7 DEF Init, IInv, Idle

LEMMA AppTail ==
    ASSUME TypeOK, app # << >>
    PROVE  /\ Head(app) \in Items \cup {Publish}
           /\ Tail(app) \in Seq(Items \cup {Publish})
<1>1. app \in Seq(Items \cup {Publish}) BY DEF TypeOK
<1> QED BY <1>1, HeadTailProperties

LEMMA CallCounted ==
    ASSUME TypeOK, BeginCall
    PROVE  /\ sent' \in [requests : 0 .. MaxRequests, calls : 0 .. MaxCalls]
           /\ printed' = Silence
<1>1. sent \in [requests : 0 .. MaxRequests, calls : 0 .. MaxCalls] BY DEF TypeOK
<1>2. sent.calls < MaxCalls /\ sent' = [sent EXCEPT !.calls = @ + 1] BY DEF BeginCall
<1>3. sent.calls + 1 \in 0 .. MaxCalls BY <1>1, <1>2, ItemsAssumption
<1> QED BY <1>1, <1>2, <1>3 DEF BeginCall

\* Steps that leave the table and the commands alone.
LEMMA Kept == ASSUME IInv, TypeOK', UNCHANGED <<items, queue, cmd>> PROVE IInv'
BY DEF IInv, Reaches, Addressed

LEMMA RegisterStep == ASSUME IInv, NEW array \in Arrays, RegisterSensor(array) PROVE IInv'
<1>1. app' \in Seq(Items \cup {Publish})
  <2>1. array \in Seq(Items \cup {Publish})
    BY ItemsAssumption, SeqMonotonic
  <2>2. <<Publish>> \in Seq(Items \cup {Publish}) OBVIOUS
  <2> QED BY <2>1, <2>2, ConcatProperties DEF RegisterSensor
<1>2. TypeOK'
  BY <1>1, CallCounted DEF RegisterSensor, IInv, TypeOK
<1> QED BY <1>2, Kept DEF RegisterSensor

LEMMA UpdateStep == ASSUME IInv, NEW o \in Items, Update(o) PROVE IInv'
<1>1. <<Publish>> \in Seq(Items \cup {Publish}) OBVIOUS
<1>2. TypeOK'
  BY <1>1, CallCounted, ItemsAssumption DEF Update, IInv, TypeOK
<1> QED BY <1>2, Kept DEF Update

LEMMA PublishStep == ASSUME IInv, PublishItems PROVE IInv'
<1>1. app' \in Seq(Items \cup {Publish})
  BY AppTail DEF PublishItems, IInv
<1>2. crashed' \in BOOLEAN BY DEF PublishItems
<1>3. TypeOK' BY <1>1, <1>2 DEF PublishItems, IInv, TypeOK, Silence
<1> QED BY <1>3, Kept DEF PublishItems

\* What a command reaches has the same name after an item has been added.
LEMMA ReachesStays ==
    ASSUME IInv, AddNext, NEW at, NEW name, NEW target, Reaches(at, name, target)
    PROVE  /\ at \in DOMAIN items' /\ NameOf[items'[at]] = name
           /\ name # target => \A i \in 1 .. at : NameOf[items'[i]] # target
<1>1. Head(app) \in Items BY AppTail DEF AddNext, IInv
<1>2. \A i \in DOMAIN items : i \in DOMAIN items' /\ NameOf[items'[i]] = NameOf[items[i]]
  BY <1>1, AddKeepsNames DEF AddNext, IInv, TypeOK
<1>3. 1 .. at \subseteq DOMAIN items BY Tables DEF Reaches, IInv
<1> QED BY <1>2, <1>3 DEF Reaches

LEMMA AddStep == ASSUME IInv, AddNext PROVE IInv'
<1>1. Head(app) \in Items /\ Tail(app) \in Seq(Items \cup {Publish})
  BY AppTail DEF AddNext, IInv
<1>2. items' \in Seq(Items) /\ Len(items') <= Slots
  BY <1>1, AddKeepsNames DEF AddNext, IInv, TypeOK
<1>3. blame' \subseteq {"retyped", "other kind", "service set"}
  BY DEF AddNext, IInv, TypeOK
<1>4. TypeOK' BY <1>1, <1>2, <1>3 DEF AddNext, IInv, TypeOK, Silence
<1>5. Addressed' = Addressed BY DEF AddNext, Addressed
<1>6. \A c \in Addressed' : Reaches(c.at, c.name, c.target)'
  <2> SUFFICES ASSUME NEW c \in Addressed PROVE Reaches(c.at, c.name, c.target)'
    BY <1>5
  <2>1. Reaches(c.at, c.name, c.target) BY DEF IInv
  <2>2. /\ c.at \in DOMAIN items' /\ NameOf[items'[c.at]] = c.name
        /\ c.name # c.target => \A i \in 1 .. c.at : NameOf[items'[i]] # c.target
    BY <2>1, ReachesStays
  <2> QED BY <2>2 DEF Reaches
<1>7. (cmd.stage \in {"found", "filled"} => Reaches(cmd.at, NameOf[cmd.item], cmd.request.target))'
  <2>1. cmd' = cmd BY DEF AddNext
  <2> SUFFICES ASSUME cmd.stage \in {"found", "filled"}
               PROVE  Reaches(cmd.at, NameOf[cmd.item], cmd.request.target)'
    BY <2>1
  <2>2. Reaches(cmd.at, NameOf[cmd.item], cmd.request.target) BY DEF IInv
  <2>3. /\ cmd.at \in DOMAIN items' /\ NameOf[items'[cmd.at]] = NameOf[cmd.item]
        /\ NameOf[cmd.item] # cmd.request.target
              => \A i \in 1 .. cmd.at : NameOf[items'[i]] # cmd.request.target
    BY <2>2, ReachesStays
  <2> QED BY <2>1, <2>3 DEF Reaches
<1> QED BY <1>4, <1>6, <1>7 DEF IInv

LEMMA AnswerStep == ASSUME IInv, Answer PROVE IInv'
<1>1. /\ queue' \in Seq(Queued \cup {Unknown}) /\ Len(queue') <= Room
      /\ Addressed' \subseteq Addressed
  BY TailAddressed DEF Answer, IInv
<1>2. /\ crashed' \in BOOLEAN
      /\ heap' \subseteq heap
      /\ printed' \in {Silence, "reply", "garbage"}
      /\ blame' \subseteq {"retyped", "other kind", "service set"}
  BY DEF Answer, Respond, IInv, TypeOK
<1>3. TypeOK' BY <1>1, <1>2 DEF Answer, IInv, TypeOK
<1>4. UNCHANGED <<items, cmd>> BY DEF Answer
<1> QED BY <1>1, <1>3, <1>4 DEF IInv, Reaches
--------------------------------------------------------------------------------
(* The receive thread.                                                     *)

LEMMA RequestCounted ==
    ASSUME TypeOK, sent.requests < MaxRequests, sent' = [sent EXCEPT !.requests = @ + 1]
    PROVE  /\ sent.requests \in 0 .. MaxRequests - 1
           /\ sent' \in [requests : 0 .. MaxRequests, calls : 0 .. MaxCalls]
<1>1. sent \in [requests : 0 .. MaxRequests, calls : 0 .. MaxCalls] BY DEF TypeOK
<1>2. sent.requests \in 0 .. MaxRequests - 1 /\ sent.requests + 1 \in 0 .. MaxRequests
  BY <1>1, ItemsAssumption
<1> QED BY <1>1, <1>2

LEMMA FindStep == ASSUME IInv, NEW r \in Requests, Find(r) PROVE IInv'
<1> DEFINE at == FirstMatch(r.target)
<1>1. TypeOK BY DEF IInv
<1>2. /\ at \in 1 .. Len(items)
      /\ \A i \in 1 .. at : i # at => i \notin Matches(r.target)
  BY <1>1, FirstMatchFirst DEF Find
<1>3. r.target \in Targets BY DEF Requests
<1>4. items[at] \in Items /\ at \in 1 .. Slots
  <2>1. Len(items) \in Nat /\ Len(items) <= Slots BY <1>1, LenProperties DEF TypeOK
  <2> QED BY <1>1, <1>2, <2>1, Tables, ElementOfSeq, ItemsAssumption
<1>5. Reaches(at, NameOf[items[at]], r.target)
  <2>1. ASSUME NEW i \in 1 .. at, NameOf[items[i]] = r.target, NameOf[items[at]] # r.target
        PROVE  FALSE
    <3>1. i \in DOMAIN items /\ i # at BY <1>1, <1>2, <2>1, Tables
    <3> QED BY <1>2, <1>3, <2>1, <3>1, OwnName
  <2> QED BY <1>1, <1>2, <2>1, Tables DEF Reaches
<1>6. /\ sent.requests \in 0 .. MaxRequests - 1
      /\ sent' \in [requests : 0 .. MaxRequests, calls : 0 .. MaxCalls]
  BY <1>1, RequestCounted DEF Find
<1>7. UNCHANGED <<items, content, app, queue, heap, crashed, blame>> /\ printed' = Silence
  BY DEF Find
<1> HIDE DEF at
<1>8. CASE HasQueueRoom
  <2>1. cmd' = [stage |-> "found", id |-> sent.requests, request |-> r, at |-> at,
                item |-> items[at], filled |-> "nothing"]
    BY <1>8 DEF Find, at
  <2>2. cmd' \in InHand BY <1>4, <1>6, <2>1 DEF InHand, Members
  <2>3. TypeOK' BY <1>1, <1>6, <1>7, <2>2 DEF TypeOK, Silence
  <2>4. Reaches(cmd.at, NameOf[cmd.item], cmd.request.target)'
    BY <1>5, <1>7, <2>1 DEF Reaches
  <2> QED BY <1>7, <2>3, <2>4 DEF IInv, Reaches, Addressed
<1>9. CASE ~HasQueueRoom
  <2>1. cmd' = Idle BY <1>9 DEF Find
  <2>2. TypeOK' BY <1>1, <1>6, <1>7, <2>1 DEF TypeOK, Silence
  <2> QED BY <1>7, <2>1, <2>2 DEF IInv, Reaches, Addressed, Idle
<1> QED BY <1>8, <1>9

\* Steps that queue at most c, which reaches its slot, and leave the table alone.
LEMMA Queue ==
    ASSUME IInv, TypeOK', UNCHANGED items, NEW c \in Queued \cup {Unknown},
           Enqueue(c) \/ UNCHANGED queue,
           c \in Queued => Reaches(c.at, c.name, c.target),
           cmd' = Idle \/ (/\ cmd.stage = "found"
                          /\ UNCHANGED <<cmd.at, cmd.item, cmd.request>>)
    PROVE  IInv'
<1>1. \A d \in Addressed' : Reaches(d.at, d.name, d.target)
  BY EnqueueAddressed DEF IInv, Addressed
<1>2. \A d \in Addressed' : Reaches(d.at, d.name, d.target)' BY <1>1 DEF Reaches
<1>3. (cmd.stage \in {"found", "filled"} => Reaches(cmd.at, NameOf[cmd.item], cmd.request.target))'
  <2>1. CASE cmd' = Idle BY <2>1 DEF Idle
  <2>2. CASE cmd.stage = "found" /\ UNCHANGED <<cmd.at, cmd.item, cmd.request>>
    BY <2>2 DEF IInv, Reaches
  <2> QED BY <2>1, <2>2
<1> QED BY <1>2, <1>3 DEF IInv

LEMMA NotFoundStep == ASSUME IInv, NEW r \in Requests, NotFound(r) PROVE IInv'
<1>1. TypeOK /\ Enqueue(Unknown) BY DEF IInv, NotFound
<1>2. queue' \in Seq(Queued \cup {Unknown}) /\ Len(queue') <= Room
  BY <1>1, EnqueueAddressed
<1>3. sent' \in [requests : 0 .. MaxRequests, calls : 0 .. MaxCalls]
  BY <1>1, RequestCounted DEF NotFound
<1>4. TypeOK' BY <1>1, <1>2, <1>3 DEF NotFound, TypeOK, Silence
<1>5. cmd' = Idle BY DEF NotFound
<1>6. Unknown \notin Queued BY DEF Unknown, Queued
<1> QED BY <1>1, <1>4, <1>5, <1>6, Queue DEF NotFound

LEMMA InHandFound == ASSUME TypeOK, cmd.stage \in {"found", "filled"} PROVE cmd \in InHand
<1>1. cmd \in InHand \cup {Idle} BY DEF TypeOK
<1>2. Idle.stage = "idle" BY DEF Idle
<1> QED BY <1>1, <1>2

LEMMA FillType ==
    ASSUME TypeOK, NEW member \in Members, cmd.stage = "found", Fill(member)
    PROVE  /\ cmd' \in InHand /\ UNCHANGED <<cmd.at, cmd.item, cmd.request>>
           /\ cmd \in InHand
<1>1. cmd \in InHand BY InHandFound
<1> QED BY <1>1 DEF Fill, InHand

\* What a change of the command in hand leaves alone.
LEMMA Moved ==
    ASSUME cmd \in InHand, NEW stage, NEW filled,
           cmd' = [cmd EXCEPT !.stage = stage, !.filled = filled]
    PROVE  /\ cmd'.stage = stage /\ cmd'.filled = filled
           /\ UNCHANGED <<cmd.id, cmd.at, cmd.item, cmd.request>>
BY DEF InHand

\* A string or raw data of the command in hand.
LEMMA HeapType ==
    ASSUME TypeOK, cmd \in InHand, NEW member \in {"string", "raw"}
    PROVE  Allocated(cmd, member)
             \in [id : 0 .. MaxRequests - 1, member : {"string", "raw"}, service : BOOLEAN]
<1>1. cmd.request \in Requests /\ cmd.id \in 0 .. MaxRequests - 1 BY DEF InHand
<1>2. cmd.request.service \in BOOLEAN BY <1>1 DEF Requests
<1> QED BY <1>1, <1>2 DEF Allocated

LEMMA SetStep == ASSUME IInv, Set PROVE IInv'
<1> USE DEF Found
<1>1. /\ TypeOK /\ cmd.stage = "found" /\ cmd \in InHand
      /\ UNCHANGED <<items, app, crashed, sent>> /\ printed' = Silence
  BY InHandFound DEF IInv, Set, StoreNumber, StorePointer, StoreNothing, StoreUnknownFormat, Hang
<1>2. blame' \subseteq {"retyped", "other kind", "service set"}
  BY <1>1 DEF Set, TypeOK
<1>3. cmd.item \in Items BY <1>1 DEF InHand
<1>4. Unknown \notin Queued BY DEF Unknown, Queued
<1>5. CASE StoreNumber \/ StorePointer \/ StoreNothing
  <2>1. /\ cmd' \in InHand /\ UNCHANGED <<cmd.at, cmd.item, cmd.request>>
        /\ UNCHANGED queue
    BY <1>1, <1>5, FillType DEF StoreNumber, StorePointer, StoreNothing, Members
  <2>2. content' \in [Items -> {"number", "string", "raw"}]
    BY <1>1, <1>3, <1>5 DEF StoreNumber, StorePointer, StoreNothing, TypeOK
  <2>3. heap' \subseteq [id : 0 .. MaxRequests - 1, member : {"string", "raw"},
                         service : BOOLEAN]
    <3>1. \/ heap' = heap
          \/ \E member \in {"string", "raw"} : heap' = heap \cup {Allocated(cmd, member)}
      BY <1>5 DEF StoreNumber, StorePointer, StoreNothing
    <3>2. \A member \in {"string", "raw"} :
             Allocated(cmd, member) \in [id : 0 .. MaxRequests - 1,
                                        member : {"string", "raw"}, service : BOOLEAN]
      BY <1>1, HeapType
    <3>3. heap \subseteq [id : 0 .. MaxRequests - 1, member : {"string", "raw"},
                         service : BOOLEAN]
      BY <1>1 DEF TypeOK
    <3> QED BY <3>1, <3>2, <3>3
  <2>4. TypeOK' BY <1>1, <1>2, <2>1, <2>2, <2>3 DEF TypeOK, Silence
  <2> QED BY <1>1, <1>4, <2>1, <2>4, Queue
<1>6. CASE StoreUnknownFormat
  <2>1. /\ cmd' = Idle /\ Enqueue(Unknown) /\ UNCHANGED <<content, heap>>
    BY <1>6 DEF StoreUnknownFormat
  <2>2. queue' \in Seq(Queued \cup {Unknown}) /\ Len(queue') <= Room
    BY <1>1, <2>1, EnqueueAddressed
  <2>3. TypeOK' BY <1>1, <1>2, <2>1, <2>2 DEF TypeOK, Silence
  <2> QED BY <1>1, <1>4, <2>1, <2>3, Queue
<1>7. CASE Hang
  <2>1. /\ cmd' = [cmd EXCEPT !.stage = "hung"] /\ UNCHANGED <<content, queue, heap>>
    BY <1>7 DEF Hang
  <2>2. cmd' \in InHand /\ UNCHANGED <<cmd.at, cmd.item, cmd.request>>
    BY <1>1, <2>1 DEF InHand
  <2>3. TypeOK' BY <1>1, <1>2, <2>1, <2>2 DEF TypeOK, Silence
  <2> QED BY <1>1, <1>4, <2>1, <2>2, <2>3, Queue
<1> QED BY <1>5, <1>6, <1>7 DEF Set

LEMMA GetStep == ASSUME IInv, Get PROVE IInv'
<1>1. /\ TypeOK /\ cmd.stage = "found" /\ cmd \in InHand
      /\ UNCHANGED <<items, content, app, sent, blame>> /\ printed' = Silence
  BY InHandFound DEF IInv, Get, Found
<1>2. crashed' \in BOOLEAN BY DEF Get
<1>3. heap' \subseteq [id : 0 .. MaxRequests - 1, member : {"string", "raw"}, service : BOOLEAN]
  <2>1. heap' = heap \/ heap' = heap \cup {Allocated(cmd, "string")} BY DEF Get
  <2> QED BY <1>1, <2>1, HeapType DEF TypeOK
<1>4. Unknown \notin Queued BY DEF Unknown, Queued
<1>5. CASE TypeOf[cmd.item] = "number" \/ cmd.item \in Readable
  <2>1. Fill(TypeOf[cmd.item]) /\ UNCHANGED queue BY <1>5 DEF Get
  <2>2. TypeOf[cmd.item] \in Members BY <1>1, ItemsAssumption DEF InHand, Members
  <2>3. cmd' \in InHand /\ UNCHANGED <<cmd.at, cmd.item, cmd.request>>
    BY <1>1, <2>1, <2>2, FillType
  <2>4. TypeOK' BY <1>1, <1>2, <1>3, <2>1, <2>3 DEF TypeOK, Silence
  <2> QED BY <1>1, <1>4, <2>1, <2>3, <2>4, Queue
<1>6. CASE ~(TypeOf[cmd.item] = "number" \/ cmd.item \in Readable)
  <2>1. cmd' = Idle /\ Enqueue(Unknown) BY <1>6 DEF Get
  <2>2. queue' \in Seq(Queued \cup {Unknown}) /\ Len(queue') <= Room
    BY <1>1, <2>1, EnqueueAddressed
  <2>3. TypeOK' BY <1>1, <1>2, <1>3, <2>1, <2>2 DEF TypeOK, Silence
  <2> QED BY <1>1, <1>4, <2>1, <2>3, Queue
<1> QED BY <1>5, <1>6

\* The command that CmdReceive assigns.
LEMMA AssignedQueued ==
    ASSUME TypeOK, Assign
    PROVE  LET c == [do |-> cmd.request.do, at |-> cmd.at, id |-> cmd.id, filled |-> cmd.filled,
                     name |-> NameOf[cmd.item], target |-> cmd.request.target,
                     service |-> cmd.request.service]
           IN  /\ c \in Queued /\ \A d \in Addressed' : d \in Addressed \/ d = c
               /\ queue' \in Seq(Queued \cup {Unknown}) /\ Len(queue') <= Room
<1> DEFINE c == [do |-> cmd.request.do, at |-> cmd.at, id |-> cmd.id, filled |-> cmd.filled,
                 name |-> NameOf[cmd.item], target |-> cmd.request.target,
                 service |-> cmd.request.service]
<1>1. cmd.stage = "filled" /\ cmd \in InHand /\ Enqueue(c) BY InHandFound DEF Assign
<1>2. c \in Queued
  <2>1. cmd.request \in Requests /\ cmd.item \in Items BY <1>1 DEF InHand
  <2>2. /\ cmd.request.do \in {"get", "set"} /\ cmd.request.target \in Targets
        /\ cmd.request.service \in BOOLEAN
    BY <2>1 DEF Requests
  <2>3. NameOf[cmd.item] \in Targets BY <2>1 DEF Targets
  <2> QED BY <1>1, <2>2, <2>3 DEF Queued, InHand
<1> HIDE DEF c
<1>3. /\ queue' \in Seq(Queued \cup {Unknown}) /\ Len(queue') <= Room
      /\ \A d \in Addressed' : d \in Addressed \/ d = c
  BY <1>1, <1>2, EnqueueAddressed
<1> QED BY <1>2, <1>3 DEF c

LEMMA AssignStep == ASSUME IInv, Assign PROVE IInv'
<1> DEFINE c == [do |-> cmd.request.do, at |-> cmd.at, id |-> cmd.id, filled |-> cmd.filled,
                 name |-> NameOf[cmd.item], target |-> cmd.request.target,
                 service |-> cmd.request.service]
<1>1. /\ TypeOK /\ cmd.stage = "filled" /\ cmd' = Idle
      /\ UNCHANGED <<items, content, app, heap, crashed, sent, blame>> /\ printed' = Silence
      /\ Enqueue(c)
  BY DEF IInv, Assign
<1>2. c \in Queued /\ queue' \in Seq(Queued \cup {Unknown}) /\ Len(queue') <= Room
  BY <1>1, AssignedQueued
<1>3. Reaches(c.at, c.name, c.target) BY <1>1 DEF IInv
<1> HIDE DEF c
<1>4. TypeOK' BY <1>1, <1>2 DEF TypeOK, Silence
<1> QED BY <1>1, <1>2, <1>3, <1>4, Queue
--------------------------------------------------------------------------------
LEMMA NextIInv == IInv /\ [Next]_vars => IInv'
<1>1. IInv /\ UNCHANGED vars => IInv'
  BY DEF vars, IInv, TypeOK, Reaches, Addressed
<1> QED BY <1>1, FindStep, NotFoundStep, SetStep, GetStep, AssignStep, AnswerStep, AddStep,
           PublishStep, RegisterStep, UpdateStep DEF Next, MqttThread

--------------------------------------------------------------------------------
(* The members of the unions.                                              *)

\* Until the server sends another kind of value an item's union holds what its type says;
\* until an item under way gets another type a command holds what its item's type says.
Fits ==
    /\ "other kind" \notin blame =>
          /\ \A o \in Items : content[o] = "number" => TypeOf[o] = "number"
          /\ cmd.stage = "filled" => cmd.filled = TypeOf[cmd.item]
    /\ "retyped" \notin blame /\ cmd.stage \in {"found", "filled"} =>
          TypeOf[items[cmd.at]] = TypeOf[cmd.item]
    /\ blame \subseteq {"service set"} => \A c \in Addressed : c.filled = TypeOf[items[c.at]]
    /\ CrashHasCause

LEMMA InitFits == Init => Fits
<1> SUFFICES ASSUME Init PROVE Fits OBVIOUS
<1>1. queue = << >> BY DEF Init
<1>2. Addressed = {} BY <1>1, EmptySeq, LenProperties DEF Addressed, ToSet
<1>3. crashed = FALSE /\ printed # "garbage" BY DEF Init, Silence
<1> QED BY <1>2, <1>3 DEF Init, Fits, Idle, CrashHasCause

\* Steps of the application other than an addition.
LEMMA FitsCalls ==
    ASSUME IInv, Fits, \/ \E array \in Arrays : RegisterSensor(array)
                       \/ \E o \in Items : Update(o)
                       \/ PublishItems
    PROVE  Fits'
<1>1. /\ UNCHANGED <<items, cmd, queue, blame>> /\ printed' = Silence
      /\ content' = content \/ \E o \in Items : content' = [content EXCEPT ![o] = TypeOf[o]]
  BY DEF RegisterSensor, Update, PublishItems, BeginCall
<1>2. Addressed' = Addressed BY <1>1 DEF Addressed
<1>3. crashed' => crashed \/ \E o \in Items : TypeOf[o] # "number" /\ content[o] = "number"
  <2>1. \A o \in ToSet(items) : o \in Items BY Tables, ElementOfSeq DEF ToSet, IInv
  <2> QED BY <2>1 DEF RegisterSensor, Update, PublishItems
<1>4. content \in [Items -> {"number", "string", "raw"}] BY DEF IInv, TypeOK
<1>5. "other kind" \notin blame => \A o \in Items : content'[o] = "number" => TypeOf[o] = "number"
  BY <1>1, <1>4 DEF Fits
<1>6. CrashHasCause' BY <1>1, <1>3 DEF Fits, CrashHasCause, Silence
<1> QED BY <1>1, <1>2, <1>5, <1>6 DEF Fits

\* An addition gives another type only to an item of the name.
LEMMA AddTypes ==
    ASSUME NEW table \in Seq(Items), NEW o \in Items, Len(table) <= Slots, NEW i \in DOMAIN table,
           TypeOf[AddItem(table, o)[i]] # TypeOf[table[i]]
    PROVE  NameOf[table[i]] = NameOf[o]
<1> DEFINE first == CHOOSE k \in Replaces(table, o) : \A j \in Replaces(table, o) : k <= j
<1>1. CASE Replaces(table, o) # {}
  <2>1. Replaces(table, o) \subseteq 1 .. Len(table) BY DEF Replaces
  <2>2. first \in Replaces(table, o) BY <1>1, <2>1, Least
  <2>3. NameOf[table[first]] = NameOf[o] BY <2>2 DEF Replaces
  <2>4. AddItem(table, o) = [table EXCEPT ![first] = o] BY <1>1 DEF AddItem
  <2> HIDE DEF first
  <2>5. i # first => AddItem(table, o)[i] = table[i] BY <2>4
  <2> QED BY <2>3, <2>5
<1>2. CASE Replaces(table, o) = {}
  <2>1. AddItem(table, o) \in {table, Append(table, o)} BY <1>2 DEF AddItem
  <2>2. i \in 1 .. Len(table) BY LenProperties
  <2> QED BY <2>1, <2>2, AppendProperties
<1> QED BY <1>1, <1>2

LEMMA FitsAdd == ASSUME IInv, Fits, AddNext PROVE Fits'
<1>1. /\ UNCHANGED <<content, cmd, queue, crashed>> /\ printed' = Silence
      /\ items' = AddItem(items, Head(app)) /\ Head(app) \in Items
      /\ blame \subseteq blame'
  BY AppTail DEF AddNext, IInv
<1>2. ASSUME "retyped" \notin blame', NEW i \in InFlight \cap DOMAIN items
      PROVE  TypeOf[items'[i]] = TypeOf[items[i]]
  <2>1. ~\E k \in InFlight \cap DOMAIN items : /\ TypeOf[items'[k]] # TypeOf[items[k]]
                                               /\ NameOf[items[k]] = NameOf[Head(app)]
    BY <1>2 DEF AddNext
  <2>2. items \in Seq(Items) /\ Len(items) <= Slots BY DEF IInv, TypeOK
  <2>3. TypeOf[AddItem(items, Head(app))[i]] # TypeOf[items[i]]
           => NameOf[items[i]] = NameOf[Head(app)]
    BY <1>1, <2>2, AddTypes
  <2> QED BY <1>1, <2>1, <2>3
<1>3. cmd.stage \in {"found", "filled"} => cmd.at \in InFlight \cap DOMAIN items
  BY DEF IInv, Reaches, InFlight
<1>4. \A c \in Addressed : c.at \in InFlight \cap DOMAIN items
  BY DEF IInv, Reaches, InFlight, Addressed, ToSet
<1>5. Addressed' = Addressed BY <1>1 DEF Addressed
<1>6. CrashHasCause' BY <1>1 DEF Fits, CrashHasCause, Silence
<1>7. blame' \subseteq {"service set"} => "retyped" \notin blame' /\ blame \subseteq {"service set"}
  BY <1>1
<1>8. "retyped" \notin blame' /\ cmd.stage \in {"found", "filled"} =>
         TypeOf[items'[cmd.at]] = TypeOf[cmd.item]
  BY <1>1, <1>2, <1>3 DEF Fits
<1>9. blame' \subseteq {"service set"} => \A c \in Addressed : c.filled = TypeOf[items'[c.at]]
  BY <1>2, <1>4, <1>7 DEF Fits
<1> QED BY <1>1, <1>5, <1>6, <1>8, <1>9 DEF Fits

LEMMA FitsFind ==
    ASSUME IInv, Fits, NEW r \in Requests, Find(r) \/ NotFound(r)
    PROVE  Fits'
<1>1. /\ UNCHANGED <<items, content, crashed, blame>> /\ printed' = Silence
      /\ queue' = queue \/ Enqueue(Unknown)
  BY DEF Find, NotFound
<1>2. Unknown \notin Queued BY DEF Unknown, Queued
<1>3. \A c \in Addressed' : c \in Addressed
  BY <1>1, <1>2, EnqueueAddressed DEF IInv, Addressed
<1>4. /\ cmd'.stage # "filled"
      /\ cmd'.stage = "found" => TypeOf[items[cmd'.at]] = TypeOf[cmd'.item]
  BY DEF Find, NotFound, Idle
<1>5. CrashHasCause' BY <1>1 DEF Fits, CrashHasCause, Silence
<1> QED BY <1>1, <1>3, <1>4, <1>5 DEF Fits

LEMMA FitsSet == ASSUME IInv, Fits, Set PROVE Fits'
<1> USE DEF Found
<1>1. /\ cmd.stage = "found" /\ cmd \in InHand /\ TypeOK /\ blame \subseteq blame'
      /\ UNCHANGED <<items, crashed>> /\ printed' = Silence
      /\ UNCHANGED queue \/ Enqueue(Unknown)
  BY InHandFound
  DEF IInv, Set, StoreNumber, StorePointer, StoreNothing, StoreUnknownFormat, Hang
<1>2. Unknown \notin Queued BY DEF Unknown, Queued
<1>3. \A c \in Addressed' : c \in Addressed
  BY <1>1, <1>2, EnqueueAddressed DEF Addressed
<1>4. cmd.item \in Items /\ TypeOf[cmd.item] \in {"number", "string", "raw"}
  BY <1>1, ItemsAssumption DEF InHand
<1>5. "other kind" \notin blame' =>
         /\ "other kind" \notin blame
         /\ cmd.request.kind \in {TypeOf[cmd.item], "badformat", "escaped"}
  BY DEF Set
<1>6. content \in [Items -> {"number", "string", "raw"}] BY <1>1 DEF TypeOK
<1>7. ASSUME "other kind" \notin blame', NEW o \in Items, content'[o] = "number"
      PROVE  TypeOf[o] = "number"
  <2>1. content' = content \/ (cmd.request.kind = "number"
                                /\ content' = [content EXCEPT ![cmd.item] = "number"])
    BY DEF Set, StoreNumber, StorePointer, StoreNothing, StoreUnknownFormat, Hang
  <2>2. CASE content' = content BY <1>5, <1>7, <2>2 DEF Fits
  <2>3. CASE o = cmd.item /\ cmd.request.kind = "number" BY <1>5, <1>7, <2>3
  <2>4. CASE o # cmd.item /\ content' = [content EXCEPT ![cmd.item] = "number"]
    BY <1>5, <1>6, <1>7, <2>4 DEF Fits
  <2> QED BY <2>1, <2>2, <2>3, <2>4
<1>8. \/ cmd' = Idle
      \/ cmd' = [cmd EXCEPT !.stage = "hung"]
      \/ cmd.request.kind \in {"number", "string", "raw"}
           /\ cmd' = [cmd EXCEPT !.stage = "filled", !.filled = cmd.request.kind]
      \/ cmd.request.kind = "odd"
           /\ cmd' = [cmd EXCEPT !.stage = "filled", !.filled = "nothing"]
  BY DEF Set, StoreNumber, StorePointer, StoreNothing, StoreUnknownFormat, Hang, Fill
<1>9. /\ cmd'.stage # "found"
      /\ cmd'.stage = "filled" =>
            /\ cmd'.at = cmd.at /\ cmd'.item = cmd.item
            /\ "other kind" \notin blame' => cmd'.filled = TypeOf[cmd.item]
  <2>1. CASE cmd' = Idle BY <2>1 DEF Idle
  <2>2. CASE cmd' = [cmd EXCEPT !.stage = "hung"]
    <3>1. cmd'.stage = "hung" BY <1>1, <2>2 DEF InHand
    <3> QED BY <3>1
  <2>3. ASSUME NEW member,
               cmd' = [cmd EXCEPT !.stage = "filled", !.filled = member],
               \/ member = cmd.request.kind
               \/ cmd.request.kind = "odd"
        PROVE  /\ cmd'.stage # "found" /\ cmd'.at = cmd.at /\ cmd'.item = cmd.item
               /\ "other kind" \notin blame' /\ cmd.request.kind \notin {"badformat", "escaped"}
                     => cmd'.filled = TypeOf[cmd.item]
    <3>1. cmd'.stage = "filled" /\ cmd'.filled = member /\ UNCHANGED <<cmd.at, cmd.item>>
      BY <1>1, <2>3, Moved
    <3> QED BY <1>4, <1>5, <2>3, <3>1
  <2> QED BY <1>8, <2>1, <2>2, <2>3
<1>10. cmd'.stage # "found" BY <1>9
<1>11. "retyped" \notin blame' /\ cmd'.stage \in {"found", "filled"} =>
          TypeOf[items'[cmd'.at]] = TypeOf[cmd'.item]
  BY <1>1, <1>9, <1>10 DEF Fits
<1>12. CrashHasCause' BY <1>1 DEF Fits, CrashHasCause, Silence
<1>13. blame' \subseteq {"service set"} => \A c \in Addressed' : c.filled = TypeOf[items'[c.at]]
  BY <1>1, <1>3 DEF Fits
<1> QED BY <1>7, <1>9, <1>11, <1>12, <1>13 DEF Fits

LEMMA FitsGet == ASSUME IInv, Fits, Get PROVE Fits'
<1>1. /\ cmd.stage = "found" /\ cmd \in InHand /\ TypeOK
      /\ UNCHANGED <<items, content, blame>> /\ printed' = Silence
      /\ UNCHANGED queue \/ Enqueue(Unknown)
  BY InHandFound DEF IInv, Get, Found
<1>2. Unknown \notin Queued BY DEF Unknown, Queued
<1>3. \A c \in Addressed' : c \in Addressed
  BY <1>1, <1>2, EnqueueAddressed DEF Addressed
<1>4. cmd' = Idle \/ cmd' = [cmd EXCEPT !.stage = "filled", !.filled = TypeOf[cmd.item]]
  BY DEF Get, Fill
<1>5. cmd'.stage # "found" /\ (cmd'.stage = "filled" =>
         cmd'.at = cmd.at /\ cmd'.item = cmd.item /\ cmd'.filled = TypeOf[cmd.item])
  <2>1. CASE cmd' = Idle BY <2>1 DEF Idle
  <2>2. CASE cmd' = [cmd EXCEPT !.stage = "filled", !.filled = TypeOf[cmd.item]]
    <3> DEFINE type == TypeOf[cmd.item]
    <3>1. cmd \in InHand /\ cmd' = [cmd EXCEPT !.stage = "filled", !.filled = type]
      BY <1>1, <2>2
    <3> HIDE DEF type
    <3>2. cmd'.stage = "filled" /\ cmd'.filled = type /\ UNCHANGED <<cmd.at, cmd.item>>
      BY <3>1, Moved
    <3> QED BY <3>2 DEF type
  <2> QED BY <1>4, <2>1, <2>2
<1>6. ASSUME crashed' PROVE crashed \/ "other kind" \in blame
  <2>1. cmd.item \in Default /\ content[cmd.item] = "number" BY <1>6 DEF Get
  <2>2. cmd.item \in Items /\ TypeOf[cmd.item] = "string" BY <2>1, ItemsAssumption
  <2> QED BY <2>1, <2>2 DEF Fits
<1>7. CrashHasCause' BY <1>1, <1>6 DEF Fits, CrashHasCause, Silence
<1> QED BY <1>1, <1>3, <1>5, <1>7 DEF Fits

LEMMA FitsAssign == ASSUME IInv, Fits, Assign PROVE Fits'
<1> DEFINE c == [do |-> cmd.request.do, at |-> cmd.at, id |-> cmd.id, filled |-> cmd.filled,
                 name |-> NameOf[cmd.item], target |-> cmd.request.target,
                 service |-> cmd.request.service]
<1>1. /\ TypeOK /\ cmd.stage = "filled" /\ cmd' = Idle
      /\ UNCHANGED <<items, content, crashed, blame>> /\ printed' = Silence
      /\ Enqueue(c)
  BY DEF IInv, Assign
<1>2. \A d \in Addressed' : d \in Addressed \/ d = c
  BY <1>1, AssignedQueued DEF Assign
<1>3. c.filled = cmd.filled /\ c.at = cmd.at OBVIOUS
<1> HIDE DEF c
<1>4. blame \subseteq {"service set"} => c.filled = TypeOf[items[c.at]]
  BY <1>1, <1>3 DEF Fits
<1>5. CrashHasCause' BY <1>1 DEF Fits, CrashHasCause, Silence
<1> QED BY <1>1, <1>2, <1>4, <1>5 DEF Fits, Idle

LEMMA FitsAnswer == ASSUME IInv, Fits, Answer PROVE Fits'
<1>1. /\ UNCHANGED <<items, content, cmd>> /\ ~crashed /\ TypeOK
      /\ queue # << >> /\ queue' = Tail(queue) /\ blame \subseteq blame'
  BY DEF Answer, Alive, Respond, IInv
<1>2. Addressed' \subseteq Addressed BY <1>1, TailAddressed
<1>3. CrashHasCause'
  <2>1. CASE Head(queue).do = "unknown"
    BY <1>1, <2>1 DEF Answer, CrashHasCause, Silence
  <2>2. CASE Head(queue).do # "unknown"
    <3> DEFINE c == Head(queue)
               type == TypeOf[items[c.at]]
    <3>1. c \in Addressed BY <1>1, <2>2, HeadAddressed
    <3>2. Respond(c, type) BY <2>2 DEF Answer
    <3> HIDE DEF c, type
    <3>3. blame = {} => c.filled = type BY <3>1 DEF Fits, type
    <3>4. WrongArguments(c, type) => blame' # {} BY <3>2 DEF Respond
    <3>5. blame' = {} => blame = {} /\ c.filled = type /\ ~WrongArguments(c, type)
      BY <1>1, <3>3, <3>4
    <3>6. c.filled = type /\ ~WrongArguments(c, type) => ~crashed' /\ printed' = "reply"
      BY <3>2 DEF Respond
    <3> QED BY <3>5, <3>6 DEF CrashHasCause
  <2> QED BY <2>1, <2>2
<1> QED BY <1>1, <1>2, <1>3 DEF Fits
--------------------------------------------------------------------------------
(* The strings and raw data.                                               *)

\* What a command has allocated is of the kind it holds, and only a set brings raw data;
\* the ids tell the commands apart, and room was found for the one in hand.
OwnedBy(id, do, filled, service) ==
    \A h \in heap : h.id = id =>
        h.member = filled /\ h.service = service /\ (h.member = "raw" => do = "set")
Owned ==
    /\ \A h \in heap : h.id < sent.requests
    /\ \A c \in Addressed : c.id < sent.requests /\ OwnedBy(c.id, c.do, c.filled, c.service)
    /\ cmd.stage \in {"found", "filled"} =>
          /\ cmd.id < sent.requests /\ Len(queue) < Room
          /\ \A c \in Addressed : c.id # cmd.id
    /\ cmd.stage = "found" => \A h \in heap : h.id # cmd.id
    /\ cmd.stage = "filled" =>
          OwnedBy(cmd.id, cmd.request.do, cmd.filled, cmd.request.service)

LEMMA Numbers ==
    ASSUME TypeOK
    PROVE  /\ sent.requests \in Nat /\ [sent EXCEPT !.requests = @ + 1].requests = sent.requests + 1
           /\ \A h \in heap : h.id \in Nat /\ h.member \in {"string", "raw"}
           /\ \A c \in Addressed : c.id \in Nat
           /\ cmd.stage \in {"found", "filled"} => cmd.id \in Nat
<1>1. sent \in [requests : 0 .. MaxRequests, calls : 0 .. MaxCalls] BY DEF TypeOK
<1>2. heap \subseteq [id : 0 .. MaxRequests - 1, member : {"string", "raw"}, service : BOOLEAN]
  BY DEF TypeOK
<1>3. \A n \in 0 .. MaxRequests - 1 : n \in Nat BY ItemsAssumption
<1>4. ASSUME NEW h \in heap PROVE h.id \in Nat /\ h.member \in {"string", "raw"}
  <2>1. h \in [id : 0 .. MaxRequests - 1, member : {"string", "raw"}, service : BOOLEAN]
    BY <1>2
  <2> QED BY <1>3, <2>1
<1>5. ASSUME NEW c \in Addressed PROVE c.id \in Nat
  <2>1. c \in Queued BY AddressedQueued
  <2> QED BY <1>3, <2>1 DEF Queued
<1>6. cmd.stage \in {"found", "filled"} => cmd.id \in Nat BY <1>3, InHandFound DEF InHand
<1> QED BY <1>1, <1>4, <1>5, <1>6

LEMMA InitOwned == Init => Owned /\ NothingKept
<1> SUFFICES ASSUME Init PROVE Owned /\ NothingKept OBVIOUS
<1>1. queue = << >> BY DEF Init
<1>2. Addressed = {} BY <1>1, EmptySeq, LenProperties DEF Addressed, ToSet
<1> QED BY <1>2 DEF Init, Owned, NothingKept, Idle

\* Steps that neither allocate nor free nor move a command on.
LEMMA OwnedStill ==
    ASSUME IInv, Owned, NothingKept, UNCHANGED <<cmd, heap>>, Addressed' = Addressed,
           queue' = queue \/ cmd = Idle, sent'.requests \in {sent.requests, sent.requests + 1},
           blame \subseteq blame'
    PROVE  Owned' /\ NothingKept'
<1>1. /\ sent.requests \in Nat /\ \A h \in heap : h.id \in Nat
      /\ \A c \in Addressed : c.id \in Nat
      /\ cmd.stage \in {"found", "filled"} => cmd.id \in Nat
  BY Numbers DEF IInv
<1>2. cmd.stage \in {"found", "filled"} => queue' = queue BY DEF Idle
<1>3. Owned' BY <1>1, <1>2 DEF Owned, OwnedBy
<1>4. NothingKept' BY DEF NothingKept
<1> QED BY <1>3, <1>4

LEMMA OwnedCalls ==
    ASSUME IInv, Owned, NothingKept,
           \/ \E array \in Arrays : RegisterSensor(array)
           \/ \E o \in Items : Update(o)
           \/ AddNext \/ PublishItems
    PROVE  Owned' /\ NothingKept'
<1>1. /\ UNCHANGED <<cmd, heap, queue>> /\ blame \subseteq blame'
      /\ sent' = sent \/ BeginCall
  BY DEF RegisterSensor, Update, AddNext, PublishItems
<1>2. sent'.requests = sent.requests BY <1>1 DEF BeginCall, IInv, TypeOK
<1>3. Addressed' = Addressed BY <1>1 DEF Addressed
<1> QED BY <1>1, <1>2, <1>3, OwnedStill

LEMMA OwnedFind ==
    ASSUME IInv, Owned, NothingKept, NEW r \in Requests, Find(r)
    PROVE  Owned' /\ NothingKept'
<1>1. /\ cmd = Idle /\ UNCHANGED <<queue, heap, blame>>
      /\ sent' = [sent EXCEPT !.requests = @ + 1]
  BY DEF Find
<1>2. Addressed' = Addressed BY <1>1 DEF Addressed
<1>3. sent.requests \in Nat /\ sent'.requests = sent.requests + 1 BY <1>1, Numbers DEF IInv
<1>4. CASE cmd' = Idle
  BY <1>1, <1>2, <1>3, <1>4, OwnedStill
<1>5. CASE cmd' # Idle
  <2>1. HasQueueRoom /\ cmd'.stage = "found" /\ cmd'.id = sent.requests
    BY <1>5 DEF Find
  <2>2. (\A h \in heap : h.id \in Nat) /\ \A c \in Addressed : c.id \in Nat
    BY Numbers DEF IInv
  <2>3. Owned' BY <1>1, <1>2, <1>3, <2>1, <2>2 DEF Owned, OwnedBy, HasQueueRoom
  <2>4. NothingKept' BY <1>1, <1>2, <2>1 DEF NothingKept, Idle
  <2> QED BY <2>3, <2>4
<1> QED BY <1>4, <1>5

LEMMA OwnedNotFound ==
    ASSUME IInv, Owned, NothingKept, NEW r \in Requests, NotFound(r)
    PROVE  Owned' /\ NothingKept'
<1>1. /\ cmd = Idle /\ UNCHANGED <<cmd, heap, blame>> /\ Enqueue(Unknown)
      /\ sent' = [sent EXCEPT !.requests = @ + 1]
  BY DEF NotFound
<1>2. Addressed' = Addressed BY <1>1, UnknownQueued DEF IInv
<1>3. sent'.requests = sent.requests + 1 BY <1>1, Numbers DEF IInv
<1> QED BY <1>1, <1>2, <1>3, OwnedStill

\* A command in hand comes to nothing: a reply that it is unknown, or a hang.
LEMMA OwnedGiveUp ==
    ASSUME IInv, Owned, NothingKept, cmd.stage = "found", cmd'.stage \notin {"found", "filled"},
           UNCHANGED <<heap, sent>>, Addressed' = Addressed, blame \subseteq blame'
    PROVE  Owned' /\ NothingKept'
BY DEF Owned, OwnedBy, NothingKept

\* A command is filled, and has allocated what it holds, or nothing.
LEMMA OwnedFill ==
    ASSUME IInv, Owned, NothingKept, cmd.stage = "found", NEW member,
           Fill(member), UNCHANGED <<queue, sent>>, blame \subseteq blame',
           \/ heap' = heap
           \/ heap' = heap \cup {Allocated(cmd, member)}
                 /\ (member = "raw" => cmd.request.do = "set")
    PROVE  Owned' /\ NothingKept'
<1>1. cmd \in InHand BY InHandFound DEF IInv
<1>2. /\ cmd'.stage = "filled" /\ cmd'.filled = member
      /\ UNCHANGED <<cmd.id, cmd.at, cmd.item, cmd.request>>
  BY <1>1, Moved DEF Fill
<1>3. Addressed' = Addressed BY DEF Addressed
<1>4. \A h \in heap' : h \in heap \/ (/\ h.id = cmd.id /\ h.member = member
                                     /\ h.service = cmd.request.service
                                     /\ (member = "raw" => cmd.request.do = "set"))
  BY DEF Allocated
<1>5. Owned' BY <1>2, <1>3, <1>4 DEF Owned, OwnedBy
<1>6. NothingKept' BY <1>2, <1>3, <1>4 DEF NothingKept
<1> QED BY <1>5, <1>6

LEMMA OwnedSet == ASSUME IInv, Owned, NothingKept, Set PROVE Owned' /\ NothingKept'
<1>1. cmd.stage = "found" /\ cmd.request.do = "set" /\ UNCHANGED sent /\ blame \subseteq blame'
  BY DEF Set, StoreNumber, StorePointer, StoreNothing, StoreUnknownFormat, Hang, Found
<1>2. CASE StoreNumber BY <1>1, <1>2, OwnedFill DEF StoreNumber
<1>3. CASE StorePointer BY <1>1, <1>3, OwnedFill DEF StorePointer
<1>4. CASE StoreNothing BY <1>1, <1>4, OwnedFill DEF StoreNothing
<1>5. CASE StoreUnknownFormat
  <2>1. Addressed' = Addressed BY <1>5, UnknownQueued DEF StoreUnknownFormat, IInv
  <2> QED BY <1>1, <1>5, <2>1, OwnedGiveUp DEF StoreUnknownFormat, Idle
<1>6. CASE Hang
  <2>1. cmd'.stage = "hung" BY <1>1, <1>6, InHandFound DEF Hang, InHand, IInv
  <2>2. Addressed' = Addressed BY <1>6 DEF Hang, Addressed
  <2> QED BY <1>1, <1>6, <2>1, <2>2, OwnedGiveUp DEF Hang
<1> QED BY <1>2, <1>3, <1>4, <1>5, <1>6 DEF Set

LEMMA OwnedGet == ASSUME IInv, Owned, NothingKept, Get PROVE Owned' /\ NothingKept'
<1>1. cmd.stage = "found" /\ UNCHANGED <<sent, blame>>
  BY DEF Get, Found
<1>2. CASE TypeOf[cmd.item] = "number" \/ cmd.item \in Readable
  <2> DEFINE type == TypeOf[cmd.item]
  <2>1. Fill(type) /\ UNCHANGED queue BY <1>2 DEF Get
  <2>2. heap' = heap \/ (heap' = heap \cup {Allocated(cmd, type)} /\ type # "raw")
    BY DEF Get
  <2> HIDE DEF type
  <2> QED BY <1>1, <2>1, <2>2, OwnedFill
<1>3. CASE ~(TypeOf[cmd.item] = "number" \/ cmd.item \in Readable)
  <2>1. cmd' = Idle /\ Enqueue(Unknown) /\ heap' = heap BY <1>3 DEF Get
  <2>2. Addressed' = Addressed BY <2>1, UnknownQueued DEF IInv
  <2>3. cmd'.stage \notin {"found", "filled"} BY <2>1 DEF Idle
  <2> QED BY <1>1, <2>1, <2>2, <2>3, OwnedGiveUp
<1> QED BY <1>2, <1>3

LEMMA OwnedAssign == ASSUME IInv, Owned, NothingKept, Assign PROVE Owned' /\ NothingKept'
<1> DEFINE c == [do |-> cmd.request.do, at |-> cmd.at, id |-> cmd.id, filled |-> cmd.filled,
                 name |-> NameOf[cmd.item], target |-> cmd.request.target,
                 service |-> cmd.request.service]
<1>1. /\ TypeOK /\ cmd.stage = "filled" /\ cmd' = Idle /\ Enqueue(c)
      /\ UNCHANGED <<heap, sent, blame>>
  BY DEF IInv, Assign
<1>2. cmd.request.do # "unknown" /\ c \in Queued
  BY <1>1, AssignedQueued DEF Queued
<1>3. \A d \in Addressed' : d \in Addressed \/ d = c BY <1>1, AssignedQueued
<1>4. c.do = cmd.request.do /\ c.id = cmd.id /\ c.filled = cmd.filled
      /\ c.service = cmd.request.service
  OBVIOUS
<1> HIDE DEF c
<1>5. Addressed \subseteq Addressed' /\ c \in Addressed'
  BY <1>1, <1>2, <1>4, EnqueueKeeps DEF Owned
<1>6. Owned' BY <1>1, <1>3, <1>4 DEF Owned, OwnedBy, Idle
<1>7. NothingKept' BY <1>1, <1>4, <1>5 DEF NothingKept
<1> QED BY <1>6, <1>7

\* The reply frees what the command holds, or it is raw data of a set from elsewhere.
LEMMA OwnedAnswer == ASSUME IInv, Fits, Owned, NothingKept, Answer PROVE Owned' /\ NothingKept'
<1>1. /\ UNCHANGED <<items, cmd, sent>> /\ TypeOK /\ queue # << >> /\ queue' = Tail(queue)
      /\ blame \subseteq blame' /\ heap' \subseteq heap
  BY DEF Answer, Respond, IInv
<1>2. Addressed' \subseteq Addressed BY <1>1, TailAddressed
<1>3. Len(queue') < Len(queue)
  <2>1. queue \in Seq(Queued \cup {Unknown}) BY <1>1 DEF TypeOK
  <2>2. Len(queue') = Len(queue) - 1 /\ Len(queue) \in Nat
    BY <1>1, <2>1, HeadTailProperties, LenProperties
  <2> QED BY <2>2
<1>4. Owned'
  <2>1. Len(queue) \in Nat /\ Len(queue') \in Nat /\ Room \in Nat
    BY <1>1, TailAddressed, LenProperties, ItemsAssumption DEF TypeOK
  <2> QED BY <1>1, <1>2, <1>3, <2>1 DEF Owned, OwnedBy
<1>5. ASSUME blame' \subseteq {"service set"}, NEW h \in heap',
             ~(cmd.stage = "filled" /\ cmd.id = h.id), ~(h.member = "raw" /\ ~h.service)
      PROVE  \E c \in Addressed' : c.id = h.id
  <2>1. blame \subseteq {"service set"} /\ h \in heap BY <1>1, <1>5
  <2>2. PICK c \in Addressed : c.id = h.id BY <1>5, <2>1 DEF NothingKept
  <2>3. c \in Addressed' \/ c = Head(queue) BY <1>1, AnsweredHead
  <2>4. ASSUME c = Head(queue) PROVE FALSE
    <3> DEFINE type == TypeOf[items[c.at]]
    <3>1. c.do # "unknown" BY DEF Addressed
    <3>2. Respond(c, type) BY <2>4, <3>1 DEF Answer
    <3>3. c.filled = type BY <2>1 DEF Fits
    <3> HIDE DEF type
    <3>4. h.member = type /\ h.service = c.service /\ (h.member = "raw" => c.do = "set")
      BY <2>1, <2>2, <3>3 DEF Owned, OwnedBy
    <3>5. h.member \in {"string", "raw"} BY <1>1, <2>1, Numbers
    <3>6. Frees(c, type) BY <1>5, <3>4, <3>5 DEF Frees
    <3>7. heap' = {g \in heap : g.id # c.id} BY <3>2, <3>3, <3>6 DEF Respond
    <3> QED BY <1>5, <2>2, <3>7
  <2> QED BY <2>2, <2>3, <2>4
<1>6. NothingKept' BY <1>1, <1>5 DEF NothingKept
<1> QED BY <1>4, <1>6
--------------------------------------------------------------------------------
LEMMA NextFitsOwned ==
    IInv /\ Fits /\ Owned /\ NothingKept /\ [Next]_vars => Fits' /\ Owned' /\ NothingKept'
<1> SUFFICES ASSUME IInv, Fits, Owned, NothingKept, [Next]_vars
             PROVE  Fits' /\ Owned' /\ NothingKept'
  OBVIOUS
<1>1. CASE UNCHANGED vars
  BY <1>1 DEF vars, Fits, CrashHasCause, Owned, OwnedBy, NothingKept, Addressed
<1>2. CASE \E array \in Arrays : RegisterSensor(array) BY <1>2, FitsCalls, OwnedCalls
<1>3. CASE \E o \in Items : Update(o) BY <1>3, FitsCalls, OwnedCalls
<1>4. CASE PublishItems BY <1>4, FitsCalls, OwnedCalls
<1>5. CASE AddNext BY <1>5, FitsAdd, OwnedCalls
<1>6. CASE \E r \in Requests : Find(r) BY <1>6, FitsFind, OwnedFind
<1>7. CASE \E r \in Requests : NotFound(r) BY <1>7, FitsFind, OwnedNotFound
<1>8. CASE Set BY <1>8, FitsSet, OwnedSet
<1>9. CASE Get BY <1>9, FitsGet, OwnedGet
<1>10. CASE Assign BY <1>10, FitsAssign, OwnedAssign
<1>11. CASE Answer BY <1>11, FitsAnswer, OwnedAnswer
<1> QED BY <1>1, <1>2, <1>3, <1>4, <1>5, <1>6, <1>7, <1>8, <1>9, <1>10, <1>11
        DEF Next, MqttThread

\* Every reachable state satisfies the inductive invariant.
THEOREM Invariant == Spec => []IInv
BY InitIInv, NextIInv, PTL DEF Spec

\* The items stay within items[] and every command under way is addressed to one of its
\* slots, for any arrays and any number of calls and requests.
THEOREM TypeCorrect == Spec => []TypeOK
<1>1. IInv => TypeOK BY DEF IInv
<1> QED BY <1>1, Invariant, PTL

\* A reply is built from an item of the name the command was for, however often the
\* sensor was registered again in between.
THEOREM SameName == Spec => []SlotKeepsName
<1>1. IInv => SlotKeepsName BY DEF IInv, Reaches, SlotKeepsName
<1> QED BY <1>1, Invariant, PTL

\* A command reaches another item than the one it names only when none of that name is
\* registered before it.
THEOREM FirstComeFirst == Spec => []ReachesItsTarget
<1>1. IInv => ReachesItsTarget BY DEF IInv, Reaches, ReachesItsTarget
<1> QED BY <1>1, Invariant, PTL

\* What the code does not provide for is at the bottom of every wild pointer and of every
\* garbage that is printed; without it neither happens, whatever is registered again
\* meanwhile, for any items, arrays and number of commands.
THEOREM NoWildPointer == Spec => []CrashHasCause
<1>1. Fits => CrashHasCause BY DEF Fits
<1> QED BY <1>1, InitIInv, InitFits, InitOwned, NextIInv, NextFitsOwned, PTL DEF Spec

\* With values of the items' kinds every reply frees what its command has brought, but for
\* the raw data of sets that did not come through the Service handler.
THEOREM NothingLeaks == Spec => []NothingKept
BY InitIInv, InitFits, InitOwned, NextIInv, NextFitsOwned, PTL DEF Spec
================================================================================
