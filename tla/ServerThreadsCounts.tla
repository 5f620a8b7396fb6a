------------------------ MODULE ServerThreadsCounts -------------------------
(***************************************************************************)
(* Proofs about the room table in ServerThreads, where handlers come one   *)
(* at a time: in select mode, where the main thread runs them all, and in  *)
(* thread mode, where each runs with client_mutex held.  The counts of the *)
(* rooms, their names and the sizes of the lists are then right for every  *)
(* number of clients and rooms, although handlers are cut into steps and   *)
(* some lock nothing themselves.  (In mixed mode none of this is true: see *)
(* the run count_race.)                                                    *)
(***************************************************************************)
EXTENDS ServerThreadsProofs

\* At most one agent is ever inside a handler: there are no client threads,
\* or there is one for every client and the main thread times out nobody.
OneAtATime ==
  Threaded = {} \/ (Threaded = Clients /\ "timeout" \notin MainRequests)

\* The main thread handles nothing as long as there are client threads.
MainIdle == Threaded # {} => pc[Main] = "idle"

\* A client thread works for its own client.
ThreadsServe ==
  \A a \in Threaded : pc[a] \notin {"idle", "locked"} => job[a].client = a

\* Agent a has counted out a client that keeps its seat in room r until it is
\* dropped, or has seated one in it that it has not counted yet.
AheadBy(a, r) ==
  /\ job[a].room = r
  /\ \/ pc[a] = "join_count"
     \/ pc[a] = "depart_close" /\ ~Leaving(a)
     \/ pc[a] = "drop" /\ job[a].kind = "disconnect"
Ahead(r) == \E a \in Agents : AheadBy(a, r)

RoomsCounted ==
  \A r \in RoomIds :
    rooms[r].is_active =>
      rooms[r].client_count + (IF Ahead(r) THEN 1 ELSE 0)
        = Cardinality(Members(r)) + lost[r]

\* In a closed room there is nobody but a client that is just being dropped.
ClosedRoomsEmpty ==
  \A r \in RoomIds : \A c \in Members(r) :
    \/ rooms[r].is_active
    \/ \E a \in Agents : AheadBy(a, r) /\ pc[a] = "drop" /\ job[a].client = c

\* What a handler knows of the tables at each of its steps, because nobody
\* has changed them since it looked.
Sits(a, r) == job[a].client \in Members(r)
JoinBegun(a) ==
  pc[a] \in {"join_find", "join_seat"} \/ (pc[a] = "room_lock" /\ job[a].kind = "join")
LeaveBegun(a) ==
  pc[a] = "depart_find" \/ (pc[a] = "room_lock" /\ job[a].kind = "leave")
SeatKnown(a) ==
  \/ pc[a] \in {"join_count", "depart_read", "depart_write"}
  \/ pc[a] = "depart_close" /\ ~Leaving(a)
  \/ pc[a] = "drop" /\ job[a].kind = "disconnect"

CreateFits(a) ==
  /\ pc[a] \in {"create_name", "create_fill", "create_open"} => ~rooms[job[a].room].is_active
  /\ pc[a] \in {"create_fill", "create_open"} => RoomsNamed(job[a].name) = {}
  /\ pc[a] = "create_open" => /\ rooms[job[a].room].room_name = job[a].name
                              /\ rooms[job[a].room].client_count = 0
                              /\ lost[job[a].room] = 0
SeatFits(a) ==
  /\ JoinBegun(a) => /\ clients[job[a].client].is_active
                     /\ clients[job[a].client].state = "CONNECTED"
  /\ LeaveBegun(a) => /\ clients[job[a].client].is_active
                      /\ clients[job[a].client].state = "IN_ROOM"
                      /\ job[a].room = NoRoom
  /\ SeatKnown(a) => \A r \in RoomIds : Sits(a, r) <=> r = job[a].room
CountFits(a) ==
  /\ pc[a] \in {"join_seat", "join_count", "depart_read", "depart_write", "depart_close"} =>
       rooms[job[a].room].is_active
  /\ pc[a] \in {"join_count", "depart_write", "depart_close"} =>
       job[a].count = rooms[job[a].room].client_count
  /\ pc[a] = "list_fill" => Cardinality(Listed(a)) = job[a].count
KindFits(a) ==
  /\ pc[a] \in DepartSteps => job[a].kind \in {"leave", "disconnect"}
  /\ pc[a] \in {"client_lock", "private_send", "chat_send", "list_size", "list_fill"} =>
       job[a].kind # "disconnect"
Fits(a) == CreateFits(a) /\ SeatFits(a) /\ CountFits(a) /\ KindFits(a)

Tables == RoomsCounted /\ ClosedRoomsEmpty /\ UniqueRoomNames
CInv == MainIdle /\ ThreadsServe /\ Tables /\ \A a \in Agents : Fits(a)

USE DEF Agents

-----------------------------------------------------------------------------
(* One agent at a time.                                                    *)

\* No two agents are inside a handler.
LEMMA OneHandler ==
  ASSUME OneAtATime, IInv, MainIdle, NEW a \in Agents, NEW b \in Agents,
         pc[a] # "idle", pc[b] # "idle"
  PROVE  a = b
<1>1. CASE Threaded = {}
  BY <1>1
<1>2. CASE Threaded # {}
  <2>1. a \in Threaded /\ b \in Threaded
    BY <1>2 DEF MainIdle
  <2>2. client_mutex = a /\ client_mutex = b
    BY <2>1 DEF IInv, LocksMatchSteps, HoldsClientMutex
  <2> QED
    BY <2>2
<1> QED
  BY <1>1, <1>2

\* The main thread receives no request while there are client threads.
LEMMA MainUnserved ==
  ASSUME OneAtATime, Threaded # {} PROVE Serves(Main) = {} /\ "timeout" \notin MainRequests
BY DEF OneAtATime, Serves

\* While agent a makes a step all the others are idle.
Only(a) ==
  \A b \in Agents : b # a => pc[b] = "idle" /\ pc'[b] = "idle" /\ job'[b] = job[b]

\* An agent that makes a step is the only one inside a handler.
LEMMA StepOnly ==
  ASSUME OneAtATime, IInv, MainIdle, NEW a \in Agents, AgentStep(a)
  PROVE  Only(a)
<1>1. Alone(a)
  BY StepAlone
<1>2. CASE pc[a] # "idle"
  BY <1>1, <1>2, OneHandler DEF Alone, Only
<1>3. CASE LockClients(a)
  <2>1. \A b \in Threaded : pc[b] = "idle"
    BY <1>3, ThreadsAssumption DEF LockClients, IInv, LocksMatchSteps, HoldsClientMutex
  <2>2. pc[Main] = "idle"
    BY <1>3 DEF LockClients, MainIdle
  <2> QED
    BY <1>1, <2>1, <2>2 DEF Alone, Only
<1>4. ASSUME NEW c \in Clients, NEW k \in Kinds, Received(a, c, k) PROVE Only(a)
  <2>1. CASE a \in Threaded
    BY <1>2, <1>4, <2>1 DEF Received
  <2>2. CASE a = Main
    <3>1. Threaded = {}
      BY <1>4, <2>2, MainUnserved DEF Received
    <3> QED
      BY <2>2, <3>1 DEF Only
  <2> QED
    BY <2>1, <2>2
<1>5. CASE pc[a] = "idle" /\ ~LockClients(a) /\ ~\E c \in Clients : \E k \in Kinds : Received(a, c, k)
  BY <1>5 DEF AgentStep, CreateFind, CreateName, CreateFill, CreateOpen, RoomLock, JoinFind,
     JoinSeat, JoinCount, ChatSend, DepartFind, DepartRead, DepartWrite, DepartClose,
     ClientLock, PrivateSend, ListSize, ListFill, Drop, Finish
<1> QED
  BY <1>2, <1>3, <1>4, <1>5

\* Whether a room's count is ahead is then up to that agent.
LEMMA AheadAlone ==
  ASSUME NEW a \in Agents, Only(a), NEW r
  PROVE  (Ahead(r) <=> AheadBy(a, r)) /\ (Ahead(r)' <=> AheadBy(a, r)')
BY DEF Only, Ahead, AheadBy

\* Only the agent that makes a step has to be looked at.
LEMMA OthersFit ==
  ASSUME NEW a \in Agents, Only(a), Fits(a)' PROVE \A b \in Agents : Fits(b)'
<1> SUFFICES ASSUME NEW b \in Agents, b # a PROVE Fits(b)'
  OBVIOUS
<1>1. pc'[b] = "idle"
  BY DEF Only
<1> QED
  BY <1>1 DEF Fits, CreateFits, SeatFits, CountFits, KindFits, JoinBegun, LeaveBegun,
              SeatKnown, DepartSteps

\* Remember sets a room and a number, and nothing else.
LEMMA RememberKeeps ==
  ASSUME IInv, NEW a \in Agents, NEW r, NEW n, Remember(a, r, n)
  PROVE  /\ job'[a].room = r /\ job'[a].count = n
         /\ job'[a].client = job[a].client /\ job'[a].kind = job[a].kind
         /\ job'[a].name = job[a].name /\ job'[a].limit = job[a].limit
<1>1. job \in [Agents -> Job] /\ job[a] \in Job
  BY Types DEF IInv
<1>2. job'[a] = [job[a] EXCEPT !.room = r, !.count = n]
  BY <1>1 DEF Remember
<1> QED
  BY <1>1, <1>2 DEF Job

\* In the course of a handler the request stays what it is.
LEMMA RequestKept ==
  ASSUME IInv, NEW a \in Agents, AgentStep(a), pc[a] \notin {"idle", "locked", "done"}
  PROVE  /\ job'[a].client = job[a].client /\ job'[a].kind = job[a].kind
         /\ job'[a].name = job[a].name /\ job'[a].limit = job[a].limit
<1>1. \/ job' = job
      \/ \E r, n : Remember(a, r, n)
  BY DEF AgentStep, LockClients, Received, CreateFind, CreateName, CreateFill, CreateOpen,
     RoomLock, JoinFind, JoinSeat, JoinCount, ChatSend, DepartFind, DepartRead, DepartWrite,
     DepartClose, ClientLock, PrivateSend, ListSize, ListFill, Drop, Finish
<1> QED
  BY <1>1, RememberKeeps

\* The main thread stays idle and the threads serve their clients.
LEMMA AgentsStep ==
  ASSUME OneAtATime, IInv, MainIdle, ThreadsServe, NEW a \in Agents, AgentStep(a)
  PROVE  MainIdle' /\ ThreadsServe'
<1>1. Only(a)
  BY StepOnly
<1>2. MainIdle'
  <2>1. CASE a # Main
    BY <1>1, <2>1 DEF Only, MainIdle
  <2>2. CASE a = Main /\ Threaded # {}
    <3>1. pc[Main] = "idle"
      BY <2>2 DEF MainIdle
    <3>2. PICK c \in Clients, k \in Kinds : Received(Main, c, k)
      BY <2>2, <3>1, ThreadsAssumption
      DEF AgentStep, LockClients, CreateFind, CreateName, CreateFill, CreateOpen, RoomLock,
          JoinFind, JoinSeat, JoinCount, ChatSend, DepartFind, DepartRead, DepartWrite,
          DepartClose, ClientLock, PrivateSend, ListSize, ListFill, Drop, Finish
    <3> QED
      BY <2>2, <3>2, MainUnserved DEF Received
  <2> QED
    BY <2>1, <2>2 DEF MainIdle
<1>3. ASSUME a \in Threaded, pc'[a] \notin {"idle", "locked"} PROVE job'[a].client = a
  <2>0. pc \in [Agents -> Steps] /\ job \in [Agents -> Job] /\ TypeOK /\ a # Main
    BY <1>3, Types, ThreadsAssumption DEF IInv
  <2>1. CASE pc[a] \notin {"idle", "locked", "done"}
    BY <1>3, <2>1, RequestKept DEF ThreadsServe
  <2>2. ASSUME NEW c \in Clients, NEW k \in Kinds, Received(a, c, k)
        PROVE  job'[a].client = a
    <3>1. c = a
      BY <2>0, <2>2 DEF Received, Serves
    <3> QED
      BY <2>0, <2>2, <3>1, ReceivedJob
  <2>3. CASE pc[a] \in {"idle", "locked", "done"} /\ ~\E c \in Clients : \E k \in Kinds : Received(a, c, k)
    BY <1>3, <2>0, <2>3
    DEF AgentStep, Goto, LockClients, CreateFind, CreateName, CreateFill, CreateOpen, RoomLock,
        JoinFind, JoinSeat, JoinCount, ChatSend, DepartFind, DepartRead, DepartWrite,
        DepartClose, ClientLock, PrivateSend, ListSize, ListFill, Drop, Finish
  <2> QED
    BY <2>1, <2>2, <2>3
<1>4. ThreadsServe'
  BY <1>1, <1>3 DEF ThreadsServe, Only
<1> QED
  BY <1>2, <1>4

-----------------------------------------------------------------------------
(* Members are counted.                                                    *)

\* The members of a room can be counted.
LEMMA MembersFinite ==
  ASSUME NEW r
  PROVE  /\ IsFiniteSet(Members(r)) /\ Cardinality(Members(r)) \in Nat
         /\ IsFiniteSet(Members(r)') /\ Cardinality(Members(r)') \in Nat
<1>1. Members(r) \subseteq Clients /\ Members(r)' \subseteq Clients
  BY DEF Members
<1> QED
  BY <1>1, FS_Subset, FS_CardinalityType, ThreadsAssumption

\* A client that is in a room is in one only.
LEMMA OneSeat ==
  ASSUME NEW r, NEW s, NEW c, c \in Members(r), c \in Members(s) PROVE r = s
BY DEF Members

\* Whoever is not seated any more is taken from the members of its room.
LEMMA SeatGivenUp ==
  ASSUME IInv, NEW c \in Clients, \A d \in Clients : d # c => clients'[d] = clients[d],
         ~(clients'[c].is_active /\ clients'[c].state = "IN_ROOM"), NEW r
  PROVE  /\ Members(r)' = Members(r) \ {c}
         /\ Cardinality(Members(r)') =
              IF c \in Members(r) THEN Cardinality(Members(r)) - 1 ELSE Cardinality(Members(r))
<1>1. Members(r)' = Members(r) \ {c}
  BY DEF Members
<1> QED
  BY <1>1, MembersFinite, FS_RemoveElement

\* Whoever is seated is one member more.
LEMMA SeatTaken ==
  ASSUME IInv, NEW c \in Clients, NEW s, \A d \in Clients : d # c => clients'[d] = clients[d],
         clients[c].state # "IN_ROOM", clients'[c].is_active, clients'[c].state = "IN_ROOM",
         clients'[c].current_room_id = s, NEW r
  PROVE  /\ Members(r)' = IF r = s THEN Members(r) \cup {c} ELSE Members(r)
         /\ Cardinality(Members(r)') =
              IF r = s THEN Cardinality(Members(r)) + 1 ELSE Cardinality(Members(r))
<1>1. /\ Members(r)' = IF r = s THEN Members(r) \cup {c} ELSE Members(r)
      /\ c \notin Members(r)
  BY DEF Members
<1>2. Cardinality(Members(r) \cup {c}) = Cardinality(Members(r)) + 1
  BY <1>1, MembersFinite, FS_AddElement
<1> QED
  BY <1>1, <1>2

-----------------------------------------------------------------------------
(* Steps that leave the tables as they are.                                *)

\* The tables stay right if neither they nor the need to correct a count
\* change, and if the step is not the one that drops a client.
LEMMA QuietStep ==
  ASSUME IInv, Tables, NEW a \in Agents, Only(a), UNCHANGED <<clients, rooms, lost>>,
         pc[a] # "drop",
         \A r \in RoomIds : rooms[r].is_active => (AheadBy(a, r)' <=> AheadBy(a, r))
  PROVE  Tables'
<1>1. \A r : Members(r)' = Members(r)
  BY DEF Members
<1>2. RoomsCounted'
  BY <1>1, AheadAlone DEF Tables, RoomsCounted
<1>3. ClosedRoomsEmpty'
  <2>1. \A r : ~\E b \in Agents : AheadBy(b, r) /\ pc[b] = "drop"
    BY DEF Only
  <2> QED
    BY <1>1, <2>1 DEF Tables, ClosedRoomsEmpty
<1>4. UniqueRoomNames'
  BY DEF Tables, UniqueRoomNames, ActiveRooms
<1> QED
  BY <1>2, <1>3, <1>4 DEF Tables

\* The tables under an unchanged state.
LEMMA SameTables ==
  ASSUME UNCHANGED <<clients, rooms, lost>>
  PROVE  /\ \A r : Members(r)' = Members(r)
         /\ FreeRooms' = FreeRooms /\ ActiveRooms' = ActiveRooms
         /\ \A n : RoomsNamed(n)' = RoomsNamed(n)
BY DEF Members, FreeRooms, ActiveRooms, RoomsNamed

\* What an agent's own steps need to know.
LEMMA Own ==
  ASSUME IInv, CInv, NEW a \in Agents
  PROVE  /\ pc \in [Agents -> Steps] /\ job \in [Agents -> Job] /\ TypeOK
         /\ clients \in [Clients -> Client] /\ rooms \in [RoomIds -> Room]
         /\ lost \in [RoomIds -> Nat]
         /\ JobMatchesStep(a) /\ Tables
         /\ CreateFits(a) /\ SeatFits(a) /\ CountFits(a) /\ KindFits(a)
BY Types DEF IInv, CInv, JobsMatchSteps, Fits

\* Getting a request.
LEMMA ReceiveFits ==
  ASSUME IInv, CInv, NEW a \in Agents, Only(a), NEW c \in Clients, NEW k \in Kinds,
         Received(a, c, k)
  PROVE  Tables' /\ Fits(a)'
<1>0. pc \in [Agents -> Steps] /\ job \in [Agents -> Job] /\ TypeOK /\ Tables
  BY Own
<1>1. /\ pc'[a] = FirstStep(c, k)
      /\ pc[a] \in {"idle", "locked"} /\ UNCHANGED <<clients, rooms, lost>>
      /\ clients[c].is_active \/ k = "lost"
  BY <1>0 DEF Received
<1>2. job'[a].client = c /\ job'[a].kind = k /\ job'[a].room = NoRoom
  BY <1>0, ReceivedJob DEF Received, NewJob
<1>3. /\ pc'[a] \in {"create_find", "room_lock", "client_lock", "list_size",
                     "depart_find", "drop", "done"}
      /\ pc'[a] = "room_lock" /\ k = "join" => clients[c].state = "CONNECTED" /\ k # "lost"
      /\ pc'[a] = "room_lock" /\ k = "leave" => clients[c].state = "IN_ROOM" /\ k # "lost"
      /\ pc'[a] = "depart_find" => k = "disconnect" /\ clients[c].state = "IN_ROOM"
      /\ pc'[a] = "client_lock" => k = "private"
      /\ pc'[a] = "list_size" => k \in {"room_list", "user_list"}
      /\ pc'[a] = "drop" /\ k = "disconnect" =>
           ~(clients[c].state = "IN_ROOM" /\ clients[c].current_room_id >= 0)
  BY <1>1, FirstStepIn DEF FirstStep
<1>4. \A r \in RoomIds : ~AheadBy(a, r) /\ ~AheadBy(a, r)'
  <2>1. \A r \in RoomIds : r # NoRoom
    BY RoomsAssumption DEF RoomIds, NoRoom
  <2> QED
    BY <1>1, <1>2, <2>1 DEF AheadBy
<1>5. Tables'
  BY <1>0, <1>1, <1>4, QuietStep
<1>6. SeatFits(a)'
  <2>1. pc'[a] = "drop" /\ k = "disconnect" => \A r \in RoomIds : c \notin Members(r)' /\ r # NoRoom
    BY <1>1, <1>3, RoomsAssumption DEF Members, RoomIds, NoRoom
  <2> QED
    BY <1>1, <1>2, <1>3, <2>1 DEF SeatFits, JoinBegun, LeaveBegun, SeatKnown, Sits
<1>7. CreateFits(a)' /\ CountFits(a)' /\ KindFits(a)'
  BY <1>2, <1>3 DEF CreateFits, CountFits, KindFits, DepartSteps
<1> QED
  BY <1>5, <1>6, <1>7 DEF Fits

\* The steps that only take or give back a mutex, or only look.
LEMMA LookingFits ==
  ASSUME IInv, CInv, NEW a \in Agents, Only(a),
         \/ LockClients(a) \/ Finish(a) \/ CreateName(a) \/ RoomLock(a) \/ ChatSend(a)
         \/ ClientLock(a) \/ PrivateSend(a) \/ ListFill(a)
  PROVE  Tables' /\ Fits(a)'
<1>0. /\ pc \in [Agents -> Steps] /\ job \in [Agents -> Job] /\ Tables
      /\ JobMatchesStep(a) /\ CreateFits(a) /\ SeatFits(a) /\ CountFits(a) /\ KindFits(a)
  BY Own
<1>1. UNCHANGED <<clients, rooms, lost>> /\ pc[a] # "drop"
  BY DEF LockClients, Finish, CreateName, RoomLock, ChatSend, ClientLock, PrivateSend, ListFill
<1> USE DEF Goto
<1>2. CASE CreateName(a)
  <2>1. /\ job' = job /\ pc[a] = "create_name"
        /\ \/ pc'[a] = "create_fill" /\ RoomsNamed(job[a].name) = {}
           \/ pc'[a] = "done"
    BY <1>0, <1>2 DEF CreateName
  <2>2. Tables'
    BY <1>0, <1>1, <2>1, QuietStep DEF AheadBy
  <2>3. CreateFits(a)'
    BY <1>0, <1>1, <2>1, SameTables DEF CreateFits
  <2>4. SeatFits(a)' /\ CountFits(a)' /\ KindFits(a)'
    BY <2>1 DEF SeatFits, CountFits, KindFits, JoinBegun, LeaveBegun, SeatKnown, DepartSteps
  <2> QED
    BY <2>2, <2>3, <2>4 DEF Fits
<1>3. CASE RoomLock(a)
  <2>1. /\ job' = job /\ pc[a] = "room_lock"
        /\ \/ job[a].kind = "join" /\ pc'[a] = "join_find"
           \/ job[a].kind = "leave" /\ pc'[a] = "depart_find"
           \/ job[a].kind = "chat" /\ pc'[a] = "chat_send"
    BY <1>0, <1>3 DEF RoomLock, JobMatchesStep
  <2>2. Tables'
    BY <1>0, <1>1, <2>1, QuietStep DEF AheadBy
  <2>3. SeatFits(a)'
    BY <1>0, <1>1, <2>1 DEF SeatFits, JoinBegun, LeaveBegun, SeatKnown
  <2>4. CreateFits(a)' /\ CountFits(a)' /\ KindFits(a)'
    BY <2>1 DEF CreateFits, CountFits, KindFits, DepartSteps
  <2> QED
    BY <2>2, <2>3, <2>4 DEF Fits
<1>4. CASE LockClients(a) \/ Finish(a) \/ ClientLock(a) \/ PrivateSend(a) \/ ChatSend(a) \/ ListFill(a)
  <2>1. /\ pc[a] \in {"idle", "done", "client_lock", "private_send", "chat_send", "list_fill"}
        /\ pc'[a] \in {"locked", "idle", "private_send", "drop", "done"}
        /\ pc'[a] = "drop" => job' = job /\ pc[a] \in {"private_send", "chat_send", "list_fill"}
        /\ pc'[a] = "private_send" => job' = job /\ pc[a] = "client_lock"
    BY <1>0, <1>4 DEF LockClients, Finish, ClientLock, PrivateSend, ChatSend, ListFill
  <2>2. pc'[a] \in {"drop", "private_send"} => job'[a].kind # "disconnect"
    BY <1>0, <2>1 DEF KindFits
  <2>3. \A r : ~AheadBy(a, r) /\ ~AheadBy(a, r)'
    BY <2>1, <2>2 DEF AheadBy
  <2>4. Tables'
    BY <1>0, <1>1, <2>3, QuietStep
  <2>5. Fits(a)'
    BY <2>1, <2>2 DEF Fits, CreateFits, SeatFits, CountFits, KindFits, JoinBegun, LeaveBegun,
                      SeatKnown, DepartSteps
  <2> QED
    BY <2>4, <2>5
<1> QED
  BY <1>2, <1>3, <1>4

\* The steps that look something up and keep it.
LEMMA FindingFits ==
  ASSUME IInv, CInv, NEW a \in Agents, Only(a),
         CreateFind(a) \/ JoinFind(a) \/ DepartRead(a) \/ ListSize(a)
  PROVE  Tables' /\ Fits(a)'
<1>0. /\ pc \in [Agents -> Steps] /\ job \in [Agents -> Job] /\ Tables
      /\ JobMatchesStep(a) /\ CreateFits(a) /\ SeatFits(a) /\ CountFits(a) /\ KindFits(a)
  BY Own
<1>1. /\ UNCHANGED <<clients, rooms, lost>>
      /\ pc[a] \in {"create_find", "join_find", "depart_read", "list_size"}
  BY DEF CreateFind, JoinFind, DepartRead, ListSize
<1>2. pc'[a] \in {"create_name", "join_seat", "depart_write", "list_fill", "done"}
  BY <1>0 DEF CreateFind, JoinFind, DepartRead, ListSize, Goto
<1>3. \A r : ~AheadBy(a, r) /\ ~AheadBy(a, r)'
  BY <1>1, <1>2 DEF AheadBy
<1>4. Tables'
  BY <1>0, <1>1, <1>3, QuietStep
<1>5. ASSUME pc'[a] = "create_name" PROVE Fits(a)'
  <2>1. PICK r \in FreeRooms : Remember(a, r, 0)
    BY <1>0, <1>5 DEF CreateFind, JoinFind, DepartRead, ListSize, Goto
  <2>2. job'[a].room = r /\ ~rooms'[r].is_active
    BY <1>1, <2>1, RememberKeeps DEF FreeRooms
  <2> QED
    BY <1>5, <2>2 DEF Fits, CreateFits, SeatFits, CountFits, KindFits, JoinBegun, LeaveBegun,
                      SeatKnown, DepartSteps
<1>6. ASSUME pc'[a] = "join_seat" PROVE Fits(a)'
  <2>1. PICK r \in ActiveRooms : Remember(a, r, 0) /\ pc[a] = "join_find"
    BY <1>0, <1>6 DEF CreateFind, JoinFind, DepartRead, ListSize, Goto, RoomsNamed
  <2>2. job'[a].room = r /\ rooms'[r].is_active /\ job'[a].client = job[a].client
    BY <1>1, <2>1, RememberKeeps DEF ActiveRooms
  <2>3. SeatFits(a)'
    BY <1>0, <1>1, <1>6, <2>1, <2>2 DEF SeatFits, JoinBegun, LeaveBegun, SeatKnown
  <2> QED
    BY <1>6, <2>2, <2>3 DEF Fits, CreateFits, CountFits, KindFits, DepartSteps
<1>7. ASSUME pc'[a] = "depart_write" PROVE Fits(a)'
  <2>1. DepartRead(a)
    BY <1>0, <1>7 DEF CreateFind, JoinFind, ListSize, Goto
  <2>2. /\ job'[a].room = job[a].room /\ job'[a].client = job[a].client
        /\ job'[a].kind = job[a].kind /\ job'[a].count = rooms[job[a].room].client_count
        /\ pc[a] = "depart_read"
    BY <2>1, RememberKeeps DEF DepartRead
  <2>3. SeatFits(a)'
    BY <1>0, <1>1, <1>7, <2>2, SameTables DEF SeatFits, JoinBegun, LeaveBegun, SeatKnown, Sits
  <2>4. CountFits(a)' /\ KindFits(a)' /\ CreateFits(a)'
    BY <1>0, <1>1, <1>7, <2>2 DEF CountFits, KindFits, CreateFits, DepartSteps
  <2> QED
    BY <2>3, <2>4 DEF Fits
<1>8. ASSUME pc'[a] = "list_fill" PROVE Fits(a)'
  <2>1. ListSize(a)
    BY <1>0, <1>8 DEF CreateFind, JoinFind, DepartRead, Goto
  <2>2. /\ job'[a].client = job[a].client /\ job'[a].kind = job[a].kind
        /\ job'[a].count = Cardinality(Listed(a)) /\ job[a].kind # "disconnect"
    BY <1>0, <2>1, RememberKeeps DEF ListSize, KindFits
  <2>3. Listed(a)' = Listed(a)
    BY <1>1, <2>2, SameTables DEF Listed
  <2> QED
    BY <1>8, <2>2, <2>3 DEF Fits, CreateFits, SeatFits, CountFits, KindFits, JoinBegun,
                            LeaveBegun, SeatKnown, DepartSteps
<1>9. ASSUME pc'[a] = "done" PROVE Fits(a)'
  BY <1>9 DEF Fits, CreateFits, SeatFits, CountFits, KindFits, JoinBegun, LeaveBegun,
              SeatKnown, DepartSteps
<1> QED
  BY <1>2, <1>4, <1>5, <1>6, <1>7, <1>8, <1>9

-----------------------------------------------------------------------------
(* Steps that change the tables.                                           *)

\* Filling in a free slot of the room table, and activating it.
LEMMA CreateKeeps ==
  ASSUME IInv, CInv, NEW a \in Agents, Only(a), CreateFill(a) \/ CreateOpen(a)
  PROVE  Tables' /\ Fits(a)'
<1> DEFINE s == job[a].room
<1>0. /\ pc \in [Agents -> Steps] /\ job \in [Agents -> Job] /\ rooms \in [RoomIds -> Room]
      /\ lost \in [RoomIds -> Nat] /\ Tables /\ JobMatchesStep(a) /\ CreateFits(a)
  BY Own
<1>1. /\ pc[a] \in {"create_fill", "create_open"} /\ UNCHANGED <<clients, job>>
      /\ s \in RoomIds /\ ~rooms[s].is_active
  BY <1>0 DEF CreateFill, CreateOpen, JobMatchesStep, RoomKnown, CreateFits
<1>2. /\ \A r : Members(r)' = Members(r)
      /\ \A r : ~Ahead(r)
  BY <1>1, AheadAlone DEF Members, AheadBy
<1>3. CASE CreateFill(a)
  <2>1. /\ pc'[a] = "create_open" /\ \A r \in RoomIds \ {s} : rooms'[r] = rooms[r]
        /\ \A r \in RoomIds \ {s} : lost'[r] = lost[r]
        /\ lost'[s] = 0 /\ rooms'[s].client_count = 0 /\ rooms'[s].room_name = job[a].name
        /\ ~rooms'[s].is_active
    <3>1. /\ rooms' = [rooms EXCEPT ![s] = [rooms[s] EXCEPT !.room_name = job[a].name,
                                                           !.max_clients = job[a].limit,
                                                           !.client_count = 0]]
          /\ lost' = [lost EXCEPT ![s] = 0] /\ pc'[a] = "create_open"
      BY <1>0, <1>1, <1>3 DEF CreateFill, Goto
    <3>2. rooms[s] \in Room
      BY <1>0, <1>1
    <3> HIDE DEF s
    <3>3. rooms'[s] = [rooms[s] EXCEPT !.room_name = job[a].name,
                                       !.max_clients = job[a].limit, !.client_count = 0]
      BY <1>0, <1>1, <3>1
    <3>4. /\ rooms'[s].client_count = 0 /\ rooms'[s].room_name = job[a].name
          /\ rooms'[s].is_active = rooms[s].is_active
      BY <3>2, <3>3 DEF Room
    <3>5. \A r \in RoomIds \ {s} : rooms'[r] = rooms[r] /\ lost'[r] = lost[r]
      BY <1>0, <1>1, <3>1
    <3> QED
      BY <1>0, <1>1, <3>1, <3>4, <3>5
  <2>2. ActiveRooms' = ActiveRooms /\ \A r \in ActiveRooms : rooms'[r] = rooms[r]
    BY <1>1, <2>1 DEF ActiveRooms
  <2>3. \A r : ~Ahead(r)'
    BY <2>1, AheadAlone DEF AheadBy
  <2>4. RoomsCounted'
    BY <1>0, <1>1, <1>2, <2>1, <2>3 DEF Tables, RoomsCounted
  <2>5. ClosedRoomsEmpty' /\ UniqueRoomNames'
    BY <1>0, <1>1, <1>2, <2>1, <2>2 DEF Tables, ClosedRoomsEmpty, UniqueRoomNames, Ahead
  <2>6. CreateFits(a)'
    <3>1. RoomsNamed(job[a].name)' = RoomsNamed(job[a].name)
      BY <1>1, <2>2 DEF RoomsNamed
    <3> QED
      BY <1>0, <1>1, <1>3, <2>1, <3>1 DEF CreateFits, CreateFill
  <2>7. SeatFits(a)' /\ CountFits(a)' /\ KindFits(a)'
    BY <2>1 DEF SeatFits, CountFits, KindFits, JoinBegun, LeaveBegun, SeatKnown, DepartSteps
  <2> QED
    BY <2>4, <2>5, <2>6, <2>7 DEF Tables, Fits
<1>4. CASE CreateOpen(a)
  <2>1. /\ pc'[a] = "done" /\ \A r \in RoomIds \ {s} : rooms'[r] = rooms[r]
        /\ lost' = lost
        /\ rooms'[s].client_count = 0 /\ lost[s] = 0 /\ rooms'[s].room_name = job[a].name
        /\ pc[a] = "create_open" /\ RoomsNamed(job[a].name) = {}
    BY <1>0, <1>1, <1>4 DEF CreateOpen, Goto, Room, CreateFits
  <2>2. Members(s) = {}
    BY <1>0, <1>1, <1>2 DEF Tables, ClosedRoomsEmpty, Ahead
  <2>3. \A r : ~Ahead(r)'
    BY <2>1, AheadAlone DEF AheadBy
  <2>4. RoomsCounted'
    <3>1. Cardinality(Members(s)) = 0
      BY <2>2, FS_EmptySet
    <3>2. ASSUME NEW r \in RoomIds, rooms'[r].is_active
          PROVE  rooms'[r].client_count + 0 = Cardinality(Members(r)') + lost'[r]
      BY <1>0, <1>2, <2>1, <3>1, <3>2 DEF Tables, RoomsCounted
    <3> QED
      BY <2>3, <3>2 DEF RoomsCounted
  <2>5. ClosedRoomsEmpty'
    BY <1>0, <1>1, <1>2, <2>1, <2>2 DEF Tables, ClosedRoomsEmpty, Ahead
  <2>6. UniqueRoomNames'
    <3>1. ActiveRooms' \subseteq ActiveRooms \cup {s}
      BY <2>1 DEF ActiveRooms
    <3>2. \A r \in ActiveRooms : r # s /\ rooms'[r] = rooms[r] /\ rooms[r].room_name # job[a].name
      BY <1>1, <2>1 DEF RoomsNamed, ActiveRooms
    <3> QED
      BY <1>0, <2>1, <3>1, <3>2 DEF Tables, UniqueRoomNames
  <2>7. Fits(a)'
    BY <2>1 DEF Fits, CreateFits, SeatFits, CountFits, KindFits, JoinBegun, LeaveBegun,
                SeatKnown, DepartSteps
  <2> QED
    BY <2>4, <2>5, <2>6, <2>7 DEF Tables
<1> QED
  BY <1>3, <1>4

\* Taking a seat in a room that is open: the count is one behind.
LEMMA SeatKeeps ==
  ASSUME IInv, CInv, NEW a \in Agents, Only(a), JoinSeat(a)
  PROVE  Tables' /\ Fits(a)'
<1> DEFINE s == job[a].room
           c == job[a].client
<1>0. /\ pc \in [Agents -> Steps] /\ job \in [Agents -> Job] /\ rooms \in [RoomIds -> Room]
      /\ clients \in [Clients -> Client] /\ lost \in [RoomIds -> Nat]
      /\ Tables /\ JobMatchesStep(a) /\ SeatFits(a) /\ CountFits(a)
  BY Own
<1>1. /\ pc[a] = "join_seat" /\ pc'[a] = "join_count" /\ UNCHANGED <<rooms, lost>>
      /\ s \in RoomIds /\ c \in Clients /\ rooms[s].is_active
      /\ clients[c].is_active /\ clients[c].state = "CONNECTED"
  BY <1>0 DEF JoinSeat, Goto, JobMatchesStep, RoomKnown, SeatFits, CountFits, JoinBegun
<1>2. /\ job'[a].room = s /\ job'[a].client = c /\ job'[a].kind = job[a].kind
      /\ job'[a].count = rooms[s].client_count
  BY RememberKeeps DEF JoinSeat
<1>3. /\ \A d \in Clients : d # c => clients'[d] = clients[d]
      /\ clients'[c].is_active /\ clients'[c].state = "IN_ROOM"
      /\ clients'[c].current_room_id = s
  BY <1>0, <1>1 DEF JoinSeat, Client
<1> HIDE DEF s, c
<1>4. \A r : /\ Members(r)' = IF r = s THEN Members(r) \cup {c} ELSE Members(r)
             /\ Cardinality(Members(r)') = IF r = s THEN Cardinality(Members(r)) + 1
                                           ELSE Cardinality(Members(r))
  BY <1>1, <1>3, SeatTaken
<1>5. \A r \in RoomIds : ~Ahead(r) /\ (Ahead(r)' <=> r = s)
  BY <1>1, <1>2, AheadAlone DEF AheadBy, s
<1>6. RoomsCounted'
  BY <1>0, <1>1, <1>4, <1>5, MembersFinite DEF Tables, RoomsCounted, Room
<1>7. ClosedRoomsEmpty'
  BY <1>0, <1>1, <1>4, <1>5 DEF Tables, ClosedRoomsEmpty, Ahead
<1>8. UniqueRoomNames'
  BY <1>0, <1>1 DEF Tables, UniqueRoomNames, ActiveRooms
<1>9. SeatFits(a)'
  <2>1. \A r : c \in Members(r) <=> FALSE
    BY <1>1 DEF Members
  <2> QED
    BY <1>1, <1>2, <1>4, <2>1 DEF SeatFits, JoinBegun, LeaveBegun, SeatKnown, Sits, s, c
<1>10. CreateFits(a)' /\ CountFits(a)' /\ KindFits(a)'
  BY <1>1, <1>2 DEF CreateFits, CountFits, KindFits, DepartSteps, s
<1> QED
  BY <1>6, <1>7, <1>8, <1>9, <1>10 DEF Tables, Fits

\* Counting the client that has taken its seat.
LEMMA CountKeeps ==
  ASSUME IInv, CInv, NEW a \in Agents, Only(a), JoinCount(a)
  PROVE  Tables' /\ Fits(a)'
<1> DEFINE s == job[a].room
<1>0. /\ pc \in [Agents -> Steps] /\ job \in [Agents -> Job] /\ rooms \in [RoomIds -> Room]
      /\ lost \in [RoomIds -> Nat] /\ Tables /\ JobMatchesStep(a) /\ CountFits(a)
  BY Own
<1>1. /\ pc[a] = "join_count" /\ pc'[a] = "done" /\ UNCHANGED <<clients, job, lost>>
      /\ s \in RoomIds /\ rooms[s].is_active /\ job[a].count = rooms[s].client_count
      /\ rooms' = [rooms EXCEPT ![s].client_count = job[a].count + 1]
  BY <1>0 DEF JoinCount, Goto, JobMatchesStep, RoomKnown, CountFits
<1>2. /\ \A r \in RoomIds \ {s} : rooms'[r] = rooms[r]
      /\ rooms'[s].client_count = rooms[s].client_count + 1
      /\ rooms'[s].is_active /\ rooms'[s].room_name = rooms[s].room_name
  <2> DEFINE n == job[a].count + 1
  <2>1. rooms' = [rooms EXCEPT ![s].client_count = n] /\ n = rooms[s].client_count + 1
    BY <1>1
  <2> HIDE DEF n, s
  <2> QED
    BY <1>0, <1>1, <2>1 DEF Room
<1> HIDE DEF s
<1>3. \A r : Members(r)' = Members(r)
  BY <1>1 DEF Members
<1>4. \A r \in RoomIds : (Ahead(r) <=> r = s) /\ ~Ahead(r)'
  BY <1>1, AheadAlone DEF AheadBy, s
<1>5. RoomsCounted'
  BY <1>0, <1>1, <1>2, <1>3, <1>4, MembersFinite DEF Tables, RoomsCounted, Room
<1>6. ClosedRoomsEmpty'
  <2>1. \A r : ~\E b \in Agents : AheadBy(b, r) /\ pc[b] = "drop"
    BY <1>1 DEF Only
  <2> QED
    BY <1>0, <1>1, <1>2, <1>3, <2>1 DEF Tables, ClosedRoomsEmpty
<1>7. UniqueRoomNames'
  <2>1. ActiveRooms' = ActiveRooms /\ \A r \in RoomIds : rooms'[r].room_name = rooms[r].room_name
    BY <1>1, <1>2 DEF ActiveRooms
  <2> QED
    BY <1>0, <2>1 DEF Tables, UniqueRoomNames, ActiveRooms
<1>8. Fits(a)'
  BY <1>1 DEF Fits, CreateFits, SeatFits, CountFits, KindFits, JoinBegun, LeaveBegun,
              SeatKnown, DepartSteps
<1> QED
  BY <1>5, <1>6, <1>7, <1>8 DEF Tables

\* A client that leaves or disconnects finds its room.
LEMMA DepartFindKeeps ==
  ASSUME IInv, CInv, NEW a \in Agents, Only(a), DepartFind(a)
  PROVE  Tables' /\ Fits(a)'
<1> DEFINE c == job[a].client
           s == clients[c].current_room_id
<1>0. /\ pc \in [Agents -> Steps] /\ job \in [Agents -> Job] /\ rooms \in [RoomIds -> Room]
      /\ clients \in [Clients -> Client] /\ lost \in [RoomIds -> Nat]
      /\ Tables /\ JobMatchesStep(a) /\ SeatFits(a) /\ KindFits(a)
  BY Own
<1>1. /\ pc[a] = "depart_find" /\ UNCHANGED <<rooms, lost>> /\ c \in Clients
      /\ clients[c].is_active /\ clients[c].state = "IN_ROOM"
      /\ job[a].kind \in {"leave", "disconnect"}
  BY <1>0 DEF DepartFind, JobMatchesStep, SeatFits, LeaveBegun, KindFits, DepartSteps
<1>2. \A r : ~Ahead(r) /\ ~\E b \in Agents : AheadBy(b, r) /\ pc[b] = "drop"
  BY <1>1, AheadAlone DEF AheadBy, Ahead
<1>3. \A r \in RoomIds : c \in Members(r) <=> r = s
  BY <1>1 DEF Members
<1>4. CASE s \in ActiveRooms
  <2>1. /\ pc'[a] = "depart_read" /\ clients' = clients /\ Remember(a, s, 0)
        /\ s \in RoomIds /\ rooms[s].is_active
    BY <1>0, <1>4 DEF DepartFind, Goto, ActiveRooms
  <2> HIDE DEF s
  <2>2. job'[a].room = s /\ job'[a].client = c /\ job'[a].kind = job[a].kind
    BY <2>1, RememberKeeps
  <2> HIDE DEF c
  <2>3. Tables'
    BY <1>0, <1>1, <2>1, QuietStep DEF AheadBy
  <2>4. SeatFits(a)'
    BY <1>3, <2>1, <2>2, SameTables, <1>1 DEF SeatFits, JoinBegun, LeaveBegun, SeatKnown, Sits
  <2>5. CreateFits(a)' /\ CountFits(a)' /\ KindFits(a)'
    BY <1>1, <2>1, <2>2 DEF CreateFits, CountFits, KindFits, DepartSteps
  <2> QED
    BY <2>3, <2>4, <2>5 DEF Fits
<1>5. CASE s \notin ActiveRooms
  <2>1. \A r : c \notin Members(r) \/ r \notin RoomIds
    BY <1>0, <1>2, <1>3, <1>5 DEF Tables, ClosedRoomsEmpty, ActiveRooms
  <2>2. LeaveSeat(a) /\ EndDeparture(a) /\ job' = job
    BY <1>5 DEF DepartFind
  <2>3. pc'[a] = IF Leaving(a) THEN "done" ELSE "drop"
    BY <1>0, <2>2 DEF EndDeparture, Goto
  <2>4. /\ \A d \in Clients : d # c => clients'[d] = clients[d]
        /\ Leaving(a) => clients'[c].state = "CONNECTED"
        /\ ~Leaving(a) => clients' = clients
    BY <1>0, <1>1, <2>2 DEF LeaveSeat, Client
  <2>5. \A r \in RoomIds : Members(r)' = Members(r)
    <3>1. CASE Leaving(a)
      <4>1. ~(clients'[c].is_active /\ clients'[c].state = "IN_ROOM")
        BY <2>4, <3>1
      <4> HIDE DEF s, c
      <4>2. \A r : Members(r)' = Members(r) \ {c}
        BY <1>1, <2>4, <4>1, SeatGivenUp
      <4> QED
        BY <2>1, <4>2
    <3>2. CASE ~Leaving(a)
      BY <2>4, <3>2 DEF Members
    <3> QED
      BY <3>1, <3>2
  <2>6. job[a].room = NoRoom /\ \A r \in RoomIds : r # NoRoom
    BY <1>0, <1>1, RoomsAssumption DEF SeatFits, LeaveBegun, RoomIds, NoRoom
  <2> HIDE DEF s, c
  <2>7. \A r \in RoomIds : ~Ahead(r)'
    BY <2>2, <2>6, AheadAlone DEF AheadBy
  <2>8. RoomsCounted'
    BY <1>0, <1>1, <1>2, <2>5, <2>7 DEF Tables, RoomsCounted
  <2>9. ClosedRoomsEmpty'
    <3>1. \A r \in RoomIds : \A d \in Members(r) : rooms[r].is_active
      BY <1>0, <1>2 DEF Tables, ClosedRoomsEmpty
    <3> QED
      BY <1>1, <2>5, <3>1 DEF ClosedRoomsEmpty
  <2>11. UniqueRoomNames'
    BY <1>0, <1>1 DEF Tables, UniqueRoomNames, ActiveRooms
  <2>10. Fits(a)'
    BY <2>1, <2>2, <2>3, <2>5, <2>6 DEF Fits, CreateFits, SeatFits, CountFits, KindFits,
       JoinBegun, LeaveBegun, SeatKnown, DepartSteps, Sits, c
  <2> QED
    BY <2>8, <2>9, <2>10, <2>11 DEF Tables
<1> QED
  BY <1>4, <1>5

\* Counting a client out: one that leaves gives its seat up in the same
\* step, one that disconnects keeps it, and the count is ahead.
LEMMA DepartWriteKeeps ==
  ASSUME IInv, CInv, NEW a \in Agents, Only(a), DepartWrite(a)
  PROVE  Tables' /\ Fits(a)'
<1> DEFINE c == job[a].client
           s == job[a].room
<1>0. /\ pc \in [Agents -> Steps] /\ job \in [Agents -> Job] /\ rooms \in [RoomIds -> Room]
      /\ clients \in [Clients -> Client] /\ lost \in [RoomIds -> Nat]
      /\ Tables /\ JobMatchesStep(a) /\ SeatFits(a) /\ CountFits(a) /\ KindFits(a)
  BY Own
<1>1. /\ pc[a] = "depart_write" /\ pc'[a] = "depart_close" /\ UNCHANGED lost
      /\ c \in Clients /\ s \in RoomIds /\ rooms[s].is_active
      /\ job[a].count = rooms[s].client_count
      /\ job[a].kind \in {"leave", "disconnect"}
      /\ \A r \in RoomIds : c \in Members(r) <=> r = s
  BY <1>0 DEF DepartWrite, Goto, JobMatchesStep, RoomKnown, SeatFits, SeatKnown, Sits,
              CountFits, KindFits, DepartSteps
<1>2. \A r : ~Ahead(r) /\ ~\E b \in Agents : AheadBy(b, r) /\ pc[b] = "drop"
  <2>1. \A r : ~Ahead(r)
    BY <1>1, AheadAlone DEF AheadBy
  <2> QED
    BY <2>1 DEF Ahead
<1>3. /\ rooms[s].client_count = Cardinality(Members(s)) + lost[s]
      /\ Cardinality(Members(s)) > 0
  <2>1. Members(s) # {}
    BY <1>1
  <2>2. Cardinality(Members(s)) # 0
    BY <2>1, MembersFinite, FS_EmptySet
  <2>3. rooms[s].client_count \in Nat /\ lost[s] \in Nat /\ Cardinality(Members(s)) \in Nat
    BY <1>0, <1>1, MembersFinite DEF Room
  <2>4. rooms[s].client_count + 0 = Cardinality(Members(s)) + lost[s]
    BY <1>0, <1>1, <1>2 DEF Tables, RoomsCounted
  <2> QED
    BY <2>2, <2>3, <2>4
<1>4. job[a].count > 0
  BY <1>0, <1>1, <1>3, MembersFinite
<1>5. /\ \A r \in RoomIds \ {s} : rooms'[r] = rooms[r]
      /\ rooms'[s].client_count = rooms[s].client_count - 1
      /\ rooms'[s].is_active /\ rooms'[s].room_name = rooms[s].room_name
      /\ job'[a].room = s /\ job'[a].client = c /\ job'[a].kind = job[a].kind
      /\ job'[a].count = rooms[s].client_count - 1
  <2> DEFINE n == job[a].count - 1
  <2>1. /\ rooms' = [rooms EXCEPT ![s].client_count = n] /\ n = rooms[s].client_count - 1
        /\ Remember(a, s, n)
    BY <1>1, <1>4 DEF DepartWrite
  <2> HIDE DEF n, s, c
  <2>2. job'[a].room = s /\ job'[a].count = n /\ job'[a].client = c /\ job'[a].kind = job[a].kind
    BY <2>1, RememberKeeps DEF c
  <2> QED
    BY <1>0, <1>1, <2>1, <2>2 DEF Room
<1>6. /\ Leaving(a)' <=> Leaving(a)
      /\ \A r \in RoomIds : Ahead(r)' <=> r = s /\ ~Leaving(a)
  BY <1>1, <1>5, AheadAlone DEF AheadBy, Leaving
<1>7. \A r \in RoomIds :
        IF Leaving(a) /\ r = s
        THEN Members(r)' = Members(r) \ {c} /\ Cardinality(Members(r)') = Cardinality(Members(r)) - 1
        ELSE Members(r)' = Members(r)
  <2>1. CASE Leaving(a)
    <3>1. /\ \A d \in Clients : d # c => clients'[d] = clients[d]
          /\ clients'[c].state = "CONNECTED"
      BY <1>0, <1>1, <2>1 DEF DepartWrite, LeaveSeat, Client
    <3>2. ~(clients'[c].is_active /\ clients'[c].state = "IN_ROOM")
      BY <3>1
    <3> HIDE DEF s, c
    <3>3. \A r : /\ Members(r)' = Members(r) \ {c}
                 /\ c \in Members(r) => Cardinality(Members(r)') = Cardinality(Members(r)) - 1
      BY <1>1, <3>1, <3>2, SeatGivenUp
    <3> QED
      BY <1>1, <2>1, <3>3
  <2>2. CASE ~Leaving(a)
    BY <2>2 DEF DepartWrite, LeaveSeat, Members
  <2> QED
    BY <2>1, <2>2
<1> HIDE DEF s, c
<1>8. RoomsCounted'
  <2> SUFFICES ASSUME NEW r \in RoomIds, rooms'[r].is_active
               PROVE  rooms'[r].client_count + (IF Ahead(r)' THEN 1 ELSE 0)
                        = Cardinality(Members(r)') + lost'[r]
    BY DEF RoomsCounted
  <2>1. CASE r = s
    <3>1. rooms[s].client_count \in Nat /\ lost[s] \in Nat /\ Cardinality(Members(s)) \in Nat
      BY <1>0, <1>1, MembersFinite DEF Room
    <3> QED
      BY <1>1, <1>3, <1>5, <1>6, <1>7, <2>1, <3>1
  <2>2. CASE r # s
    BY <1>0, <1>1, <1>2, <1>5, <1>6, <1>7, <2>2 DEF Tables, RoomsCounted
  <2> QED
    BY <2>1, <2>2
<1>9. ClosedRoomsEmpty'
  BY <1>0, <1>2, <1>5, <1>7 DEF Tables, ClosedRoomsEmpty
<1>10. UniqueRoomNames'
  <2>1. ActiveRooms' = ActiveRooms /\ \A r \in RoomIds : rooms'[r].room_name = rooms[r].room_name
    BY <1>1, <1>5 DEF ActiveRooms
  <2> QED
    BY <1>0, <2>1 DEF Tables, UniqueRoomNames, ActiveRooms
<1>11. Fits(a)'
  <2>1. ~Leaving(a) => \A r \in RoomIds : Sits(a, r)' <=> r = s
    BY <1>1, <1>5, <1>7 DEF Sits, c
  <2>2. SeatFits(a)'
    BY <1>1, <1>5, <1>6, <2>1 DEF SeatFits, JoinBegun, LeaveBegun, SeatKnown
  <2>3. CreateFits(a)' /\ CountFits(a)' /\ KindFits(a)'
    BY <1>1, <1>5 DEF CreateFits, CountFits, KindFits, DepartSteps
  <2> QED
    BY <2>2, <2>3 DEF Fits
<1> QED
  BY <1>8, <1>9, <1>10, <1>11 DEF Tables

\* When the count of a room has come to 0 on departure, nobody is in it, or
\* only the client that is dropped next.
LEMMA LastOut ==
  ASSUME IInv, CInv, NEW a \in Agents, Only(a), pc[a] = "depart_close",
         rooms[job[a].room].client_count = 0
  PROVE  IF Leaving(a) THEN Members(job[a].room) = {}
         ELSE Members(job[a].room) = {job[a].client}
<1> DEFINE c == job[a].client
           s == job[a].room
<1>0. /\ lost \in [RoomIds -> Nat] /\ Tables /\ JobMatchesStep(a) /\ SeatFits(a) /\ CountFits(a)
  BY Own
<1>1. /\ s \in RoomIds /\ rooms[s].is_active
      /\ ~Leaving(a) => \A r \in RoomIds : c \in Members(r) <=> r = s
      /\ Ahead(s) <=> ~Leaving(a)
  BY <1>0, AheadAlone DEF JobMatchesStep, RoomKnown, SeatFits, SeatKnown, Sits, CountFits, AheadBy
<1> HIDE DEF s, c
<1>2. 0 + (IF Leaving(a) THEN 0 ELSE 1) = Cardinality(Members(s)) + lost[s]
  BY <1>0, <1>1 DEF Tables, RoomsCounted, s
<1>3. lost[s] \in Nat /\ Cardinality(Members(s)) \in Nat /\ IsFiniteSet(Members(s))
  BY <1>0, <1>1, MembersFinite
<1>4. CASE Leaving(a)
  <2>1. Cardinality(Members(s)) = 0
    BY <1>2, <1>3, <1>4
  <2> QED
    BY <1>3, <1>4, <2>1, FS_EmptySet DEF s
<1>5. CASE ~Leaving(a)
  <2>1. c \in Members(s) /\ Cardinality(Members(s)) <= 1
    BY <1>1, <1>2, <1>3, <1>5
  <2>2. IsFiniteSet(Members(s) \ {c}) /\ Cardinality(Members(s) \ {c}) = Cardinality(Members(s)) - 1
    BY <1>3, <2>1, FS_RemoveElement
  <2>3. Cardinality(Members(s) \ {c}) = 0
    BY <1>3, <2>1, <2>2, FS_CardinalityType
  <2>4. Members(s) \ {c} = {}
    BY <2>2, <2>3, FS_EmptySet
  <2> QED
    BY <1>5, <2>1, <2>4 DEF s, c
<1> QED
  BY <1>4, <1>5

\* The room is closed if the count has come to 0: nobody is in it then, or
\* only the client that is dropped next.
LEMMA DepartCloseKeeps ==
  ASSUME IInv, CInv, NEW a \in Agents, Only(a), DepartClose(a)
  PROVE  Tables' /\ Fits(a)'
<1> DEFINE c == job[a].client
           s == job[a].room
<1>0. /\ pc \in [Agents -> Steps] /\ job \in [Agents -> Job] /\ rooms \in [RoomIds -> Room]
      /\ lost \in [RoomIds -> Nat]
      /\ Tables /\ JobMatchesStep(a) /\ SeatFits(a) /\ CountFits(a) /\ KindFits(a)
  BY Own
<1>1. /\ pc[a] = "depart_close" /\ UNCHANGED <<lost, clients, job>>
      /\ c \in Clients /\ s \in RoomIds /\ rooms[s].is_active
      /\ job[a].count = rooms[s].client_count
      /\ job[a].kind \in {"leave", "disconnect"}
      /\ ~Leaving(a) => \A r \in RoomIds : c \in Members(r) <=> r = s
      /\ pc'[a] = IF Leaving(a) THEN "done" ELSE "drop"
  BY <1>0 DEF DepartClose, EndDeparture, Goto, JobMatchesStep, RoomKnown, SeatFits, SeatKnown,
              Sits, CountFits, KindFits, DepartSteps
<1>2. /\ \A r \in RoomIds \ {s} : rooms'[r] = rooms[r]
      /\ rooms'[s].client_count = rooms[s].client_count
      /\ rooms'[s].room_name = rooms[s].room_name
      /\ rooms'[s].is_active <=> rooms[s].client_count # 0
  <2>1. PICK open \in BOOLEAN : /\ rooms' = [rooms EXCEPT ![s].is_active = open]
                                /\ open <=> rooms[s].client_count # 0
    BY <1>0, <1>1 DEF DepartClose
  <2> HIDE DEF s
  <2> QED
    BY <1>0, <1>1, <2>1 DEF Room
<1>3. \A r \in RoomIds : (Ahead(r) <=> AheadBy(a, r)) /\ (Ahead(r)' <=> AheadBy(a, r)')
  BY AheadAlone
<1>4. \A r \in RoomIds : /\ AheadBy(a, r) <=> r = s /\ ~Leaving(a)
                         /\ AheadBy(a, r)' <=> r = s /\ ~Leaving(a)
  BY <1>1 DEF AheadBy, Leaving
<1> HIDE DEF s, c
<1>5. \A r : Members(r)' = Members(r)
  BY <1>1 DEF Members
<1>6. RoomsCounted'
  BY <1>0, <1>1, <1>2, <1>3, <1>4, <1>5 DEF Tables, RoomsCounted
<1>7. rooms[s].client_count = 0 =>
        IF Leaving(a) THEN Members(s) = {} ELSE Members(s) = {c}
  BY <1>1, LastOut DEF s, c
<1>8. ClosedRoomsEmpty'
  <2> SUFFICES ASSUME NEW r \in RoomIds, NEW d \in Members(r), ~rooms'[r].is_active
               PROVE  AheadBy(a, r)' /\ pc'[a] = "drop" /\ job'[a].client = d
    BY <1>5 DEF ClosedRoomsEmpty
  <2>1. rooms[r].is_active
    BY <1>0, <1>1 DEF Tables, ClosedRoomsEmpty, Only
  <2>2. r = s /\ rooms[s].client_count = 0
    BY <1>1, <1>2, <2>1
  <2> QED
    BY <1>1, <1>4, <1>7, <2>2 DEF c
<1>9. UniqueRoomNames'
  <2>1. /\ ActiveRooms' \subseteq ActiveRooms
        /\ \A r \in RoomIds : rooms'[r].room_name = rooms[r].room_name
    BY <1>1, <1>2 DEF ActiveRooms
  <2> QED
    BY <1>0, <2>1 DEF Tables, UniqueRoomNames, ActiveRooms
<1>10. Fits(a)'
  <2>1. SeatFits(a)'
    BY <1>1, <1>5 DEF SeatFits, JoinBegun, LeaveBegun, SeatKnown, Sits, Leaving, s, c
  <2> QED
    BY <1>1, <2>1 DEF Fits, CreateFits, CountFits, KindFits, DepartSteps
<1> QED
  BY <1>6, <1>8, <1>9, <1>10 DEF Tables

-----------------------------------------------------------------------------
(* Dropping a client, and the steps of the main thread.                    *)

\* A client that is dropped without having left stays in the count, which
\* the history variable lost makes up for.
LEMMA ZeroKeeps ==
  ASSUME IInv, Tables, NEW c \in Clients, Zero(c), UNCHANGED rooms,
         \A r \in RoomIds : ~Ahead(r) /\ ~Ahead(r)'
  PROVE  Tables'
<1>0. /\ rooms \in [RoomIds -> Room] /\ clients \in [Clients -> Client]
      /\ lost \in [RoomIds -> Nat]
  BY Types DEF IInv
<1>1. /\ \A d \in Clients : d # c => clients'[d] = clients[d]
      /\ ~(clients'[c].is_active /\ clients'[c].state = "IN_ROOM")
      /\ \A r \in RoomIds : lost'[r] = IF c \in Members(r) THEN lost[r] + 1 ELSE lost[r]
  BY <1>0 DEF Zero, Gone
<1>2. \A r : /\ Members(r)' = Members(r) \ {c}
             /\ Cardinality(Members(r)') =
                  IF c \in Members(r) THEN Cardinality(Members(r)) - 1
                  ELSE Cardinality(Members(r))
  BY <1>1, SeatGivenUp
<1>3. RoomsCounted'
  <2> SUFFICES ASSUME NEW r \in RoomIds, rooms[r].is_active
               PROVE  rooms[r].client_count + 0 = Cardinality(Members(r)') + lost'[r]
    BY DEF RoomsCounted
  <2>1. /\ rooms[r].client_count + 0 = Cardinality(Members(r)) + lost[r]
        /\ lost[r] \in Nat /\ Cardinality(Members(r)) \in Nat
    BY <1>0, MembersFinite DEF Tables, RoomsCounted
  <2>2. CASE c \in Members(r)
    BY <1>1, <1>2, <2>1, <2>2
  <2>3. CASE c \notin Members(r)
    BY <1>1, <1>2, <2>1, <2>3
  <2> QED
    BY <2>2, <2>3
<1>4. ClosedRoomsEmpty'
  <2>1. \A r \in RoomIds : \A d \in Members(r) : rooms[r].is_active
    BY DEF Tables, ClosedRoomsEmpty, Ahead
  <2> QED
    BY <1>2, <2>1 DEF ClosedRoomsEmpty
<1>5. UniqueRoomNames'
  BY DEF Tables, UniqueRoomNames, ActiveRooms
<1> QED
  BY <1>3, <1>4, <1>5 DEF Tables

\* A client that has asked to be disconnected was counted out before.
LEMMA DropKeeps ==
  ASSUME IInv, CInv, NEW a \in Agents, Only(a), Drop(a)
  PROVE  Tables' /\ Fits(a)'
<1> DEFINE c == job[a].client
           s == job[a].room
<1>0. /\ pc \in [Agents -> Steps] /\ job \in [Agents -> Job] /\ rooms \in [RoomIds -> Room]
      /\ clients \in [Clients -> Client] /\ lost \in [RoomIds -> Nat]
      /\ Tables /\ JobMatchesStep(a) /\ SeatFits(a)
  BY Own
<1>1. /\ pc[a] = "drop" /\ pc'[a] = "done" /\ UNCHANGED <<rooms, job>> /\ c \in Clients
  BY <1>0 DEF Drop, Goto, JobMatchesStep
<1>2. \A r \in RoomIds : ~Ahead(r)' /\ (Ahead(r) <=> AheadBy(a, r))
  BY <1>1, AheadAlone DEF AheadBy
<1>3. Fits(a)'
  BY <1>1 DEF Fits, CreateFits, SeatFits, CountFits, KindFits, JoinBegun, LeaveBegun,
              SeatKnown, DepartSteps
<1>4. CASE job[a].kind # "disconnect"
  <2>1. Zero(c) /\ \A r \in RoomIds : ~Ahead(r)
    BY <1>1, <1>2, <1>4 DEF Drop, AheadBy
  <2> QED
    BY <1>0, <1>1, <1>2, <1>3, <2>1, ZeroKeeps
<1>5. CASE job[a].kind = "disconnect"
  <2>1. /\ \A r \in RoomIds : Ahead(r) <=> r = s
        /\ \A r \in RoomIds : c \in Members(r) <=> r = s
        /\ UNCHANGED lost
    BY <1>0, <1>1, <1>2, <1>5 DEF Drop, AheadBy, SeatFits, SeatKnown, Sits
  <2>2. /\ \A d \in Clients : d # c => clients'[d] = clients[d]
        /\ ~(clients'[c].is_active /\ clients'[c].state = "IN_ROOM")
    BY <1>0, <1>1, <1>5 DEF Drop, Gone
  <2>3. \A r \in RoomIds : \A d \in Members(r) : rooms[r].is_active \/ d = c
    BY <1>0, <1>1 DEF Tables, ClosedRoomsEmpty, Only, AheadBy
  <2> HIDE DEF s, c
  <2>4. \A r \in RoomIds : /\ Members(r)' = Members(r) \ {c}
                           /\ Cardinality(Members(r)') =
                                IF r = s THEN Cardinality(Members(r)) - 1
                                ELSE Cardinality(Members(r))
    BY <1>1, <2>1, <2>2, SeatGivenUp
  <2>5. RoomsCounted'
    <3> SUFFICES ASSUME NEW r \in RoomIds, rooms[r].is_active
                 PROVE  rooms[r].client_count + 0 = Cardinality(Members(r)') + lost[r]
      BY <1>1, <1>2, <2>1 DEF RoomsCounted
    <3>1. /\ rooms[r].client_count + (IF r = s THEN 1 ELSE 0) = Cardinality(Members(r)) + lost[r]
          /\ lost[r] \in Nat /\ Cardinality(Members(r)) \in Nat /\ rooms[r].client_count \in Nat
      BY <1>0, <2>1, MembersFinite DEF Tables, RoomsCounted, Room
    <3> QED
      BY <2>4, <3>1
  <2>6. ClosedRoomsEmpty'
    BY <1>1, <2>3, <2>4 DEF ClosedRoomsEmpty
  <2>7. UniqueRoomNames'
    BY <1>0, <1>1 DEF Tables, UniqueRoomNames, ActiveRooms
  <2> QED
    BY <1>3, <2>5, <2>6, <2>7 DEF Tables
<1> QED
  BY <1>4, <1>5

\* Every step of an agent keeps the invariant.
LEMMA AgentKeeps ==
  ASSUME OneAtATime, IInv, CInv, NEW a \in Agents, AgentStep(a) PROVE CInv'
<1>1. Only(a) /\ MainIdle' /\ ThreadsServe'
  BY StepOnly, AgentsStep DEF CInv
<1>2. Tables' /\ Fits(a)'
  BY <1>1, ReceiveFits, LookingFits, FindingFits, CreateKeeps, SeatKeeps, CountKeeps,
     DepartFindKeeps, DepartWriteKeeps, DepartCloseKeeps, DropKeeps DEF AgentStep
<1> QED
  BY <1>1, <1>2, OthersFit DEF CInv

\* A new client is in no room, and nobody works for its slot yet.
LEMMA ArriveKeeps ==
  ASSUME OneAtATime, IInv, CInv, NEW c \in Clients, Arrive(c) PROVE CInv'
<1>0. /\ clients \in [Clients -> Client] /\ UNCHANGED <<rooms, pc, job, lost>>
      /\ Tables /\ \A a \in Agents : JobMatchesStep(a) /\ Fits(a)
  BY Types DEF Arrive, CInv, IInv, JobsMatchSteps
<1>1. /\ \A d \in Clients : d # c => clients'[d] = clients[d]
      /\ ~clients[c].is_active /\ clients'[c].state = "CONNECTED"
  BY <1>0 DEF Arrive
<1>2. \A r : Members(r)' = Members(r)
  BY <1>1 DEF Members
<1>3. Tables'
  BY <1>0, <1>2 DEF Tables, RoomsCounted, ClosedRoomsEmpty, UniqueRoomNames, Ahead, AheadBy,
                    Leaving, ActiveRooms
<1>4. ASSUME NEW a \in Agents, pc[a] \notin {"idle", "locked"} PROVE job[a].client # c
  <2>1. a \in Threaded
    BY <1>4 DEF Arrive
  <2>2. job[a].client = a
    BY <1>4, <2>1 DEF CInv, ThreadsServe
  <2> QED
    BY <1>4, <2>1, <2>2 DEF Arrive
<1>5. ASSUME NEW a \in Agents PROVE Fits(a)'
  <2>1. pc[a] \notin {"idle", "locked"} => clients'[job[a].client] = clients[job[a].client]
    BY <1>0, <1>1, <1>4 DEF JobMatchesStep
  <2>2. CreateFits(a)'
    BY <1>0 DEF Fits, CreateFits, RoomsNamed, ActiveRooms
  <2>3. SeatFits(a)'
    BY <1>0, <1>2, <2>1 DEF Fits, SeatFits, JoinBegun, LeaveBegun, SeatKnown, Sits, Leaving
  <2>4. CountFits(a)'
    BY <1>0, <1>2, <2>1 DEF Fits, CountFits, Listed, ActiveRooms
  <2>5. KindFits(a)'
    BY <1>0 DEF Fits, KindFits
  <2> QED
    BY <2>2, <2>3, <2>4, <2>5 DEF Fits
<1>6. MainIdle' /\ ThreadsServe'
  BY <1>0 DEF CInv, MainIdle, ThreadsServe
<1> QED
  BY <1>3, <1>5, <1>6 DEF CInv

\* The sweep of the main thread, when it is the only one.
LEMMA SweepKeeps ==
  ASSUME OneAtATime, IInv, CInv, SweepDrop \/ \E c \in Clients : SweepFind(c) PROVE CInv'
<1>0. /\ pc \in [Agents -> Steps] /\ job \in [Agents -> Job] /\ Tables
      /\ JobMatchesStep(Main) /\ Main \in Agents
  BY Types DEF CInv, IInv, JobsMatchSteps
<1>1. Threaded = {}
  BY MainUnserved DEF CInv, MainIdle, SweepDrop, SweepFind
<1>2. /\ pc[Main] \in {"idle", "sweep"} /\ pc'[Main] \in {"sweep", "done"}
      /\ UNCHANGED rooms
  BY <1>0 DEF SweepDrop, SweepFind, Goto
<1>3. Only(Main)
  BY <1>1 DEF Only
<1>4. \A r : ~Ahead(r) /\ ~Ahead(r)'
  BY <1>0, <1>2, <1>3, AheadAlone DEF AheadBy
<1>5. Tables'
  <2>1. CASE SweepDrop
    <3>1. job[Main].client \in Clients
      BY <1>0, <2>1 DEF SweepDrop, JobMatchesStep
    <3> QED
      BY <1>0, <1>4, <2>1, <3>1, ZeroKeeps DEF SweepDrop
  <2>2. CASE \E c \in Clients : SweepFind(c)
    <3>1. \A r : ~AheadBy(Main, r) /\ ~AheadBy(Main, r)'
      BY <1>2 DEF AheadBy
    <3> QED
      BY <1>0, <1>2, <1>3, <2>2, <3>1, QuietStep DEF SweepFind
  <2> QED
    BY <2>1, <2>2
<1>6. Fits(Main)'
  BY <1>2 DEF Fits, CreateFits, SeatFits, CountFits, KindFits, JoinBegun, LeaveBegun,
              SeatKnown, DepartSteps
<1> QED
  BY <1>0, <1>1, <1>3, <1>5, <1>6, OthersFit DEF CInv, MainIdle, ThreadsServe

-----------------------------------------------------------------------------
(* The theorems.                                                           *)

\* When the server starts there are no rooms and no members.
LEMMA InitCInv == Init => CInv
<1> SUFFICES ASSUME Init PROVE CInv
  OBVIOUS
<1>1. /\ \A r \in RoomIds : ~rooms[r].is_active
      /\ \A r : Members(r) = {}
      /\ \A a \in Agents : pc[a] = "idle"
  BY DEF Init, Members, Gone
<1>2. Tables
  BY <1>1 DEF Tables, RoomsCounted, ClosedRoomsEmpty, UniqueRoomNames, ActiveRooms
<1>3. \A a \in Agents : Fits(a)
  BY <1>1 DEF Fits, CreateFits, SeatFits, CountFits, KindFits, JoinBegun, LeaveBegun,
              SeatKnown, DepartSteps
<1> QED
  BY <1>1, <1>2, <1>3 DEF CInv, MainIdle, ThreadsServe

\* Every step keeps the invariant, if handlers come one at a time.
LEMMA NextCInv == OneAtATime /\ IInv /\ CInv /\ [Next]_vars => CInv'
<1> SUFFICES ASSUME OneAtATime, IInv, CInv, [Next]_vars PROVE CInv'
  OBVIOUS
<1>1. CASE Next
  BY <1>1, NextCases, AgentKeeps, ArriveKeeps, SweepKeeps
<1>2. CASE UNCHANGED vars
  <2>1. UNCHANGED <<clients, rooms, pc, job, lost>>
    BY <1>2 DEF vars
  <2>2. Tables' /\ MainIdle' /\ ThreadsServe'
    BY <2>1 DEF CInv, MainIdle, ThreadsServe, Tables, RoomsCounted, ClosedRoomsEmpty,
       UniqueRoomNames, Ahead, AheadBy, Leaving, ActiveRooms, Members
  <2>3. ASSUME NEW a \in Agents PROVE Fits(a)'
    <3>1. CreateFits(a) /\ SeatFits(a) /\ CountFits(a) /\ KindFits(a)
      BY DEF CInv, Fits
    <3>2. CreateFits(a)'
      BY <2>1, <3>1 DEF CreateFits, RoomsNamed, ActiveRooms
    <3>3. SeatFits(a)'
      BY <2>1, <3>1, SameTables DEF SeatFits, JoinBegun, LeaveBegun, SeatKnown, Sits, Leaving
    <3>4. CountFits(a)' /\ KindFits(a)'
      BY <2>1, <3>1, SameTables DEF CountFits, KindFits, Listed
    <3> QED
      BY <3>2, <3>3, <3>4 DEF Fits
  <2> QED
    BY <2>2, <2>3 DEF CInv
<1> QED
  BY <1>1, <1>2

\* The invariant holds in select mode and in thread mode.
THEOREM TablesInvariant == OneAtATime => (Spec => []CInv)
<1> SUFFICES ASSUME OneAtATime PROVE Spec => []CInv
  OBVIOUS
<1>1. IInv /\ CInv /\ [Next]_vars => CInv'
  BY NextCInv
<1> QED
  BY <1>1, InitCInv, Invariance, PTL DEF Spec

\* Once nobody is in the middle of a change to a room, its client_count is
\* its members and those dropped from it: no increment and no decrement is
\* lost, in select mode and in thread mode, disconnects included.
THEOREM CountIsExact == OneAtATime => (Spec => []CountExact)
<1> SUFFICES ASSUME OneAtATime PROVE Spec => []CountExact
  OBVIOUS
<1>1. IInv /\ CInv => CountExact
  <2> SUFFICES ASSUME IInv, CInv, NEW r \in RoomIds, rooms[r].is_active, Settled(r)
               PROVE  rooms[r].client_count = Cardinality(Members(r)) + lost[r]
    BY DEF CountExact
  <2>1. ~Ahead(r)
    BY DEF Settled, Ahead, AheadBy
  <2>2. rooms[r].client_count \in Nat
    BY Types DEF IInv, Room
  <2> QED
    BY <2>1, <2>2 DEF CInv, Tables, RoomsCounted
<1> QED
  BY <1>1, TablesInvariant, Invariance, PTL

\* In select mode and in thread mode no two active rooms have one name,
\* although a create looks the name up and opens the room without a lock.
THEOREM NamesAreUnique == OneAtATime => (Spec => []UniqueRoomNames)
<1> SUFFICES ASSUME OneAtATime PROVE Spec => []UniqueRoomNames
  OBVIOUS
<1>1. CInv => UniqueRoomNames
  BY DEF CInv, Tables
<1> QED
  BY <1>1, TablesInvariant, PTL

\* In select mode and in thread mode a list reply has room for all that its
\* second pass finds.
THEOREM RepliesFit == OneAtATime => (Spec => []ListsFit)
<1> SUFFICES ASSUME OneAtATime PROVE Spec => []ListsFit
  OBVIOUS
<1>1. IInv /\ CInv => ListsFit
  <2> SUFFICES ASSUME IInv, CInv, NEW a \in Agents, pc[a] = "list_fill"
               PROVE  Cardinality(Listed(a)) <= job[a].count
    BY DEF ListsFit
  <2>1. Cardinality(Listed(a)) = job[a].count
    BY DEF CInv, Fits, CountFits
  <2>2. Cardinality(Listed(a)) \in Nat
    BY ListedFinite DEF IInv
  <2> QED
    BY <2>1, <2>2
<1> QED
  BY <1>1, TablesInvariant, Invariance, PTL

=============================================================================
