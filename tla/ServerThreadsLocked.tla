------------------------- MODULE ServerThreadsLocked -------------------------
(***************************************************************************)
(* Proofs about the room table in ServerThreads with any number of agents  *)
(* inside handlers at a time, the main thread among them: mixed mode.      *)
(* They show what the mutexes are worth.  If nobody changes a room or the  *)
(* seat of another client without room_mutex, and rooms are created by the *)
(* main thread only or by client threads only, then the counts, the names  *)
(* and the abstract rooms are right for every number of clients and rooms. *)
(* What the code does beyond that, it does unprotected: a disconnect       *)
(* departs without room_mutex (the run count_race), the sweep drops        *)
(* clients of other agents, and both kinds of agents create rooms.         *)
(***************************************************************************)
EXTENDS ServerThreadsImplements

\* The requests for which the mutexes of the code suffice.
RoomsLocked ==
  /\ "disconnect" \notin MainRequests \cup ThreadRequests
  /\ "timeout" \notin MainRequests
  /\ "create" \notin MainRequests \cap ThreadRequests

-----------------------------------------------------------------------------
(* The invariant.  What an agent has found out stays true because nobody   *)
(* else may change it: its own client's slot, as each client has one agent; *)
(* the rooms that are open, as it holds room_mutex; the slots of the rooms *)
(* that are not, as it is the only one to create a room.                   *)

CreateSteps == {"create_find", "create_name", "create_fill", "create_open"}

\* An agent works for a client of its own, on a request such a client makes.
Entitled(a) ==
  pc[a] \notin {"idle", "locked"} => job[a].client \in Serves(a) /\ job[a].kind \in May(a)

KindKnown(a) ==
  /\ pc[a] \in CreateSteps => job[a].kind = "create"
  /\ pc[a] \in DepartSteps => Leaving(a)
  /\ pc[a] = "sweep" => job[a].kind = "timeout"

CountHeld(a) ==
  /\ pc[a] \in {"join_seat", "join_count", "depart_read", "depart_write", "depart_close"} =>
       rooms[job[a].room].is_active
  /\ pc[a] \in {"join_count", "depart_write", "depart_close"} =>
       job[a].count = rooms[job[a].room].client_count

Knows(a) == Entitled(a) /\ KindKnown(a) /\ CreateFits(a) /\ SeatFits(a) /\ CountHeld(a)

\* Somebody has been seated in room r and is not counted yet.
Uncounted(r) == \E a \in Agents : pc[a] = "join_count" /\ job[a].room = r

Counted ==
  \A r \in RoomIds :
    rooms[r].is_active =>
      rooms[r].client_count + (IF Uncounted(r) THEN 1 ELSE 0) = Cardinality(Members(r)) + lost[r]

ClosedEmpty == \A r \in RoomIds : ~rooms[r].is_active => Members(r) = {}

RoomTables == Counted /\ ClosedEmpty /\ UniqueRoomNames
MInv == RoomTables /\ \A a \in Agents : Knows(a)

USE DEF Agents

-----------------------------------------------------------------------------
(* Who may do what.                                                        *)

\* What the proofs about a step of agent a begin with.
LEMMA Known ==
  ASSUME IInv, MInv, NEW a \in Agents
  PROVE  /\ pc \in [Agents -> Steps] /\ job \in [Agents -> Job] /\ TypeOK
         /\ clients \in [Clients -> Client] /\ rooms \in [RoomIds -> Room]
         /\ lost \in [RoomIds -> Nat] /\ NoRoom \notin RoomIds /\ 0 \notin RoomIds
         /\ JobMatchesStep(a) /\ Counted /\ ClosedEmpty /\ UniqueRoomNames
         /\ Entitled(a) /\ KindKnown(a) /\ CreateFits(a) /\ SeatFits(a) /\ CountHeld(a)
<1>1. NoRoom \notin RoomIds /\ 0 \notin RoomIds
  BY RoomsAssumption DEF RoomIds, NoRoom
<1> QED
  BY <1>1, Types DEF IInv, MInv, RoomTables, JobsMatchSteps, Knows

\* No client has two agents.
LEMMA ServesApart ==
  ASSUME NEW a \in Agents, NEW b \in Agents, a # b, NEW c \in Serves(a) PROVE c \notin Serves(b)
BY ThreadsAssumption DEF Serves

\* No two agents hold room_mutex.
LEMMA OneHolder ==
  ASSUME IInv, NEW a \in Agents, NEW b \in Agents, HoldsRoomMutex(a), HoldsRoomMutex(b)
  PROVE  a = b
BY DEF IInv, LocksMatchSteps

\* No two agents create a room: not two threads, which hold client_mutex, and
\* not a thread and the main thread.
LEMMA OneCreator ==
  ASSUME RoomsLocked, IInv, MInv, NEW a \in Agents, NEW b \in Agents,
         pc[a] \in CreateSteps, pc[b] \in CreateSteps
  PROVE  a = b
<1>1. "create" \in May(a) /\ "create" \in May(b)
  <2>1. ASSUME NEW d \in Agents, pc[d] \in CreateSteps PROVE "create" \in May(d)
    BY <2>1, Known DEF Entitled, KindKnown, CreateSteps
  <2> QED
    BY <2>1
<1>2. CASE a = Main \/ b = Main
  BY <1>1, <1>2, ThreadsAssumption DEF May, RoomsLocked
<1>3. CASE a \in Threaded /\ b \in Threaded
  BY <1>3 DEF IInv, LocksMatchSteps, HoldsClientMutex, CreateSteps
<1> QED
  BY <1>2, <1>3

\* A request that is received is one its agent may get.
LEMMA RequestEntitled ==
  ASSUME NEW a \in Agents, Request(a)
  PROVE  \E c \in Clients : \E k \in Kinds :
           Received(a, c, k) /\ c \in Serves(a) /\ k \in May(a) \ {"timeout"}
<1>1. PICK c \in Serves(a), k \in Kinds :
        \E n \in RoomNames \cup {"none"}, m \in Limits \cup {0} :
          (k = "create" => n \in RoomNames /\ m \in Limits) /\ Receive(a, c, k, n, m)
  BY DEF Request
<1>2. Received(a, c, k) /\ k \in May(a) \ {"timeout"}
  BY <1>1, ServesClients, ThreadsAssumption DEF Receive, Received, Goto
<1> QED
  BY <1>1, <1>2, ServesClients

\* In RoomsLocked nobody sweeps, and who departs leaves.
LEMMA NobodySweeps ==
  ASSUME RoomsLocked, IInv, MInv
  PROVE  /\ pc[Main] # "sweep" /\ ~SweepDrop /\ \A c : ~SweepFind(c)
         /\ \A a \in Agents : pc[a] = "drop" => job[a].kind # "disconnect"
<1>1. \A a \in Agents : Entitled(a) /\ KindKnown(a)
  BY Known
<1>2. pc[Main] # "sweep"
  BY <1>1, ThreadsAssumption DEF Entitled, KindKnown, May, RoomsLocked
<1>3. \A a \in Agents : pc[a] = "drop" => job[a].kind # "disconnect"
  BY <1>1 DEF Entitled, May, RoomsLocked
<1> QED
  BY <1>2, <1>3 DEF SweepDrop, SweepFind, RoomsLocked

\* An agent inside a join, a departure or a chat has room_mutex.
LEMMA Holding ==
  ASSUME IInv, MInv, NEW a \in Agents, pc[a] \in RoomSteps \cup DepartSteps
  PROVE  HoldsRoomMutex(a)
BY Known DEF KindKnown, HoldsRoomMutex

-----------------------------------------------------------------------------
(* What a step of agent a leaves to the others.                            *)

\* It changes the slots of its own clients only; slots of the room table that
\* are free, and names, only if it creates a room; and open rooms only if it
\* has room_mutex.
Spares(a) ==
  /\ \A d \in Clients : d \notin Serves(a) => clients'[d] = clients[d]
  /\ pc[a] \notin CreateSteps =>
       \A r \in RoomIds : /\ rooms'[r].room_name = rooms[r].room_name
                          /\ rooms'[r].is_active => rooms[r].is_active
                          /\ ~rooms[r].is_active => rooms'[r] = rooms[r] /\ lost'[r] = lost[r]
  /\ ~HoldsRoomMutex(a) => \A r \in RoomIds : rooms[r].is_active => rooms'[r] = rooms[r]

\* Every step of an agent does.
LEMMA StepSpares ==
  ASSUME RoomsLocked, IInv, MInv, NEW a \in Agents, AgentStep(a) PROVE Spares(a)
<1>0. /\ pc \in [Agents -> Steps] /\ job \in [Agents -> Job] /\ rooms \in [RoomIds -> Room]
      /\ clients \in [Clients -> Client] /\ lost \in [RoomIds -> Nat]
      /\ JobMatchesStep(a) /\ Entitled(a) /\ KindKnown(a) /\ CreateFits(a) /\ CountHeld(a)
      /\ ClosedEmpty
  BY Known
<1>1. CASE UNCHANGED <<clients, rooms, lost>>
  BY <1>1 DEF Spares
<1>2. CASE CreateFill(a) \/ CreateOpen(a)
  <2>1. /\ pc[a] \in CreateSteps /\ UNCHANGED clients
        /\ job[a].room \in RoomIds /\ ~rooms[job[a].room].is_active
    BY <1>0, <1>2 DEF CreateFill, CreateOpen, CreateSteps, CreateFits, JobMatchesStep, RoomKnown
  <2>2. \A r \in RoomIds : r # job[a].room => rooms'[r] = rooms[r]
    BY <1>0, <1>2, <2>1 DEF CreateFill, CreateOpen
  <2> QED
    BY <2>1, <2>2 DEF Spares
<1>3. CASE JoinSeat(a)
  <2>1. /\ UNCHANGED <<rooms, lost>> /\ pc[a] = "join_seat" /\ job[a].client \in Serves(a)
        /\ \A d \in Clients : d # job[a].client => clients'[d] = clients[d]
    BY <1>0, <1>3 DEF JoinSeat, Entitled
  <2> QED
    BY <2>1 DEF Spares
<1>4. CASE JoinCount(a) \/ DepartClose(a) \/ DepartWrite(a)
  <2>1. /\ pc[a] \in RoomSteps \cup DepartSteps /\ pc[a] \notin CreateSteps /\ UNCHANGED lost
        /\ job[a].room \in RoomIds /\ rooms[job[a].room].is_active /\ job[a].client \in Serves(a)
    BY <1>0, <1>4
    DEF JoinCount, DepartClose, DepartWrite, CreateSteps, CountHeld, JobMatchesStep, RoomKnown,
        RoomSteps, DepartSteps, Entitled
  <2>2. \A d \in Clients : d # job[a].client => clients'[d] = clients[d]
    BY <1>0, <1>4 DEF JoinCount, DepartClose, DepartWrite, LeaveSeat
  <2>3. \A r \in RoomIds : /\ r # job[a].room => rooms'[r] = rooms[r]
                           /\ rooms'[r].room_name = rooms[r].room_name
    BY <1>0, <1>4, <2>1 DEF JoinCount, DepartClose, DepartWrite, Room
  <2>4. HoldsRoomMutex(a)
    BY <2>1, Holding
  <2> QED
    BY <2>1, <2>2, <2>3, <2>4 DEF Spares
<1>5. CASE DepartFind(a)
  <2>1. /\ UNCHANGED <<rooms, lost>> /\ pc[a] = "depart_find" /\ job[a].client \in Serves(a)
        /\ \A d \in Clients : d # job[a].client => clients'[d] = clients[d]
    BY <1>0, <1>5 DEF DepartFind, LeaveSeat, Entitled
  <2> QED
    BY <2>1 DEF Spares
<1>6. CASE Drop(a)
  <2>1. /\ pc[a] = "drop" /\ UNCHANGED rooms /\ job[a].client \in Serves(a)
        /\ Zero(job[a].client)
    BY <1>0, <1>6, NobodySweeps DEF Drop, Entitled
  <2>2. \A d \in Clients : d # job[a].client => clients'[d] = clients[d]
    BY <1>0, <2>1 DEF Zero
  <2>3. \A r \in RoomIds : ~rooms[r].is_active => lost'[r] = lost[r]
    BY <1>0, <2>1 DEF Zero, ClosedEmpty
  <2> QED
    BY <2>1, <2>2, <2>3 DEF Spares
<1>7. ASSUME NEW c \in Clients, NEW k \in Kinds, Received(a, c, k) PROVE Spares(a)
  BY <1>1, <1>7 DEF Received
<1> QED
  BY <1>1, <1>2, <1>3, <1>4, <1>5, <1>6, <1>7
  DEF AgentStep, LockClients, CreateFind, CreateName, RoomLock, JoinFind,
      ChatSend, DepartRead, ClientLock, PrivateSend, ListSize, ListFill, Finish

\* What the other agents know is then still so.
LEMMA OthersKnow ==
  ASSUME RoomsLocked, IInv, MInv, NEW a \in Agents, AgentStep(a), NEW b \in Agents, b # a
  PROVE  Knows(b)'
<1>0. /\ pc \in [Agents -> Steps] /\ job \in [Agents -> Job] /\ rooms \in [RoomIds -> Room]
      /\ JobMatchesStep(b) /\ Entitled(b) /\ KindKnown(b) /\ CreateFits(b) /\ SeatFits(b)
      /\ CountHeld(b)
  BY Known
<1>1. Spares(a) /\ pc'[b] = pc[b] /\ job'[b] = job[b]
  BY StepSpares, StepAlone DEF Alone
<1>2. Entitled(b)' /\ KindKnown(b)'
  BY <1>0, <1>1 DEF Entitled, KindKnown, Leaving, Serves, May
<1>3. CreateFits(b)'
  <2>1. CASE pc[b] \in CreateSteps
    <3>1. pc[a] \notin CreateSteps
      BY <2>1, OneCreator
    <3>2. /\ \A r \in RoomIds : ~rooms[r].is_active => rooms'[r] = rooms[r] /\ lost'[r] = lost[r]
          /\ \A n : RoomsNamed(n)' \subseteq RoomsNamed(n)
      BY <1>1, <3>1 DEF Spares, RoomsNamed, ActiveRooms
    <3>3. pc[b] # "create_find" => job[b].room \in RoomIds
      BY <1>0, <2>1 DEF JobMatchesStep, RoomKnown, CreateSteps
    <3> QED
      BY <1>0, <1>1, <3>2, <3>3 DEF CreateFits
  <2>2. CASE pc[b] \notin CreateSteps
    BY <1>1, <2>2 DEF CreateFits, CreateSteps
  <2> QED
    BY <2>1, <2>2
<1>4. SeatFits(b)'
  <2>1. CASE pc[b] \in {"idle", "locked"}
    BY <1>1, <2>1 DEF SeatFits, JoinBegun, LeaveBegun, SeatKnown
  <2>2. CASE pc[b] \notin {"idle", "locked"}
    <3>1. job[b].client \in Clients /\ job[b].client \in Serves(b)
      BY <1>0, <2>2 DEF JobMatchesStep, Entitled
    <3>2. clients'[job[b].client] = clients[job[b].client]
      BY <1>1, <3>1, ServesApart DEF Spares
    <3>3. \A r : Sits(b, r)' <=> Sits(b, r)
      BY <1>1, <3>1, <3>2 DEF Sits, Members
    <3> QED
      BY <1>0, <1>1, <3>2, <3>3 DEF SeatFits, JoinBegun, LeaveBegun, SeatKnown, Leaving
  <2> QED
    BY <2>1, <2>2
<1>5. CountHeld(b)'
  <2>1. CASE pc[b] \in RoomSteps \cup DepartSteps
    <3>1. ~HoldsRoomMutex(a)
      BY <2>1, Holding, OneHolder
    <3>2. pc[b] \in {"join_seat", "join_count", "depart_read", "depart_write", "depart_close"}
            => job[b].room \in RoomIds
      BY <1>0 DEF JobMatchesStep, RoomKnown
    <3> QED
      BY <1>0, <1>1, <3>1, <3>2 DEF CountHeld, Spares
  <2>2. CASE pc[b] \notin RoomSteps \cup DepartSteps
    BY <1>1, <2>2 DEF CountHeld, RoomSteps, DepartSteps
  <2> QED
    BY <2>1, <2>2
<1> QED
  BY <1>2, <1>3, <1>4, <1>5 DEF Knows

-----------------------------------------------------------------------------
(* What the agent itself knows after its step.                             *)

\* In the course of a handler an agent stays entitled.
LEMMA StaysEntitled ==
  ASSUME IInv, MInv, NEW a \in Agents, AgentStep(a), pc[a] \notin {"idle", "locked", "done"}
  PROVE  /\ Entitled(a)'
         /\ job'[a].client = job[a].client /\ job'[a].kind = job[a].kind
         /\ job'[a].name = job[a].name /\ job'[a].limit = job[a].limit
<1>1. Entitled(a)
  BY Known
<1>2. /\ job'[a].client = job[a].client /\ job'[a].kind = job[a].kind
      /\ job'[a].name = job[a].name /\ job'[a].limit = job[a].limit
  BY RequestKept
<1> QED
  BY <1>1, <1>2 DEF Entitled, Serves, May

\* Where nothing is known of a step, nothing can be wrong.
LEMMA KnowsLittle ==
  ASSUME NEW a \in Agents, Entitled(a)',
         pc'[a] \in {"idle", "locked", "done", "drop", "chat_send", "client_lock",
                     "private_send", "list_size", "list_fill"},
         pc'[a] = "drop" => job'[a].kind # "disconnect"
  PROVE  Knows(a)'
BY DEF Knows, KindKnown, CreateFits, SeatFits, CountHeld, JoinBegun, LeaveBegun, SeatKnown,
       CreateSteps, DepartSteps

\* Getting a request.
LEMMA ReceiveKnows ==
  ASSUME RoomsLocked, IInv, MInv, NEW a \in Agents, NEW c \in Clients, NEW k \in Kinds,
         Received(a, c, k), c \in Serves(a), k \in May(a) \ {"timeout"}
  PROVE  Knows(a)'
<1>0. pc \in [Agents -> Steps] /\ job \in [Agents -> Job] /\ TypeOK
  BY Known
<1>1. /\ pc'[a] = FirstStep(c, k) /\ UNCHANGED <<clients, rooms, lost>>
      /\ clients[c].is_active \/ k = "lost"
  BY <1>0 DEF Received
<1>2. job'[a].client = c /\ job'[a].kind = k /\ job'[a].room = NoRoom
  BY <1>0, ReceivedJob DEF Received, NewJob
<1>3. k # "disconnect"
  BY ThreadsAssumption DEF RoomsLocked, May
<1>4. /\ pc'[a] \in {"create_find", "room_lock", "client_lock", "list_size", "drop", "done"}
      /\ pc'[a] = "create_find" => k = "create"
      /\ pc'[a] = "room_lock" /\ k = "join" => clients[c].state = "CONNECTED" /\ k # "lost"
      /\ pc'[a] = "room_lock" /\ k = "leave" => clients[c].state = "IN_ROOM" /\ k # "lost"
  BY <1>1, <1>3, FirstStepIn DEF FirstStep
<1>5. Entitled(a)'
  BY <1>2 DEF Entitled, Serves, May
<1>6. SeatFits(a)'
  BY <1>1, <1>2, <1>3, <1>4 DEF SeatFits, JoinBegun, LeaveBegun, SeatKnown
<1>7. KindKnown(a)' /\ CreateFits(a)' /\ CountHeld(a)'
  BY <1>2, <1>4 DEF KindKnown, CreateFits, CountHeld, CreateSteps, DepartSteps
<1> QED
  BY <1>5, <1>6, <1>7 DEF Knows

\* The steps that only take or give back a mutex, or only look.
LEMMA LookingKnows ==
  ASSUME RoomsLocked, IInv, MInv, NEW a \in Agents, AgentStep(a),
         \/ LockClients(a) \/ Finish(a) \/ CreateName(a) \/ RoomLock(a) \/ ChatSend(a)
         \/ ClientLock(a) \/ PrivateSend(a) \/ ListSize(a) \/ ListFill(a)
  PROVE  Knows(a)' /\ UNCHANGED <<clients, rooms, lost>>
<1>0. /\ pc \in [Agents -> Steps] /\ job \in [Agents -> Job]
      /\ JobMatchesStep(a) /\ Entitled(a) /\ KindKnown(a) /\ CreateFits(a) /\ SeatFits(a)
  BY Known
<1>1. UNCHANGED <<clients, rooms, lost>>
  BY DEF LockClients, Finish, CreateName, RoomLock, ChatSend, ClientLock, PrivateSend, ListSize,
         ListFill
<1>2. \A n : RoomsNamed(n)' = RoomsNamed(n)
  BY <1>1, SameTables
<1> USE DEF Goto
<1>3. CASE LockClients(a) \/ Finish(a)
  <2>1. pc'[a] \in {"locked", "idle"}
    BY <1>0, <1>3 DEF LockClients, Finish
  <2> QED
    BY <1>1, <2>1, KnowsLittle DEF Entitled
<1>4. CASE ChatSend(a) \/ ClientLock(a) \/ PrivateSend(a) \/ ListSize(a) \/ ListFill(a)
  <2>1. /\ pc[a] \in {"chat_send", "client_lock", "private_send", "list_size", "list_fill"}
        /\ pc'[a] \in {"drop", "done", "private_send", "list_fill"}
    BY <1>0, <1>4 DEF ChatSend, ClientLock, PrivateSend, ListSize, ListFill
  <2>2. Entitled(a)' /\ job'[a].kind = job[a].kind
    BY <2>1, StaysEntitled
  <2>3. job[a].kind # "disconnect"
    BY <1>0, <2>1 DEF Entitled, RoomsLocked, May
  <2> QED
    BY <1>1, <2>1, <2>2, <2>3, KnowsLittle
<1>5. CASE CreateName(a)
  <2>1. /\ job' = job /\ pc[a] = "create_name"
        /\ \/ pc'[a] = "create_fill" /\ RoomsNamed(job[a].name) = {}
           \/ pc'[a] = "done"
    BY <1>0, <1>5 DEF CreateName
  <2>2. Entitled(a)'
    BY <2>1, StaysEntitled
  <2>3. KindKnown(a)' /\ CreateFits(a)'
    BY <1>0, <1>1, <1>2, <2>1 DEF KindKnown, CreateFits, CreateSteps, DepartSteps
  <2>4. SeatFits(a)' /\ CountHeld(a)'
    BY <2>1 DEF SeatFits, CountHeld, JoinBegun, LeaveBegun, SeatKnown
  <2> QED
    BY <1>1, <2>2, <2>3, <2>4 DEF Knows
<1>6. CASE RoomLock(a)
  <2>1. /\ job' = job /\ pc[a] = "room_lock"
        /\ \/ job[a].kind = "join" /\ pc'[a] = "join_find"
           \/ job[a].kind = "leave" /\ pc'[a] = "depart_find"
           \/ job[a].kind = "chat" /\ pc'[a] = "chat_send"
    BY <1>0, <1>6 DEF RoomLock, JobMatchesStep
  <2>2. Entitled(a)'
    BY <2>1, StaysEntitled
  <2>3. SeatFits(a)'
    BY <1>0, <1>1, <2>1 DEF SeatFits, JoinBegun, LeaveBegun, SeatKnown
  <2>4. KindKnown(a)' /\ CreateFits(a)' /\ CountHeld(a)'
    BY <2>1 DEF KindKnown, CreateFits, CountHeld, CreateSteps, DepartSteps, Leaving
  <2> QED
    BY <1>1, <2>2, <2>3, <2>4 DEF Knows
<1> QED
  BY <1>3, <1>4, <1>5, <1>6

\* The steps that look something up and keep it.
LEMMA FindingKnows ==
  ASSUME RoomsLocked, IInv, MInv, NEW a \in Agents, AgentStep(a),
         CreateFind(a) \/ JoinFind(a) \/ DepartRead(a)
  PROVE  Knows(a)' /\ UNCHANGED <<clients, rooms, lost>>
<1>0. /\ pc \in [Agents -> Steps] /\ job \in [Agents -> Job]
      /\ JobMatchesStep(a) /\ Entitled(a) /\ KindKnown(a) /\ SeatFits(a) /\ CountHeld(a)
  BY Known
<1>1. /\ UNCHANGED <<clients, rooms, lost>>
      /\ pc[a] \in {"create_find", "join_find", "depart_read"}
      /\ \A r : Members(r)' = Members(r)
  BY SameTables DEF CreateFind, JoinFind, DepartRead
<1>2. /\ Entitled(a)' /\ job'[a].client = job[a].client /\ job'[a].kind = job[a].kind
  BY <1>1, StaysEntitled
<1>3. pc'[a] \in {"create_name", "join_seat", "depart_write", "done"}
  BY <1>0 DEF CreateFind, JoinFind, DepartRead, Goto
<1>4. CASE pc'[a] = "create_name"
  <2>1. PICK r \in FreeRooms : Remember(a, r, 0) /\ pc[a] = "create_find"
    BY <1>0, <1>4 DEF CreateFind, JoinFind, DepartRead, Goto
  <2>2. job'[a].room = r /\ ~rooms'[r].is_active /\ job'[a].kind = "create"
    BY <1>0, <1>1, <1>2, <2>1, RememberKeeps DEF FreeRooms, KindKnown, CreateSteps
  <2> QED
    BY <1>1, <1>2, <1>4, <2>2 DEF Knows, KindKnown, CreateFits, SeatFits, CountHeld, JoinBegun,
                             LeaveBegun, SeatKnown, CreateSteps, DepartSteps
<1>5. CASE pc'[a] = "join_seat"
  <2>1. PICK r \in ActiveRooms : Remember(a, r, 0) /\ pc[a] = "join_find"
    BY <1>0, <1>5 DEF CreateFind, JoinFind, DepartRead, Goto, RoomsNamed
  <2>2. job'[a].room = r /\ rooms'[r].is_active
    BY <1>1, <2>1, RememberKeeps DEF ActiveRooms
  <2>3. SeatFits(a)'
    BY <1>0, <1>1, <1>2, <1>5, <2>1 DEF SeatFits, JoinBegun, LeaveBegun, SeatKnown
  <2> QED
    BY <1>1, <1>2, <1>5, <2>2, <2>3 DEF Knows, KindKnown, CreateFits, CountHeld, CreateSteps,
                                   DepartSteps
<1>6. CASE pc'[a] = "depart_write"
  <2>1. DepartRead(a)
    BY <1>0, <1>6 DEF CreateFind, JoinFind, Goto
  <2>2. /\ job'[a].room = job[a].room /\ job'[a].count = rooms[job[a].room].client_count
        /\ pc[a] = "depart_read"
    BY <2>1, RememberKeeps DEF DepartRead
  <2>3. SeatFits(a)'
    BY <1>0, <1>1, <1>2, <1>6, <2>2 DEF SeatFits, JoinBegun, LeaveBegun, SeatKnown, Sits
  <2>4. KindKnown(a)' /\ CreateFits(a)' /\ CountHeld(a)'
    BY <1>0, <1>1, <1>2, <1>6, <2>2
    DEF KindKnown, CreateFits, CountHeld, CreateSteps, DepartSteps, Leaving
  <2> QED
    BY <1>1, <1>2, <2>3, <2>4 DEF Knows
<1>7. CASE pc'[a] = "done"
  BY <1>1, <1>2, <1>7, KnowsLittle
<1> QED
  BY <1>3, <1>4, <1>5, <1>6, <1>7

\* A client that leaves finds its room, which is open since the client is in it.
LEMMA DepartFindKnows ==
  ASSUME RoomsLocked, SeatsHaveRooms, IInv, MInv, NEW a \in Agents, DepartFind(a)
  PROVE  /\ Knows(a)' /\ UNCHANGED <<clients, rooms, lost>>
         /\ pc[a] = "depart_find" /\ pc'[a] = "depart_read"
<1> DEFINE c == job[a].client
           s == clients[c].current_room_id
<1>0. /\ pc \in [Agents -> Steps] /\ job \in [Agents -> Job] /\ AgentStep(a)
      /\ JobMatchesStep(a) /\ Entitled(a) /\ KindKnown(a) /\ SeatFits(a) /\ ClosedEmpty
  BY Known DEF AgentStep
<1>1. /\ pc[a] = "depart_find" /\ c \in Clients
      /\ clients[c].is_active /\ clients[c].state = "IN_ROOM"
  BY <1>0 DEF DepartFind, JobMatchesStep, SeatFits, LeaveBegun
<1>2. s \in ActiveRooms
  <2>1. s \in RoomIds /\ c \in Members(s)
    BY <1>1 DEF SeatsHaveRooms, Members
  <2> QED
    BY <1>0, <2>1 DEF ClosedEmpty, ActiveRooms
<1>3. /\ UNCHANGED <<clients, rooms, lost>> /\ pc'[a] = "depart_read" /\ Remember(a, s, 0)
  BY <1>0, <1>2 DEF DepartFind, Goto
<1> HIDE DEF s
<1>4. job'[a].room = s
  BY <1>3, RememberKeeps
<1>5. /\ Entitled(a)' /\ job'[a].client = c /\ job'[a].kind = job[a].kind
  BY <1>0, <1>1, StaysEntitled
<1>6. \A r \in RoomIds : c \in Members(r)' <=> r = s
  BY <1>1, <1>3 DEF Members, s
<1> HIDE DEF c
<1>7. SeatFits(a)'
  BY <1>3, <1>4, <1>5, <1>6 DEF SeatFits, JoinBegun, LeaveBegun, SeatKnown, Sits
<1>8. KindKnown(a)' /\ CreateFits(a)' /\ CountHeld(a)'
  BY <1>0, <1>1, <1>2, <1>3, <1>4, <1>5
  DEF KindKnown, CreateFits, CountHeld, CreateSteps, DepartSteps, Leaving, ActiveRooms
<1> QED
  BY <1>1, <1>3, <1>5, <1>7, <1>8 DEF Knows

-----------------------------------------------------------------------------
(* The tables.                                                             *)

\* A room has a client that is not counted as before, if the step is neither
\* to nor from join_count.
LEMMA UncountedKept ==
  ASSUME IInv, NEW a \in Agents, Alone(a), pc[a] # "join_count", pc'[a] # "join_count", NEW r
  PROVE  Uncounted(r)' <=> Uncounted(r)
BY DEF Alone, Uncounted

\* While agent a has room_mutex, only it can have seated a client it has not
\* counted.
LEMMA UncountedByHolder ==
  ASSUME IInv, MInv, NEW a \in Agents, pc[a] \in RoomSteps \cup DepartSteps, NEW r
  PROVE  Uncounted(r) <=> pc[a] = "join_count" /\ job[a].room = r
<1>1. \A b \in Agents : pc[b] = "join_count" => b = a
  BY Holding, OneHolder DEF RoomSteps
<1> QED
  BY <1>1 DEF Uncounted

\* Steps that leave the tables as they are.
LEMMA LookingKeeps ==
  ASSUME IInv, MInv, NEW a \in Agents, Alone(a), UNCHANGED <<clients, rooms, lost>>,
         pc[a] # "join_count", pc'[a] # "join_count"
  PROVE  RoomTables'
<1>1. /\ \A r : Members(r)' = Members(r)
      /\ ActiveRooms' = ActiveRooms /\ \A r : Uncounted(r)' <=> Uncounted(r)
  BY SameTables, UncountedKept
<1> QED
  BY <1>1, Known DEF RoomTables, Counted, ClosedEmpty, UniqueRoomNames

\* Filling in a free slot of the room table.
LEMMA FillKeeps ==
  ASSUME IInv, MInv, NEW a \in Agents, CreateFill(a)
  PROVE  RoomTables' /\ Knows(a)'
<1> DEFINE s == job[a].room
<1>0. /\ pc \in [Agents -> Steps] /\ job \in [Agents -> Job] /\ rooms \in [RoomIds -> Room]
      /\ lost \in [RoomIds -> Nat] /\ JobMatchesStep(a) /\ CreateFits(a) /\ KindKnown(a)
      /\ Counted /\ ClosedEmpty /\ UniqueRoomNames /\ AgentStep(a) /\ Alone(a)
  BY Known, StepAlone DEF AgentStep
<1>1. /\ pc[a] = "create_fill" /\ pc'[a] = "create_open" /\ UNCHANGED <<clients, job>>
      /\ s \in RoomIds /\ ~rooms[s].is_active /\ RoomsNamed(job[a].name) = {}
  BY <1>0 DEF CreateFill, Goto, JobMatchesStep, RoomKnown, CreateFits
<1>2. /\ \A r \in RoomIds \ {s} : rooms'[r] = rooms[r] /\ lost'[r] = lost[r]
      /\ lost'[s] = 0 /\ rooms'[s].client_count = 0 /\ rooms'[s].room_name = job[a].name
      /\ ~rooms'[s].is_active
  <2>1. /\ rooms' = [rooms EXCEPT ![s] = [rooms[s] EXCEPT !.room_name = job[a].name,
                                                         !.max_clients = job[a].limit,
                                                         !.client_count = 0]]
        /\ lost' = [lost EXCEPT ![s] = 0]
    BY <1>0, <1>1 DEF CreateFill
  <2>2. rooms[s] \in Room
    BY <1>0, <1>1
  <2> HIDE DEF s
  <2>3. rooms'[s] = [rooms[s] EXCEPT !.room_name = job[a].name,
                                     !.max_clients = job[a].limit, !.client_count = 0]
    BY <1>0, <1>1, <2>1
  <2>4. /\ rooms'[s].client_count = 0 /\ rooms'[s].room_name = job[a].name
        /\ rooms'[s].is_active = rooms[s].is_active
    BY <2>2, <2>3 DEF Room
  <2>5. \A r \in RoomIds \ {s} : rooms'[r] = rooms[r] /\ lost'[r] = lost[r]
    BY <1>0, <1>1, <2>1
  <2> QED
    BY <1>0, <1>1, <2>1, <2>4, <2>5
<1> HIDE DEF s
<1>3. /\ \A r : Members(r)' = Members(r)
      /\ \A r : Uncounted(r)' <=> Uncounted(r)
  BY <1>0, <1>1, UncountedKept DEF Members
<1>4. ActiveRooms' = ActiveRooms /\ \A r \in ActiveRooms : rooms'[r] = rooms[r]
  BY <1>1, <1>2 DEF ActiveRooms
<1>5. Counted'
  BY <1>0, <1>1, <1>2, <1>3 DEF Counted
<1>6. ClosedEmpty' /\ UniqueRoomNames'
  BY <1>0, <1>1, <1>2, <1>3, <1>4 DEF ClosedEmpty, UniqueRoomNames
<1>7. CreateFits(a)'
  <2>1. RoomsNamed(job[a].name)' = {}
    BY <1>1, <1>4 DEF RoomsNamed
  <2> QED
    BY <1>1, <1>2, <2>1 DEF CreateFits, s
<1>8. KindKnown(a)'
  BY <1>0, <1>1 DEF KindKnown, CreateSteps, DepartSteps
<1>9. Entitled(a)' /\ SeatFits(a)' /\ CountHeld(a)'
  BY <1>0, <1>1, StaysEntitled DEF SeatFits, CountHeld, JoinBegun, LeaveBegun, SeatKnown
<1> QED
  BY <1>5, <1>6, <1>7, <1>8, <1>9 DEF RoomTables, Knows

\* Activating it: its name is still free, and nobody is in it.
LEMMA OpenKeeps ==
  ASSUME IInv, MInv, NEW a \in Agents, CreateOpen(a)
  PROVE  RoomTables' /\ Knows(a)'
<1> DEFINE s == job[a].room
<1>0. /\ pc \in [Agents -> Steps] /\ job \in [Agents -> Job] /\ rooms \in [RoomIds -> Room]
      /\ lost \in [RoomIds -> Nat] /\ JobMatchesStep(a) /\ CreateFits(a)
      /\ Counted /\ ClosedEmpty /\ UniqueRoomNames /\ AgentStep(a) /\ Alone(a)
  BY Known, StepAlone DEF AgentStep
<1>1. /\ pc[a] = "create_open" /\ pc'[a] = "done" /\ UNCHANGED <<clients, job, lost>>
      /\ s \in RoomIds /\ ~rooms[s].is_active /\ RoomsNamed(job[a].name) = {}
      /\ rooms[s].client_count = 0 /\ lost[s] = 0 /\ rooms[s].room_name = job[a].name
  BY <1>0 DEF CreateOpen, Goto, JobMatchesStep, RoomKnown, CreateFits
<1>2. /\ \A r \in RoomIds \ {s} : rooms'[r] = rooms[r]
      /\ rooms'[s].client_count = 0 /\ rooms'[s].room_name = job[a].name
  BY <1>0, <1>1 DEF CreateOpen, Room
<1>3. /\ \A r : Members(r)' = Members(r)
      /\ \A r : Uncounted(r)' <=> Uncounted(r)
      /\ ~Uncounted(s)
  <2>1. ~Uncounted(s)
    BY <1>1, Known DEF Uncounted, CountHeld
  <2> QED
    BY <1>0, <1>1, <2>1, UncountedKept DEF Members
<1> HIDE DEF s
<1>4. Members(s) = {} /\ Cardinality(Members(s)) = 0
  BY <1>0, <1>1, FS_EmptySet DEF ClosedEmpty
<1>5. Counted'
  <2> SUFFICES ASSUME NEW r \in RoomIds, rooms'[r].is_active
               PROVE  rooms'[r].client_count + (IF Uncounted(r)' THEN 1 ELSE 0)
                        = Cardinality(Members(r)') + lost'[r]
    BY DEF Counted
  <2>1. CASE r = s
    BY <1>1, <1>2, <1>3, <1>4, <2>1
  <2>2. CASE r # s
    BY <1>0, <1>1, <1>2, <1>3, <2>2 DEF Counted
  <2> QED
    BY <2>1, <2>2
<1>6. ClosedEmpty'
  BY <1>0, <1>2, <1>3, <1>4 DEF ClosedEmpty
<1>7. UniqueRoomNames'
  <2>1. ActiveRooms' \subseteq ActiveRooms \cup {s}
    BY <1>2 DEF ActiveRooms
  <2>2. \A r \in ActiveRooms : r # s /\ rooms'[r] = rooms[r] /\ rooms[r].room_name # job[a].name
    BY <1>1, <1>2 DEF RoomsNamed, ActiveRooms
  <2> QED
    BY <1>0, <1>2, <2>1, <2>2 DEF UniqueRoomNames
<1>8. Knows(a)'
  BY <1>0, <1>1, StaysEntitled, KnowsLittle
<1> QED
  BY <1>5, <1>6, <1>7, <1>8 DEF RoomTables

\* Taking a seat in a room that is open: the count is one behind.
LEMMA SeatKeepsTables ==
  ASSUME IInv, MInv, NEW a \in Agents, JoinSeat(a)
  PROVE  RoomTables' /\ Knows(a)'
<1> DEFINE s == job[a].room
           c == job[a].client
<1>0. /\ pc \in [Agents -> Steps] /\ job \in [Agents -> Job] /\ rooms \in [RoomIds -> Room]
      /\ clients \in [Clients -> Client] /\ lost \in [RoomIds -> Nat]
      /\ JobMatchesStep(a) /\ SeatFits(a) /\ CountHeld(a)
      /\ Counted /\ ClosedEmpty /\ UniqueRoomNames /\ AgentStep(a) /\ Alone(a)
  BY Known, StepAlone DEF AgentStep
<1>1. /\ pc[a] = "join_seat" /\ pc'[a] = "join_count" /\ UNCHANGED <<rooms, lost>>
      /\ s \in RoomIds /\ c \in Clients /\ rooms[s].is_active
      /\ clients[c].is_active /\ clients[c].state = "CONNECTED"
  BY <1>0 DEF JoinSeat, Goto, JobMatchesStep, RoomKnown, SeatFits, CountHeld, JoinBegun
<1>2. /\ job'[a].room = s /\ job'[a].client = c /\ job'[a].count = rooms[s].client_count
  BY RememberKeeps DEF JoinSeat
<1>3. /\ \A d \in Clients : d # c => clients'[d] = clients[d]
      /\ clients'[c].is_active /\ clients'[c].state = "IN_ROOM"
      /\ clients'[c].current_room_id = s
  BY <1>0, <1>1 DEF JoinSeat, Client
<1>4. \A r : ~Uncounted(r) /\ (Uncounted(r)' <=> r = s)
  <2>1. \A r : ~Uncounted(r)
    BY <1>1, UncountedByHolder DEF RoomSteps
  <2> QED
    BY <1>0, <1>1, <1>2, <2>1 DEF Uncounted, Alone
<1>5. Entitled(a)'
  BY <1>0, <1>1, StaysEntitled
<1> HIDE DEF s, c
<1>6. \A r : /\ Members(r)' = IF r = s THEN Members(r) \cup {c} ELSE Members(r)
             /\ Cardinality(Members(r)') = IF r = s THEN Cardinality(Members(r)) + 1
                                           ELSE Cardinality(Members(r))
  BY <1>1, <1>3, SeatTaken
<1>7. Counted'
  BY <1>0, <1>1, <1>4, <1>6, MembersFinite DEF Counted, Room
<1>8. ClosedEmpty' /\ UniqueRoomNames'
  BY <1>0, <1>1, <1>6 DEF ClosedEmpty, UniqueRoomNames, ActiveRooms
<1>9. SeatFits(a)'
  <2>1. \A r : c \notin Members(r)
    BY <1>1 DEF Members
  <2> QED
    BY <1>1, <1>2, <1>6, <2>1 DEF SeatFits, JoinBegun, LeaveBegun, SeatKnown, Sits
<1>10. KindKnown(a)' /\ CreateFits(a)' /\ CountHeld(a)'
  BY <1>1, <1>2 DEF KindKnown, CreateFits, CountHeld, CreateSteps, DepartSteps
<1> QED
  BY <1>5, <1>7, <1>8, <1>9, <1>10 DEF RoomTables, Knows

\* Counting the client that has taken its seat.
LEMMA CountKeepsTables ==
  ASSUME IInv, MInv, NEW a \in Agents, JoinCount(a)
  PROVE  RoomTables' /\ Knows(a)'
<1> DEFINE s == job[a].room
<1>0. /\ pc \in [Agents -> Steps] /\ job \in [Agents -> Job] /\ rooms \in [RoomIds -> Room]
      /\ lost \in [RoomIds -> Nat] /\ JobMatchesStep(a) /\ CountHeld(a)
      /\ Counted /\ ClosedEmpty /\ UniqueRoomNames /\ AgentStep(a) /\ Alone(a)
  BY Known, StepAlone DEF AgentStep
<1>1. /\ pc[a] = "join_count" /\ pc'[a] = "done" /\ UNCHANGED <<clients, job, lost>>
      /\ s \in RoomIds /\ rooms[s].is_active /\ job[a].count = rooms[s].client_count
      /\ rooms' = [rooms EXCEPT ![s].client_count = job[a].count + 1]
  BY <1>0 DEF JoinCount, Goto, JobMatchesStep, RoomKnown, CountHeld
<1>2. /\ \A r \in RoomIds \ {s} : rooms'[r] = rooms[r]
      /\ rooms'[s].client_count = rooms[s].client_count + 1
      /\ rooms'[s].is_active /\ rooms'[s].room_name = rooms[s].room_name
  <2> DEFINE n == job[a].count + 1
  <2>1. rooms' = [rooms EXCEPT ![s].client_count = n] /\ n = rooms[s].client_count + 1
    BY <1>1
  <2> HIDE DEF n, s
  <2> QED
    BY <1>0, <1>1, <2>1 DEF Room
<1>3. \A r : (Uncounted(r) <=> r = s) /\ ~Uncounted(r)'
  <2>1. \A r : Uncounted(r) <=> r = s
    BY <1>1, UncountedByHolder DEF RoomSteps
  <2>2. \A b \in Agents : b # a => pc[b] # "join_count"
    BY <1>1, Holding, OneHolder DEF RoomSteps
  <2> QED
    BY <1>0, <1>1, <2>1, <2>2 DEF Uncounted, Alone
<1> HIDE DEF s
<1>4. \A r : Members(r)' = Members(r)
  BY <1>1 DEF Members
<1>5. Counted'
  BY <1>0, <1>1, <1>2, <1>3, <1>4, MembersFinite DEF Counted, Room
<1>6. ClosedEmpty' /\ UniqueRoomNames'
  <2>1. ActiveRooms' = ActiveRooms /\ \A r \in RoomIds : rooms'[r].room_name = rooms[r].room_name
    BY <1>1, <1>2 DEF ActiveRooms
  <2> QED
    BY <1>0, <1>1, <1>2, <1>4, <2>1 DEF ClosedEmpty, UniqueRoomNames, ActiveRooms
<1>7. Knows(a)'
  BY <1>0, <1>1, StaysEntitled, KnowsLittle
<1> QED
  BY <1>5, <1>6, <1>7 DEF RoomTables

\* Counting out a client that leaves: it gives up its seat in the same step.
LEMMA LeaveKeepsTables ==
  ASSUME IInv, MInv, NEW a \in Agents, DepartWrite(a)
  PROVE  RoomTables' /\ Knows(a)'
<1> DEFINE s == job[a].room
           c == job[a].client
<1>0. /\ pc \in [Agents -> Steps] /\ job \in [Agents -> Job] /\ rooms \in [RoomIds -> Room]
      /\ clients \in [Clients -> Client] /\ lost \in [RoomIds -> Nat]
      /\ JobMatchesStep(a) /\ KindKnown(a) /\ SeatFits(a) /\ CountHeld(a)
      /\ Counted /\ ClosedEmpty /\ UniqueRoomNames /\ AgentStep(a) /\ Alone(a)
  BY Known, StepAlone DEF AgentStep
<1>1. /\ pc[a] = "depart_write" /\ pc'[a] = "depart_close" /\ UNCHANGED lost /\ Leaving(a)
      /\ s \in RoomIds /\ c \in Clients /\ rooms[s].is_active
      /\ job[a].count = rooms[s].client_count
      /\ \A r \in RoomIds : c \in Members(r) <=> r = s
  BY <1>0 DEF DepartWrite, Goto, JobMatchesStep, RoomKnown, KindKnown, DepartSteps, SeatFits,
              SeatKnown, Sits, CountHeld
<1>2. \A r : ~Uncounted(r) /\ ~Uncounted(r)'
  <2>1. \A r : ~Uncounted(r)
    BY <1>1, UncountedByHolder DEF DepartSteps
  <2> QED
    BY <1>0, <1>1, <2>1, UncountedKept
<1>3. /\ rooms[s].client_count = Cardinality(Members(s)) + lost[s]
      /\ Cardinality(Members(s)) > 0
  <2>1. Cardinality(Members(s)) # 0
    BY <1>1, MembersFinite, FS_EmptySet
  <2>2. rooms[s].client_count \in Nat /\ lost[s] \in Nat /\ Cardinality(Members(s)) \in Nat
    BY <1>0, <1>1, MembersFinite DEF Room
  <2>3. rooms[s].client_count + 0 = Cardinality(Members(s)) + lost[s]
    BY <1>0, <1>1, <1>2 DEF Counted
  <2> QED
    BY <2>1, <2>2, <2>3
<1>4. job[a].count > 0
  BY <1>0, <1>1, <1>3, MembersFinite
<1>5. /\ \A r \in RoomIds \ {s} : rooms'[r] = rooms[r]
      /\ rooms'[s].client_count = rooms[s].client_count - 1
      /\ rooms'[s].is_active /\ rooms'[s].room_name = rooms[s].room_name
      /\ job'[a].room = s /\ job'[a].client = c /\ job'[a].kind = job[a].kind
      /\ job'[a].count = rooms[s].client_count - 1
  <2> DEFINE n == job[a].count - 1
  <2>1. /\ rooms' = [rooms EXCEPT ![s].client_count = n] /\ n = rooms[s].client_count - 1
        /\ Remember(a, s, n)
    BY <1>1, <1>4 DEF DepartWrite
  <2> HIDE DEF n, s, c
  <2>2. job'[a].room = s /\ job'[a].count = n /\ job'[a].client = c /\ job'[a].kind = job[a].kind
    BY <2>1, RememberKeeps DEF c
  <2> QED
    BY <1>0, <1>1, <2>1, <2>2 DEF Room
<1>6. /\ \A d \in Clients : d # c => clients'[d] = clients[d]
      /\ clients'[c].state = "CONNECTED"
  BY <1>0, <1>1 DEF DepartWrite, LeaveSeat, Client
<1>7. Entitled(a)'
  BY <1>0, <1>1, StaysEntitled
<1> HIDE DEF s, c
<1>8. \A r : /\ Members(r)' = Members(r) \ {c}
             /\ Cardinality(Members(r)') =
                  IF c \in Members(r) THEN Cardinality(Members(r)) - 1
                  ELSE Cardinality(Members(r))
  BY <1>1, <1>6, SeatGivenUp
<1>9. Counted'
  <2> SUFFICES ASSUME NEW r \in RoomIds, rooms'[r].is_active
               PROVE  rooms'[r].client_count + 0 = Cardinality(Members(r)') + lost'[r]
    BY <1>2 DEF Counted
  <2>1. lost[r] \in Nat /\ Cardinality(Members(r)) \in Nat
    BY <1>0, MembersFinite
  <2>2. CASE r = s
    BY <1>1, <1>3, <1>5, <1>8, <2>1, <2>2
  <2>3. CASE r # s
    BY <1>0, <1>1, <1>2, <1>5, <1>8, <2>3 DEF Counted
  <2> QED
    BY <2>2, <2>3
<1>10. ClosedEmpty' /\ UniqueRoomNames'
  <2>1. ActiveRooms' = ActiveRooms /\ \A r \in RoomIds : rooms'[r].room_name = rooms[r].room_name
    BY <1>1, <1>5 DEF ActiveRooms
  <2> QED
    BY <1>0, <1>8, <2>1 DEF ClosedEmpty, UniqueRoomNames, ActiveRooms
<1>11. KindKnown(a)' /\ CreateFits(a)' /\ SeatFits(a)' /\ CountHeld(a)'
  BY <1>1, <1>5
  DEF KindKnown, CreateFits, SeatFits, CountHeld, CreateSteps, DepartSteps, JoinBegun,
      LeaveBegun, SeatKnown, Leaving
<1> QED
  BY <1>7, <1>9, <1>10, <1>11 DEF RoomTables, Knows

\* The room is closed behind the last member: it is empty when its count has
\* come to 0, since the holder of room_mutex has seated nobody.
LEMMA EmptyAtZero ==
  ASSUME IInv, MInv, NEW a \in Agents, pc[a] = "depart_close",
         rooms[job[a].room].client_count = 0
  PROVE  Members(job[a].room) = {}
<1> DEFINE s == job[a].room
<1>0. /\ lost \in [RoomIds -> Nat] /\ s \in RoomIds /\ rooms[s].is_active /\ Counted
  BY Known DEF JobMatchesStep, RoomKnown, CountHeld
<1>1. ~Uncounted(s)
  BY UncountedByHolder DEF DepartSteps
<1>2. rooms[s].client_count = 0
  OBVIOUS
<1> HIDE DEF s
<1>3. 0 + 0 = Cardinality(Members(s)) + lost[s]
  BY <1>0, <1>1, <1>2 DEF Counted
<1>4. Cardinality(Members(s)) = 0
  BY <1>0, <1>3, MembersFinite
<1> QED
  BY <1>4, MembersFinite, FS_EmptySet DEF s

LEMMA CloseKeepsTables ==
  ASSUME IInv, MInv, NEW a \in Agents, DepartClose(a)
  PROVE  RoomTables' /\ Knows(a)'
<1> DEFINE s == job[a].room
<1>0. /\ pc \in [Agents -> Steps] /\ job \in [Agents -> Job] /\ rooms \in [RoomIds -> Room]
      /\ JobMatchesStep(a) /\ KindKnown(a) /\ CountHeld(a)
      /\ Counted /\ ClosedEmpty /\ UniqueRoomNames /\ AgentStep(a) /\ Alone(a)
  BY Known, StepAlone DEF AgentStep
<1>1. /\ pc[a] = "depart_close" /\ pc'[a] = "done" /\ UNCHANGED <<lost, clients, job>>
      /\ s \in RoomIds /\ rooms[s].is_active /\ job[a].count = rooms[s].client_count
  BY <1>0 DEF DepartClose, EndDeparture, Goto, JobMatchesStep, RoomKnown, KindKnown, DepartSteps,
              CountHeld
<1>2. /\ \A r \in RoomIds \ {s} : rooms'[r] = rooms[r]
      /\ rooms'[s].client_count = rooms[s].client_count
      /\ rooms'[s].room_name = rooms[s].room_name
      /\ rooms'[s].is_active <=> rooms[s].client_count # 0
  <2>1. PICK open \in BOOLEAN : /\ rooms' = [rooms EXCEPT ![s].is_active = open]
                                /\ open <=> rooms[s].client_count # 0
    BY <1>0, <1>1 DEF DepartClose
  <2> HIDE DEF s
  <2> QED
    BY <1>0, <1>1, <2>1 DEF Room
<1>3. /\ \A r : Members(r)' = Members(r)
      /\ \A r : Uncounted(r)' <=> Uncounted(r)
  BY <1>0, <1>1, UncountedKept DEF Members
<1>4. rooms[s].client_count = 0 => Members(s) = {}
  BY <1>1, EmptyAtZero
<1> HIDE DEF s
<1>5. Counted'
  BY <1>0, <1>1, <1>2, <1>3 DEF Counted
<1>6. ClosedEmpty'
  BY <1>0, <1>1, <1>2, <1>3, <1>4 DEF ClosedEmpty
<1>7. UniqueRoomNames'
  <2>1. /\ ActiveRooms' \subseteq ActiveRooms
        /\ \A r \in RoomIds : rooms'[r].room_name = rooms[r].room_name
    BY <1>1, <1>2 DEF ActiveRooms
  <2> QED
    BY <1>0, <2>1 DEF UniqueRoomNames, ActiveRooms
<1>8. Knows(a)'
  BY <1>0, <1>1, StaysEntitled, KnowsLittle
<1> QED
  BY <1>5, <1>6, <1>7, <1>8 DEF RoomTables

\* A client that is dropped without having left stays in the count, and in lost.
LEMMA DropKeepsTables ==
  ASSUME RoomsLocked, IInv, MInv, NEW a \in Agents, Drop(a)
  PROVE  RoomTables' /\ Knows(a)'
<1> DEFINE c == job[a].client
<1>0. /\ pc \in [Agents -> Steps] /\ job \in [Agents -> Job] /\ rooms \in [RoomIds -> Room]
      /\ clients \in [Clients -> Client] /\ lost \in [RoomIds -> Nat] /\ JobMatchesStep(a)
      /\ Counted /\ ClosedEmpty /\ UniqueRoomNames /\ AgentStep(a) /\ Alone(a)
  BY Known, StepAlone DEF AgentStep
<1>1. /\ pc[a] = "drop" /\ pc'[a] = "done" /\ UNCHANGED <<rooms, job>> /\ c \in Clients
      /\ Zero(c)
  BY <1>0, NobodySweeps DEF Drop, Goto, JobMatchesStep
<1>2. /\ \A d \in Clients : d # c => clients'[d] = clients[d]
      /\ ~(clients'[c].is_active /\ clients'[c].state = "IN_ROOM")
      /\ \A r \in RoomIds : lost'[r] = IF c \in Members(r) THEN lost[r] + 1 ELSE lost[r]
  BY <1>0, <1>1 DEF Zero, Gone
<1>3. \A r : Uncounted(r)' <=> Uncounted(r)
  BY <1>0, <1>1, UncountedKept
<1>4. Knows(a)'
  BY <1>0, <1>1, StaysEntitled, KnowsLittle
<1> HIDE DEF c
<1>5. \A r : /\ Members(r)' = Members(r) \ {c}
             /\ Cardinality(Members(r)') =
                  IF c \in Members(r) THEN Cardinality(Members(r)) - 1
                  ELSE Cardinality(Members(r))
  BY <1>1, <1>2, SeatGivenUp
<1>6. Counted'
  <2> SUFFICES ASSUME NEW r \in RoomIds, rooms[r].is_active
               PROVE  rooms[r].client_count + (IF Uncounted(r) THEN 1 ELSE 0)
                        = Cardinality(Members(r)') + lost'[r]
    BY <1>1, <1>3 DEF Counted
  <2>1. /\ rooms[r].client_count + (IF Uncounted(r) THEN 1 ELSE 0)
              = Cardinality(Members(r)) + lost[r]
        /\ lost[r] \in Nat /\ Cardinality(Members(r)) \in Nat
    BY <1>0, MembersFinite DEF Counted
  <2>2. CASE c \in Members(r)
    BY <1>2, <1>5, <2>1, <2>2
  <2>3. CASE c \notin Members(r)
    BY <1>2, <1>5, <2>1, <2>3
  <2> QED
    BY <2>2, <2>3
<1>7. ClosedEmpty' /\ UniqueRoomNames'
  BY <1>0, <1>1, <1>5 DEF ClosedEmpty, UniqueRoomNames, ActiveRooms
<1> QED
  BY <1>4, <1>6, <1>7 DEF RoomTables

\* No agent works for a client that arrives.
LEMMA ArriveAlone ==
  ASSUME IInv, MInv, NEW c \in Clients, Arrive(c), NEW b \in Agents,
         pc[b] \notin {"idle", "locked"}
  PROVE  job[b].client # c
<1>1. job[b].client \in Serves(b) /\ pc[Main] = "idle" /\ (c \in Threaded => pc[c] = "idle")
  BY Known DEF Entitled, Arrive
<1> QED
  BY <1>1 DEF Serves

LEMMA ArriveKeepsTables ==
  ASSUME IInv, MInv, NEW c \in Clients, Arrive(c) PROVE MInv'
<1>0. /\ clients \in [Clients -> Client] /\ UNCHANGED <<rooms, pc, job, lost>>
      /\ ~clients[c].is_active /\ MInv
  BY Types DEF Arrive, IInv
<1>1. clients'[c].state = "CONNECTED" /\ \A d \in Clients : d # c => clients'[d] = clients[d]
  BY <1>0 DEF Arrive
<1>2. \A r : Members(r)' = Members(r)
  BY <1>0, <1>1 DEF Members
<1>3. RoomTables'
  BY <1>0, <1>2 DEF MInv, RoomTables, Counted, ClosedEmpty, UniqueRoomNames, ActiveRooms, Uncounted
<1>4. ASSUME NEW b \in Agents PROVE Knows(b)'
  <2>0. JobMatchesStep(b) /\ Entitled(b) /\ KindKnown(b) /\ CreateFits(b) /\ SeatFits(b) /\ CountHeld(b)
    BY Known
  <2>1. Entitled(b)' /\ KindKnown(b)' /\ CountHeld(b)'
    BY <1>0, <2>0 DEF Entitled, KindKnown, CountHeld, Leaving, Serves, May
  <2>2. CreateFits(b)'
    BY <1>0, <2>0 DEF CreateFits, RoomsNamed, ActiveRooms
  <2>3. SeatFits(b)'
    <3>1. CASE pc[b] \in {"idle", "locked"}
      BY <1>0, <3>1 DEF SeatFits, JoinBegun, LeaveBegun, SeatKnown
    <3>2. CASE pc[b] \notin {"idle", "locked"}
      <4>1. job[b].client \in Clients /\ job[b].client # c
        BY <2>0, <3>2, ArriveAlone DEF JobMatchesStep
      <4>2. clients'[job[b].client] = clients[job[b].client]
        BY <1>1, <4>1
      <4> QED
        BY <1>0, <1>2, <2>0, <4>2 DEF SeatFits, JoinBegun, LeaveBegun, SeatKnown, Sits, Leaving
    <3> QED
      BY <3>1, <3>2
  <2> QED
    BY <2>1, <2>2, <2>3 DEF Knows
<1> QED
  BY <1>3, <1>4 DEF MInv

-----------------------------------------------------------------------------
(* Every step keeps the invariant.                                         *)

\* An agent that gets no request.
LEMMA StepKeepsTables ==
  ASSUME RoomsLocked, IInv, SeatsHaveRooms, MInv, NEW a \in Agents, LockClients(a) \/ Handle(a)
  PROVE  RoomTables' /\ Knows(a)'
<1>1. AgentStep(a) /\ Alone(a)
  BY StepAlone DEF AgentStep, Handle
<1>2. CASE \/ LockClients(a) \/ Finish(a) \/ CreateName(a) \/ RoomLock(a) \/ ChatSend(a)
           \/ ClientLock(a) \/ PrivateSend(a) \/ ListSize(a) \/ ListFill(a)
           \/ CreateFind(a) \/ JoinFind(a) \/ DepartRead(a)
  <2>0. pc \in [Agents -> Steps] /\ JobMatchesStep(a)
    BY Known
  <2>1. pc[a] # "join_count" /\ pc'[a] # "join_count"
    BY <1>2, <2>0 DEF LockClients, Finish, CreateName, RoomLock, ChatSend, ClientLock, PrivateSend,
       ListSize, ListFill, CreateFind, JoinFind, DepartRead, Goto, JobMatchesStep
  <2>2. Knows(a)' /\ UNCHANGED <<clients, rooms, lost>>
    BY <1>1, <1>2, LookingKnows, FindingKnows
  <2> QED
    BY <1>1, <2>1, <2>2, LookingKeeps
<1>3. CASE DepartFind(a)
  <2>1. /\ Knows(a)' /\ UNCHANGED <<clients, rooms, lost>>
        /\ pc[a] # "join_count" /\ pc'[a] # "join_count"
    BY <1>3, DepartFindKnows
  <2> QED
    BY <1>1, <2>1, LookingKeeps
<1>4. CASE CreateFill(a) \/ CreateOpen(a) \/ JoinSeat(a) \/ JoinCount(a)
  BY <1>4, FillKeeps, OpenKeeps, SeatKeepsTables, CountKeepsTables
<1>5. CASE DepartWrite(a) \/ DepartClose(a) \/ Drop(a)
  BY <1>5, LeaveKeepsTables, CloseKeepsTables, DropKeepsTables
<1> QED
  BY <1>2, <1>3, <1>4, <1>5 DEF Handle

\* An agent that gets one.
LEMMA RequestKeepsTables ==
  ASSUME RoomsLocked, IInv, MInv, NEW a \in Agents, Request(a)
  PROVE  AgentStep(a) /\ RoomTables' /\ Knows(a)'
<1>1. PICK c \in Clients, k \in Kinds :
        Received(a, c, k) /\ c \in Serves(a) /\ k \in May(a) \ {"timeout"}
  BY RequestEntitled
<1>2. AgentStep(a) /\ Alone(a)
  BY <1>1, StepAlone DEF AgentStep
<1>3. /\ UNCHANGED <<clients, rooms, lost>> /\ pc \in [Agents -> Steps]
      /\ pc[a] # "join_count" /\ pc'[a] # "join_count"
  BY <1>1, Known, FirstStepIn DEF Received
<1> QED
  BY <1>1, <1>2, <1>3, ReceiveKnows, LookingKeeps

\* The whole invariant: that of the mutexes, what every agent knows, and what
\* it has checked.
LInv == IInv /\ MInv /\ SInv

\* What an agent has checked stays checked when another one makes a step.
LEMMA OthersChecked ==
  ASSUME RoomsLocked, LInv, NEW a \in Agents, AgentStep(a), NEW b \in Agents, b # a
  PROVE  Idle(b)' /\ Checked(b)'
<1>0. /\ IInv /\ MInv /\ Idle(b) /\ Checked(b)
      /\ rooms \in [RoomIds -> Room] /\ JobMatchesStep(b) /\ CreateFits(b) /\ CountHeld(b)
      /\ Entitled(b)
  BY Known DEF LInv, SInv
<1>1. Spares(a) /\ pc'[b] = pc[b] /\ job'[b] = job[b]
  BY <1>0, StepSpares, StepAlone DEF Alone
<1>2. Idle(b)'
  BY <1>0, <1>1 DEF Idle
<1>3. CASE pc[b] = "create_open"
  <2>1. pc[a] \notin CreateSteps
    BY <1>0, <1>3, OneCreator DEF CreateSteps
  <2>2. rooms'[job[b].room] = rooms[job[b].room]
    BY <1>0, <1>1, <1>3, <2>1 DEF Spares, CreateFits, JobMatchesStep, RoomKnown
  <2> QED
    BY <1>0, <1>1, <1>2, <1>3, <2>2 DEF Checked
<1>4. CASE pc[b] = "join_seat"
  <2>1. ~HoldsRoomMutex(a)
    BY <1>0, <1>4, Holding, OneHolder DEF RoomSteps
  <2>2. rooms'[job[b].room] = rooms[job[b].room]
    BY <1>0, <1>1, <1>4, <2>1 DEF Spares, CountHeld, JobMatchesStep, RoomKnown
  <2> QED
    BY <1>0, <1>1, <1>2, <1>4, <2>2 DEF Checked
<1>5. CASE pc[b] = "depart_close"
  <2>1. job[b].client \in Clients /\ job[b].client \in Serves(b)
    BY <1>0, <1>5 DEF JobMatchesStep, Entitled
  <2>2. clients'[job[b].client] = clients[job[b].client]
    BY <1>1, <2>1, ServesApart DEF Spares
  <2> QED
    BY <1>0, <1>1, <1>2, <1>5, <2>2 DEF Checked, Leaving
<1>6. CASE pc[b] \notin {"create_open", "join_seat", "depart_close"}
  BY <1>0, <1>1, <1>2, <1>6 DEF Checked
<1> QED
  BY <1>3, <1>4, <1>5, <1>6

\* So an agent's step keeps all of it.
LEMMA AgentKeepsAll ==
  ASSUME RoomsLocked, LInv, NEW a \in Agents, LockClients(a) \/ Request(a) \/ Handle(a)
  PROVE  AgentStep(a) /\ MInv' /\ SInv'
<1>0. IInv /\ MInv /\ SeatsHaveRooms /\ Idle(a) /\ Checked(a)
  BY DEF LInv, SInv
<1>1. AgentStep(a) /\ RoomTables' /\ Knows(a)'
  BY <1>0, StepKeepsTables, RequestKeepsTables DEF AgentStep, Handle
<1>2. \A b \in Agents : b # a => Knows(b)' /\ Idle(b)' /\ Checked(b)'
  BY <1>0, <1>1, OthersKnow, OthersChecked
<1>3. SeatsHaveRooms' /\ Idle(a)' /\ Checked(a)'
  BY <1>0, <1>1, SeatsStep, IdleStep, CheckedStep
<1> QED
  BY <1>1, <1>2, <1>3 DEF MInv, SInv

\* The invariant holds when the server starts.
LEMMA InitLInv == Init => LInv
<1> SUFFICES ASSUME Init PROVE LInv
  OBVIOUS
<1>1. IInv /\ SInv
  BY InitRInv DEF RInv
<1>2. RoomTables
  BY DEF Init, RoomTables, Counted, ClosedEmpty, UniqueRoomNames, ActiveRooms, Members, Gone
<1>3. ASSUME NEW a \in Agents PROVE Knows(a)
  BY DEF Init, Knows, Entitled, KindKnown, CreateFits, SeatFits, CountHeld, JoinBegun, LeaveBegun,
         SeatKnown, CreateSteps, DepartSteps
<1> QED
  BY <1>1, <1>2, <1>3 DEF LInv, MInv

\* A step is an arrival or a step of an agent: nobody sweeps.
LEMMA LockedCases ==
  ASSUME RoomsLocked, LInv, Next
  PROVE  \/ \E c \in Clients : Arrive(c)
         \/ \E a \in Agents : LockClients(a) \/ Request(a) \/ Handle(a)
<1>1. ~SweepDrop /\ \A c : ~SweepFind(c)
  BY NobodySweeps DEF LInv
<1> QED
  BY <1>1 DEF Next

\* Every step keeps the invariant.
LEMMA NextLInv == RoomsLocked /\ LInv /\ [Next]_vars => LInv'
<1> SUFFICES ASSUME RoomsLocked, LInv, [Next]_vars PROVE LInv'
  OBVIOUS
<1>0. IInv /\ MInv /\ SInv
  BY DEF LInv
<1>1. IInv'
  BY <1>0, NextIInv
<1>2. CASE Next
  <2>1. ASSUME NEW c \in Clients, Arrive(c) PROVE MInv' /\ SInv'
    BY <1>0, <2>1, ArriveKeepsTables, ArriveKeepsSeats
  <2>2. MInv' /\ SInv'
    BY <1>2, <2>1, LockedCases, AgentKeepsAll
  <2> QED
    BY <1>1, <2>2 DEF LInv
<1>3. CASE UNCHANGED vars
  <2>1. SInv'
    BY <1>0, <1>3 DEF vars, SInv, SeatsHaveRooms, Idle, Checked, Leaving
  <2>2. RoomTables'
    BY <1>0, <1>3 DEF vars, MInv, RoomTables, Counted, ClosedEmpty, UniqueRoomNames, ActiveRooms,
                      Members, Uncounted
  <2>3. ASSUME NEW a \in Agents PROVE Knows(a)'
    <3>1. /\ UNCHANGED <<clients, rooms, pc, job, lost>> /\ Knows(a)
          /\ \A r : Members(r)' = Members(r)
          /\ \A n : RoomsNamed(n)' = RoomsNamed(n)
      BY <1>0, <1>3, SameTables DEF vars, MInv
    <3>2. Entitled(a)' /\ KindKnown(a)' /\ CountHeld(a)' /\ CreateFits(a)'
      BY <3>1 DEF Knows, Entitled, KindKnown, CountHeld, CreateFits, Leaving, Serves, May
    <3>3. SeatFits(a)'
      BY <3>1 DEF Knows, SeatFits, JoinBegun, LeaveBegun, SeatKnown, Sits, Leaving
    <3> QED
      BY <3>2, <3>3 DEF Knows
  <2> QED
    BY <1>1, <2>1, <2>2, <2>3 DEF LInv, MInv
<1> QED
  BY <1>2, <1>3

\* With any number of handlers at once, in whatever order the threads and the
\* main thread come.
THEOREM LockedInvariant == RoomsLocked => (Spec => []LInv)
<1> SUFFICES ASSUME RoomsLocked PROVE Spec => []LInv
  OBVIOUS
<1>1. LInv /\ [Next]_vars => LInv'
  BY NextLInv
<1> QED
  BY <1>1, InitLInv, PTL DEF Spec

\* No increment or decrement of a count is lost: room_mutex is around every
\* read and write of it.
THEOREM CountHeldIsExact == RoomsLocked => (Spec => []CountExact)
<1> SUFFICES ASSUME RoomsLocked PROVE Spec => []CountExact
  OBVIOUS
<1>1. Spec => []LInv
  BY LockedInvariant
<1>2. LInv => CountExact
  <2> SUFFICES ASSUME LInv, NEW r \in RoomIds, rooms[r].is_active, Settled(r)
               PROVE  rooms[r].client_count = Cardinality(Members(r)) + lost[r]
    BY DEF CountExact
  <2>1. ~Uncounted(r)
    BY DEF Uncounted, Settled
  <2>2. /\ rooms[r].client_count \in Nat
        /\ rooms[r].client_count + 0 = Cardinality(Members(r)) + lost[r]
    BY <2>1, Types DEF LInv, MInv, IInv, RoomTables, Counted, Room
  <2> QED
    BY <2>2
<1> QED
  BY <1>1, <1>2, PTL

\* No two rooms get one name, although the name is looked up and the room
\* activated in separate steps and nothing is locked: no two agents that
\* create rooms are ever in between.
THEOREM NamesHeldApart == RoomsLocked => (Spec => []UniqueRoomNames)
<1> SUFFICES ASSUME RoomsLocked PROVE Spec => []UniqueRoomNames
  OBVIOUS
<1>1. Spec => []LInv
  BY LockedInvariant
<1>2. LInv => UniqueRoomNames
  BY DEF LInv, MInv, RoomTables
<1> QED
  BY <1>1, <1>2, PTL

-----------------------------------------------------------------------------
(* The abstract rooms.                                                     *)

\* Where client c sits according to its slot.
SlotSeat(c) ==
  IF clients[c].is_active /\ clients[c].state = "IN_ROOM" THEN clients[c].current_room_id ELSE 0

\* Agent a has counted client c out of its room and not yet looked whether to
\* close it.
Closing(a, c) == pc[a] = "depart_close" /\ job[a].client = c

\* A client sits where its slot says, or in the room it is just leaving.
SeatsShown ==
  \A c \in Clients :
    /\ \A a \in Agents : Closing(a, c) => Seat[c] = job[a].room
    /\ (\A a \in Agents : ~Closing(a, c)) => Seat[c] = SlotSeat(c)

\* No two agents work for one client.
LEMMA OneWorker ==
  ASSUME LInv, NEW a \in Agents, NEW b \in Agents, job[a].client \in Clients,
         job[a].client = job[b].client
  PROVE  a = b
<1>1. NoAgent \notin Clients
  BY ThreadsAssumption
<1>2. \A d \in Agents : job[d].client \in Clients => job[d].client \in Serves(d)
  BY <1>1, Known DEF LInv, SInv, Idle, Entitled
<1> QED
  BY <1>2, ServesApart

\* So the choice of an agent in Seat is none.
LEMMA ShowSeats ==
  ASSUME RoomsLocked, LInv PROVE SeatsShown
<1> SUFFICES ASSUME NEW c \in Clients
             PROVE  /\ \A a \in Agents : Closing(a, c) => Seat[c] = job[a].room
                    /\ (\A a \in Agents : ~Closing(a, c)) => Seat[c] = SlotSeat(c)
  BY DEF SeatsShown
<1>1. ASSUME NEW a \in Agents, Closing(a, c) PROVE Seat[c] = job[a].room
  <2>1. job[a].client = c /\ pc[a] = "depart_close" /\ Leaving(a)
    BY <1>1, Known DEF LInv, Closing, KindKnown, DepartSteps
  <2>2. \A b \in Agents : job[b].client = c => b = a
    BY <2>1, OneWorker
  <2>3. a = CHOOSE b \in Agents : job[b].client = c
    BY <2>1, <2>2
  <2> QED
    BY <2>1, <2>3 DEF Seat
<1>2. ASSUME \A a \in Agents : ~Closing(a, c) PROVE Seat[c] = SlotSeat(c)
  <2>1. \A a \in Agents : pc[a] = "drop" => job[a].kind # "disconnect"
    BY NobodySweeps DEF LInv
  <2> QED
    BY <1>2, <2>1 DEF Seat, SlotSeat, Closing
<1> QED
  BY <1>1, <1>2

\* What a step changes about the seats is what its agent changes.
LEMMA OtherSeats ==
  ASSUME SeatsShown, SeatsShown', NEW a \in Agents, Alone(a), NEW c \in Clients,
         SlotSeat(c)' = SlotSeat(c), Closing(a, c)' <=> Closing(a, c),
         Closing(a, c) => job'[a].room = job[a].room
  PROVE  Seat'[c] = Seat[c]
<1>1. \A b \in Agents : (Closing(b, c)' <=> Closing(b, c)) /\ (Closing(b, c) => job'[b].room = job[b].room)
  BY DEF Alone, Closing
<1>2. CASE \E b \in Agents : Closing(b, c)
  <2>1. PICK b \in Agents : Closing(b, c)
    BY <1>2
  <2>2. Seat[c] = job[b].room /\ Seat'[c] = job'[b].room
    BY <1>1, <2>1 DEF SeatsShown
  <2> QED
    BY <1>1, <2>1, <2>2
<1>3. CASE \A b \in Agents : ~Closing(b, c)
  BY <1>1, <1>3 DEF SeatsShown
<1> QED
  BY <1>2, <1>3

\* A step that neither writes to a client slot nor ends a departure changes
\* no seat.
LEMMA QuietSeats ==
  ASSUME SeatsShown, SeatsShown', NEW a \in Agents, Alone(a), UNCHANGED clients,
         pc[a] # "depart_close", pc'[a] # "depart_close"
  PROVE  Seat' = Seat
<1>1. ASSUME NEW c \in Clients PROVE Seat'[c] = Seat[c]
  BY OtherSeats DEF SlotSeat, Closing
<1> QED
  BY <1>1, SameSeats

\* While an agent has room_mutex nobody else is at the end of a departure.
LEMMA NobodyCloses ==
  ASSUME LInv, NEW a \in Agents, Alone(a), pc[a] \in RoomSteps \cup DepartSteps, NEW c
  PROVE  \A b \in Agents : b # a => ~Closing(b, c) /\ ~Closing(b, c)'
<1>1. \A b \in Agents : b # a => pc[b] # "depart_close"
  BY Holding, OneHolder DEF LInv, DepartSteps
<1> QED
  BY <1>1 DEF Closing, Alone

\* Taking a seat is entering: the count that was checked is the number of
\* members and of those dropped, so that there is a place left.
LEMMA SeatEnters ==
  ASSUME LInv, SeatsShown, SeatsShown', NEW a \in Agents, JoinSeat(a)
  PROVE  RoomsStep
<1>0. /\ pc \in [Agents -> Steps] /\ job \in [Agents -> Job] /\ rooms \in [RoomIds -> Room]
      /\ clients \in [Clients -> Client] /\ lost \in [RoomIds -> Nat] /\ 0 \notin RoomIds
      /\ JobMatchesStep(a) /\ SeatFits(a) /\ CountHeld(a) /\ Counted /\ Checked(a)
      /\ IInv /\ MInv /\ Alone(a)
  BY Known, StepAlone DEF AgentStep, LInv, SInv
<1>1. pc[a] = "join_seat" /\ pc'[a] = "join_count"
  BY <1>0 DEF JoinSeat, Goto
<1>2. PICK s \in RoomIds, c \in Clients : s = job[a].room /\ c = job[a].client
  BY <1>0, <1>1 DEF JobMatchesStep, RoomKnown
<1>3. /\ UNCHANGED rooms /\ rooms[s].is_active
      /\ clients[c].is_active /\ clients[c].state = "CONNECTED"
      /\ rooms[s].client_count < rooms[s].max_clients
  BY <1>0, <1>1, <1>2 DEF JoinSeat, SeatFits, CountHeld, JoinBegun, Checked
<1>4. /\ \A d \in Clients : d # c => clients'[d] = clients[d]
      /\ clients'[c].is_active /\ clients'[c].state = "IN_ROOM"
      /\ clients'[c].current_room_id = s
  BY <1>0, <1>2, <1>3 DEF JoinSeat, Client
<1>5. \A d \in Clients : Seat[d] = SlotSeat(d) /\ Seat'[d] = SlotSeat(d)'
  <2>1. \A d : \A b \in Agents : ~Closing(b, d) /\ ~Closing(b, d)'
    <3>1. \A d : \A b \in Agents : b # a => ~Closing(b, d) /\ ~Closing(b, d)'
      BY <1>0, <1>1, NobodyCloses DEF RoomSteps
    <3> QED
      BY <1>1, <3>1 DEF Closing
  <2> QED
    BY <2>1 DEF SeatsShown
<1>6. /\ Seat[c] = 0 /\ Seat'[c] = s
      /\ \A d \in Clients : d # c => Seat'[d] = Seat[d]
  BY <1>3, <1>4, <1>5 DEF SlotSeat
<1>7. \A d \in Clients : Seat[d] = s <=> d \in Members(s)
  BY <1>0, <1>5 DEF SlotSeat, Members
<1>8. Cardinality(Members(s)) < rooms[s].max_clients
  <2>1. ~Uncounted(s)
    BY <1>0, <1>1, UncountedByHolder DEF RoomSteps
  <2>2. rooms[s].client_count = Cardinality(Members(s)) + lost[s]
    BY <1>0, <1>3, <2>1 DEF Counted, Room
  <2> QED
    BY <1>0, <1>3, <2>2, PlaceLeft
<1> QED
  BY <1>3, <1>6, <1>7, <1>8, Enters

\* Counting a client out changes no seat: it keeps it until the room has been
\* looked at once more.
LEMMA LeaveStutters ==
  ASSUME RoomsLocked, LInv, SeatsShown, SeatsShown', NEW a \in Agents, DepartWrite(a)
  PROVE  Seat' = Seat
<1>0. /\ pc \in [Agents -> Steps] /\ job \in [Agents -> Job]
      /\ clients \in [Clients -> Client] /\ 0 \notin RoomIds
      /\ JobMatchesStep(a) /\ SeatFits(a) /\ KindKnown(a) /\ IInv /\ Alone(a)
  BY Known, StepAlone DEF AgentStep, LInv
<1>1. pc[a] = "depart_write" /\ pc'[a] = "depart_close" /\ LeaveSeat(a) /\ Leaving(a)
  BY <1>0 DEF DepartWrite, Goto, KindKnown, DepartSteps
<1>2. PICK s \in RoomIds, c \in Clients : s = job[a].room /\ c = job[a].client
  BY <1>0, <1>1 DEF JobMatchesStep, RoomKnown
<1>3. c \in Members(s) /\ job'[a].client = c /\ job'[a].room = s
  BY <1>0, <1>1, <1>2, RememberKeeps DEF DepartWrite, SeatFits, SeatKnown, Sits
<1>4. Seat[c] = s /\ Seat'[c] = s
  <2>1. \A b \in Agents : ~Closing(b, c)
    <3>1. \A b \in Agents : b # a => ~Closing(b, c)
      BY <1>0, <1>1, NobodyCloses DEF DepartSteps
    <3> QED
      BY <1>1, <3>1 DEF Closing
  <2>2. Closing(a, c)'
    BY <1>1, <1>3 DEF Closing
  <2>3. SlotSeat(c) = s
    BY <1>3 DEF SlotSeat, Members
  <2> QED
    BY <1>3, <2>1, <2>2, <2>3 DEF SeatsShown
<1>5. ASSUME NEW d \in Clients, d # c PROVE Seat'[d] = Seat[d]
  <2>1. clients'[d] = clients[d] /\ ~Closing(a, d) /\ ~Closing(a, d)'
    BY <1>0, <1>1, <1>2, <1>3, <1>5 DEF LeaveSeat, Closing
  <2> QED
    BY <1>0, <2>1, OtherSeats DEF SlotSeat
<1> QED
  BY <1>4, <1>5, SameSeats

\* Whoever leaves has gone when its room has been looked at once more, and
\* only an empty room is closed behind it.
LEMMA CloseExits ==
  ASSUME RoomsLocked, LInv, SeatsShown, SeatsShown', NEW a \in Agents, DepartClose(a)
  PROVE  RoomsStep
<1>0. /\ pc \in [Agents -> Steps] /\ job \in [Agents -> Job] /\ rooms \in [RoomIds -> Room]
      /\ JobMatchesStep(a) /\ KindKnown(a) /\ CountHeld(a) /\ Checked(a) /\ 0 \notin RoomIds
      /\ IInv /\ MInv /\ Alone(a)
  BY Known, StepAlone DEF AgentStep, LInv, SInv
<1>1. /\ pc[a] = "depart_close" /\ pc'[a] = "done" /\ UNCHANGED <<clients, job>> /\ Leaving(a)
  BY <1>0 DEF DepartClose, EndDeparture, Goto, KindKnown, DepartSteps
<1>2. PICK s \in RoomIds, c \in Clients : s = job[a].room /\ c = job[a].client
  BY <1>0, <1>1 DEF JobMatchesStep, RoomKnown
<1>3. /\ rooms[s].is_active /\ job[a].count = rooms[s].client_count
      /\ clients[c].state # "IN_ROOM"
  BY <1>0, <1>1, <1>2 DEF CountHeld, Checked
<1>4. \A d : \A b \in Agents : b # a => ~Closing(b, d) /\ ~Closing(b, d)'
  BY <1>0, <1>1, NobodyCloses DEF DepartSteps
<1>5. Seat[c] = s /\ Seat'[c] = 0
  <2>1. Closing(a, c) /\ \A b \in Agents : ~Closing(b, c)'
    BY <1>1, <1>2, <1>4 DEF Closing
  <2>2. Seat'[c] = SlotSeat(c)' /\ SlotSeat(c)' = 0
    BY <1>1, <1>3, <2>1 DEF SlotSeat, SeatsShown
  <2> QED
    BY <1>2, <2>1, <2>2 DEF SeatsShown
<1>6. \A d \in Clients : d # c => Seat[d] = SlotSeat(d) /\ Seat'[d] = Seat[d]
  <2>1. \A d \in Clients : d # c => \A b \in Agents : ~Closing(b, d) /\ ~Closing(b, d)'
    BY <1>1, <1>2, <1>4 DEF Closing
  <2>2. \A d \in Clients : SlotSeat(d)' = SlotSeat(d)
    BY <1>1 DEF SlotSeat
  <2> QED
    BY <2>1, <2>2 DEF SeatsShown
<1>7. \A r \in RoomIds :
        /\ rooms'[r].room_name = rooms[r].room_name
        /\ rooms'[r].max_clients = rooms[r].max_clients
        /\ rooms'[r].is_active <=> rooms[r].is_active /\ (r = s => rooms[s].client_count # 0)
  <2>1. PICK open \in BOOLEAN : /\ rooms' = [rooms EXCEPT ![s].is_active = open]
                                /\ open <=> rooms[s].client_count # 0
    BY <1>0, <1>2, <1>3 DEF DepartClose
  <2> QED
    BY <1>0, <1>3, <2>1 DEF Room
<1>8. CASE rooms[s].client_count # 0
  <2>1. Directory' = Directory
    BY <1>7, <1>8, DirectoryKept
  <2> QED
    BY <1>5, <1>6, <2>1, Exits DEF ClosesBehind
<1>9. CASE rooms[s].client_count = 0
  <2>1. Members(s) = {}
    BY <1>0, <1>1, <1>2, <1>9, EmptyAtZero
  <2>2. \A d \in Clients : d # c => Seat[d] # s
    BY <1>0, <1>6, <2>1 DEF SlotSeat, Members
  <2>3. Directory' = [Directory EXCEPT ![s] = [open |-> FALSE]]
    BY <1>3, <1>7, <1>9 DEF Directory
  <2> QED
    BY <1>5, <1>6, <2>2, <2>3, Exits DEF ClosesBehind
<1> QED
  BY <1>8, <1>9

\* Dropping a client is an exit, or nothing if it is in no room.
LEMMA DropExits ==
  ASSUME RoomsLocked, LInv, SeatsShown, SeatsShown', NEW a \in Agents, Drop(a)
  PROVE  RoomsStep
<1>0. /\ pc \in [Agents -> Steps] /\ job \in [Agents -> Job] /\ clients \in [Clients -> Client]
      /\ JobMatchesStep(a) /\ IInv /\ MInv /\ Alone(a)
  BY Known, StepAlone DEF AgentStep, LInv
<1>1. PICK c \in Clients : c = job[a].client
  BY <1>0 DEF Drop, JobMatchesStep
<1>2. /\ pc[a] = "drop" /\ pc'[a] = "done" /\ UNCHANGED <<rooms, job>>
      /\ clients' = [clients EXCEPT ![c] = Gone]
  BY <1>0, <1>1 DEF Drop, Zero, Goto
<1>3. Seat'[c] = 0
  <2>1. \A b \in Agents : job[b].client = c => b = a
    BY <1>1, OneWorker
  <2>2. \A b \in Agents : ~Closing(b, c)'
    BY <1>0, <1>2, <2>1 DEF Closing
  <2>3. Seat'[c] = SlotSeat(c)'
    BY <2>2 DEF SeatsShown
  <2>4. SlotSeat(c)' = 0
    BY <1>0, <1>2 DEF SlotSeat, Gone
  <2> QED
    BY <2>3, <2>4
<1>4. ASSUME NEW d \in Clients, d # c PROVE Seat'[d] = Seat[d]
  <2>1. SlotSeat(d)' = SlotSeat(d) /\ ~Closing(a, d) /\ ~Closing(a, d)'
    BY <1>0, <1>1, <1>2, <1>4 DEF SlotSeat, Closing
  <2> QED
    BY <1>0, <2>1, OtherSeats
<1>5. Directory' = Directory
  BY <1>2, DirectoryKept
<1> QED
  BY <1>3, <1>4, <1>5, Exits DEF ClosesBehind

\* Every step of an agent is a step of the abstract rooms, or none.
LEMMA StepImplements ==
  ASSUME RoomsLocked, LimitsBounded, LInv, SeatsShown, SeatsShown', NEW a \in Agents,
         LockClients(a) \/ Request(a) \/ Handle(a)
  PROVE  RoomsStep
<1>0. /\ AgentStep(a) /\ Alone(a) /\ pc \in [Agents -> Steps] /\ JobMatchesStep(a)
      /\ IInv /\ MInv /\ SeatsHaveRooms /\ CreateFits(a) /\ Checked(a)
  BY AgentKeepsAll, StepAlone, Known DEF LInv, SInv
<1>1. CASE UNCHANGED clients /\ pc[a] \notin {"create_open", "depart_close"} /\ pc'[a] # "depart_close"
  <2>1. Seat' = Seat
    BY <1>0, <1>1, QuietSeats
  <2>2. Directory' = Directory
    BY <1>0, <1>1, StepKeepsDirectory
  <2> QED
    BY <2>1, <2>2, Stutters
<1>2. ASSUME NEW c \in Clients, NEW k \in Kinds, Received(a, c, k) PROVE RoomsStep
  BY <1>0, <1>1, <1>2, FirstStepIn DEF Received
<1>3. CASE CreateOpen(a)
  <2>1. UNCHANGED clients /\ pc[a] # "depart_close" /\ pc'[a] # "depart_close"
    BY <1>0, <1>3 DEF CreateOpen, Goto
  <2>2. Seat' = Seat
    BY <1>0, <2>1, QuietSeats
  <2> QED
    BY <1>0, <1>3, <2>2, Opens
<1>4. CASE DepartFind(a)
  BY <1>0, <1>1, <1>4, DepartFindKnows
<1>5. CASE DepartWrite(a)
  <2>1. Directory' = Directory
    BY <1>0, <1>5, StepKeepsDirectory DEF DepartWrite
  <2> QED
    BY <1>5, <2>1, LeaveStutters, Stutters
<1>6. CASE JoinSeat(a) \/ DepartClose(a) \/ Drop(a)
  BY <1>6, SeatEnters, CloseExits, DropExits
<1>7. CASE \/ LockClients(a) \/ CreateFind(a) \/ CreateName(a) \/ CreateFill(a) \/ RoomLock(a)
           \/ JoinFind(a) \/ JoinCount(a) \/ ChatSend(a) \/ DepartRead(a) \/ ClientLock(a)
           \/ PrivateSend(a) \/ ListSize(a) \/ ListFill(a) \/ Finish(a)
  <2>1. UNCHANGED clients /\ pc[a] \notin {"create_open", "depart_close"} /\ pc'[a] # "depart_close"
    BY <1>0, <1>7 DEF LockClients, CreateFind, CreateName, CreateFill, RoomLock, JoinFind,
       JoinCount, ChatSend, DepartRead, ClientLock, PrivateSend, ListSize, ListFill, Finish, Goto,
       JobMatchesStep
  <2> QED
    BY <1>1, <2>1
<1> QED
  BY <1>0, <1>2, <1>3, <1>4, <1>5, <1>6, <1>7 DEF AgentStep

\* Every step of the server is a step of the abstract rooms, or none.
LEMMA LockedImplements ==
  ASSUME RoomsLocked, LimitsBounded, LInv, SeatsShown, SeatsShown', [Next]_vars
  PROVE  RoomsStep
<1>1. ASSUME NEW c \in Clients, Arrive(c) PROVE RoomsStep
  BY <1>1, ArriveStutters DEF LInv
<1>2. CASE Next
  BY <1>1, <1>2, LockedCases, StepImplements
<1>3. CASE UNCHANGED vars
  BY <1>3 DEF vars, RoomsStep, Rooms!vars, Directory, Seat, Leaving
<1> QED
  BY <1>2, <1>3

\* In mixed mode too, where the main thread and any number of client threads
\* are inside handlers at once, the handlers implement the abstract rooms, as
\* far as the rooms are changed with room_mutex held.
THEOREM LockedRooms == RoomsLocked /\ LimitsBounded => (Spec => ImplementsRooms)
<1> SUFFICES ASSUME RoomsLocked, LimitsBounded PROVE Spec => ImplementsRooms
  OBVIOUS
<1>1. LInv /\ [Next]_vars => LInv'
  BY NextLInv
<1>2. LInv => SeatsShown
  BY ShowSeats
<1>3. LInv /\ SeatsShown /\ SeatsShown' /\ [Next]_vars => RoomsStep
  BY LockedImplements
<1> QED
  BY <1>1, <1>2, <1>3, InitLInv, InitImplements, PTL
  DEF Spec, ImplementsRooms, Rooms!Spec, RoomsStep
=============================================================================
