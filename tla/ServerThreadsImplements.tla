---------------------- MODULE ServerThreadsImplements -----------------------
(***************************************************************************)
(* The proof that ServerThreads implements ChatRooms where handlers come   *)
(* one at a time: however they are cut into steps, a request takes effect  *)
(* on the abstract rooms in exactly one of them.  A room opens when it is  *)
(* activated, a client enters when it takes its seat, and it has left when *)
(* its room has been looked at for the last time.                          *)
(***************************************************************************)
EXTENDS ServerThreadsCounts

\* No room can be created for more clients than there are.
LimitsBounded == Limits \subseteq 1 .. Cardinality(Clients)

\* An agent without a request works for nobody.
Idle(a) == pc[a] \in {"idle", "locked"} => job[a].client = NoAgent

\* What a handler has checked before it opens a room or seats a client.
Checked(a) ==
  /\ pc[a] \in {"create_find", "create_name", "create_fill"} =>
       job[a].name \in RoomNames /\ job[a].limit \in Limits
  /\ pc[a] = "create_open" => /\ rooms[job[a].room].room_name \in RoomNames
                              /\ rooms[job[a].room].max_clients \in Limits
  /\ pc[a] = "join_seat" =>
       rooms[job[a].room].client_count < rooms[job[a].room].max_clients
  /\ pc[a] = "depart_close" /\ Leaving(a) => clients[job[a].client].state # "IN_ROOM"

SeatsHaveRooms ==
  \A c \in Clients : clients[c].state = "IN_ROOM" => clients[c].current_room_id \in RoomIds

SInv == SeatsHaveRooms /\ \A a \in Agents : Idle(a) /\ Checked(a)
RInv == IInv /\ CInv /\ SInv

USE DEF Agents

\* Every agent but a is idle, before and after a step.
OnlyOne(a) ==
  /\ Only(a)
  /\ \A b \in Agents : b # a => job[b].client = NoAgent /\ job'[b].client = NoAgent

\* An agent that makes a step is the only one that works for anybody.
LEMMA StepOnlyOne ==
  ASSUME OneAtATime, RInv, NEW a \in Agents, AgentStep(a) PROVE OnlyOne(a)
<1>1. Only(a)
  BY StepOnly DEF RInv, CInv
<1> QED
  BY <1>1 DEF OnlyOne, Only, RInv, SInv, Idle

-----------------------------------------------------------------------------
(* The strengthening is kept.                                              *)

\* Who becomes or stays a member of a room has its id.
LEMMA SeatsStep ==
  ASSUME IInv, SeatsHaveRooms, NEW a \in Agents, AgentStep(a) PROVE SeatsHaveRooms'
<1>0. /\ pc \in [Agents -> Steps] /\ job \in [Agents -> Job]
      /\ clients \in [Clients -> Client] /\ JobMatchesStep(a) /\ SeatsHaveRooms
  BY Types DEF IInv, JobsMatchSteps
<1>1. CASE JoinSeat(a)
  <2>1. job[a].room \in RoomIds /\ job[a].client \in Clients
    BY <1>0, <1>1 DEF JoinSeat, JobMatchesStep, RoomKnown
  <2> QED
    BY <1>0, <1>1, <2>1 DEF JoinSeat, SeatsHaveRooms, Client
<1>2. CASE DepartFind(a) \/ DepartWrite(a)
  <2>1. job[a].client \in Clients /\ (clients' = clients \/ LeaveSeat(a))
    BY <1>0, <1>2 DEF DepartFind, DepartWrite, JobMatchesStep
  <2> QED
    BY <1>0, <2>1 DEF LeaveSeat, SeatsHaveRooms, Client
<1>3. CASE Drop(a)
  <2>1. clients' = [clients EXCEPT ![job[a].client] = Gone]
    BY <1>3 DEF Drop, Zero
  <2> QED
    BY <1>0, <2>1 DEF SeatsHaveRooms, Gone
<1>4. CASE UNCHANGED clients
  BY <1>0, <1>4 DEF SeatsHaveRooms
<1> QED
  BY <1>1, <1>2, <1>3, <1>4 DEF AgentStep, LockClients, Received, CreateFind, CreateName,
     CreateFill, CreateOpen, RoomLock, JoinFind, JoinCount, ChatSend, DepartRead, DepartClose,
     ClientLock, PrivateSend, ListSize, ListFill, Finish

\* Nobody works for a client once its handler has finished.
LEMMA IdleStep ==
  ASSUME IInv, NEW a \in Agents, Idle(a), AgentStep(a) PROVE Idle(a)'
<1>0. pc \in [Agents -> Steps] /\ job \in [Agents -> Job] /\ Idle(a)
  BY Types DEF IInv
<1>1. ASSUME NEW c \in Clients, NEW k \in Kinds, Received(a, c, k) PROVE pc'[a] \notin {"idle", "locked"}
  BY <1>0, <1>1, FirstStepIn DEF Received
<1>2. CASE Finish(a) \/ LockClients(a)
  BY <1>0, <1>2 DEF Finish, LockClients, Idle, NoJob, NewJob
<1>3. ASSUME CreateFind(a) \/ CreateName(a) \/ CreateFill(a) \/ CreateOpen(a)
             \/ RoomLock(a) \/ JoinFind(a) \/ JoinSeat(a) \/ JoinCount(a) \/ ChatSend(a)
             \/ DepartFind(a) \/ DepartRead(a) \/ DepartWrite(a) \/ DepartClose(a)
             \/ ClientLock(a) \/ PrivateSend(a) \/ ListSize(a) \/ ListFill(a) \/ Drop(a)
      PROVE  pc'[a] \notin {"idle", "locked"}
  <2>1. CASE RoomLock(a)
    BY <1>0, <2>1 DEF RoomLock, Goto, JobMatchesStep, IInv, JobsMatchSteps
  <2> QED
    BY <1>0, <1>3, <2>1 DEF CreateFind, CreateName, CreateFill, CreateOpen, JoinFind,
       JoinSeat, JoinCount, ChatSend, DepartFind, EndDeparture, DepartRead, DepartWrite, DepartClose,
       ClientLock, PrivateSend, ListSize, ListFill, Drop, Goto
<1> QED
  BY <1>1, <1>2, <1>3 DEF AgentStep, Idle

\* A handler checks before it acts, and nothing changes in between.
LEMMA CheckedStep ==
  ASSUME IInv, NEW a \in Agents, Checked(a), AgentStep(a) PROVE Checked(a)'
<1>0. /\ pc \in [Agents -> Steps] /\ job \in [Agents -> Job] /\ TypeOK
      /\ clients \in [Clients -> Client] /\ rooms \in [RoomIds -> Room]
      /\ JobMatchesStep(a) /\ Checked(a) /\ IInv
  BY Types DEF IInv, JobsMatchSteps
<1>1. ASSUME NEW c \in Clients, NEW k \in Kinds, Received(a, c, k) PROVE Checked(a)'
  <2>1. PICK n \in RoomNames \cup {"none"}, m \in Limits \cup {0} :
          /\ k = "create" => n \in RoomNames /\ m \in Limits
          /\ job' = [job EXCEPT ![a] = NewJob(c, k, n, m)]
    BY <1>1 DEF Received
  <2>2. /\ job'[a].name = n /\ job'[a].limit = m
        /\ pc'[a] = FirstStep(c, k)
    BY <1>0, <1>1, <2>1 DEF Received, NewJob
  <2>3. FirstStep(c, k) = "create_find" => k = "create"
    BY DEF FirstStep
  <2> QED
    BY <2>1, <2>2, <2>3, FirstStepIn DEF Checked
<1>2. CASE CreateFind(a)
  <2>1. /\ pc'[a] \in {"create_name", "done"} /\ pc[a] = "create_find"
        /\ pc'[a] = "create_name" => \E r : Remember(a, r, 0)
    BY <1>0, <1>2 DEF CreateFind, Goto
  <2>2. pc'[a] = "create_name" => job'[a].name = job[a].name /\ job'[a].limit = job[a].limit
    BY <1>0, <2>1, RememberKeeps
  <2> QED
    BY <1>0, <2>1, <2>2 DEF Checked
<1>3. CASE CreateName(a)
  BY <1>0, <1>3 DEF CreateName, Goto, Checked
<1>4. CASE CreateFill(a)
  <2>1. /\ job' = job /\ pc'[a] = "create_open" /\ job[a].room \in RoomIds
        /\ job[a].name \in RoomNames /\ job[a].limit \in Limits
    BY <1>0, <1>4 DEF CreateFill, Goto, Checked, JobMatchesStep, RoomKnown
  <2>2. rooms'[job[a].room].room_name = job[a].name /\ rooms'[job[a].room].max_clients = job[a].limit
    BY <1>0, <1>4, <2>1 DEF CreateFill, Room
  <2> QED
    BY <2>1, <2>2 DEF Checked
<1>5. CASE JoinFind(a)
  <2>1. CASE pc'[a] = "join_seat"
    <3>1. PICK r : Remember(a, r, 0) /\ rooms[r].client_count < rooms[r].max_clients
      BY <1>0, <1>5, <2>1 DEF JoinFind, Goto
    <3>2. job'[a].room = r /\ rooms' = rooms
      BY <1>0, <1>5, <3>1, RememberKeeps DEF JoinFind
    <3> QED
      BY <2>1, <3>1, <3>2 DEF Checked
  <2>2. CASE pc'[a] # "join_seat"
    <3>1. pc'[a] = "done"
      BY <1>0, <1>5, <2>2 DEF JoinFind, Goto
    <3> QED
      BY <3>1 DEF Checked
  <2> QED
    BY <2>1, <2>2
<1>6. CASE DepartWrite(a)
  <2>1. /\ pc'[a] = "depart_close" /\ LeaveSeat(a) /\ job[a].client \in Clients
        /\ job'[a].client = job[a].client /\ job'[a].kind = job[a].kind
    BY <1>0, <1>6, RememberKeeps DEF DepartWrite, Goto, JobMatchesStep
  <2>2. Leaving(a) => clients'[job[a].client].state # "IN_ROOM"
    BY <1>0, <2>1 DEF LeaveSeat, Client
  <2> QED
    BY <2>1, <2>2 DEF Checked, Leaving
<1>7. CASE \/ LockClients(a) \/ CreateOpen(a) \/ RoomLock(a) \/ JoinSeat(a) \/ JoinCount(a)
           \/ ChatSend(a) \/ DepartFind(a) \/ DepartRead(a) \/ DepartClose(a) \/ ClientLock(a)
           \/ PrivateSend(a) \/ ListSize(a) \/ ListFill(a) \/ Drop(a) \/ Finish(a)
  <2>1. pc'[a] \notin {"create_find", "create_name", "create_fill", "create_open", "join_seat",
                       "depart_close"}
    BY <1>0, <1>7 DEF LockClients, CreateOpen, RoomLock, JoinSeat, JoinCount, ChatSend, DepartFind,
       EndDeparture, DepartRead, DepartClose, ClientLock, PrivateSend, ListSize, ListFill, Drop,
       Finish, Goto, JobMatchesStep
  <2> QED
    BY <2>1 DEF Checked
<1> QED
  BY <1>1, <1>2, <1>3, <1>4, <1>5, <1>6, <1>7 DEF AgentStep

\* Only the agent that makes a step has to be looked at.
LEMMA AgentKeepsSeats ==
  ASSUME OneAtATime, RInv, NEW a \in Agents, AgentStep(a) PROVE SInv'
<1>1. /\ OnlyOne(a) /\ SeatsHaveRooms' /\ Idle(a)' /\ Checked(a)'
  BY StepOnlyOne, SeatsStep, IdleStep, CheckedStep DEF RInv, SInv
<1>2. ASSUME NEW b \in Agents, b # a PROVE Idle(b)' /\ Checked(b)'
  <2>1. pc'[b] = "idle" /\ job'[b].client = NoAgent
    BY <1>1, <1>2 DEF OnlyOne, Only
  <2> QED
    BY <2>1 DEF Idle, Checked
<1> QED
  BY <1>1, <1>2 DEF SInv

\* Nobody works for a client that arrives.
LEMMA ArriveKeepsSeats ==
  ASSUME IInv, SInv, NEW c \in Clients, Arrive(c) PROVE SInv'
<1>0. /\ clients \in [Clients -> Client] /\ UNCHANGED <<rooms, pc, job>>
      /\ SeatsHaveRooms /\ \A a \in Agents : Idle(a) /\ Checked(a) /\ JobMatchesStep(a)
  BY Types DEF Arrive, IInv, SInv, JobsMatchSteps
<1>1. SeatsHaveRooms'
  BY <1>0 DEF Arrive, SeatsHaveRooms
<1>2. ASSUME NEW a \in Agents PROVE Idle(a)' /\ Checked(a)'
  <2>1. clients'[c].state = "CONNECTED" /\ \A d \in Clients : d # c => clients'[d] = clients[d]
    BY <1>0 DEF Arrive
  <2>2. pc[a] = "depart_close" => job[a].client \in Clients
    BY <1>0 DEF JobMatchesStep
  <2> QED
    BY <1>0, <2>1, <2>2 DEF Idle, Checked, Leaving
<1> QED
  BY <1>1, <1>2 DEF SInv

\* While the main thread sweeps it is the only agent.
LEMMA SweepOnlyOne ==
  ASSUME OneAtATime, RInv, SweepDrop \/ \E c \in Clients : SweepFind(c) PROVE OnlyOne(Main)
<1>1. Threaded = {}
  BY MainUnserved DEF RInv, CInv, MainIdle, SweepDrop, SweepFind
<1> QED
  BY <1>1 DEF OnlyOne, Only

\* A sweep seats nobody.
LEMMA SweepKeepsSeats ==
  ASSUME OneAtATime, RInv, SweepDrop \/ \E c \in Clients : SweepFind(c) PROVE SInv'
<1>0. /\ clients \in [Clients -> Client] /\ pc \in [Agents -> Steps]
      /\ SeatsHaveRooms /\ Main \in Agents
  BY Types DEF RInv, IInv, SInv
<1>1. Threaded = {}
  BY MainUnserved DEF RInv, CInv, MainIdle, SweepDrop, SweepFind
<1>2. pc'[Main] \in {"sweep", "done"}
  BY <1>0 DEF SweepDrop, SweepFind, Goto
<1>3. SeatsHaveRooms'
  <2>1. \/ clients' = clients
        \/ \E c : clients' = [clients EXCEPT ![c] = Gone]
    BY DEF SweepDrop, SweepFind, Zero
  <2> QED
    BY <1>0, <2>1 DEF SeatsHaveRooms, Gone
<1> QED
  BY <1>1, <1>2, <1>3 DEF SInv, Idle, Checked

\* The strengthening holds when the server starts.
LEMMA InitRInv == Init => RInv
<1> SUFFICES ASSUME Init PROVE RInv
  OBVIOUS
<1>1. SInv
  BY DEF Init, SInv, SeatsHaveRooms, Gone, Idle, Checked, NoJob, NewJob
<1> QED
  BY <1>1, InitIInv, InitCInv DEF RInv

\* Every step keeps the strengthening.
LEMMA NextRInv == OneAtATime /\ RInv /\ [Next]_vars => RInv'
<1> SUFFICES ASSUME OneAtATime, RInv, [Next]_vars PROVE RInv'
  OBVIOUS
<1>1. IInv' /\ CInv'
  BY NextIInv, NextCInv DEF RInv
<1>2. CASE Next
  <2>1. IInv /\ SInv
    BY DEF RInv
  <2>2. SInv'
    BY <1>2, <2>1, NextCases, AgentKeepsSeats, ArriveKeepsSeats, SweepKeepsSeats
  <2> QED
    BY <1>1, <2>2 DEF RInv
<1>3. CASE UNCHANGED vars
  <2>1. SInv'
    BY <1>3 DEF vars, RInv, SInv, SeatsHaveRooms, Idle, Checked, Leaving
  <2> QED
    BY <1>1, <2>1 DEF RInv
<1> QED
  BY <1>2, <1>3

-----------------------------------------------------------------------------
(* What the steps of the server are to the abstract rooms.                 *)

\* The step of the abstract rooms that a step of the server is.
RoomsStep == [Rooms!Next]_(Rooms!vars)

\* Cardinality, as the instance of ChatRooms expands it, is Cardinality.
LEMMA SameCardinality ==
  ASSUME NEW S PROVE Rooms!Cardinality(S) = Cardinality(S)
BY Zenon DEF Cardinality, Rooms!Cardinality

\* A step that changes neither a seat nor the directory is a stutter.
LEMMA Stutters ==
  ASSUME Seat' = Seat, Directory' = Directory PROVE RoomsStep
BY DEF RoomsStep, Rooms!vars

\* There is a seat for every client, and for nobody else.
LEMMA SeatFunction ==
  Seat = [c \in Clients |-> Seat[c]] /\ Seat' = [c \in Clients |-> Seat'[c]]
BY DEF Seat

\* The seats of all clients are the same if each is.
LEMMA SameSeats ==
  ASSUME \A c \in Clients : Seat'[c] = Seat[c] PROVE Seat' = Seat
BY SeatFunction

\* A client takes or gives up a seat if it does and nobody else.
LEMMA OneSeatChanges ==
  ASSUME NEW c \in Clients, NEW r, Seat'[c] = r, \A d \in Clients : d # c => Seat'[d] = Seat[d]
  PROVE  Seat' = [Seat EXCEPT ![c] = r]
BY SeatFunction

\* The directory stays as it is, or a room is closed in which only c sits.
ClosesBehind(c) ==
  \/ Directory' = Directory
  \/ \E r \in RoomIds : /\ Seat[c] = r
                        /\ \A d \in Clients : d # c => Seat[d] # r
                        /\ Directory' = [Directory EXCEPT ![r] = [open |-> FALSE]]

\* Who gives up a seat exits, and may leave a closed room behind if nobody
\* else sits in it; who had none only stutters.
LEMMA Exits ==
  ASSUME NEW c \in Clients, Seat'[c] = 0, \A d \in Clients : d # c => Seat'[d] = Seat[d],
         ClosesBehind(c)
  PROVE  RoomsStep
<1>1. Seat' = [Seat EXCEPT ![c] = 0]
  BY OneSeatChanges
<1>2. CASE Seat[c] # 0
  <2>1. [d \in Clients |-> Seat[d] # 0]' = [[d \in Clients |-> Seat[d] # 0] EXCEPT ![c] = FALSE]
    OBVIOUS
  <2>2. ASSUME Directory' # Directory
        PROVE  /\ Rooms!Occupants(Seat[c]) = {c}
               /\ Directory' = [Directory EXCEPT ![Seat[c]] = [open |-> FALSE]]
    BY <2>2 DEF Rooms!Occupants, ClosesBehind
  <2>3. Rooms!Exit(c)
    BY <1>1, <1>2, <2>1, <2>2 DEF Rooms!Exit, Rooms!Closed, Rooms!Nowhere
  <2> QED
    BY <2>3 DEF RoomsStep, Rooms!Next
<1>3. CASE Seat[c] = 0
  <2>1. 0 \notin RoomIds
    BY RoomsAssumption DEF RoomIds
  <2>2. Directory' = Directory /\ Seat' = Seat
    BY <1>3, <2>1, SameSeats DEF ClosesBehind
  <2> QED
    BY <2>2, Stutters
<1> QED
  BY <1>2, <1>3

\* Who takes a seat enters, if the room is open and has a place left.
LEMMA Enters ==
  ASSUME NEW c \in Clients, NEW s \in RoomIds, Seat[c] = 0, Seat'[c] = s,
         \A d \in Clients : d # c => Seat'[d] = Seat[d],
         \A d \in Clients : Seat[d] = s <=> d \in Members(s),
         rooms[s].is_active, Cardinality(Members(s)) < rooms[s].max_clients,
         UNCHANGED rooms
  PROVE  RoomsStep
<1>1. Seat' = [Seat EXCEPT ![c] = s]
  BY OneSeatChanges
<1>2. Rooms!Occupants(s) = Members(s)
  BY DEF Rooms!Occupants, Members
<1>3. /\ Directory[s] # [open |-> FALSE] /\ Directory[s].limit = rooms[s].max_clients
      /\ Directory[s].password = TRUE /\ Directory' = Directory
  BY DEF Directory
<1>4. [d \in Clients |-> Seat[d] # 0]' = [[d \in Clients |-> Seat[d] # 0] EXCEPT ![c] = TRUE]
  <2>1. s # 0
    BY RoomsAssumption DEF RoomIds
  <2> QED
    BY <2>1
<1>5. Rooms!Enter(c, s)
  BY <1>1, <1>2, <1>3, <1>4, SameCardinality DEF Rooms!Enter, Rooms!Closed, Rooms!Nowhere
<1> QED
  BY <1>5 DEF RoomsStep, Rooms!Next

\* A count of members and dropped ones below the limit leaves a place.
LEMMA PlaceLeft ==
  ASSUME rooms \in [RoomIds -> Room], lost \in [RoomIds -> Nat], NEW s \in RoomIds,
         rooms[s].client_count = Cardinality(Members(s)) + lost[s],
         rooms[s].client_count < rooms[s].max_clients
  PROVE  Cardinality(Members(s)) < rooms[s].max_clients
<1>1. rooms[s] \in Room /\ Limits \cup {0} \subseteq Nat
  BY RoomsAssumption
<1>2. rooms[s].max_clients \in Nat
  BY <1>1 DEF Room
<1> QED
  BY <1>2, MembersFinite

\* Activating a room opens it.
LEMMA Opens ==
  ASSUME LimitsBounded, IInv, NEW a \in Agents, CreateOpen(a), CreateFits(a), Checked(a),
         Seat' = Seat
  PROVE  RoomsStep
<1> DEFINE s == job[a].room
           room == [open |-> TRUE, name |-> rooms[s].room_name, password |-> TRUE,
                    limit |-> rooms[s].max_clients]
<1>0. rooms \in [RoomIds -> Room] /\ JobMatchesStep(a)
  BY Types DEF IInv, JobsMatchSteps
<1>1. /\ s \in RoomIds /\ ~rooms[s].is_active /\ RoomsNamed(rooms[s].room_name) = {}
      /\ rooms[s].room_name \in RoomNames /\ rooms[s].max_clients \in Limits
  BY <1>0 DEF CreateOpen, JobMatchesStep, RoomKnown, CreateFits, Checked
<1>2. /\ rooms'[s].is_active /\ rooms'[s].room_name = rooms[s].room_name
      /\ rooms'[s].max_clients = rooms[s].max_clients
      /\ \A r \in RoomIds : r # s => rooms'[r] = rooms[r]
  BY <1>0, <1>1 DEF CreateOpen, Room
<1>3. room \in Rooms!Open
  <2>1. rooms[s].max_clients \in 1 .. Cardinality(Clients)
    BY <1>1 DEF LimitsBounded
  <2>2. Rooms!Cardinality(Clients) = Cardinality(Clients)
    BY SameCardinality
  <2> QED
    BY <1>1, <2>1, <2>2 DEF Rooms!Open
<1>4. Directory[s] = [open |-> FALSE]
  BY <1>1 DEF Directory
<1>5. Directory' = [Directory EXCEPT ![s] = room]
  BY <1>1, <1>2 DEF Directory
<1>6. ASSUME NEW r \in RoomIds, Directory[r] # [open |-> FALSE]
      PROVE  Directory[r].name # room.name
  <2>1. rooms[r].is_active
    BY <1>6 DEF Directory
  <2>2. Directory[r].name = rooms[r].room_name
    BY <2>1 DEF Directory
  <2> QED
    BY <1>1, <2>1, <2>2 DEF RoomsNamed, ActiveRooms
<1>7. Rooms!OpenRoom(s, room)
  BY <1>4, <1>5, <1>6 DEF Rooms!OpenRoom, Rooms!Closed
<1> QED
  BY <1>1, <1>3, <1>7 DEF RoomsStep, Rooms!Next

\* The directory shows of a room whether it is open, its name and its limit.
LEMMA DirectoryKept ==
  ASSUME \A r \in RoomIds :
           /\ rooms'[r].is_active <=> rooms[r].is_active
           /\ rooms[r].is_active => /\ rooms'[r].room_name = rooms[r].room_name
                                    /\ rooms'[r].max_clients = rooms[r].max_clients
  PROVE  Directory' = Directory
BY DEF Directory

\* It is the same after all steps but those that open or close a room.
LEMMA StepKeepsDirectory ==
  ASSUME IInv, NEW a \in Agents, CreateFits(a), AgentStep(a),
         pc[a] \notin {"create_open", "depart_close"}
  PROVE  Directory' = Directory
<1>0. /\ pc \in [Agents -> Steps] /\ rooms \in [RoomIds -> Room] /\ JobMatchesStep(a)
  BY Types DEF IInv, JobsMatchSteps
<1>1. CASE CreateFill(a)
  <2>1. /\ \A r \in RoomIds : rooms'[r].is_active <=> rooms[r].is_active
        /\ \A r \in RoomIds : rooms[r].is_active => rooms'[r] = rooms[r]
    BY <1>0, <1>1 DEF CreateFill, CreateFits, Room
  <2> QED
    BY <2>1, DirectoryKept
<1>2. CASE JoinCount(a) \/ DepartWrite(a)
  <2>1. \A r \in RoomIds : /\ rooms'[r].is_active = rooms[r].is_active
                          /\ rooms'[r].room_name = rooms[r].room_name
                          /\ rooms'[r].max_clients = rooms[r].max_clients
    BY <1>0, <1>2 DEF JoinCount, DepartWrite, Room
  <2> QED
    BY <2>1, DirectoryKept
<1>3. CASE UNCHANGED rooms
  BY <1>3, DirectoryKept
<1> QED
  BY <1>1, <1>2, <1>3
  DEF AgentStep, LockClients, Received, CreateFind, CreateName, CreateOpen, RoomLock, JoinFind,
      JoinSeat, ChatSend, DepartFind, DepartRead, DepartClose, ClientLock, PrivateSend, ListSize,
      ListFill, Drop, Finish

-----------------------------------------------------------------------------
(* Seats.                                                                  *)

\* The seat of client c where a is the only agent that works for anybody.
SeatBy(a, c) ==
  IF job[a].client = c /\ Leaving(a) /\ pc[a] = "depart_close" THEN job[a].room
  ELSE IF \/ ~clients[c].is_active \/ clients[c].state # "IN_ROOM"
          \/ job[a].client = c /\ pc[a] = "drop" /\ job[a].kind = "disconnect"
       THEN 0 ELSE clients[c].current_room_id

\* The seats, without a choice among the agents.
LEMMA SeatsBy ==
  ASSUME NEW a \in Agents, OnlyOne(a), NEW c \in Clients
  PROVE  Seat[c] = SeatBy(a, c) /\ Seat'[c] = SeatBy(a, c)'
<1>1. /\ \A b \in Agents : job[b].client = c => b = a
      /\ \A b \in Agents : job'[b].client = c => b = a
  BY ThreadsAssumption DEF OnlyOne
<1>2. Seat[c] = SeatBy(a, c)
  <2>1. job[a].client = c => a = CHOOSE b \in Agents : job[b].client = c
    BY <1>1
  <2> QED
    BY <1>1, <2>1 DEF Seat, SeatBy
<1>3. Seat'[c] = SeatBy(a, c)'
  <2>1. job'[a].client = c => a = CHOOSE b \in Agents : job'[b].client = c
    BY <1>1
  <2> QED
    BY <1>1, <2>1 DEF Seat, SeatBy
<1> QED
  BY <1>2, <1>3

\* A step that changes no seat leaves them all as they are.
LEMMA SeatsKept ==
  ASSUME NEW a \in Agents, OnlyOne(a), \A c \in Clients : SeatBy(a, c)' = SeatBy(a, c)
  PROVE  Seat' = Seat
BY SeatsBy, SameSeats

-----------------------------------------------------------------------------
(* The steps of an agent.                                                  *)

\* What an agent's own steps need to know.
LEMMA OwnSeats ==
  ASSUME RInv, NEW a \in Agents
  PROVE  /\ pc \in [Agents -> Steps] /\ job \in [Agents -> Job]
         /\ clients \in [Clients -> Client] /\ rooms \in [RoomIds -> Room]
         /\ JobMatchesStep(a) /\ CreateFits(a) /\ SeatFits(a) /\ CountFits(a) /\ KindFits(a)
         /\ SeatsHaveRooms /\ Checked(a) /\ 0 \notin RoomIds /\ NoRoom \notin RoomIds
<1>1. IInv /\ CInv /\ SeatsHaveRooms /\ Checked(a)
  BY DEF RInv, SInv
<1>2. 0 \notin RoomIds /\ NoRoom \notin RoomIds
  BY RoomsAssumption DEF RoomIds, NoRoom
<1> QED
  BY <1>1, <1>2, Own

\* A request takes no effect when it is received.
LEMMA ReceiveStutters ==
  ASSUME RInv, NEW a \in Agents, OnlyOne(a), NEW c \in Clients, NEW k \in Kinds,
         Received(a, c, k)
  PROVE  RoomsStep
<1>0. /\ pc \in [Agents -> Steps] /\ job \in [Agents -> Job] /\ TypeOK /\ SeatsHaveRooms
      /\ clients \in [Clients -> Client]
  BY OwnSeats DEF RInv, IInv
<1>1. /\ UNCHANGED <<clients, rooms>> /\ job'[a].client = c /\ job'[a].kind = k
      /\ pc[a] \in {"idle", "locked"} /\ pc'[a] = FirstStep(c, k)
  <2>1. pc' = [pc EXCEPT ![a] = FirstStep(c, k)] /\ UNCHANGED <<clients, rooms>>
        /\ pc[a] \in {"idle", "locked"}
    BY DEF Received
  <2> QED
    BY <1>0, <2>1, ReceivedJob
<1>2. pc'[a] = "drop" /\ k = "disconnect" => clients[c].state # "IN_ROOM"
  <2>1. \A r \in RoomIds : r >= 0
    BY RoomsAssumption DEF RoomIds
  <2> QED
    BY <1>0, <1>1, <2>1 DEF FirstStep, SeatsHaveRooms
<1>3. pc'[a] # "depart_close"
  BY <1>1, FirstStepIn
<1>4. \A d \in Clients : SeatBy(a, d)' = SeatBy(a, d)
  BY <1>1, <1>2, <1>3 DEF SeatBy
<1> QED
  BY <1>1, <1>4, SeatsKept, DirectoryKept, Stutters

\* Neither do the steps that look, lock and unlock, fill in a free slot or
\* count.
LEMMA HandlingStutters ==
  ASSUME RInv, NEW a \in Agents, OnlyOne(a),
         \/ LockClients(a) \/ CreateFind(a) \/ CreateName(a) \/ CreateFill(a) \/ RoomLock(a)
         \/ JoinFind(a) \/ JoinCount(a) \/ ChatSend(a) \/ DepartRead(a) \/ ClientLock(a)
         \/ PrivateSend(a) \/ ListSize(a) \/ ListFill(a) \/ Finish(a)
  PROVE  RoomsStep
<1>0. /\ pc \in [Agents -> Steps] /\ job \in [Agents -> Job] /\ rooms \in [RoomIds -> Room]
      /\ JobMatchesStep(a) /\ CreateFits(a) /\ CountFits(a) /\ KindFits(a)
  BY OwnSeats
<1>1. /\ UNCHANGED clients /\ pc[a] \notin {"create_open", "depart_close", "drop"}
      /\ pc'[a] # "depart_close"
      /\ pc'[a] = "drop" => job' = job /\ pc[a] \in {"chat_send", "private_send", "list_fill"}
  BY <1>0 DEF LockClients, CreateFind, CreateName, CreateFill, RoomLock, JoinFind, JoinCount,
     ChatSend, DepartRead, ClientLock, PrivateSend, ListSize, ListFill, Finish, Goto,
     JobMatchesStep
<1>2. pc'[a] = "drop" => job'[a].kind # "disconnect"
  BY <1>0, <1>1 DEF KindFits
<1>3. \A d \in Clients : SeatBy(a, d)' = SeatBy(a, d)
  BY <1>1, <1>2 DEF SeatBy
<1>4. Directory' = Directory
  <2>1. IInv /\ AgentStep(a)
    BY DEF RInv, AgentStep
  <2> QED
    BY <1>0, <1>1, <2>1, StepKeepsDirectory
<1> QED
  BY <1>3, <1>4, SeatsKept, Stutters

\* Activating a room opens it: no seat changes.
LEMMA CreateOpens ==
  ASSUME LimitsBounded, RInv, NEW a \in Agents, OnlyOne(a), CreateOpen(a)
  PROVE  RoomsStep
<1>1. IInv /\ CreateFits(a) /\ Checked(a) /\ pc \in [Agents -> Steps]
  BY OwnSeats DEF RInv
<1>2. pc[a] = "create_open" /\ pc'[a] = "done" /\ UNCHANGED <<clients, job>>
  BY <1>1 DEF CreateOpen, Goto
<1>3. Seat' = Seat
  BY <1>2, SeatsKept DEF SeatBy
<1> QED
  BY <1>1, <1>3, Opens

\* Taking a seat is entering: the count that was checked is the number of
\* members and of those dropped, so that there is a place left.
LEMMA JoinEnters ==
  ASSUME RInv, NEW a \in Agents, OnlyOne(a), JoinSeat(a)
  PROVE  RoomsStep
<1>1. /\ pc \in [Agents -> Steps] /\ job \in [Agents -> Job] /\ rooms \in [RoomIds -> Room]
      /\ clients \in [Clients -> Client] /\ lost \in [RoomIds -> Nat]
      /\ JobMatchesStep(a) /\ SeatFits(a) /\ CountFits(a) /\ Checked(a) /\ RoomsCounted
  BY OwnSeats, Types DEF RInv, IInv, CInv, Tables
<1>2. pc[a] = "join_seat" /\ pc'[a] = "join_count"
  BY <1>1 DEF JoinSeat, Goto
<1>3. PICK s \in RoomIds, c \in Clients : s = job[a].room /\ c = job[a].client
  BY <1>1, <1>2 DEF JobMatchesStep, RoomKnown
<1>4. /\ pc[a] = "join_seat" /\ pc'[a] = "join_count" /\ UNCHANGED rooms
      /\ s \in RoomIds /\ c \in Clients /\ rooms[s].is_active
      /\ clients[c].is_active /\ clients[c].state = "CONNECTED"
      /\ rooms[s].client_count < rooms[s].max_clients
  BY <1>1, <1>2, <1>3 DEF JoinSeat, SeatFits, CountFits, JoinBegun, Checked
<1>5. job'[a].room = s /\ job'[a].client = c
  BY <1>3, RememberKeeps DEF JoinSeat, RInv
<1>6. /\ \A d \in Clients : d # c => clients'[d] = clients[d]
      /\ clients'[c].is_active /\ clients'[c].state = "IN_ROOM"
      /\ clients'[c].current_room_id = s
  BY <1>1, <1>4, <1>3 DEF JoinSeat, Client
<1>7. /\ Seat[c] = 0 /\ Seat'[c] = s
      /\ \A d \in Clients : d # c => Seat'[d] = Seat[d]
  BY <1>3, <1>4, <1>5, <1>6, SeatsBy DEF SeatBy
<1>8. \A d \in Clients : Seat[d] = s <=> d \in Members(s)
  <2>1. \A d \in Clients : Seat[d] = SeatBy(a, d)
    BY SeatsBy
  <2>2. s # 0
    BY <1>4, RoomsAssumption DEF RoomIds
  <2> QED
    BY <1>4, <2>1, <2>2 DEF SeatBy, Members
<1>9. Cardinality(Members(s)) < rooms[s].max_clients
  <2>1. ~Ahead(s)
    BY <1>2, AheadAlone DEF AheadBy, OnlyOne
  <2>2. rooms[s].client_count = Cardinality(Members(s)) + lost[s]
    BY <1>1, <1>4, <2>1 DEF RoomsCounted, Room
  <2> QED
    BY <1>1, <1>4, <2>2, PlaceLeft
<1> QED
  BY <1>4, <1>7, <1>8, <1>9, Enters

\* A departure begins without an effect: the client's room is always open.
LEMMA DepartFindStutters ==
  ASSUME RInv, NEW a \in Agents, OnlyOne(a), DepartFind(a)
  PROVE  RoomsStep
<1> DEFINE c == job[a].client
           r == clients[c].current_room_id
<1>0. /\ pc \in [Agents -> Steps] /\ job \in [Agents -> Job]
      /\ JobMatchesStep(a) /\ SeatFits(a) /\ SeatsHaveRooms /\ ClosedRoomsEmpty
  BY OwnSeats DEF RInv, CInv, Tables
<1>1. /\ pc[a] = "depart_find" /\ c \in Clients
      /\ clients[c].is_active /\ clients[c].state = "IN_ROOM"
  BY <1>0 DEF DepartFind, JobMatchesStep, SeatFits, LeaveBegun
<1>2. r \in ActiveRooms
  <2>1. r \in RoomIds /\ c \in Members(r)
    BY <1>0, <1>1 DEF SeatsHaveRooms, Members
  <2>2. \A b \in Agents : pc[b] # "drop"
    BY <1>1 DEF OnlyOne, Only
  <2> QED
    BY <1>0, <2>1, <2>2 DEF ClosedRoomsEmpty, ActiveRooms
<1>3. /\ UNCHANGED <<clients, rooms>> /\ pc'[a] = "depart_read"
      /\ job'[a].client = c
  <2>1. Remember(a, r, 0) /\ Goto(a, "depart_read") /\ UNCHANGED <<clients, rooms>>
    BY <1>2 DEF DepartFind
  <2> QED
    BY <1>0, <2>1, RememberKeeps DEF Goto, RInv
<1>4. \A d \in Clients : SeatBy(a, d)' = SeatBy(a, d)
  BY <1>1, <1>3 DEF SeatBy
<1> QED
  BY <1>3, <1>4, SeatsKept, DirectoryKept, Stutters

\* Counting a client out changes no seat: who leaves keeps it until the room
\* has been looked at once more.
LEMMA DepartWriteStutters ==
  ASSUME RInv, NEW a \in Agents, OnlyOne(a), DepartWrite(a)
  PROVE  RoomsStep
<1>1. /\ pc \in [Agents -> Steps] /\ job \in [Agents -> Job] /\ rooms \in [RoomIds -> Room]
      /\ clients \in [Clients -> Client] /\ JobMatchesStep(a) /\ SeatFits(a)
  BY OwnSeats
<1>2. PICK s \in RoomIds, c \in Clients : s = job[a].room /\ c = job[a].client
  BY <1>1 DEF DepartWrite, JobMatchesStep, RoomKnown
<1>3. /\ pc[a] = "depart_write" /\ pc'[a] = "depart_close" /\ LeaveSeat(a)
      /\ c \in Clients /\ s \in RoomIds /\ c \in Members(s)
      /\ job'[a].client = c /\ job'[a].kind = job[a].kind /\ job'[a].room = s
  BY <1>1, <1>2, RememberKeeps
  DEF DepartWrite, Goto, SeatFits, SeatKnown, Sits, RInv
<1>4. \A r \in RoomIds : /\ rooms'[r].is_active = rooms[r].is_active
                        /\ rooms'[r].room_name = rooms[r].room_name
                        /\ rooms'[r].max_clients = rooms[r].max_clients
  BY <1>1, <1>2, <1>3 DEF DepartWrite, Room
<1>5. \A d \in Clients : d # c => clients'[d] = clients[d]
  BY <1>1, <1>2, <1>3 DEF LeaveSeat
<1>6. SeatBy(a, c) = s /\ SeatBy(a, c)' = s
  BY <1>2, <1>3 DEF SeatBy, LeaveSeat, Leaving, Members
<1>7. \A d \in Clients : d # c => SeatBy(a, d)' = SeatBy(a, d)
  BY <1>2, <1>3, <1>5 DEF SeatBy
<1>8. \A d \in Clients : SeatBy(a, d)' = SeatBy(a, d)
  BY <1>6, <1>7
<1> QED
  BY <1>4, <1>8, SeatsKept, DirectoryKept, Stutters

\* Whoever departs has gone when its room has been looked at once more, and
\* only a room without anybody else is closed then.
LEMMA DepartCloseExits ==
  ASSUME RInv, NEW a \in Agents, OnlyOne(a), DepartClose(a)
  PROVE  RoomsStep
<1>1. /\ pc \in [Agents -> Steps] /\ job \in [Agents -> Job] /\ rooms \in [RoomIds -> Room]
      /\ JobMatchesStep(a) /\ SeatFits(a) /\ CountFits(a) /\ KindFits(a) /\ Checked(a)
      /\ IInv /\ CInv /\ Only(a) /\ 0 \notin RoomIds
  BY OwnSeats DEF RInv, OnlyOne
<1>2. PICK s \in RoomIds, c \in Clients : s = job[a].room /\ c = job[a].client
  BY <1>1 DEF DepartClose, JobMatchesStep, RoomKnown
<1>3. /\ pc[a] = "depart_close" /\ UNCHANGED <<clients, job>>
      /\ pc'[a] = (IF Leaving(a) THEN "done" ELSE "drop")
      /\ c \in Clients /\ s \in RoomIds /\ rooms[s].is_active
      /\ job[a].count = rooms[s].client_count
      /\ ~Leaving(a) => c \in Members(s) /\ job[a].kind = "disconnect"
      /\ Leaving(a) => clients[c].state # "IN_ROOM" /\ job[a].kind # "disconnect"
  BY <1>1, <1>2 DEF DepartClose, EndDeparture, Goto, SeatFits, SeatKnown,
     Sits, CountFits, KindFits, DepartSteps, Checked, Leaving
<1>4. Seat[c] = s /\ Seat'[c] = 0
  BY <1>2, <1>3, SeatsBy DEF SeatBy, Members, Leaving
<1>5. \A d \in Clients : d # c => Seat'[d] = Seat[d]
  BY <1>2, <1>3, SeatsBy DEF SeatBy
<1>6. \A r \in RoomIds :
        /\ rooms'[r].room_name = rooms[r].room_name
        /\ rooms'[r].max_clients = rooms[r].max_clients
        /\ rooms'[r].is_active = (rooms[r].is_active /\ (r = s => rooms[s].client_count # 0))
  BY <1>1, <1>2, <1>3 DEF DepartClose, Room
<1>7. CASE rooms[s].client_count # 0
  <2>1. Directory' = Directory
    BY <1>6, <1>7, DirectoryKept
  <2> QED
    BY <1>4, <1>5, <2>1, Exits DEF ClosesBehind
<1>8. CASE rooms[s].client_count = 0
  <2>1. Members(s) \subseteq {c}
    BY <1>1, <1>2, <1>3, <1>8, LastOut
  <2>2. ASSUME NEW d \in Clients, d # c PROVE Seat[d] # s
    BY <1>1, <1>2, <1>3, <2>1, <2>2, SeatsBy DEF SeatBy, Members
  <2>3. Directory' = [Directory EXCEPT ![s] = [open |-> FALSE]]
    BY <1>3, <1>6, <1>8 DEF Directory
  <2> QED
    BY <1>4, <1>5, <2>2, <2>3, Exits DEF ClosesBehind
<1> QED
  BY <1>7, <1>8

\* Zeroing a slot is an exit, or nothing if its client had left before.
LEMMA GoneExits ==
  ASSUME RInv, NEW a \in Agents, OnlyOne(a), NEW c \in Clients, c = job[a].client,
         clients' = [clients EXCEPT ![c] = Gone], UNCHANGED <<rooms, job>>,
         pc[a] \in {"drop", "sweep"}, pc'[a] = "done"
  PROVE  RoomsStep
<1>1. clients \in [Clients -> Client]
  BY OwnSeats
<1>2. Seat'[c] = 0
  BY <1>1, SeatsBy DEF SeatBy, Gone
<1>3. \A d \in Clients : d # c => Seat'[d] = Seat[d]
  BY <1>1, SeatsBy DEF SeatBy
<1> QED
  BY <1>2, <1>3, Exits, DirectoryKept DEF ClosesBehind

-----------------------------------------------------------------------------
(* The steps of the server.                                                *)

\* Every step of an agent is a step of the abstract rooms, or none.
LEMMA AgentImplements ==
  ASSUME OneAtATime, LimitsBounded, RInv, NEW a \in Agents, AgentStep(a) PROVE RoomsStep
<1>1. OnlyOne(a)
  BY StepOnlyOne
<1>2. CASE Drop(a)
  <2>1. /\ pc \in [Agents -> Steps] /\ JobMatchesStep(a)
    BY OwnSeats
  <2>2. /\ pc[a] = "drop" /\ pc'[a] = "done" /\ UNCHANGED <<rooms, job>>
        /\ job[a].client \in Clients /\ clients' = [clients EXCEPT ![job[a].client] = Gone]
    BY <1>2, <2>1 DEF Drop, Zero, Goto, JobMatchesStep
  <2> QED
    BY <1>1, <2>2, GoneExits
<1> QED
  BY <1>1, <1>2, ReceiveStutters, HandlingStutters, CreateOpens, JoinEnters,
     DepartFindStutters, DepartWriteStutters, DepartCloseExits DEF AgentStep

\* Who arrives has no seat, and had none.
LEMMA ArriveStutters ==
  ASSUME IInv, NEW c \in Clients, Arrive(c) PROVE RoomsStep
<1>0. clients \in [Clients -> Client]
  BY Types DEF IInv
<1>1. /\ UNCHANGED <<rooms, pc, job>> /\ ~clients[c].is_active
      /\ clients'[c].state = "CONNECTED" /\ \A d \in Clients : d # c => clients'[d] = clients[d]
  BY <1>0 DEF Arrive
<1>2. \A d \in Clients : Seat'[d] = Seat[d]
  BY <1>1 DEF Seat, Leaving
<1> QED
  BY <1>1, <1>2, SameSeats, DirectoryKept, Stutters

\* The sweep, where the main thread is the only agent, takes effect when it
\* zeroes the slot.
LEMMA SweepImplements ==
  ASSUME OneAtATime, RInv, SweepDrop \/ \E c \in Clients : SweepFind(c) PROVE RoomsStep
<1>1. /\ OnlyOne(Main) /\ Main \in Agents /\ JobMatchesStep(Main)
      /\ pc \in [Agents -> Steps] /\ job \in [Agents -> Job]
  BY SweepOnlyOne, OwnSeats
<1>2. CASE SweepDrop
  <2>1. /\ pc[Main] = "sweep" /\ pc'[Main] = "done" /\ UNCHANGED <<rooms, job>>
        /\ job[Main].client \in Clients
        /\ clients' = [clients EXCEPT ![job[Main].client] = Gone]
    BY <1>1, <1>2 DEF SweepDrop, Zero, Goto, JobMatchesStep
  <2> QED
    BY <1>1, <2>1, GoneExits
<1>3. CASE \E c \in Clients : SweepFind(c)
  <2>1. UNCHANGED <<clients, rooms>> /\ pc[Main] = "idle" /\ pc'[Main] = "sweep"
    BY <1>1, <1>3 DEF SweepFind, Goto
  <2>2. \A d \in Clients : SeatBy(Main, d)' = SeatBy(Main, d)
    BY <2>1 DEF SeatBy
  <2> QED
    BY <1>1, <2>1, <2>2, SeatsKept, DirectoryKept, Stutters
<1> QED
  BY <1>2, <1>3

\* Every step of the server is a step of the abstract rooms, or none.
LEMMA NextImplements ==
  OneAtATime /\ LimitsBounded /\ RInv /\ [Next]_vars => RoomsStep
<1> SUFFICES ASSUME OneAtATime, LimitsBounded, RInv, [Next]_vars PROVE RoomsStep
  OBVIOUS
<1>1. CASE Next
  <2>1. IInv
    BY DEF RInv
  <2> QED
    BY <1>1, <2>1, NextCases, AgentImplements, ArriveStutters, SweepImplements
<1>2. CASE UNCHANGED vars
  BY <1>2 DEF vars, RoomsStep, Rooms!vars, Directory, Seat, Leaving
<1> QED
  BY <1>1, <1>2

\* Initially every room is closed and nobody is seated.
LEMMA InitImplements == Init => Rooms!Init
<1> SUFFICES ASSUME Init PROVE Rooms!Init
  OBVIOUS
<1>1. Seat = [c \in Clients |-> 0]
  BY DEF Init, Seat, Gone
<1>2. Directory = [r \in RoomIds |-> [open |-> FALSE]]
  BY DEF Init, Directory
<1> QED
  BY <1>1, <1>2 DEF Rooms!Init, Rooms!Closed, Rooms!Nowhere

\* In select mode and in thread mode the handlers of server.c, cut into steps
\* that lock or look or write, implement the abstract rooms: nobody is let
\* into a closed or a full room, no room is closed over a member, and no
\* room is opened over another one.
THEOREM ThreadsImplementRooms == OneAtATime /\ LimitsBounded => (Spec => ImplementsRooms)
<1> SUFFICES ASSUME OneAtATime, LimitsBounded PROVE Spec => ImplementsRooms
  OBVIOUS
<1>1. RInv /\ [Next]_vars => RInv'
  BY NextRInv
<1>2. RInv /\ [Next]_vars => RoomsStep
  BY NextImplements
<1> QED
  BY <1>1, <1>2, InitRInv, InitImplements, PTL
  DEF Spec, ImplementsRooms, Rooms!Spec, RoomsStep

=============================================================================
