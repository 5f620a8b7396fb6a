------------------------ MODULE ServerThreadsProofs -------------------------
(***************************************************************************)
(* Proofs about ServerThreads, for every number of clients and rooms and   *)
(* for every way of serving them: all by the main thread, all by threads,  *)
(* or mixed.  The inductive invariant says where the local variables of a  *)
(* handler have been set and where each mutex is held.                     *)
(***************************************************************************)
EXTENDS ServerThreads, FiniteSetTheorems, TLAPS

\* The steps after the room index has been found.
RoomKnown == {"create_name", "create_fill", "create_open", "join_seat", "join_count",
              "depart_read", "depart_write", "depart_close"}

\* What a handler has set before it reaches a step.
JobMatchesStep(a) ==
  /\ pc[a] \notin {"idle", "locked"} => job[a].client \in Clients
  /\ pc[a] \in RoomKnown => job[a].room \in RoomIds
  /\ pc[a] = "room_lock" => job[a].kind \in {"join", "leave", "chat"}
  /\ pc[a] = "private_send" => a = Main
JobsMatchSteps == \A a \in Agents : JobMatchesStep(a)

IInv == TypeOK /\ JobsMatchSteps /\ LocksMatchSteps

Client == [is_active : BOOLEAN, state : {"DISCONNECTED", "CONNECTED", "IN_ROOM"},
           current_room_id : RoomIds \cup {NoRoom, 0}]
Room == [is_active : BOOLEAN, room_name : RoomNames \cup {"none"},
         max_clients : Limits \cup {0}, client_count : Nat]
Job == [client : Clients \cup {NoAgent}, kind : Kinds \cup {"none"},
        name : RoomNames \cup {"none"}, limit : Limits \cup {0},
        room : RoomIds \cup {NoRoom}, count : Nat]

USE DEF Agents

\* When the server starts nobody holds a mutex and every agent is idle.
LEMMA InitIInv == Init => IInv
<1> SUFFICES ASSUME Init PROVE IInv
  OBVIOUS
<1>1. TypeOK
  BY ThreadsAssumption, RoomsAssumption
  DEF Init, TypeOK, Gone, NoJob, NewJob, Steps, NoRoom
<1>2. JobsMatchSteps
  BY DEF Init, JobsMatchSteps, JobMatchesStep, RoomKnown
<1>3. LocksMatchSteps
  BY ThreadsAssumption
  DEF Init, LocksMatchSteps, HoldsClientMutex, HoldsRoomMutex, RoomSteps, DepartSteps
<1> QED
  BY <1>1, <1>2, <1>3 DEF IInv

-----------------------------------------------------------------------------
(* Types.                                                                  *)

\* The type invariant, one function set per variable.
LEMMA Types ==
  ASSUME TypeOK
  PROVE  /\ clients \in [Clients -> Client] /\ rooms \in [RoomIds -> Room]
         /\ pc \in [Agents -> Steps] /\ job \in [Agents -> Job]
         /\ lost \in [RoomIds -> Nat]
BY DEF TypeOK, Client, Room, Job

\* The type invariant after a step, from one function set per variable.
LEMMA TypesSuffice ==
  ASSUME clients' \in [Clients -> Client], rooms' \in [RoomIds -> Room],
         pc' \in [Agents -> Steps], job' \in [Agents -> Job],
         lost' \in [RoomIds -> Nat],
         client_mutex' \in Agents \cup {NoAgent}, room_mutex' \in Agents \cup {NoAgent}
  PROVE  TypeOK'
BY DEF TypeOK, Client, Room, Job

\* Remember sets two local variables of one agent.
LEMMA RememberType ==
  ASSUME TypeOK, NEW a \in Agents, NEW r \in RoomIds \cup {NoRoom}, NEW n \in Nat,
         Remember(a, r, n)
  PROVE  /\ job' \in [Agents -> Job]
         /\ job'[a] = [job[a] EXCEPT !.room = r, !.count = n]
         /\ job'[a].room = r /\ job'[a].client = job[a].client
         /\ job'[a].kind = job[a].kind
         /\ \A b \in Agents : b # a => job'[b] = job[b]
<1> DEFINE j == [job[a] EXCEPT !.room = r, !.count = n]
<1>1. job \in [Agents -> Job] /\ job[a] \in Job
  BY Types
<1>2. job' = [job EXCEPT ![a] = j]
  BY <1>1 DEF Remember, Job
<1>3. j \in Job /\ j.room = r /\ j.client = job[a].client /\ j.kind = job[a].kind
  BY <1>1 DEF Job
<1> HIDE DEF j
<1>4. job'[a] = j /\ \A b \in Agents : b # a => job'[b] = job[b]
  BY <1>1, <1>2
<1>5. job' \in [Agents -> Job]
  BY <1>1, <1>2, <1>3
<1> QED
  BY <1>3, <1>4, <1>5 DEF j

\* Zeroing a slot keeps the types of what it changes.
LEMMA ZeroType ==
  ASSUME TypeOK, NEW c \in Clients, Zero(c)
  PROVE  clients' \in [Clients -> Client] /\ lost' \in [RoomIds -> Nat]
<1>1. Gone \in Client
  BY DEF Gone, Client
<1> QED
  BY <1>1, Types DEF Zero

\* What a list shows can be counted.
LEMMA ListedFinite ==
  ASSUME TypeOK, NEW a \in Agents PROVE Cardinality(Listed(a)) \in Nat
<1>1. IsFiniteSet(RoomIds) /\ ActiveRooms \subseteq RoomIds
  BY FS_Interval, RoomsAssumption DEF RoomIds, ActiveRooms
<1>2. \A r : Members(r) \subseteq Clients
  BY DEF Members
<1>3. IsFiniteSet(Listed(a))
  BY <1>1, <1>2, FS_Subset, ThreadsAssumption DEF Listed
<1> QED
  BY <1>3, FS_CardinalityType

\* The steps a request can begin with.
LEMMA FirstStepIn ==
  ASSUME NEW c, NEW k
  PROVE  FirstStep(c, k) \in {"create_find", "room_lock", "client_lock", "list_size",
                              "depart_find", "drop", "done"}
BY DEF FirstStep

\* Whoever is served is a client.
LEMMA ServesClients ==
  ASSUME NEW a \in Agents, NEW c \in Serves(a) PROVE c \in Clients
BY ThreadsAssumption DEF Serves

\* A request that is received: the job is new, the rest is not.
Received(a, c, k) ==
  /\ c \in Clients /\ c \in Serves(a) /\ k \in Kinds
  /\ clients[c].is_active \/ k = "lost"
  /\ pc[a] \in {"idle", "locked"} /\ (a \in Threaded => pc[a] = "locked")
  /\ \E n \in RoomNames \cup {"none"}, m \in Limits \cup {0} :
       /\ k = "create" => n \in RoomNames /\ m \in Limits
       /\ job' = [job EXCEPT ![a] = NewJob(c, k, n, m)]
  /\ pc' = [pc EXCEPT ![a] = FirstStep(c, k)]
  /\ UNCHANGED <<clients, rooms, client_mutex, room_mutex, lost>>

\* A request is received with some client and kind.
LEMMA RequestReceived ==
  ASSUME NEW a \in Agents, Request(a)
  PROVE  \E c \in Clients : \E k \in Kinds : Received(a, c, k)
<1>1. PICK c \in Serves(a), k \in Kinds :
        \E n \in RoomNames \cup {"none"}, m \in Limits \cup {0} :
          (k = "create" => n \in RoomNames /\ m \in Limits) /\ Receive(a, c, k, n, m)
  BY DEF Request
<1>2. Received(a, c, k)
  BY <1>1, ServesClients, ThreadsAssumption DEF Receive, Received, Goto
<1> QED
  BY <1>1, <1>2, ServesClients

\* What the local variables are after a request is received.
LEMMA ReceivedJob ==
  ASSUME TypeOK, NEW a \in Agents, NEW c \in Clients, NEW k \in Kinds, Received(a, c, k)
  PROVE  /\ job' \in [Agents -> Job]
         /\ job'[a].client = c /\ job'[a].kind = k
         /\ \A b \in Agents : b # a => job'[b] = job[b]
<1>1. PICK n \in RoomNames \cup {"none"}, m \in Limits \cup {0} :
        job' = [job EXCEPT ![a] = NewJob(c, k, n, m)]
  BY DEF Received
<1>2. NewJob(c, k, n, m) \in Job
  BY DEF NewJob, Job
<1> QED
  BY <1>1, <1>2, Types DEF NewJob

\* Every step of Next is one of these.
AgentStep(a) ==
  \/ LockClients(a)
  \/ \E c \in Clients : \E k \in Kinds : Received(a, c, k)
  \/ CreateFind(a) \/ CreateName(a) \/ CreateFill(a) \/ CreateOpen(a)
  \/ RoomLock(a) \/ JoinFind(a) \/ JoinSeat(a) \/ JoinCount(a) \/ ChatSend(a)
  \/ DepartFind(a) \/ DepartRead(a) \/ DepartWrite(a) \/ DepartClose(a)
  \/ ClientLock(a) \/ PrivateSend(a) \/ ListSize(a) \/ ListFill(a)
  \/ Drop(a) \/ Finish(a)

\* A step is an arrival, a step of the sweep, or a step of one agent.
LEMMA NextCases ==
  ASSUME Next
  PROVE  \/ \E c \in Clients : Arrive(c) \/ SweepFind(c)
         \/ SweepDrop
         \/ \E a \in Agents : AgentStep(a)
<1>1. ASSUME NEW a \in Agents, Request(a) PROVE AgentStep(a)
  BY <1>1, RequestReceived DEF AgentStep
<1>2. ASSUME NEW a \in Agents, Handle(a) PROVE AgentStep(a)
  BY <1>2 DEF AgentStep, Handle
<1>3. ASSUME NEW a \in Agents, LockClients(a) PROVE AgentStep(a)
  BY <1>3 DEF AgentStep
<1> QED
  BY <1>1, <1>2, <1>3 DEF Next

-----------------------------------------------------------------------------
(* Types are kept.                                                         *)

\* Every step keeps the types.
LEMMA TypeStep == IInv /\ [Next]_vars => TypeOK'
<1> SUFFICES ASSUME IInv, [Next]_vars PROVE TypeOK'
  OBVIOUS
<1>0. /\ TypeOK /\ JobsMatchSteps
      /\ clients \in [Clients -> Client] /\ rooms \in [RoomIds -> Room]
      /\ pc \in [Agents -> Steps] /\ job \in [Agents -> Job] /\ lost \in [RoomIds -> Nat]
      /\ client_mutex \in Agents \cup {NoAgent} /\ room_mutex \in Agents \cup {NoAgent}
  BY Types DEF IInv, TypeOK
<1>1. ASSUME NEW c \in Clients, Arrive(c) PROVE TypeOK'
  BY <1>0, <1>1, TypesSuffice DEF Arrive, Client
<1>2. ASSUME NEW c \in Clients, SweepFind(c) PROVE TypeOK'
  <2>1. NewJob(c, "timeout", "none", 0) \in Job
    BY DEF NewJob, Job, Kinds
  <2>3. job' \in [Agents -> Job] /\ pc' \in [Agents -> Steps]
    BY <1>0, <1>2, <2>1 DEF SweepFind, Goto, Steps
  <2> QED
    BY <1>0, <1>2, <2>3, TypesSuffice DEF SweepFind
<1>3. CASE SweepDrop
  <2>1. job[Main].client \in Clients
    BY <1>0, <1>3 DEF SweepDrop, JobsMatchSteps, JobMatchesStep
  <2>2. pc' \in [Agents -> Steps]
    BY <1>0, <1>3 DEF SweepDrop, Goto, Steps
  <2> QED
    BY <1>0, <1>3, <2>1, <2>2, ZeroType, TypesSuffice DEF SweepDrop
<1>4. ASSUME NEW a \in Agents, LockClients(a) \/ ClientLock(a) \/ PrivateSend(a)
      PROVE  TypeOK'
  BY <1>0, <1>4, TypesSuffice DEF LockClients, ClientLock, PrivateSend, Goto, Steps
<1>5. ASSUME NEW a \in Agents, Drop(a) PROVE TypeOK'
  <2>1. job[a].client \in Clients
    BY <1>0, <1>5 DEF Drop, JobsMatchSteps, JobMatchesStep
  <2>2. pc' \in [Agents -> Steps]
    BY <1>0, <1>5 DEF Drop, Goto, Steps
  <2>3. clients' \in [Clients -> Client] /\ lost' \in [RoomIds -> Nat]
    <3>1. Gone \in Client
      BY DEF Gone, Client
    <3> QED
      BY <1>0, <1>5, <2>1, <3>1, ZeroType DEF Drop
  <2> QED
    BY <1>0, <1>5, <2>2, <2>3, TypesSuffice DEF Drop
<1>6. ASSUME NEW a \in Agents, Finish(a) PROVE TypeOK'
  <2>1. NoJob \in Job
    BY DEF NoJob, NewJob, Job
  <2>2. job' \in [Agents -> Job] /\ pc' \in [Agents -> Steps]
    BY <1>0, <1>6, <2>1 DEF Finish, Goto, Steps
  <2> QED
    BY <1>0, <1>6, <2>2, TypesSuffice DEF Finish
<1>7. ASSUME NEW a \in Agents, NEW c \in Clients, NEW k \in Kinds, Received(a, c, k)
      PROVE  TypeOK'
  <2>1. pc' \in [Agents -> Steps]
    BY <1>0, <1>7, FirstStepIn DEF Received, Steps, DepartSteps
  <2> QED
    BY <1>0, <1>7, <2>1, ReceivedJob, TypesSuffice DEF Received
<1>8. ASSUME NEW a \in Agents,
             CreateFind(a) \/ JoinFind(a) \/ DepartRead(a) \/ ListSize(a)
      PROVE  TypeOK'
  <2>1. /\ pc' \in [Agents -> Steps] /\ UNCHANGED <<clients, rooms, client_mutex, lost>>
        /\ room_mutex' \in Agents \cup {NoAgent}
    BY <1>0, <1>8 DEF CreateFind, JoinFind, DepartRead, ListSize, Goto, Steps,
                      RoomSteps, DepartSteps
  <2>2. ASSUME NEW r \in RoomIds, Remember(a, r, 0) PROVE job' \in [Agents -> Job]
    BY <1>0, <2>2, RememberType
  <2>3. ASSUME CreateFind(a) PROVE job' \in [Agents -> Job]
    BY <1>0, <2>2, <2>3 DEF CreateFind, FreeRooms
  <2>4. ASSUME JoinFind(a) PROVE job' \in [Agents -> Job]
    BY <1>0, <2>2, <2>4 DEF JoinFind, RoomsNamed, ActiveRooms
  <2>5. ASSUME DepartRead(a) PROVE job' \in [Agents -> Job]
    <3>1. job[a].room \in RoomIds
      BY <1>0, <2>5 DEF DepartRead, JobsMatchSteps, JobMatchesStep, RoomKnown
    <3>2. rooms[job[a].room].client_count \in Nat
      BY <1>0, <3>1 DEF Room
    <3> QED
      BY <1>0, <2>5, <3>1, <3>2, RememberType DEF DepartRead
  <2>6. ASSUME ListSize(a) PROVE job' \in [Agents -> Job]
    BY <1>0, <2>6, ListedFinite, RememberType DEF ListSize
  <2> QED
    BY <1>0, <1>8, <2>1, <2>3, <2>4, <2>5, <2>6, TypesSuffice
<1>9. ASSUME NEW a \in Agents, CreateName(a) \/ RoomLock(a) \/ ChatSend(a) \/ ListFill(a)
      PROVE  TypeOK'
  BY <1>0, <1>9, TypesSuffice
  DEF CreateName, RoomLock, ChatSend, ListFill, Goto, Steps, RoomSteps, DepartSteps,
      JobsMatchSteps, JobMatchesStep
<1>10. ASSUME NEW a \in Agents, CreateFill(a) \/ CreateOpen(a) \/ JoinCount(a)
       PROVE  TypeOK'
  <2>1. job[a].room \in RoomIds
    BY <1>0, <1>10 DEF CreateFill, CreateOpen, JoinCount, JobsMatchSteps, JobMatchesStep, RoomKnown
  <2>2. pc' \in [Agents -> Steps]
    BY <1>0, <1>10 DEF CreateFill, CreateOpen, JoinCount, Goto, Steps
  <2>3. rooms'[job[a].room] \in Room
    <3>1. rooms[job[a].room] \in Room /\ job[a] \in Job
      BY <1>0, <2>1
    <3>2. CASE CreateFill(a)
      BY <1>0, <2>1, <3>1, <3>2 DEF CreateFill, Room, Job
    <3>3. CASE CreateOpen(a)
      BY <1>0, <2>1, <3>1, <3>3 DEF CreateOpen, Room
    <3>4. CASE JoinCount(a)
      <4> DEFINE n == job[a].count + 1
      <4>1. n \in Nat
        BY <3>1 DEF Job
      <4>2. rooms' = [rooms EXCEPT ![job[a].room].client_count = n]
        BY <3>4 DEF JoinCount
      <4> HIDE DEF n
      <4>3. rooms'[job[a].room] = [rooms[job[a].room] EXCEPT !.client_count = n]
        BY <1>0, <2>1, <4>2
      <4>4. \A room \in Room : [room EXCEPT !.client_count = n] \in Room
        BY <4>1 DEF Room
      <4> QED
        BY <3>1, <4>3, <4>4
    <3> QED
      BY <1>10, <3>2, <3>3, <3>4
  <2>4. rooms' \in [RoomIds -> Room]
    BY <1>0, <1>10, <2>1, <2>3 DEF CreateFill, CreateOpen, JoinCount
  <2>5. lost' \in [RoomIds -> Nat]
    <3>1. lost' = lost \/ lost' = [lost EXCEPT ![job[a].room] = 0]
      BY <1>10, Zenon DEF CreateFill, CreateOpen, JoinCount
    <3> QED
      BY <1>0, <2>1, <3>1
  <2> QED
    BY <1>0, <1>10, <2>2, <2>4, <2>5, TypesSuffice DEF CreateFill, CreateOpen, JoinCount
<1>11. ASSUME NEW a \in Agents, JoinSeat(a) PROVE TypeOK'
  <2>1. job[a].room \in RoomIds /\ job[a].client \in Clients
    BY <1>0, <1>11 DEF JoinSeat, JobsMatchSteps, JobMatchesStep, RoomKnown
  <2>2. clients'[job[a].client] \in Client
    <3>1. clients[job[a].client] \in Client
      BY <1>0, <2>1
    <3>2. clients'[job[a].client] = [clients[job[a].client] EXCEPT
            !.state = "IN_ROOM", !.current_room_id = job[a].room]
      BY <1>0, <1>11, <2>1 DEF JoinSeat, Client
    <3> QED
      BY <2>1, <3>1, <3>2 DEF Client
  <2>3. clients' \in [Clients -> Client]
    BY <1>0, <1>11, <2>1, <2>2 DEF JoinSeat
  <2>4. rooms[job[a].room].client_count \in Nat
    BY <1>0, <2>1 DEF Room
  <2>5. pc' \in [Agents -> Steps]
    BY <1>0, <1>11 DEF JoinSeat, Goto, Steps, RoomSteps
  <2>6. job' \in [Agents -> Job]
    BY <1>0, <1>11, <2>1, <2>4, RememberType DEF JoinSeat
  <2> QED
    BY <1>0, <1>11, <2>3, <2>5, <2>6, TypesSuffice DEF JoinSeat
<1>12. ASSUME NEW a \in Agents, job[a].client \in Clients, LeaveSeat(a)
       PROVE  clients' \in [Clients -> Client]
  <2>1. CASE Leaving(a)
    <3>1. clients'[job[a].client] \in Client
      BY <1>0, <1>12, <2>1 DEF LeaveSeat, Client
    <3> QED
      BY <1>0, <1>12, <2>1, <3>1 DEF LeaveSeat
  <2> QED
    BY <1>0, <1>12, <2>1 DEF LeaveSeat
<1>13. ASSUME NEW a \in Agents, DepartFind(a) PROVE TypeOK'
  <2>1. job[a].client \in Clients
    BY <1>0, <1>13 DEF DepartFind, JobsMatchSteps, JobMatchesStep
  <2>2. /\ pc' \in [Agents -> Steps] /\ room_mutex' \in Agents \cup {NoAgent}
        /\ UNCHANGED <<rooms, client_mutex, lost>>
    BY <1>0, <1>13 DEF DepartFind, EndDeparture, Goto, Steps, DepartSteps
  <2>3. clients' \in [Clients -> Client]
    BY <1>0, <1>12, <1>13, <2>1 DEF DepartFind
  <2>4. job' \in [Agents -> Job]
    BY <1>0, <1>13, RememberType DEF DepartFind, ActiveRooms
  <2> QED
    BY <1>0, <2>2, <2>3, <2>4, TypesSuffice
<1>14. ASSUME NEW a \in Agents, DepartWrite(a) PROVE TypeOK'
  <2> DEFINE r == job[a].room
             n == IF job[a].count > 0 THEN job[a].count - 1 ELSE 0
  <2>1. r \in RoomIds /\ job[a].client \in Clients /\ n \in Nat
    BY <1>0, <1>14 DEF DepartWrite, JobsMatchSteps, JobMatchesStep, RoomKnown, Job
  <2>2. /\ pc' \in [Agents -> Steps]
        /\ UNCHANGED <<client_mutex, room_mutex, lost>>
    BY <1>0, <1>14 DEF DepartWrite, Goto, Steps, DepartSteps
  <2>3. clients' \in [Clients -> Client]
    BY <1>0, <1>12, <1>14, <2>1 DEF DepartWrite
  <2>4. rooms' = rooms \/ rooms' = [rooms EXCEPT ![r].client_count = n]
    BY <1>14 DEF DepartWrite
  <2>5. job' \in [Agents -> Job]
    BY <1>0, <1>14, <2>1, RememberType DEF DepartWrite
  <2> HIDE DEF n, r
  <2>6. rooms' \in [RoomIds -> Room]
    BY <1>0, <2>1, <2>4 DEF Room
  <2> QED
    BY <1>0, <2>2, <2>3, <2>5, <2>6, TypesSuffice
<1>15. ASSUME NEW a \in Agents, DepartClose(a) PROVE TypeOK'
  <2>1. /\ pc' \in [Agents -> Steps] /\ room_mutex' \in Agents \cup {NoAgent}
        /\ UNCHANGED <<clients, client_mutex, job, lost>>
    BY <1>0, <1>15 DEF DepartClose, EndDeparture, Goto, Steps
  <2>2. job[a].room \in RoomIds
    BY <1>0, <1>15 DEF DepartClose, JobsMatchSteps, JobMatchesStep, RoomKnown
  <2>3. PICK open \in BOOLEAN : rooms' = [rooms EXCEPT ![job[a].room].is_active = open]
    BY <1>0, <1>15, <2>2 DEF DepartClose
  <2>4. rooms' \in [RoomIds -> Room]
    BY <1>0, <2>2, <2>3 DEF Room
  <2> QED
    BY <1>0, <2>1, <2>4, TypesSuffice
<1>16. CASE UNCHANGED vars
  BY <1>0, <1>16, TypesSuffice DEF vars
<1> QED
  BY <1>1, <1>2, <1>3, <1>4, <1>5, <1>6, <1>7, <1>8, <1>9, <1>10, <1>11, <1>13, <1>14,
     <1>15, <1>16, NextCases DEF AgentStep

-----------------------------------------------------------------------------
(* The local variables and the mutexes.                                    *)

\* A step of agent a leaves the other agents where they are.
Alone(a) == \A b \in Agents : b # a => pc'[b] = pc[b] /\ job'[b] = job[b]

\* An agent changes no other agent's step or local variables.
LEMMA StepAlone ==
  ASSUME IInv, NEW a \in Agents, AgentStep(a) PROVE Alone(a)
<1>1. pc \in [Agents -> Steps] /\ job \in [Agents -> Job]
  BY Types DEF IInv
<1> USE DEF Alone, Goto, Remember
<1>2. CASE \E c \in Clients : \E k \in Kinds : Received(a, c, k)
  BY <1>1, <1>2 DEF Received
<1>3. CASE LockClients(a) \/ CreateFind(a) \/ CreateName(a) \/ CreateFill(a) \/ CreateOpen(a)
  BY <1>1, <1>3 DEF LockClients, CreateFind, CreateName, CreateFill, CreateOpen
<1>4. CASE RoomLock(a) \/ JoinFind(a) \/ JoinSeat(a) \/ JoinCount(a) \/ ChatSend(a)
  BY <1>1, <1>4 DEF RoomLock, JoinFind, JoinSeat, JoinCount, ChatSend
<1>5. CASE DepartFind(a) \/ DepartRead(a) \/ DepartWrite(a) \/ DepartClose(a)
  BY <1>1, <1>5 DEF DepartFind, DepartRead, DepartWrite, DepartClose, EndDeparture
<1>6. CASE ClientLock(a) \/ PrivateSend(a) \/ ListSize(a) \/ ListFill(a) \/ Drop(a) \/ Finish(a)
  BY <1>1, <1>6 DEF ClientLock, PrivateSend, ListSize, ListFill, Drop, Finish
<1> QED
  BY <1>2, <1>3, <1>4, <1>5, <1>6 DEF AgentStep

\* What agent a does to a mutex: nothing, taking it while it is free, or
\* giving it back.
ClientMutexStep(a) ==
  \/ client_mutex' = client_mutex /\ (HoldsClientMutex(a)' <=> HoldsClientMutex(a))
  \/ client_mutex = NoAgent /\ client_mutex' = a /\ HoldsClientMutex(a)'
  \/ HoldsClientMutex(a) /\ client_mutex' = NoAgent /\ ~HoldsClientMutex(a)'
RoomMutexStep(a) ==
  \/ room_mutex' = room_mutex /\ (HoldsRoomMutex(a)' <=> HoldsRoomMutex(a))
  \/ room_mutex = NoAgent /\ room_mutex' = a /\ HoldsRoomMutex(a)'
  \/ HoldsRoomMutex(a) /\ room_mutex' = NoAgent /\ ~HoldsRoomMutex(a)'

\* If an agent's step treats both mutexes properly, they still match the steps.
LEMMA MutexSteps ==
  ASSUME IInv, NEW a \in Agents, Alone(a), ClientMutexStep(a), RoomMutexStep(a)
  PROVE  LocksMatchSteps'
<1>0. NoAgent \notin Agents
  BY ThreadsAssumption
<1>1. \A b \in Agents : b # a => /\ HoldsClientMutex(b)' <=> HoldsClientMutex(b)
                                 /\ HoldsRoomMutex(b)' <=> HoldsRoomMutex(b)
  BY DEF Alone, HoldsClientMutex, HoldsRoomMutex, Leaving
<1>2. \A b \in Agents : /\ client_mutex = b <=> HoldsClientMutex(b)
                        /\ room_mutex = b <=> HoldsRoomMutex(b)
  BY DEF IInv, LocksMatchSteps
<1>3. ASSUME NEW b \in Agents PROVE client_mutex' = b <=> HoldsClientMutex(b)'
  <2>1. CASE client_mutex' = client_mutex /\ (HoldsClientMutex(a)' <=> HoldsClientMutex(a))
    BY <1>1, <1>2, <2>1
  <2>2. CASE client_mutex = NoAgent /\ client_mutex' = a /\ HoldsClientMutex(a)'
    BY <1>0, <1>1, <1>2, <2>2
  <2>3. CASE HoldsClientMutex(a) /\ client_mutex' = NoAgent /\ ~HoldsClientMutex(a)'
    BY <1>0, <1>1, <1>2, <2>3
  <2> QED
    BY <2>1, <2>2, <2>3 DEF ClientMutexStep
<1>4. ASSUME NEW b \in Agents PROVE room_mutex' = b <=> HoldsRoomMutex(b)'
  <2>1. CASE room_mutex' = room_mutex /\ (HoldsRoomMutex(a)' <=> HoldsRoomMutex(a))
    BY <1>1, <1>2, <2>1
  <2>2. CASE room_mutex = NoAgent /\ room_mutex' = a /\ HoldsRoomMutex(a)'
    BY <1>0, <1>1, <1>2, <2>2
  <2>3. CASE HoldsRoomMutex(a) /\ room_mutex' = NoAgent /\ ~HoldsRoomMutex(a)'
    BY <1>0, <1>1, <1>2, <2>3
  <2> QED
    BY <2>1, <2>2, <2>3 DEF RoomMutexStep
<1> QED
  BY <1>3, <1>4 DEF LocksMatchSteps

\* An agent reaches no step before it has set the variables the step uses.
LEMMA JobsStep ==
  ASSUME IInv, NEW a \in Agents, AgentStep(a) PROVE JobsMatchSteps'
<1>0. /\ pc \in [Agents -> Steps] /\ job \in [Agents -> Job] /\ TypeOK
      /\ JobMatchesStep(a) /\ Alone(a)
      /\ client_mutex = a <=> HoldsClientMutex(a)
  BY Types, StepAlone DEF IInv, JobsMatchSteps, LocksMatchSteps
<1> SUFFICES JobMatchesStep(a)'
  BY <1>0 DEF IInv, JobsMatchSteps, JobMatchesStep, Alone
<1> USE DEF Goto
<1>1. ASSUME NEW c \in Clients, NEW k \in Kinds, Received(a, c, k) PROVE JobMatchesStep(a)'
  <2>1. pc'[a] = FirstStep(c, k)
    BY <1>0, <1>1 DEF Received
  <2>3. job'[a].client = c /\ job'[a].kind = k
    BY <1>0, <1>1, ReceivedJob
  <2>2. FirstStep(c, k) = "room_lock" => k \in {"join", "leave", "chat"}
    BY DEF FirstStep
  <2> QED
    BY <2>1, <2>2, <2>3, FirstStepIn DEF JobMatchesStep, RoomKnown
<1>2. CASE LockClients(a) \/ Finish(a)
  BY <1>0, <1>2 DEF LockClients, Finish, JobMatchesStep, RoomKnown
<1>3. CASE CreateFind(a)
  <2>1. CASE FreeRooms = {}
    BY <1>0, <1>3, <2>1 DEF CreateFind, JobMatchesStep, RoomKnown
  <2>2. CASE FreeRooms # {}
    <3>1. PICK r \in RoomIds : Remember(a, r, 0)
      BY <1>3, <2>2 DEF CreateFind, FreeRooms
    <3>2. pc'[a] = "create_name" /\ job[a].client \in Clients
      BY <1>0, <1>3, <2>2 DEF CreateFind, JobMatchesStep
    <3>3. job'[a].room = r /\ job'[a].client = job[a].client
      BY <1>0, <3>1, RememberType
    <3> QED
      BY <3>2, <3>3 DEF JobMatchesStep
  <2> QED
    BY <2>1, <2>2
<1>4. CASE JoinFind(a)
  <2>1. CASE pc'[a] = "done"
    BY <1>0, <1>4, <2>1, RememberType
    DEF JoinFind, RoomsNamed, ActiveRooms, JobMatchesStep, RoomKnown
  <2>2. CASE pc'[a] # "done"
    <3>1. PICK r \in RoomIds : Remember(a, r, 0)
      BY <1>0, <1>4, <2>2 DEF JoinFind, RoomsNamed, ActiveRooms
    <3>2. pc'[a] = "join_seat" /\ job[a].client \in Clients
      BY <1>0, <1>4, <2>2 DEF JoinFind, JobMatchesStep
    <3>3. job'[a].room = r /\ job'[a].client = job[a].client
      BY <1>0, <3>1, RememberType
    <3> QED
      BY <3>2, <3>3 DEF JobMatchesStep
  <2> QED
    BY <2>1, <2>2
<1>5. CASE DepartFind(a)
  <2> DEFINE r == clients[job[a].client].current_room_id
  <2>1. CASE r \in ActiveRooms
    <3>1. pc'[a] = "depart_read" /\ Remember(a, r, 0) /\ job[a].client \in Clients
      BY <1>0, <1>5, <2>1 DEF DepartFind, JobMatchesStep
    <3> HIDE DEF r
    <3>2. r \in RoomIds
      BY <2>1 DEF ActiveRooms
    <3>3. job'[a].room = r /\ job'[a].client = job[a].client
      BY <1>0, <3>1, <3>2, RememberType
    <3> QED
      BY <3>1, <3>2, <3>3 DEF JobMatchesStep
  <2>2. CASE r \notin ActiveRooms
    <3>1. pc'[a] \in {"done", "drop"} /\ job' = job /\ job[a].client \in Clients
      BY <1>0, <1>5, <2>2 DEF DepartFind, EndDeparture, JobMatchesStep
    <3> QED
      BY <3>1 DEF JobMatchesStep, RoomKnown
  <2> QED
    BY <2>1, <2>2
<1>6. CASE JoinSeat(a) \/ DepartRead(a) \/ DepartWrite(a)
  <2>1. job[a].room \in RoomIds /\ job[a].client \in Clients /\ job[a].count \in Nat
    BY <1>0, <1>6 DEF JoinSeat, DepartRead, DepartWrite, JobMatchesStep, RoomKnown, Job
  <2>2. rooms[job[a].room].client_count \in Nat
    BY <1>0, <2>1, Types DEF Room
  <2>3. \E n \in Nat : Remember(a, job[a].room, n)
    BY <1>6, <2>1, <2>2 DEF JoinSeat, DepartRead, DepartWrite
  <2>4. job'[a].room = job[a].room /\ job'[a].client = job[a].client
    BY <1>0, <2>1, <2>3, RememberType
  <2>5. pc'[a] \in {"join_count", "depart_write", "depart_close"}
    BY <1>0, <1>6 DEF JoinSeat, DepartRead, DepartWrite
  <2> QED
    BY <2>1, <2>4, <2>5 DEF JobMatchesStep
<1>7. CASE CreateName(a) \/ CreateFill(a) \/ CreateOpen(a)
  BY <1>0, <1>7 DEF CreateName, CreateFill, CreateOpen, JobMatchesStep, RoomKnown
<1>8. CASE RoomLock(a) \/ JoinCount(a) \/ ChatSend(a) \/ DepartClose(a)
  BY <1>0, <1>8
  DEF RoomLock, JoinCount, ChatSend, DepartClose, EndDeparture, JobMatchesStep, RoomKnown
<1>9. CASE ClientLock(a)
  <2>1. a = Main
    BY <1>0, <1>9, ThreadsAssumption DEF ClientLock, HoldsClientMutex
  <2> QED
    BY <1>0, <1>9, <2>1 DEF ClientLock, JobMatchesStep, RoomKnown
<1>10. CASE ListSize(a)
  BY <1>0, <1>10, ListedFinite, RememberType DEF ListSize, JobMatchesStep, RoomKnown
<1>11. CASE PrivateSend(a) \/ ListFill(a) \/ Drop(a)
  BY <1>0, <1>11 DEF PrivateSend, ListFill, Drop, JobMatchesStep, RoomKnown
<1> QED
  BY <1>1, <1>2, <1>3, <1>4, <1>5, <1>6, <1>7, <1>8, <1>9, <1>10, <1>11 DEF AgentStep

\* Every step of an agent treats both mutexes properly.
LEMMA LocksStep ==
  ASSUME IInv, NEW a \in Agents, AgentStep(a) PROVE LocksMatchSteps'
<1>0. /\ pc \in [Agents -> Steps] /\ job \in [Agents -> Job] /\ TypeOK
      /\ JobMatchesStep(a) /\ Alone(a) /\ a # NoAgent /\ Main \notin Threaded
      /\ client_mutex = a <=> HoldsClientMutex(a)
      /\ room_mutex = a <=> HoldsRoomMutex(a)
  BY Types, StepAlone, ThreadsAssumption DEF IInv, JobsMatchSteps, LocksMatchSteps
<1> SUFFICES ClientMutexStep(a) /\ RoomMutexStep(a)
  BY <1>0, MutexSteps
<1> USE <1>0 DEF Goto, ClientMutexStep, RoomMutexStep, HoldsClientMutex, HoldsRoomMutex,
                 RoomSteps, DepartSteps, Leaving
<1>1. ASSUME NEW c \in Clients, NEW k \in Kinds, Received(a, c, k)
      PROVE  ClientMutexStep(a) /\ RoomMutexStep(a)
  <2>1. pc'[a] = FirstStep(c, k)
    BY <1>1 DEF Received
  <2>3. job'[a].kind = k
    BY <1>1, ReceivedJob
  <2>2. FirstStep(c, k) = "depart_find" => k = "disconnect"
    BY DEF FirstStep
  <2> QED
    BY <1>1, <2>1, <2>2, <2>3, FirstStepIn DEF Received
<1>2. CASE LockClients(a) \/ Finish(a)
  BY <1>2 DEF LockClients, Finish
<1>3. CASE CreateFind(a)
  BY <1>3 DEF CreateFind
<1>4. CASE JoinFind(a)
  BY <1>4 DEF JoinFind
<1>5. CASE DepartFind(a)
  <2> DEFINE r == clients[job[a].client].current_room_id
  <2>1. CASE r \in ActiveRooms
    <3>1. Remember(a, r, 0)
      BY <1>5, <2>1 DEF DepartFind
    <3>2. r \in RoomIds
      BY <2>1 DEF ActiveRooms
    <3> HIDE DEF r
    <3>3. job'[a].kind = job[a].kind
      BY <3>1, <3>2, RememberType
    <3> QED
      BY <1>5, <2>1, <3>3 DEF DepartFind, r
  <2>2. CASE r \notin ActiveRooms
    BY <1>5, <2>2 DEF DepartFind, EndDeparture
  <2> QED
    BY <2>1, <2>2
<1>6. CASE JoinSeat(a) \/ DepartRead(a) \/ DepartWrite(a)
  <2>1. job[a].room \in RoomIds /\ job[a].count \in Nat
    BY <1>6 DEF JoinSeat, DepartRead, DepartWrite, JobMatchesStep, RoomKnown, Job
  <2>2. rooms[job[a].room].client_count \in Nat
    BY <2>1, Types DEF Room
  <2>3. \E n \in Nat : Remember(a, job[a].room, n)
    BY <1>6, <2>1, <2>2 DEF JoinSeat, DepartRead, DepartWrite
  <2>4. job'[a].kind = job[a].kind
    BY <2>1, <2>3, RememberType
  <2> QED
    BY <1>6, <2>4 DEF JoinSeat, DepartRead, DepartWrite
<1>7. CASE CreateName(a) \/ CreateFill(a) \/ CreateOpen(a)
  BY <1>7 DEF CreateName, CreateFill, CreateOpen
<1>8. CASE RoomLock(a)
  BY <1>8 DEF RoomLock, JobMatchesStep
<1>9. CASE JoinCount(a) \/ ChatSend(a)
  BY <1>9 DEF JoinCount, ChatSend
<1>10. CASE DepartClose(a)
  BY <1>10 DEF DepartClose, EndDeparture
<1>11. CASE ClientLock(a)
  BY <1>11 DEF ClientLock
<1>12. CASE PrivateSend(a)
  BY <1>12 DEF PrivateSend, JobMatchesStep
<1>13. CASE ListSize(a) \/ ListFill(a) \/ Drop(a)
  BY <1>13 DEF ListSize, ListFill, Drop
<1> QED
  BY <1>1, <1>2, <1>3, <1>4, <1>5, <1>6, <1>7, <1>8, <1>9, <1>10, <1>11, <1>12, <1>13
  DEF AgentStep

\* The main thread's arrivals and sweeps take no lock.
LEMMA MainStep ==
  ASSUME IInv, SweepDrop \/ \E c \in Clients : Arrive(c) \/ SweepFind(c)
  PROVE  JobsMatchSteps' /\ LocksMatchSteps'
<1>0. /\ pc \in [Agents -> Steps] /\ job \in [Agents -> Job]
      /\ JobsMatchSteps /\ LocksMatchSteps /\ Main \notin Threaded
  BY Types, ThreadsAssumption DEF IInv
<1> USE <1>0 DEF JobsMatchSteps, JobMatchesStep, LocksMatchSteps, HoldsClientMutex,
                 HoldsRoomMutex, RoomSteps, DepartSteps, Leaving, RoomKnown, Goto
<1>1. ASSUME NEW c \in Clients, Arrive(c) PROVE JobsMatchSteps' /\ LocksMatchSteps'
  BY <1>1 DEF Arrive
<1>2. ASSUME NEW c \in Clients, SweepFind(c) PROVE JobsMatchSteps' /\ LocksMatchSteps'
  BY <1>2 DEF SweepFind, NewJob
<1>3. CASE SweepDrop
  BY <1>3 DEF SweepDrop
<1> QED
  BY <1>1, <1>2, <1>3

-----------------------------------------------------------------------------
(* The theorems.                                                           *)

\* Every step keeps the invariant.
LEMMA NextIInv == IInv /\ [Next]_vars => IInv'
<1> SUFFICES ASSUME IInv, [Next]_vars PROVE JobsMatchSteps' /\ LocksMatchSteps'
  BY TypeStep DEF IInv
<1>1. CASE Next
  BY <1>1, NextCases, JobsStep, LocksStep, MainStep
<1>2. CASE UNCHANGED vars
  BY <1>2 DEF vars, IInv, JobsMatchSteps, JobMatchesStep, LocksMatchSteps,
              HoldsClientMutex, HoldsRoomMutex, Leaving
<1> QED
  BY <1>1, <1>2

\* The inductive invariant holds in every state the server reaches.
THEOREM Invariance == Spec => []IInv
BY InitIInv, NextIInv, PTL DEF Spec

\* Every variable keeps its type, however the threads are interleaved.
THEOREM TypeCorrect == Spec => []TypeOK
<1>1. IInv => TypeOK
  BY DEF IInv
<1> QED
  BY <1>1, Invariance, PTL

\* Each mutex is held exactly in the steps the code has between its lock and
\* its unlock, on every path: so at most one thread is in those steps.
THEOREM LocksCorrect == Spec => []LocksMatchSteps
<1>1. IInv => LocksMatchSteps
  BY DEF IInv
<1> QED
  BY <1>1, Invariance, PTL

\* No two threads wait for each other, whatever the clients ask for.
THEOREM DeadlockOnlyWithOneself == Spec => []NoCircularWait
<1>1. IInv => NoCircularWait
  <2> SUFFICES ASSUME IInv, NEW a \in Agents, NEW b \in Agents, a # b,
                      WaitsFor(a) = b, WaitsFor(b) = a
               PROVE  FALSE
    BY DEF NoCircularWait
  <2>1. /\ NoAgent \notin Agents
        /\ \A c \in Agents : room_mutex = c => HoldsRoomMutex(c)
    BY ThreadsAssumption DEF IInv, LocksMatchSteps
  <2>2. /\ pc[a] \in {"client_lock", "room_lock"} => ~HoldsRoomMutex(a)
        /\ pc[b] \in {"client_lock", "room_lock"} => ~HoldsRoomMutex(b)
    BY DEF HoldsRoomMutex, RoomSteps, DepartSteps
  <2>3. pc[a] \in {"client_lock", "room_lock"} /\ pc[b] \in {"client_lock", "room_lock"}
    BY <2>1 DEF WaitsFor
  <2> QED
    BY <2>1, <2>2, <2>3 DEF WaitsFor
<1> QED
  BY <1>1, Invariance, PTL

-----------------------------------------------------------------------------
(* Who waits for whom.                                                     *)

\* Only the handler of private messages comes to client_lock, and an agent
\* comes there only if its clients send such messages.
PrivateAtLock ==
  \A a \in Agents :
    pc[a] = "client_lock" => job[a].kind = "private" /\ "private" \in May(a)

\* A request that begins with client_lock is a private message.
LEMMA PrivateFirst ==
  ASSUME NEW c, NEW k, FirstStep(c, k) = "client_lock" PROVE k = "private"
BY DEF FirstStep

\* No other step leads to client_lock.
LEMMA HandleAvoidsLock ==
  ASSUME IInv, NEW a \in Agents, LockClients(a) \/ Handle(a)
  PROVE  pc'[a] # "client_lock"
<1>0. pc \in [Agents -> Steps] /\ JobMatchesStep(a)
  BY Types DEF IInv, JobsMatchSteps
<1> USE <1>0 DEF Goto
<1>1. CASE LockClients(a) \/ CreateFind(a) \/ CreateName(a) \/ CreateFill(a) \/ CreateOpen(a)
  BY <1>1 DEF LockClients, CreateFind, CreateName, CreateFill, CreateOpen
<1>2. CASE RoomLock(a) \/ JoinFind(a) \/ JoinSeat(a) \/ JoinCount(a) \/ ChatSend(a)
  BY <1>2 DEF RoomLock, JoinFind, JoinSeat, JoinCount, ChatSend, JobMatchesStep
<1>3. CASE DepartFind(a) \/ DepartRead(a) \/ DepartWrite(a) \/ DepartClose(a)
  BY <1>3 DEF DepartFind, DepartRead, DepartWrite, DepartClose, EndDeparture
<1>4. CASE ClientLock(a) \/ PrivateSend(a) \/ ListSize(a) \/ ListFill(a) \/ Drop(a) \/ Finish(a)
  BY <1>4 DEF ClientLock, PrivateSend, ListSize, ListFill, Drop, Finish
<1> QED
  BY <1>1, <1>2, <1>3, <1>4 DEF Handle

\* Every step keeps PrivateAtLock.
LEMMA PrivateStep == IInv /\ PrivateAtLock /\ [Next]_vars => PrivateAtLock'
<1> SUFFICES ASSUME IInv, PrivateAtLock, [Next]_vars PROVE PrivateAtLock'
  OBVIOUS
<1>0. pc \in [Agents -> Steps] /\ job \in [Agents -> Job] /\ TypeOK
  BY Types DEF IInv
<1>1. ASSUME NEW a \in Agents, AgentStep(a),
             pc'[a] = "client_lock" => job'[a].kind = "private" /\ "private" \in May(a)
      PROVE  PrivateAtLock'
  <2>1. \A b \in Agents : b # a => pc'[b] = pc[b] /\ job'[b] = job[b]
    BY <1>1, StepAlone DEF Alone
  <2>2. \A b : May(b)' = May(b)
    BY DEF May
  <2> QED
    BY <1>1, <2>1, <2>2 DEF PrivateAtLock
<1>2. ASSUME NEW a \in Agents, LockClients(a) \/ Handle(a) PROVE PrivateAtLock'
  <2>1. AgentStep(a)
    BY <1>2 DEF AgentStep, Handle
  <2> QED
    BY <1>1, <1>2, <2>1, HandleAvoidsLock
<1>3. ASSUME NEW a \in Agents, Request(a) PROVE PrivateAtLock'
  <2>1. AgentStep(a)
    BY <1>3, RequestReceived DEF AgentStep
  <2>2. PICK c \in Serves(a), k \in Kinds :
          \E n \in RoomNames \cup {"none"}, m \in Limits \cup {0} : Receive(a, c, k, n, m)
    BY <1>3 DEF Request
  <2>3. k \in May(a) /\ pc'[a] = FirstStep(c, k)
    BY <1>0, <2>2 DEF Receive, Goto
  <2>4. job'[a].kind = k
    BY <1>0, <2>2 DEF Receive, NewJob
  <2> QED
    BY <1>1, <2>1, <2>3, <2>4, PrivateFirst
<1>4. ASSUME SweepDrop \/ \E c \in Clients : Arrive(c) \/ SweepFind(c) PROVE PrivateAtLock'
  <2>1. \A a \in Agents : pc'[a] = "client_lock" => pc[a] = "client_lock" /\ job'[a] = job[a]
    BY <1>0, <1>4 DEF SweepDrop, Arrive, SweepFind, Goto
  <2>2. \A b : May(b)' = May(b)
    BY DEF May
  <2> QED
    BY <2>1, <2>2 DEF PrivateAtLock
<1>5. CASE UNCHANGED vars
  BY <1>5 DEF vars, PrivateAtLock, May
<1> QED
  BY <1>2, <1>3, <1>4, <1>5 DEF Next

\* PrivateAtLock holds in every state the server reaches.
LEMMA PrivateInvariance == Spec => []PrivateAtLock
<1>1. Init => PrivateAtLock
  BY DEF Init, PrivateAtLock
<1> QED
  BY <1>1, PrivateStep, Invariance, PTL DEF Spec

\* Whoever waits does not hold room_mutex, and holds client_mutex just if it
\* is a client thread.
LEMMA WaiterHolds ==
  ASSUME IInv, NEW a \in Agents, WaitsFor(a) # NoAgent
  PROVE  /\ pc[a] \in {"client_lock", "room_lock"}
         /\ room_mutex # a
         /\ client_mutex = a <=> a \in Threaded
<1>1. pc[a] \in {"client_lock", "room_lock"}
  BY DEF WaitsFor
<1> QED
  BY <1>1 DEF IInv, LocksMatchSteps, HoldsClientMutex, HoldsRoomMutex, RoomSteps, DepartSteps

\* A thread waits for itself only in the handler of a private message, which
\* locks client_mutex "for thread safety" although client_thread_handler has
\* locked it already; the main thread never does.
HungOnPrivate ==
  \A a \in Agents :
    WaitsFor(a) = a =>
      a \in Threaded /\ pc[a] = "client_lock" /\ job[a].kind = "private"

THEOREM OnlyPrivateMessagesHang == Spec => []HungOnPrivate
<1>1. IInv /\ PrivateAtLock => HungOnPrivate
  <2> SUFFICES ASSUME IInv, PrivateAtLock, NEW a \in Agents, WaitsFor(a) = a
               PROVE  a \in Threaded /\ pc[a] = "client_lock" /\ job[a].kind = "private"
    BY DEF HungOnPrivate
  <2>1. a # NoAgent
    BY ThreadsAssumption
  <2>2. room_mutex # a /\ pc[a] \in {"client_lock", "room_lock"}
        /\ (client_mutex = a <=> a \in Threaded)
    BY <2>1, WaiterHolds
  <2> QED
    BY <2>2 DEF WaitsFor, PrivateAtLock
<1> QED
  BY <1>1, Invariance, PrivateInvariance, PTL

\* If the clients that have a thread send no private messages, no thread ever
\* waits for the mutex it holds itself: nothing else in the handlers hangs.
THEOREM NoHangWithoutPrivate ==
  "private" \notin ThreadRequests => (Spec => []NoSelfDeadlock)
<1> SUFFICES ASSUME "private" \notin ThreadRequests PROVE Spec => []NoSelfDeadlock
  OBVIOUS
<1>1. PrivateAtLock /\ HungOnPrivate => NoSelfDeadlock
  <2> SUFFICES ASSUME PrivateAtLock, HungOnPrivate, NEW a \in Agents, WaitsFor(a) = a
               PROVE  FALSE
    BY DEF NoSelfDeadlock
  <2>1. a \in Threaded /\ "private" \in May(a)
    BY DEF HungOnPrivate, PrivateAtLock
  <2> QED
    BY <2>1, ThreadsAssumption DEF May
<1> QED
  BY <1>1, PrivateInvariance, OnlyPrivateMessagesHang, PTL

\* Whoever waits, waits for an agent that can go on, or for a thread that
\* hangs: there is no longer chain of waiting, and no circle of any length.
WaitingEnds ==
  \A a \in Agents :
    LET b == WaitsFor(a)
    IN b # NoAgent => b \in Agents /\ WaitsFor(b) \in {NoAgent, b}

THEOREM WaitingIsShort == Spec => []WaitingEnds
<1>1. IInv => WaitingEnds
  <2> SUFFICES ASSUME IInv, NEW a \in Agents, NEW b, WaitsFor(a) = b, b # NoAgent
               PROVE  b \in Agents /\ WaitsFor(b) \in {NoAgent, b}
    BY DEF WaitingEnds
  <2>1. b \in Agents
    BY DEF WaitsFor, IInv, TypeOK
  <2>2. SUFFICES ASSUME NEW c, WaitsFor(b) = c, c # NoAgent, c # b PROVE FALSE
    BY <2>1
  <2>3. c \in Agents
    BY <2>2 DEF WaitsFor, IInv, TypeOK
  <2>4. /\ pc[a] \in {"client_lock", "room_lock"} /\ (client_mutex = a <=> a \in Threaded)
        /\ pc[b] \in {"client_lock", "room_lock"} /\ (client_mutex = b <=> b \in Threaded)
        /\ room_mutex # b /\ room_mutex # a
    BY <2>1, <2>2, WaiterHolds
  <2>5. client_mutex = b /\ b \in Threaded
    BY <2>4 DEF WaitsFor
  <2>6. room_mutex = c
    BY <2>2, <2>4, <2>5 DEF WaitsFor
  <2>7. c \notin Threaded
    BY <2>2, <2>3, <2>5, <2>6
    DEF IInv, LocksMatchSteps, HoldsClientMutex, HoldsRoomMutex, RoomSteps, DepartSteps
  <2>8. c = Main /\ a # Main
    BY <2>3, <2>4, <2>6, <2>7
  <2>9. a = b
    BY <2>4, <2>5, <2>8
  <2> QED
    BY <2>2, <2>4, <2>6, <2>9, <2>5 DEF WaitsFor
<1> QED
  BY <1>1, Invariance, PTL

\* A thread that waits for itself does so for good, and keeps client_mutex
\* from all the others: that is what one private message does to the server.
HangIsForever ==
  [][\A a \in Agents : WaitsFor(a) = a => pc'[a] = pc[a] /\ client_mutex' = a]_vars

THEOREM HungForGood == Spec => HangIsForever
<1>1. IInv /\ HungOnPrivate /\ [Next]_vars =>
        [\A a \in Agents : WaitsFor(a) = a => pc'[a] = pc[a] /\ client_mutex' = a]_vars
  <2> SUFFICES ASSUME IInv, HungOnPrivate, Next, NEW a \in Agents, WaitsFor(a) = a
               PROVE  pc'[a] = pc[a] /\ client_mutex' = a
    OBVIOUS
  <2>1. pc[a] = "client_lock" /\ client_mutex = a /\ a \in Threaded /\ a # NoAgent
    BY ThreadsAssumption DEF HungOnPrivate, WaitsFor
  <2>2. ASSUME NEW b \in Agents, AgentStep(b) PROVE pc'[a] = pc[a] /\ client_mutex' = a
    <3>1. pc \in [Agents -> Steps] /\ Alone(b)
      BY <2>2, Types, StepAlone DEF IInv
    <3>2. b # a
      BY <2>1, <2>2
      DEF AgentStep, LockClients, Received, CreateFind, CreateName, CreateFill, CreateOpen,
          RoomLock, JoinFind, JoinSeat, JoinCount, ChatSend, DepartFind, DepartRead,
          DepartWrite, DepartClose, ClientLock, PrivateSend, ListSize, ListFill, Drop, Finish
    <3>3. ~HoldsClientMutex(b)
      BY <2>1, <3>2 DEF IInv, LocksMatchSteps
    <3>4. client_mutex' = client_mutex
      BY <2>1, <2>2, <3>3
      DEF AgentStep, LockClients, Received, CreateFind, CreateName, CreateFill, CreateOpen,
          RoomLock, JoinFind, JoinSeat, JoinCount, ChatSend, DepartFind, DepartRead,
          DepartWrite, DepartClose, ClientLock, PrivateSend, ListSize, ListFill, Drop, Finish,
          HoldsClientMutex
    <3> QED
      BY <2>1, <3>1, <3>2, <3>4 DEF Alone
  <2>3. ASSUME SweepDrop \/ \E c \in Clients : Arrive(c) \/ SweepFind(c)
        PROVE  pc'[a] = pc[a] /\ client_mutex' = a
    <3>1. pc \in [Agents -> Steps] /\ a # Main
      BY <2>1, Types, ThreadsAssumption DEF IInv
    <3> QED
      BY <2>1, <2>3, <3>1 DEF SweepDrop, Arrive, SweepFind, Goto
  <2> QED
    BY <2>2, <2>3, NextCases
<1> QED
  BY <1>1, Invariance, OnlyPrivateMessagesHang, PTL DEF Spec, HangIsForever
=============================================================================
