--------------------------- MODULE ServerThreads ----------------------------
(***************************************************************************)
(* The handlers of server/server.c as the threads that run them: the main  *)
(* thread, which serves the clients that have no thread and locks nothing  *)
(* around a handler, and the client threads, which hold client_mutex.      *)
(* Each handler is split where another thread can come in between: at      *)
(* every lock, and between the reads and the writes of the room table.     *)
(*                                                                         *)
(* Passwords and user names are left to ChatServer.  A client is known by  *)
(* its slot and keeps the way it is served; that slots and threads are     *)
(* handed from one connection to another is not modelled here.             *)
(***************************************************************************)
EXTENDS Integers, FiniteSets

CONSTANTS
  Clients,        \* the client slots in use
  Threaded,       \* those with a thread (create_client_thread succeeded)
  MainRequests,   \* what clients without a thread do
  ThreadRequests, \* what clients with a thread do
  MaxRooms,
  RoomNames,
  Limits,         \* the max_users values that requests carry
  Main,           \* the main thread
  NoAgent         \* the owner of a free mutex

Kinds == {"create", "join", "leave", "chat", "private", "room_list",
          "user_list", "disconnect", "lost", "timeout"}

ASSUME ThreadsAssumption ==
  /\ IsFiniteSet(Clients) /\ Threaded \subseteq Clients
  /\ Main \notin Clients /\ NoAgent \notin Clients \cup {Main}
ASSUME RequestsAssumption == MainRequests \cup ThreadRequests \subseteq Kinds
ASSUME RoomsAssumption == MaxRooms \in Nat /\ Limits \subseteq Nat \ {0}

VARIABLES
  clients,        \* server_t.clients: is_active, state, current_room_id
  rooms,          \* server_t.rooms, by room_id
  client_mutex,   \* who holds it
  room_mutex,     \* who holds it
  pc,             \* per agent: the step of the handler it is at
  job,            \* per agent: the request, and the handler's local variables
  lost            \* history: per room, the members dropped without a leave

vars == <<clients, rooms, client_mutex, room_mutex, pc, job, lost>>

Agents == {Main} \cup Threaded
RoomIds == 1 .. MaxRooms
NoRoom == -1

Serves(a) == IF a = Main THEN Clients \ Threaded ELSE {a}
May(a) == IF a = Main THEN MainRequests ELSE ThreadRequests

Gone == [is_active |-> FALSE, state |-> "DISCONNECTED", current_room_id |-> 0]
NewJob(c, k, n, m) ==
  [client |-> c, kind |-> k, name |-> n, limit |-> m, room |-> NoRoom, count |-> 0]
NoJob == NewJob(NoAgent, "none", "none", 0)

\* The steps in which room_mutex is held: by joining, leaving and chatting.
RoomSteps == {"join_find", "join_seat", "join_count", "chat_send"}
DepartSteps == {"depart_find", "depart_read", "depart_write", "depart_close"}
Steps == RoomSteps \cup DepartSteps \cup
         {"idle", "locked", "room_lock", "client_lock", "private_send",
          "create_find", "create_name", "create_fill", "create_open",
          "list_size", "list_fill", "drop", "sweep", "done"}

IsFirst(x, S) == x \in S /\ \A y \in S : x <= y

FreeRooms == {r \in RoomIds : ~rooms[r].is_active}
ActiveRooms == {r \in RoomIds : rooms[r].is_active}
RoomsNamed(n) == {r \in ActiveRooms : rooms[r].room_name = n}
Members(r) == {c \in Clients : /\ clients[c].is_active
                               /\ clients[c].state = "IN_ROOM"
                               /\ clients[c].current_room_id = r}

Init ==
  /\ clients = [c \in Clients |-> Gone]
  /\ rooms = [r \in RoomIds |-> [is_active |-> FALSE, room_name |-> "none",
                                 max_clients |-> 0, client_count |-> 0]]
  /\ client_mutex = NoAgent
  /\ room_mutex = NoAgent
  /\ pc = [a \in Agents |-> "idle"]
  /\ job = [a \in Agents |-> NoJob]
  /\ lost = [r \in RoomIds |-> 0]

Goto(a, step) == pc' = [pc EXCEPT ![a] = step]
Remember(a, r, n) == job' = [job EXCEPT ![a].room = r, ![a].count = n]
Zero(c) ==
  /\ clients' = [clients EXCEPT ![c] = Gone]
  /\ lost' = [r \in RoomIds |-> IF c \in Members(r) THEN lost[r] + 1 ELSE lost[r]]

-----------------------------------------------------------------------------
(* Getting a request and finishing with it.                                *)

\* The main thread accepts a connection and its login follows.
Arrive(c) ==
  /\ ~clients[c].is_active
  /\ pc[Main] = "idle"
  /\ c \in Threaded => pc[c] = "idle"
  /\ clients' = [clients EXCEPT ![c] = [is_active |-> TRUE, state |-> "CONNECTED",
                                        current_room_id |-> NoRoom]]
  /\ UNCHANGED <<rooms, client_mutex, room_mutex, pc, job, lost>>

\* Mutant: the thread does not lock client_mutex.
LockClientsMutant(a) ==
  /\ a \in Threaded
  /\ pc[a] = "idle" /\ clients[a].is_active
  /\ client_mutex' = a
  /\ Goto(a, "locked")
  /\ UNCHANGED <<clients, rooms, room_mutex, job, lost>>

\* A client thread has something to read and takes client_mutex.
LockClients(a) ==
  /\ a \in Threaded
  /\ pc[a] = "idle" /\ clients[a].is_active
  /\ client_mutex = NoAgent
  /\ client_mutex' = a
  /\ Goto(a, "locked")
  /\ UNCHANGED <<clients, rooms, room_mutex, job, lost>>

\* Mutant: a client in a room is disconnected without leaving it.
FirstStepMutant(c, k) ==
  LET inRoom == clients[c].state = "IN_ROOM" /\ clients[c].current_room_id >= 0
  IN CASE k = "create" /\ clients[c].state = "CONNECTED" -> "create_find"
       [] k = "join" /\ clients[c].state = "CONNECTED" -> "room_lock"
       [] k \in {"leave", "chat"} /\ inRoom -> "room_lock"
       [] k = "private" -> "client_lock"
       [] k = "room_list" \/ (k = "user_list" /\ inRoom) -> "list_size"
       [] k \in {"lost", "disconnect"} \/ (k = "user_list" /\ ~inRoom) -> "drop"
       [] OTHER -> "done"

\* The first step of a handler, after the check of the client's state that
\* each of them begins with.
FirstStep(c, k) ==
  LET inRoom == clients[c].state = "IN_ROOM" /\ clients[c].current_room_id >= 0
  IN CASE k = "create" /\ clients[c].state = "CONNECTED" -> "create_find"
       [] k = "join" /\ clients[c].state = "CONNECTED" -> "room_lock"
       [] k \in {"leave", "chat"} /\ inRoom -> "room_lock"
       [] k = "private" -> "client_lock"
       [] k = "room_list" \/ (k = "user_list" /\ inRoom) -> "list_size"
       [] k = "disconnect" /\ inRoom -> "depart_find"
       [] k = "lost" \/ (k \in {"user_list", "disconnect"} /\ ~inRoom) -> "drop"
       [] OTHER -> "done"

\* handle_client_message: recv, then the handler of the request; "lost" is a
\* recv that returns 0 or an error, which is also what a thread gets when its
\* slot was zeroed while it waited for client_mutex.
Receive(a, c, k, n, m) ==
  /\ pc[a] = IF a = Main THEN "idle" ELSE "locked"
  /\ c \in Serves(a) /\ (a = Main => clients[c].is_active)
  /\ k \in May(a) \ {"timeout"} /\ (~clients[c].is_active => k = "lost")
  /\ job' = [job EXCEPT ![a] = NewJob(c, k, n, m)]
  /\ Goto(a, FirstStep(c, k))
  /\ UNCHANGED <<clients, rooms, client_mutex, room_mutex, lost>>

\* The handler returned -1 (or the client asked to be disconnected, and its
\* departure has been counted): the slot is zeroed.
Drop(a) ==
  /\ pc[a] = "drop"
  /\ IF job[a].kind = "disconnect"
     THEN clients' = [clients EXCEPT ![job[a].client] = Gone] /\ UNCHANGED lost
     ELSE Zero(job[a].client)
  /\ Goto(a, "done")
  /\ UNCHANGED <<rooms, client_mutex, room_mutex, job>>

\* A client thread releases client_mutex.
Finish(a) ==
  /\ pc[a] = "done"
  /\ client_mutex' = IF a = Main THEN client_mutex ELSE NoAgent
  /\ Goto(a, "idle")
  /\ job' = [job EXCEPT ![a] = NoJob]
  /\ UNCHANGED <<clients, rooms, room_mutex, lost>>

\* The main thread's timeout sweep finds a silent client, with or without a
\* thread, whatever the thread is doing, and zeroes its slot in a later step;
\* it takes no lock.
SweepFind(c) ==
  /\ "timeout" \in MainRequests
  /\ pc[Main] = "idle" /\ clients[c].is_active
  /\ job' = [job EXCEPT ![Main] = NewJob(c, "timeout", "none", 0)]
  /\ Goto(Main, "sweep")
  /\ UNCHANGED <<clients, rooms, client_mutex, room_mutex, lost>>

SweepDrop ==
  /\ pc[Main] = "sweep"
  /\ Zero(job[Main].client)
  /\ Goto(Main, "done")
  /\ UNCHANGED <<rooms, client_mutex, room_mutex, job>>

-----------------------------------------------------------------------------
(* handle_create_room_request takes no lock: finding a slot, looking the   *)
(* name up, filling the slot in and activating it are steps of their own.  *)

\* Mutant: the search runs one past the last slot.
CreateFindMutant(a) ==
  /\ pc[a] = "create_find"
  /\ \E r \in FreeRooms \cup {MaxRooms + 1} : /\ IsFirst(r, FreeRooms \cup {MaxRooms + 1})
                                              /\ Remember(a, r, 0)
                                              /\ Goto(a, "create_name")
  /\ UNCHANGED <<clients, rooms, client_mutex, room_mutex, lost>>

CreateFind(a) ==
  /\ pc[a] = "create_find"
  /\ IF FreeRooms = {} THEN Goto(a, "done") /\ UNCHANGED job
     ELSE \E r \in FreeRooms : /\ IsFirst(r, FreeRooms)
                               /\ Remember(a, r, 0)
                               /\ Goto(a, "create_name")
  /\ UNCHANGED <<clients, rooms, client_mutex, room_mutex, lost>>

CreateName(a) ==
  /\ pc[a] = "create_name"
  /\ Goto(a, IF RoomsNamed(job[a].name) = {} THEN "create_fill" ELSE "done")
  /\ UNCHANGED <<clients, rooms, client_mutex, room_mutex, job, lost>>

CreateFill(a) ==
  /\ pc[a] = "create_fill"
  /\ rooms' = [rooms EXCEPT ![job[a].room].room_name = job[a].name,
                            ![job[a].room].max_clients = job[a].limit,
                            ![job[a].room].client_count = 0]
  /\ lost' = [lost EXCEPT ![job[a].room] = 0]
  /\ Goto(a, "create_open")
  /\ UNCHANGED <<clients, client_mutex, room_mutex, job>>

CreateOpen(a) ==
  /\ pc[a] = "create_open"
  /\ rooms' = [rooms EXCEPT ![job[a].room].is_active = TRUE]
  /\ Goto(a, "done")
  /\ UNCHANGED <<clients, client_mutex, room_mutex, job, lost>>

-----------------------------------------------------------------------------
(* Joining, leaving and chatting hold room_mutex from RoomLock on.  The    *)
(* increment and the decrement of client_count are a read and a write.     *)

\* Mutant: room_mutex is not waited for.
RoomLockMutant(a) ==
  /\ pc[a] = "room_lock"
  /\ room_mutex' = a
  /\ Goto(a, CASE job[a].kind = "join" -> "join_find"
               [] job[a].kind = "leave" -> "depart_find"
               [] job[a].kind = "chat" -> "chat_send")
  /\ UNCHANGED <<clients, rooms, client_mutex, job, lost>>

RoomLock(a) ==
  /\ pc[a] = "room_lock"
  /\ room_mutex = NoAgent
  /\ room_mutex' = a
  /\ Goto(a, CASE job[a].kind = "join" -> "join_find"
               [] job[a].kind = "leave" -> "depart_find"
               [] job[a].kind = "chat" -> "chat_send")
  /\ UNCHANGED <<clients, rooms, client_mutex, job, lost>>

\* Mutants: a refusal returns without unlocking; one member too many.
JoinFindMutantUnlock(a) ==
  LET found == {r \in RoomsNamed(job[a].name) :
                  /\ IsFirst(r, RoomsNamed(job[a].name))
                  /\ rooms[r].client_count < rooms[r].max_clients}
  IN /\ pc[a] = "join_find"
     /\ IF found = {} THEN Goto(a, "done") /\ UNCHANGED job
        ELSE (\E r \in found : Remember(a, r, 0)) /\ Goto(a, "join_seat")
     /\ UNCHANGED <<clients, rooms, client_mutex, room_mutex, lost>>
JoinFindMutantLimit(a) ==
  LET found == {r \in RoomsNamed(job[a].name) :
                  /\ IsFirst(r, RoomsNamed(job[a].name))
                  /\ rooms[r].client_count <= rooms[r].max_clients}
  IN /\ pc[a] = "join_find"
     /\ IF found = {}
        THEN Goto(a, "done") /\ room_mutex' = NoAgent /\ UNCHANGED job
        ELSE /\ \E r \in found : Remember(a, r, 0)
             /\ Goto(a, "join_seat") /\ UNCHANGED room_mutex
     /\ UNCHANGED <<clients, rooms, client_mutex, lost>>

\* The room is looked up and has a place left, or the request is refused.
JoinFind(a) ==
  LET found == {r \in RoomsNamed(job[a].name) :
                  /\ IsFirst(r, RoomsNamed(job[a].name))
                  /\ rooms[r].client_count < rooms[r].max_clients}
  IN /\ pc[a] = "join_find"
     /\ IF found = {}
        THEN Goto(a, "done") /\ room_mutex' = NoAgent /\ UNCHANGED job
        ELSE /\ \E r \in found : Remember(a, r, 0)
             /\ Goto(a, "join_seat") /\ UNCHANGED room_mutex
     /\ UNCHANGED <<clients, rooms, client_mutex, lost>>

JoinSeat(a) ==
  LET r == job[a].room
  IN /\ pc[a] = "join_seat"
     /\ clients' = [clients EXCEPT ![job[a].client].state = "IN_ROOM",
                                   ![job[a].client].current_room_id = r]
     /\ Remember(a, r, rooms[r].client_count)
     /\ Goto(a, "join_count")
     /\ UNCHANGED <<rooms, client_mutex, room_mutex, lost>>

JoinCount(a) ==
  /\ pc[a] = "join_count"
  /\ rooms' = [rooms EXCEPT ![job[a].room].client_count = job[a].count + 1]
  /\ room_mutex' = NoAgent
  /\ Goto(a, "done")
  /\ UNCHANGED <<clients, client_mutex, job, lost>>

\* Mutants: a failed send returns without unlocking; the sender's name is
\* copied under client_mutex.
ChatSendMutantUnlock(a) ==
  /\ pc[a] = "chat_send"
  /\ \/ Goto(a, "drop") /\ UNCHANGED room_mutex
     \/ /\ clients[job[a].client].current_room_id \in ActiveRooms
        /\ Goto(a, "done") /\ room_mutex' = NoAgent
  /\ UNCHANGED <<clients, rooms, client_mutex, job, lost>>
ChatSendMutantLock(a) ==
  /\ pc[a] = "chat_send"
  /\ Goto(a, "client_lock")
  /\ UNCHANGED <<clients, rooms, client_mutex, room_mutex, job, lost>>

\* A chat message to a room that is gone, or that sendto cannot send, gets
\* its sender dropped.
ChatSend(a) ==
  /\ pc[a] = "chat_send"
  /\ \/ Goto(a, "drop")
     \/ /\ clients[job[a].client].current_room_id \in ActiveRooms
        /\ Goto(a, "done")
  /\ room_mutex' = NoAgent
  /\ UNCHANGED <<clients, rooms, client_mutex, job, lost>>

\* Leaving and disconnecting take the same steps, but disconnecting holds no
\* lock, and it is Drop that takes the client out of the client table.
Leaving(a) == job[a].kind = "leave"

LeaveSeat(a) ==
  IF Leaving(a)
  THEN clients' = [clients EXCEPT ![job[a].client].state = "CONNECTED",
                                  ![job[a].client].current_room_id = NoRoom]
  ELSE UNCHANGED clients

EndDeparture(a) ==
  /\ Goto(a, IF Leaving(a) THEN "done" ELSE "drop")
  /\ room_mutex' = IF Leaving(a) THEN NoAgent ELSE room_mutex

DepartFind(a) ==
  LET r == clients[job[a].client].current_room_id
  IN /\ pc[a] = "depart_find"
     /\ IF r \in ActiveRooms
        THEN /\ Remember(a, r, 0)
             /\ Goto(a, "depart_read") /\ UNCHANGED <<clients, room_mutex>>
        ELSE LeaveSeat(a) /\ EndDeparture(a) /\ UNCHANGED job
     /\ UNCHANGED <<rooms, client_mutex, lost>>

DepartRead(a) ==
  /\ pc[a] = "depart_read"
  /\ Remember(a, job[a].room, rooms[job[a].room].client_count)
  /\ Goto(a, "depart_write")
  /\ UNCHANGED <<clients, rooms, client_mutex, room_mutex, lost>>

DepartWrite(a) ==
  LET r == job[a].room
      n == IF job[a].count > 0 THEN job[a].count - 1 ELSE 0
  IN /\ pc[a] = "depart_write"
     /\ rooms' = IF job[a].count > 0 THEN [rooms EXCEPT ![r].client_count = n] ELSE rooms
     /\ LeaveSeat(a)
     /\ Remember(a, r, n)
     /\ Goto(a, "depart_close")
     /\ UNCHANGED <<client_mutex, room_mutex, lost>>

\* The test for an empty room may use the value just written or read the
\* field again: the compiler is free to choose.
DepartClose(a) ==
  LET r == job[a].room
  IN /\ pc[a] = "depart_close"
     /\ \E seen \in {job[a].count, rooms[r].client_count} :
          rooms' = [rooms EXCEPT ![r].is_active = @ /\ seen # 0]
     /\ EndDeparture(a)
     /\ UNCHANGED <<clients, client_mutex, job, lost>>

-----------------------------------------------------------------------------
(* Private messages and lists.                                             *)

\* handle_private_message locks client_mutex, which a client thread has
\* locked already and which is not recursive: its thread never goes on.
ClientLock(a) ==
  /\ pc[a] = "client_lock"
  /\ client_mutex = NoAgent
  /\ client_mutex' = a
  /\ Goto(a, "private_send")
  /\ UNCHANGED <<clients, rooms, room_mutex, job, lost>>

\* Mutant: a failed delivery is tried again.
PrivateSendMutant(a) ==
  /\ pc[a] = "private_send"
  /\ client_mutex' = NoAgent
  /\ Goto(a, "done") \/ Goto(a, "client_lock")
  /\ UNCHANGED <<clients, rooms, room_mutex, job, lost>>

\* Delivered, or there is no such user and the sender is dropped.
PrivateSend(a) ==
  /\ pc[a] = "private_send"
  /\ client_mutex' = NoAgent
  /\ Goto(a, "done") \/ Goto(a, "drop")
  /\ UNCHANGED <<clients, rooms, room_mutex, job, lost>>

\* What a list shows: the active rooms, or the members of the client's room.
Listed(a) ==
  IF job[a].kind = "room_list" THEN ActiveRooms
  ELSE Members(clients[job[a].client].current_room_id)

\* A first pass over the table sizes the reply, a second one fills it in.
ListSize(a) ==
  /\ pc[a] = "list_size"
  /\ Remember(a, NoRoom, Cardinality(Listed(a)))
  /\ Goto(a, "list_fill")
  /\ UNCHANGED <<clients, rooms, client_mutex, room_mutex, lost>>

\* Mutant: a reply that cannot be sent is built again.
ListFillMutant(a) ==
  /\ pc[a] = "list_fill"
  /\ Goto(a, "done") \/ Goto(a, "drop") \/ Goto(a, "list_size")
  /\ UNCHANGED <<clients, rooms, client_mutex, room_mutex, job, lost>>

\* Without memory for the reply, or if it cannot be sent, the client is dropped.
ListFill(a) ==
  /\ pc[a] = "list_fill"
  /\ Goto(a, "done") \/ Goto(a, "drop")
  /\ UNCHANGED <<clients, rooms, client_mutex, room_mutex, job, lost>>

-----------------------------------------------------------------------------

Handle(a) ==
  \/ CreateFind(a) \/ CreateName(a) \/ CreateFill(a) \/ CreateOpen(a)
  \/ RoomLock(a) \/ JoinFind(a) \/ JoinSeat(a) \/ JoinCount(a) \/ ChatSend(a)
  \/ DepartFind(a) \/ DepartRead(a) \/ DepartWrite(a) \/ DepartClose(a)
  \/ ClientLock(a) \/ PrivateSend(a) \/ ListSize(a) \/ ListFill(a)
  \/ Drop(a) \/ Finish(a)

Request(a) ==
  \E c \in Serves(a), k \in Kinds :
    \/ k = "create" /\ \E n \in RoomNames, m \in Limits : Receive(a, c, k, n, m)
    \/ k = "join" /\ \E n \in RoomNames : Receive(a, c, k, n, 0)
    \/ k \notin {"create", "join"} /\ Receive(a, c, k, "none", 0)

Next ==
  \/ \E c \in Clients : Arrive(c) \/ SweepFind(c)
  \/ SweepDrop
  \/ \E a \in Agents : LockClients(a) \/ Request(a) \/ Handle(a)

Spec == Init /\ [][Next]_vars

\* A thread that can go on does, as the operating system schedules threads;
\* a mutex goes to any thread that waits for it, and no client has to send.
\* A client thread that has locked client_mutex has a request to read.
FairSpec ==
  /\ Spec
  /\ \A a \in Agents : WF_vars(Handle(a)) /\ WF_vars(pc[a] = "locked" /\ Request(a))
  /\ WF_vars(SweepDrop)

-----------------------------------------------------------------------------
(* Properties.                                                             *)

\* Every variable has its type, whatever step each thread is at.
TypeOK ==
  /\ clients \in [Clients -> [is_active : BOOLEAN,
                              state : {"DISCONNECTED", "CONNECTED", "IN_ROOM"},
                              current_room_id : RoomIds \cup {NoRoom, 0}]]
  /\ rooms \in [RoomIds -> [is_active : BOOLEAN, room_name : RoomNames \cup {"none"},
                            max_clients : Limits \cup {0}, client_count : Nat]]
  /\ client_mutex \in Agents \cup {NoAgent}
  /\ room_mutex \in Agents \cup {NoAgent}
  /\ pc \in [Agents -> Steps]
  /\ job \in [Agents -> [client : Clients \cup {NoAgent}, kind : Kinds \cup {"none"},
                         name : RoomNames \cup {"none"}, limit : Limits \cup {0},
                         room : RoomIds \cup {NoRoom}, count : Nat]]
  /\ lost \in [RoomIds -> Nat]

\* The mutexes are held exactly where the code has them: client_mutex around
\* a client thread's handler and around the main thread's private message,
\* room_mutex in the steps of join, leave and chat.  Every path of a handler
\* releases what it took, the refusals and the drops included.
HoldsClientMutex(a) ==
  pc[a] = "private_send" \/ (a \in Threaded /\ pc[a] # "idle")
HoldsRoomMutex(a) ==
  pc[a] \in RoomSteps \/ (pc[a] \in DepartSteps /\ Leaving(a))
LocksMatchSteps ==
  \A a \in Agents : /\ client_mutex = a <=> HoldsClientMutex(a)
                    /\ room_mutex = a <=> HoldsRoomMutex(a)

\* No two threads wait for one another: the two mutexes are always taken in
\* the order client_mutex, room_mutex.
WaitsFor(a) == IF pc[a] = "client_lock" THEN client_mutex
               ELSE IF pc[a] = "room_lock" THEN room_mutex ELSE NoAgent
NoCircularWait ==
  \A a, b \in Agents : a # b => ~(WaitsFor(a) = b /\ WaitsFor(b) = a)

\* Nobody is between taking room r's count and being done with it.
Settled(r) ==
  \A a \in Agents :
    job[a].room = r =>
      /\ pc[a] \notin {"join_count", "depart_write", "depart_close"}
      /\ ~(pc[a] = "drop" /\ job[a].kind = "disconnect")

\* No increment or decrement of client_count is lost: once everybody is done
\* with a room, its count is its members and those dropped from it.
CountExact ==
  \A r \in RoomIds :
    rooms[r].is_active /\ Settled(r) =>
      rooms[r].client_count = Cardinality(Members(r)) + lost[r]

\* No two active rooms have one name: "Check if room name already exists", as
\* handle_create_room_request says.
UniqueRoomNames ==
  \A r, s \in ActiveRooms : rooms[r].room_name = rooms[s].room_name => r = s

\* The reply to a list request holds what its second pass writes into it.
ListsFit ==
  \A a \in Agents : pc[a] = "list_fill" => Cardinality(Listed(a)) <= job[a].count

\* A client thread never waits for the mutex it holds itself.
NoSelfDeadlock == \A a \in Agents : WaitsFor(a) # a

\* Whoever has room_mutex gives it back.
RoomMutexReleased == \A a \in Agents : room_mutex = a ~> room_mutex # a

\* Every request a thread has begun to handle is finished.
RequestsFinish == \A a \in Agents : pc[a] # "idle" ~> pc[a] = "idle"

\* What the abstract rooms see: a client that leaves keeps its seat until the
\* room has been closed behind it, and one that disconnects has lost it by then.
Directory ==
  [r \in RoomIds |->
     IF rooms[r].is_active
     THEN [open |-> TRUE, name |-> rooms[r].room_name, password |-> TRUE,
           limit |-> rooms[r].max_clients]
     ELSE [open |-> FALSE]]

Seat ==
  [c \in Clients |->
     IF \E a \in Agents : job[a].client = c /\ Leaving(a) /\ pc[a] = "depart_close"
     THEN job[CHOOSE a \in Agents : job[a].client = c].room
     ELSE IF \/ ~clients[c].is_active \/ clients[c].state # "IN_ROOM"
             \/ \E a \in Agents : /\ job[a].client = c /\ pc[a] = "drop"
                                  /\ job[a].kind = "disconnect"
          THEN 0 ELSE clients[c].current_room_id]

Rooms == INSTANCE ChatRooms WITH
  Names <- RoomNames, Keys <- {TRUE}, NoKey <- FALSE,
  MaxCapacity <- Cardinality(Clients),
  directory <- Directory, seat <- Seat,
  ticket <- [c \in Clients |-> Seat[c] # 0]

\* The handlers, step by step, implement the abstract rooms of ChatRooms: no
\* interleaving of them admits a client to a closed or a full room, closes a
\* room over a member, or opens a room over another one.
ImplementsRooms == Rooms!Spec

=============================================================================
