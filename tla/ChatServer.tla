----------------------------- MODULE ChatServer -----------------------------
(***************************************************************************)
(* The server of server/server.c when its handlers run one at a time: the  *)
(* client table, the room table, and every handler that changes them, each *)
(* as one action.  This is the server in its select() mode, where the main *)
(* thread calls every handler.  Client threads hold client_mutex around a  *)
(* handler, so that they too run handlers one at a time among themselves;  *)
(* what the main thread does meanwhile, and the handlers of a server that  *)
(* mixes both modes, are in module ServerThreads.                          *)
(*                                                                         *)
(* A request that is refused changes neither table, so it is a stuttering  *)
(* step; the guards Creatable and Admits say which requests are refused.   *)
(* Time is abstracted: a client may be found silent for too long whenever  *)
(* it is connected.                                                        *)
(***************************************************************************)
EXTENDS Integers, FiniteSets

CONSTANTS
  MaxClients,   \* MAX_CLIENTS, 50 in server.h
  MaxRooms,     \* MAX_ROOMS, 20 in server.h
  Usernames,    \* the names users log in with
  RoomNames,    \* room names, all accepted by is_valid_room_name
  Passwords,    \* room passwords, all accepted by is_valid_password
  Capacities,   \* the max_users values that requests carry
  NoName,       \* the zeroed username or room name, which is not valid
  NoPassword    \* the empty password (password_len = 0), which is not valid

ASSUME SizesAssumption == MaxClients \in Nat /\ MaxRooms \in Nat
ASSUME NamesAssumption == NoName \notin Usernames \cup RoomNames
ASSUME PasswordsAssumption == NoPassword \notin Passwords
ASSUME CapacitiesAssumption == Capacities \subseteq Nat

VARIABLES
  clients,      \* server_t.clients, by slot
  rooms,        \* server_t.rooms, by room_id = index + 1
  lost,         \* history: per room, the members dropped without a leave
  key           \* history: per slot, the password presented when admitted

vars == <<clients, rooms, lost, key>>

Slots == 0 .. MaxClients - 1
RoomIds == 1 .. MaxRooms
NoRoom == -1

\* CLIENT_JOINING_ROOM is declared in server.h and never assigned.
ClientStates == {"DISCONNECTED", "AUTHENTICATING", "CONNECTED", "IN_ROOM"}

Client == [is_active : BOOLEAN, state : ClientStates,
           username : Usernames \cup {NoName},
           current_room_id : RoomIds \cup {NoRoom, 0}]

Room == [is_active : BOOLEAN, room_name : RoomNames \cup {NoName},
         password : Passwords \cup {NoPassword},
         max_clients : 0 .. MaxClients, client_count : 0 .. MaxClients]

\* What memset leaves behind: current_room_id becomes 0, not -1.
ZeroClient == [is_active |-> FALSE, state |-> "DISCONNECTED",
               username |-> NoName, current_room_id |-> 0]

ZeroRoom == [is_active |-> FALSE, room_name |-> NoName,
             password |-> NoPassword, max_clients |-> 0, client_count |-> 0]

-----------------------------------------------------------------------------
(* Every search of the code takes the lowest matching index.               *)

IsFirst(x, S) == x \in S /\ \A y \in S : x <= y

FreeSlots == {i \in Slots : ~clients[i].is_active}
\* Mutant: the search forgets to look at is_active.
FreeRoomsMutant == RoomIds
FreeRooms == {r \in RoomIds : ~rooms[r].is_active}
RoomsNamed(n) == {r \in RoomIds : rooms[r].is_active /\ rooms[r].room_name = n}
UsersNamed(u) == {i \in Slots : /\ clients[i].is_active
                                /\ clients[i].state # "DISCONNECTED"
                                /\ clients[i].username = u}

\* The clients that a user list of room r shows.
Members(r) == {i \in Slots : /\ clients[i].is_active
                             /\ clients[i].state = "IN_ROOM"
                             /\ clients[i].current_room_id = r}

InRoom(i) == clients[i].state = "IN_ROOM" /\ clients[i].current_room_id >= 0

\* The active room that current_room_id of client i points to, if any.
RoomsOf(i) == {r \in RoomIds : /\ rooms[r].is_active
                               /\ r = clients[i].current_room_id}

-----------------------------------------------------------------------------
(* The main thread's side: connections come and go.                        *)

Init ==
  /\ clients = [i \in Slots |-> ZeroClient]
  /\ rooms = [r \in RoomIds |-> ZeroRoom]
  /\ lost = [r \in RoomIds |-> 0]
  /\ key = [i \in Slots |-> NoPassword]

\* A connection that finds no free slot is closed, which changes nothing.
HandleNewConnection ==
  \E i \in Slots :
    /\ IsFirst(i, FreeSlots)
    /\ clients' = [clients EXCEPT ![i].is_active = TRUE,
                                  ![i].state = "AUTHENTICATING",
                                  ![i].current_room_id = NoRoom]
    /\ UNCHANGED <<rooms, lost, key>>

\* Mutant: is_active is cleared and the memset is forgotten.
DropMutant(i) ==
  /\ clients' = [clients EXCEPT ![i].is_active = FALSE]
  /\ lost' = [r \in RoomIds |-> IF i \in Members(r) THEN lost[r] + 1 ELSE lost[r]]
  /\ key' = [key EXCEPT ![i] = NoPassword]
  /\ UNCHANGED rooms

\* What every caller of a handler does when the handler returns -1, and what
\* the timeout sweeps do: close the socket and zero the slot.  No caller
\* takes the client out of its room first.
Drop(i) ==
  /\ clients' = [clients EXCEPT ![i] = ZeroClient]
  /\ lost' = [r \in RoomIds |-> IF i \in Members(r) THEN lost[r] + 1 ELSE lost[r]]
  /\ key' = [key EXCEPT ![i] = NoPassword]
  /\ UNCHANGED rooms

\* recv returns 0 or an error, or a reply cannot be sent.
ConnectionLost(i) == clients[i].is_active /\ Drop(i)

\* Nothing was received for longer than CONNECTION_TIMEOUT_SEC.
Timeout(i) == clients[i].is_active /\ Drop(i)

-----------------------------------------------------------------------------
(* The request handlers that change a table.                               *)

HandleLogin(i, u) ==
  /\ clients[i].state = "AUTHENTICATING"
  /\ clients' = [clients EXCEPT ![i].username = u,
                                ![i].state = "CONNECTED",
                                ![i].current_room_id = NoRoom]
  /\ UNCHANGED <<rooms, lost, key>>

\* Mutants: max_users is not bounded by MAX_CLIENTS; the name is not looked up.
CreatableMutantSize(i, n, p, m) ==
  /\ clients[i].state = "CONNECTED" /\ n \in RoomNames /\ p \in Passwords
  /\ m > 0 /\ FreeRooms # {} /\ RoomsNamed(n) = {}
CreatableMutantName(i, n, p, m) ==
  /\ clients[i].state = "CONNECTED" /\ n \in RoomNames /\ p \in Passwords
  /\ m \in 1 .. MaxClients /\ FreeRooms # {}

\* The requests that handle_create_room_request does not refuse.
Creatable(i, n, p, m) ==
  /\ clients[i].state = "CONNECTED"
  /\ n \in RoomNames
  /\ p \in Passwords
  /\ m \in 1 .. MaxClients
  /\ FreeRooms # {}
  /\ RoomsNamed(n) = {}

\* The creator does not enter the room.
HandleCreateRoom(i, n, p, m) ==
  /\ Creatable(i, n, p, m)
  /\ \E r \in RoomIds :
       /\ IsFirst(r, FreeRooms)
       /\ rooms' = [rooms EXCEPT ![r] =
            [is_active |-> TRUE, room_name |-> n, password |-> p,
             max_clients |-> m, client_count |-> 0]]
       /\ lost' = [lost EXCEPT ![r] = 0]
  /\ UNCHANGED <<clients, key>>

\* Mutants: one member too many; any password; a member changes rooms.
AdmitsMutantLimit(i, r, p) ==
  /\ clients[i].state = "CONNECTED"
  /\ rooms[r].password # NoPassword => p = rooms[r].password
  /\ rooms[r].max_clients > 0 => rooms[r].client_count <= rooms[r].max_clients
AdmitsMutantPassword(i, r, p) ==
  /\ clients[i].state = "CONNECTED"
  /\ rooms[r].max_clients > 0 => rooms[r].client_count < rooms[r].max_clients
AdmitsMutantState(i, r, p) ==
  /\ clients[i].state \in {"CONNECTED", "IN_ROOM"}
  /\ rooms[r].password # NoPassword => p = rooms[r].password
  /\ rooms[r].max_clients > 0 => rooms[r].client_count < rooms[r].max_clients

\* Room r, the first of that name, admits client i with password p.
Admits(i, r, p) ==
  /\ clients[i].state = "CONNECTED"
  /\ rooms[r].password # NoPassword => p = rooms[r].password
  /\ rooms[r].max_clients > 0 => rooms[r].client_count < rooms[r].max_clients

HandleJoinRoom(i, n, p) ==
  \E r \in RoomIds :
    /\ IsFirst(r, RoomsNamed(n))
    /\ Admits(i, r, p)
    /\ clients' = [clients EXCEPT ![i].state = "IN_ROOM",
                                  ![i].current_room_id = r]
    /\ rooms' = [rooms EXCEPT ![r].client_count = @ + 1]
    /\ key' = [key EXCEPT ![i] = p]
    /\ UNCHANGED lost

\* Mutants: the room closes one member early; it never closes.
DepartMutantEarly(room) ==
  LET n == IF room.client_count > 0 THEN room.client_count - 1 ELSE 0
  IN [room EXCEPT !.client_count = n, !.is_active = n > 1]
DepartMutantNever(room) ==
  [room EXCEPT !.client_count = IF @ > 0 THEN @ - 1 ELSE 0]

\* An active room with one member fewer: it is closed when none is counted.
\* The slot of a closed room keeps its name, its password and its count.
Depart(room) ==
  LET n == IF room.client_count > 0 THEN room.client_count - 1 ELSE 0
  IN [room EXCEPT !.client_count = n, !.is_active = n # 0]

HandleLeaveRoom(i) ==
  /\ InRoom(i)
  /\ clients' = [clients EXCEPT ![i].state = "CONNECTED",
                                ![i].current_room_id = NoRoom]
  /\ rooms' = [r \in RoomIds |-> IF r \in RoomsOf(i) THEN Depart(rooms[r]) ELSE rooms[r]]
  /\ key' = [key EXCEPT ![i] = NoPassword]
  /\ UNCHANGED lost

\* Mutant: the client goes without leaving its room.
HandleDisconnectMutant(i) ==
  /\ clients[i].is_active
  /\ clients' = [clients EXCEPT ![i] = ZeroClient]
  /\ key' = [key EXCEPT ![i] = NoPassword]
  /\ UNCHANGED <<rooms, lost>>

HandleDisconnect(i) ==
  /\ clients[i].is_active
  /\ clients' = [clients EXCEPT ![i] = ZeroClient]
  /\ rooms' = [r \in RoomIds |-> IF InRoom(i) /\ r \in RoomsOf(i)
                                 THEN Depart(rooms[r]) ELSE rooms[r]]
  /\ key' = [key EXCEPT ![i] = NoPassword]
  /\ UNCHANGED lost

-----------------------------------------------------------------------------
(* The request handlers that change no table but can return -1, so that    *)
(* their caller drops the client.                                          *)

\* A user list is only given to a client in a room.
UserListRefused(i) == clients[i].is_active /\ ~InRoom(i) /\ Drop(i)

\* The room is gone, or sendto fails.
ChatMessageFails(i) == clients[i].is_active /\ InRoom(i) /\ Drop(i)

\* No user of that name is online: it is the sender that is dropped.
PrivateMessageFails(i, u) ==
  clients[i].is_active /\ UsersNamed(u) = {} /\ Drop(i)

-----------------------------------------------------------------------------

Request(i) ==
  \/ \E u \in Usernames : HandleLogin(i, u)
  \/ \E n \in RoomNames \cup {NoName}, p \in Passwords \cup {NoPassword} :
       \/ HandleJoinRoom(i, n, p)
       \/ \E m \in Capacities : HandleCreateRoom(i, n, p, m)
  \/ HandleLeaveRoom(i)
  \/ HandleDisconnect(i)
  \/ UserListRefused(i)
  \/ ChatMessageFails(i)
  \/ \E u \in Usernames : PrivateMessageFails(i, u)

Next ==
  \/ HandleNewConnection
  \/ \E i \in Slots : ConnectionLost(i) \/ Timeout(i) \/ Request(i)

Spec == Init /\ [][Next]_vars

-----------------------------------------------------------------------------
(* Properties.                                                             *)

\* Every variable has its type.
TypeOK ==
  /\ clients \in [Slots -> Client]
  /\ rooms \in [RoomIds -> Room]
  /\ lost \in [RoomIds -> Nat]
  /\ key \in [Slots -> Passwords \cup {NoPassword}]

\* A slot is free exactly while its state is CLIENT_DISCONNECTED, and only a
\* member points to a room: is_active, state and current_room_id, which five
\* functions of server.c write separately, never disagree.
SlotsConsistent ==
  \A i \in Slots :
    /\ clients[i].is_active <=> clients[i].state # "DISCONNECTED"
    /\ clients[i].state = "IN_ROOM" <=> clients[i].current_room_id \in RoomIds
    /\ ~clients[i].is_active => clients[i] = ZeroClient

\* A member's room exists: no other client's leave or disconnect closes it
\* (the "Room not found" branch of handle_leave_room_request is dead code as
\* long as handlers run one at a time).
MembersHaveRoom == \A r \in RoomIds : Members(r) # {} => rooms[r].is_active

\* client_count is the number of members plus the number of members that
\* were dropped since the room was created: it is never too low, and every
\* drop leaves it one too high until the room closes.
CountExact ==
  \A r \in RoomIds :
    rooms[r].is_active =>
      rooms[r].client_count = Cardinality(Members(r)) + lost[r]

\* A room never holds more members than its creator allowed.
WithinCapacity ==
  \A r \in RoomIds :
    Members(r) # {} => Cardinality(Members(r)) <= rooms[r].max_clients

\* Two active rooms never have one name (find_room_by_name relies on it).
UniqueRoomNames ==
  \A r, s \in RoomIds :
    /\ rooms[r].is_active
    /\ rooms[s].is_active
    /\ rooms[r].room_name = rooms[s].room_name
    => r = s

\* Whoever is in a room gave the password that the room has now: a room id
\* that is used again for another room never takes old members along.
MembersKnowPassword ==
  \A r \in RoomIds : \A i \in Members(r) : key[i] = rooms[r].password

KeepsOccupiedRooms ==
  \A r \in RoomIds :
    Members(r) # {} /\ Members(r)' # {} =>
      /\ rooms'[r].room_name = rooms[r].room_name
      /\ rooms'[r].password = rooms[r].password
      /\ rooms'[r].max_clients = rooms[r].max_clients

\* While a room has members it is the same room: neither its name, its
\* password, its limit nor its multicast group (a function of its id) changes,
\* although handle_create_room_request fills its slot in without asking who is
\* in it.
RoomKeptWhileOccupied == [][KeepsOccupiedRooms]_vars

ClosesWithLastMember ==
  \A r \in RoomIds :
    Members(r) # {} /\ Members(r)' = {} /\ lost'[r] = 0 => ~rooms'[r].is_active

\* When the last member goes and nobody was ever dropped from the room, the
\* room is closed in that step: leaving and disconnecting both see to it.
ClosedByLastMember == [][ClosesWithLastMember]_vars

\* What the abstract rooms see of the two tables.
Directory ==
  [r \in RoomIds |->
     IF rooms[r].is_active
     THEN [open |-> TRUE, name |-> rooms[r].room_name,
           password |-> rooms[r].password, limit |-> rooms[r].max_clients]
     ELSE [open |-> FALSE]]

Seat == [i \in Slots |-> IF clients[i].state = "IN_ROOM"
                         THEN clients[i].current_room_id ELSE 0]

Rooms == INSTANCE ChatRooms WITH
  Clients <- Slots, Names <- RoomNames, Keys <- Passwords,
  NoKey <- NoPassword, MaxCapacity <- MaxClients,
  directory <- Directory, seat <- Seat, ticket <- key

\* The server implements the abstract rooms of module ChatRooms: a dropped
\* client leaves its seat like one that asked to, and neither counters nor
\* reused room slots can be seen from outside.
ImplementsRooms == Rooms!Spec

(* What README.md says and the code does not do.                           *)

\* "Automatic room cleanup when empty" (README.md): a room that members are
\* counted in has members.
EmptyRoomsAreClosed ==
  \A r \in RoomIds :
    rooms[r].is_active /\ rooms[r].client_count > 0 => Members(r) # {}
=============================================================================
