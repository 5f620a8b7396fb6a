-------------------------- MODULE ChatServerProofs --------------------------
(***************************************************************************)
(* Proofs about ChatServer, for every number of slots and rooms and every  *)
(* set of names and passwords.  The inductive invariant IInv adds to the   *)
(* properties what they rest on: the fields of an active room have been    *)
(* validated, and client_count never passes the limit.                     *)
(*                                                                         *)
(* A step changes the members of rooms in one of three ways: not at all    *)
(* (SameMembers), by one more in one room (HandleJoinRoom), or by the      *)
(* client that goes (Gone).                                                *)
(***************************************************************************)
EXTENDS ChatServer, FiniteSetTheorems, TLAPS

\* An active room went through the validation of HandleCreateRoom.
ActiveRoomsValid ==
  \A r \in RoomIds :
    rooms[r].is_active =>
      /\ rooms[r].room_name \in RoomNames
      /\ rooms[r].password \in Passwords
      /\ rooms[r].max_clients \in 1 .. MaxClients

CountWithinLimit ==
  \A r \in RoomIds :
    rooms[r].is_active => rooms[r].client_count <= rooms[r].max_clients

IInv ==
  /\ TypeOK
  /\ SlotsConsistent
  /\ ActiveRoomsValid
  /\ CountWithinLimit
  /\ MembersHaveRoom
  /\ CountExact
  /\ UniqueRoomNames
  /\ MembersKnowPassword

SameMembers == \A r \in RoomIds : Members(r)' = Members(r)
Gone(i) == \A r \in RoomIds : Members(r)' = Members(r) \ {i}

-----------------------------------------------------------------------------

\* The slots are finitely many, and so are the members of a room.
LEMMA MembersFinite ==
  ASSUME NEW r
  PROVE  IsFiniteSet(Members(r)) /\ Cardinality(Members(r)) \in Nat
<1>1. IsFiniteSet(Slots)
  BY FS_Interval, SizesAssumption DEF Slots
<1>2. Members(r) \subseteq Slots
  BY DEF Members
<1> QED
  BY <1>1, <1>2, FS_Subset, FS_CardinalityType

\* With one client fewer, a room has one member fewer if that client was one.
LEMMA MembersWithout ==
  ASSUME NEW r, NEW i
  PROVE  Cardinality(Members(r) \ {i}) =
           IF i \in Members(r) THEN Cardinality(Members(r)) - 1
                               ELSE Cardinality(Members(r))
BY MembersFinite, FS_RemoveElement

\* The zeroed server_t that server_init leaves satisfies the invariant.
LEMMA InitIInv == Init => IInv
<1> SUFFICES ASSUME Init PROVE IInv
  OBVIOUS
<1> USE DEF Init, ZeroClient, ZeroRoom
<1>1. TypeOK
  BY SizesAssumption DEF TypeOK, Client, Room, ClientStates, NoRoom
<1>2. SlotsConsistent
  BY DEF SlotsConsistent, RoomIds
<1>3. \A r \in RoomIds : Members(r) = {}
  BY DEF Members
<1> QED
  BY <1>1, <1>2, <1>3
  DEF IInv, ActiveRoomsValid, CountWithinLimit, MembersHaveRoom, CountExact,
      UniqueRoomNames, MembersKnowPassword

-----------------------------------------------------------------------------
(* Steps that leave members and rooms alone.                               *)

\* A step that moves nobody and touches no room keeps what is said of rooms.
LEMMA SameMembersKeeps ==
  ASSUME IInv, SameMembers, UNCHANGED <<rooms, lost, key>>
  PROVE  /\ ActiveRoomsValid' /\ CountWithinLimit' /\ MembersHaveRoom'
         /\ CountExact' /\ UniqueRoomNames' /\ MembersKnowPassword'
BY DEF IInv, SameMembers, ActiveRoomsValid, CountWithinLimit, MembersHaveRoom,
       CountExact, UniqueRoomNames, MembersKnowPassword

\* Accepting a connection keeps the invariant: a free slot has no room.
LEMMA NewConnectionStep ==
  ASSUME IInv, HandleNewConnection PROVE IInv'
<1>1. PICK i \in Slots :
        /\ i \in FreeSlots
        /\ clients' = [clients EXCEPT ![i].is_active = TRUE,
                                      ![i].state = "AUTHENTICATING",
                                      ![i].current_room_id = NoRoom]
        /\ UNCHANGED <<rooms, lost, key>>
  BY DEF HandleNewConnection, IsFirst
<1>2. TypeOK'
  <2>1. clients'[i] \in Client
    BY <1>1 DEF IInv, TypeOK, Client, ClientStates
  <2> QED
    BY <1>1, <2>1 DEF IInv, TypeOK
<1>3. SlotsConsistent'
  BY <1>1 DEF IInv, TypeOK, Client, SlotsConsistent, RoomIds, NoRoom
<1>4. SameMembers
  BY <1>1 DEF IInv, TypeOK, Client, SlotsConsistent, SameMembers, Members, FreeSlots
<1> QED
  BY <1>1, <1>2, <1>3, <1>4, SameMembersKeeps DEF IInv

\* Logging in keeps the invariant: it happens outside every room.
LEMMA LoginStep ==
  ASSUME IInv, NEW i \in Slots, NEW u \in Usernames, HandleLogin(i, u) PROVE IInv'
<1> USE DEF HandleLogin
<1>2. TypeOK'
  <2>1. clients'[i] \in Client
    BY DEF IInv, TypeOK, Client, ClientStates
  <2> QED
    BY <2>1 DEF IInv, TypeOK
<1>3. SlotsConsistent'
  BY DEF IInv, TypeOK, Client, SlotsConsistent, RoomIds, NoRoom
<1>4. SameMembers
  BY DEF IInv, TypeOK, Client, SlotsConsistent, SameMembers, Members
<1> QED
  BY <1>2, <1>3, <1>4, SameMembersKeeps DEF IInv

-----------------------------------------------------------------------------
(* Creating and joining.                                                   *)

\* Creating a room keeps the invariant: an inactive slot has no members, since
\* a member's room is active, and so its fields may be overwritten.
LEMMA CreateStep ==
  ASSUME IInv, NEW i \in Slots, NEW n, NEW p, NEW m, HandleCreateRoom(i, n, p, m)
  PROVE  IInv'
<1>1. PICK r \in RoomIds :
        /\ ~rooms[r].is_active
        /\ rooms' = [rooms EXCEPT ![r] =
             [is_active |-> TRUE, room_name |-> n, password |-> p,
              max_clients |-> m, client_count |-> 0]]
        /\ lost' = [lost EXCEPT ![r] = 0]
  BY DEF HandleCreateRoom, IsFirst, FreeRooms
<1>2. /\ n \in RoomNames /\ p \in Passwords /\ m \in 1 .. MaxClients
      /\ RoomsNamed(n) = {} /\ UNCHANGED <<clients, key>>
  BY DEF HandleCreateRoom, Creatable
<1>3. \A s \in RoomIds : Members(s)' = Members(s)
  BY <1>2 DEF Members
<1>4. Members(r) = {}
  BY <1>1 DEF IInv, MembersHaveRoom
<1>5. /\ rooms \in [RoomIds -> Room] /\ lost \in [RoomIds -> Nat]
      /\ \A s \in RoomIds : s # r => rooms'[s] = rooms[s] /\ lost'[s] = lost[s]
  BY <1>1 DEF IInv, TypeOK
<1>6. /\ rooms'[r] = [is_active |-> TRUE, room_name |-> n, password |-> p,
                      max_clients |-> m, client_count |-> 0]
      /\ lost'[r] = 0
  BY <1>1, <1>5
<1>7. TypeOK'
  BY <1>1, <1>2, SizesAssumption DEF IInv, TypeOK, Room
<1>8. SlotsConsistent'
  BY <1>2 DEF IInv, SlotsConsistent
<1>9. ActiveRoomsValid'
  BY <1>2, <1>5, <1>6 DEF IInv, ActiveRoomsValid
<1>10. CountWithinLimit'
  BY <1>2, <1>5, <1>6, SizesAssumption DEF IInv, CountWithinLimit
<1>11. MembersHaveRoom'
  BY <1>3, <1>5, <1>6 DEF IInv, MembersHaveRoom
<1>12. CountExact'
  <2>1. Cardinality(Members(r)) = 0
    BY <1>4, FS_EmptySet
  <2> QED
    BY <1>3, <1>5, <1>6, <2>1 DEF IInv, CountExact
<1>13. UniqueRoomNames'
  BY <1>2, <1>5, <1>6 DEF IInv, UniqueRoomNames, RoomsNamed
<1>14. MembersKnowPassword'
  BY <1>2, <1>3, <1>4, <1>5 DEF IInv, MembersKnowPassword
<1> QED
  BY <1>7, <1>8, <1>9, <1>10, <1>11, <1>12, <1>13, <1>14 DEF IInv

\* Joining keeps the invariant: one member and one count more, below the limit.
LEMMA JoinStep ==
  ASSUME IInv, NEW i \in Slots, NEW n, NEW p \in Passwords \cup {NoPassword},
         HandleJoinRoom(i, n, p)
  PROVE  IInv'
<1>1. PICK r \in RoomIds :
        /\ r \in RoomsNamed(n) /\ Admits(i, r, p)
        /\ clients' = [clients EXCEPT ![i].state = "IN_ROOM",
                                      ![i].current_room_id = r]
        /\ rooms' = [rooms EXCEPT ![r].client_count = @ + 1]
        /\ key' = [key EXCEPT ![i] = p]
        /\ UNCHANGED lost
  BY DEF HandleJoinRoom, IsFirst
<1>2. /\ rooms[r].is_active /\ rooms[r].max_clients \in 1 .. MaxClients
      /\ rooms[r].password \in Passwords
      /\ rooms[r] \in Room /\ rooms \in [RoomIds -> Room]
  BY <1>1 DEF RoomsNamed, IInv, ActiveRoomsValid, TypeOK
<1>3. /\ clients[i].state = "CONNECTED" /\ p = rooms[r].password
      /\ rooms[r].client_count < rooms[r].max_clients
  BY <1>1, <1>2, SizesAssumption, PasswordsAssumption DEF Admits
<1>4. /\ rooms'[r] = [rooms[r] EXCEPT !.client_count = @ + 1]
      /\ \A s \in RoomIds : s # r => rooms'[s] = rooms[s]
  BY <1>1, <1>2
<1>5. /\ \A s \in RoomIds : i \notin Members(s)
      /\ Members(r)' = Members(r) \cup {i}
      /\ \A s \in RoomIds : s # r => Members(s)' = Members(s)
  BY <1>1, <1>3 DEF IInv, TypeOK, Client, SlotsConsistent, Members
<1>6. TypeOK'
  <2>1. rooms'[r].client_count \in 0 .. MaxClients
    BY <1>2, <1>3, <1>4, SizesAssumption DEF Room
  <2>2. rooms' \in [RoomIds -> Room]
    BY <1>1, <1>2, <1>4, <2>1 DEF Room
  <2>3. clients'[i] \in Client
    BY <1>1 DEF IInv, TypeOK, Client, ClientStates
  <2> QED
    BY <1>1, <2>2, <2>3 DEF IInv, TypeOK
<1>7. SlotsConsistent'
  BY <1>1, <1>3 DEF IInv, TypeOK, Client, SlotsConsistent
<1>8. ActiveRoomsValid' /\ UniqueRoomNames'
  BY <1>2, <1>4 DEF IInv, ActiveRoomsValid, UniqueRoomNames, Room
<1>9. CountWithinLimit'
  BY <1>2, <1>3, <1>4, SizesAssumption DEF IInv, CountWithinLimit, Room
<1>10. MembersHaveRoom'
  BY <1>2, <1>4, <1>5 DEF IInv, MembersHaveRoom, Room
<1>11. CountExact'
  <2>1. Cardinality(Members(r) \cup {i}) = Cardinality(Members(r)) + 1
    BY <1>5, MembersFinite, FS_AddElement
  <2>2. rooms[r].client_count = Cardinality(Members(r)) + lost[r]
    BY <1>2 DEF IInv, CountExact
  <2>3. /\ Cardinality(Members(r)) \in Nat /\ lost[r] \in Nat
        /\ rooms[r].client_count \in Int
    BY <1>2, MembersFinite, SizesAssumption DEF IInv, TypeOK, Room
  <2>4. rooms'[r].client_count = Cardinality(Members(r)') + lost'[r]
    BY <1>1, <1>2, <1>4, <1>5, <2>1, <2>2, <2>3 DEF Room
  <2> QED
    BY <1>1, <1>4, <1>5, <2>4 DEF IInv, CountExact
<1>12. MembersKnowPassword'
  BY <1>1, <1>2, <1>3, <1>4, <1>5 DEF IInv, TypeOK, MembersKnowPassword, Room, Members
<1> QED
  BY <1>6, <1>7, <1>8, <1>9, <1>10, <1>11, <1>12 DEF IInv

-----------------------------------------------------------------------------
(* Leaving, disconnecting and being dropped.                               *)

\* The slot of a client that goes: zeroed, or back to CLIENT_CONNECTED.
Vacated(i, c) ==
  /\ c \in Client /\ c.state # "IN_ROOM"
  /\ clients' = [clients EXCEPT ![i] = c]

\* Whoever has no room after a step is one member fewer for every room.
LEMMA VacatedGone ==
  ASSUME IInv, NEW i \in Slots, NEW c, Vacated(i, c) PROVE Gone(i)
BY DEF Vacated, IInv, TypeOK, Client, Gone, Members

\* The memset of a slot takes its client out of every room and keeps the table.
LEMMA ZeroClientVacates ==
  ASSUME IInv, NEW i \in Slots, clients' = [clients EXCEPT ![i] = ZeroClient]
  PROVE  /\ Vacated(i, ZeroClient) /\ Gone(i) /\ SlotsConsistent'
         /\ clients' \in [Slots -> Client]
<1>1. ZeroClient \in Client
  BY DEF ZeroClient, Client, ClientStates
<1>2. Vacated(i, ZeroClient)
  BY <1>1 DEF Vacated, ZeroClient
<1>3. SlotsConsistent'
  BY DEF IInv, TypeOK, SlotsConsistent, ZeroClient, RoomIds
<1>4. clients' \in [Slots -> Client]
  BY <1>1 DEF IInv, TypeOK
<1> QED
  BY <1>2, <1>3, <1>4, VacatedGone

\* Dropping a client keeps the invariant: the count it leaves is in lost.
LEMMA DropStep ==
  ASSUME IInv, NEW i \in Slots, Drop(i) PROVE IInv'
<1> USE DEF Drop
<1>1. Gone(i) /\ SlotsConsistent' /\ clients' \in [Slots -> Client]
  BY ZeroClientVacates
<1>2. TypeOK'
  BY <1>1 DEF IInv, TypeOK
<1>3. ActiveRoomsValid' /\ CountWithinLimit' /\ UniqueRoomNames' /\ MembersHaveRoom'
  BY <1>1 DEF IInv, ActiveRoomsValid, CountWithinLimit, UniqueRoomNames,
              MembersHaveRoom, Gone
<1>4. CountExact'
  <2> SUFFICES ASSUME NEW r \in RoomIds, rooms[r].is_active
               PROVE  rooms[r].client_count = Cardinality(Members(r)') + lost'[r]
    BY DEF CountExact
  <2>1. rooms[r].client_count = Cardinality(Members(r)) + lost[r]
    BY DEF IInv, CountExact
  <2>2. lost[r] \in Nat /\ Cardinality(Members(r)) \in Nat
    BY MembersFinite DEF IInv, TypeOK
  <2>3. Cardinality(Members(r)') = Cardinality(Members(r) \ {i})
    BY <1>1 DEF Gone
  <2>4. CASE i \in Members(r)
    BY <2>1, <2>2, <2>3, <2>4, MembersWithout
  <2>5. CASE i \notin Members(r)
    BY <2>1, <2>2, <2>3, <2>5, MembersWithout
  <2> QED
    BY <2>4, <2>5
<1>5. MembersKnowPassword'
  BY <1>1 DEF IInv, TypeOK, MembersKnowPassword, Gone, Members
<1> QED
  BY <1>1, <1>2, <1>3, <1>4, <1>5 DEF IInv

\* The room a leaving member was in counts one member fewer.
Departs(i) ==
  /\ rooms' = [r \in RoomIds |->
                 IF i \in Members(r) THEN Depart(rooms[r]) ELSE rooms[r]]
  /\ key' = [key EXCEPT ![i] = NoPassword]
  /\ UNCHANGED lost

\* What Depart does to a room with a member: the count goes down by one, and
\* the room stays active exactly while somebody is counted.
LEMMA DepartFacts ==
  ASSUME IInv, NEW i \in Slots, NEW r \in RoomIds, i \in Members(r)
  PROVE  LET d == Depart(rooms[r]) IN
         /\ d \in Room
         /\ d.room_name = rooms[r].room_name /\ d.password = rooms[r].password
         /\ d.max_clients = rooms[r].max_clients
         /\ d.client_count = rooms[r].client_count - 1
         /\ d.client_count = Cardinality(Members(r) \ {i}) + lost[r]
         /\ d.is_active <=> d.client_count # 0
         /\ rooms[r].is_active /\ rooms[r].client_count \in 1 .. MaxClients
<1>1. rooms[r].is_active /\ rooms[r] \in Room /\ lost[r] \in Nat
  BY DEF IInv, MembersHaveRoom, TypeOK
<1>2. rooms[r].client_count = Cardinality(Members(r)) + lost[r]
  BY <1>1 DEF IInv, CountExact
<1>3. Cardinality(Members(r) \ {i}) = Cardinality(Members(r)) - 1
  BY MembersWithout
<1>4. Cardinality(Members(r)) \in Nat /\ Cardinality(Members(r)) # 0
  BY MembersFinite, FS_EmptySet
<1>5. rooms[r].client_count \in 1 .. MaxClients
  BY <1>1, <1>2, <1>4, SizesAssumption DEF Room
<1> DEFINE n == rooms[r].client_count - 1
<1>6. n \in 0 .. MaxClients /\ n = Cardinality(Members(r) \ {i}) + lost[r]
  BY <1>1, <1>2, <1>3, <1>4, <1>5, SizesAssumption
<1>7. Depart(rooms[r]) = [rooms[r] EXCEPT !.client_count = n, !.is_active = n # 0]
  <2>1. (IF rooms[r].client_count > 0 THEN rooms[r].client_count - 1 ELSE 0) = n
    BY <1>5, SizesAssumption
  <2> QED
    BY <2>1, Zenon DEF Depart
<1> HIDE DEF n
<1>8. (n # 0) \in BOOLEAN
  OBVIOUS
<1>9. Depart(rooms[r]) \in Room
  BY <1>1, <1>6, <1>7, <1>8 DEF Room
<1>10. /\ Depart(rooms[r]).room_name = rooms[r].room_name
       /\ Depart(rooms[r]).password = rooms[r].password
       /\ Depart(rooms[r]).max_clients = rooms[r].max_clients
       /\ Depart(rooms[r]).client_count = n
       /\ Depart(rooms[r]).is_active <=> n # 0
  BY <1>1, <1>7 DEF Room
<1> QED
  BY <1>1, <1>5, <1>6, <1>9, <1>10 DEF n

\* A departure keeps what the invariant says of rooms.
LEMMA DepartsKeeps ==
  ASSUME IInv, NEW i \in Slots, Gone(i), Departs(i)
  PROVE  /\ rooms' \in [RoomIds -> Room]
         /\ ActiveRoomsValid' /\ CountWithinLimit' /\ MembersHaveRoom'
         /\ CountExact' /\ UniqueRoomNames' /\ MembersKnowPassword'
<1>1. \A r \in RoomIds : i \in Members(r) =>
        /\ rooms'[r] = Depart(rooms[r])
        /\ rooms'[r] \in Room
        /\ rooms'[r].room_name = rooms[r].room_name
        /\ rooms'[r].password = rooms[r].password
        /\ rooms'[r].max_clients = rooms[r].max_clients
        /\ rooms'[r].client_count = rooms[r].client_count - 1
        /\ rooms'[r].client_count = Cardinality(Members(r)') + lost'[r]
        /\ rooms'[r].is_active <=> rooms'[r].client_count # 0
        /\ rooms[r].is_active /\ rooms[r].client_count \in 1 .. MaxClients
  <2> TAKE r \in RoomIds
  <2> HAVE i \in Members(r)
  <2>1. rooms'[r] = Depart(rooms[r]) /\ lost' = lost
    BY DEF Departs
  <2>2. Members(r)' = Members(r) \ {i}
    BY DEF Gone
  <2> QED
    BY <2>1, <2>2, DepartFacts
<1>2. \A r \in RoomIds : i \notin Members(r) =>
        rooms'[r] = rooms[r] /\ Members(r)' = Members(r) /\ lost'[r] = lost[r]
  BY DEF Departs, Gone
<1>3. rooms' \in [RoomIds -> Room]
  BY <1>1, <1>2 DEF Departs, IInv, TypeOK
<1>4. ActiveRoomsValid' /\ UniqueRoomNames'
  BY <1>1, <1>2 DEF IInv, ActiveRoomsValid, UniqueRoomNames
<1>5. CountWithinLimit'
  BY <1>1, <1>2, SizesAssumption DEF IInv, CountWithinLimit, ActiveRoomsValid
<1>6. CountExact'
  BY <1>1, <1>2 DEF IInv, CountExact
<1>7. MembersHaveRoom'
  <2> SUFFICES ASSUME NEW r \in RoomIds, Members(r)' # {} PROVE rooms'[r].is_active
    BY DEF MembersHaveRoom
  <2>1. CASE i \notin Members(r)
    BY <1>2, <2>1 DEF IInv, MembersHaveRoom
  <2>2. CASE i \in Members(r)
    <3>1. Members(r)' = Members(r) \ {i} /\ lost'[r] \in Nat
      BY DEF Gone, Departs, IInv, TypeOK
    <3>2. IsFiniteSet(Members(r) \ {i})
      BY MembersFinite, FS_RemoveElement
    <3>3. Cardinality(Members(r)') # 0 /\ Cardinality(Members(r)') \in Nat
      BY <3>1, <3>2, FS_EmptySet, FS_CardinalityType
    <3>4. rooms'[r].client_count = Cardinality(Members(r)') + lost'[r]
      BY <1>1, <2>2
    <3>5. rooms'[r].client_count # 0
      BY <3>1, <3>3, <3>4
    <3> QED
      BY <1>1, <2>2, <3>5
  <2> QED
    BY <2>1, <2>2
<1>8. MembersKnowPassword'
  <2> SUFFICES ASSUME NEW r \in RoomIds, NEW j \in Members(r)'
               PROVE  key'[j] = rooms'[r].password
    BY DEF MembersKnowPassword
  <2>1. j \in Members(r) /\ j # i /\ j \in Slots
    BY DEF Gone, Members
  <2>2. key'[j] = key[j] /\ key[j] = rooms[r].password
    BY <2>1 DEF Departs, IInv, TypeOK, MembersKnowPassword
  <2> QED
    BY <1>1, <1>2, <2>2
<1> QED
  BY <1>3, <1>4, <1>5, <1>6, <1>7, <1>8

\* In a room, RoomsOf finds exactly the room one is a member of.
LEMMA RoomsOfMember ==
  ASSUME IInv, NEW i \in Slots, NEW r \in RoomIds
  PROVE  InRoom(i) /\ r \in RoomsOf(i) <=> i \in Members(r)
BY DEF IInv, SlotsConsistent, MembersHaveRoom, InRoom, RoomsOf, Members, RoomIds

\* handle_leave_room_request is a departure and keeps the invariant.
LEMMA LeaveStep ==
  ASSUME IInv, NEW i \in Slots, HandleLeaveRoom(i)
  PROVE  Gone(i) /\ Departs(i) /\ IInv'
<1> DEFINE c == [clients[i] EXCEPT !.state = "CONNECTED", !.current_room_id = NoRoom]
<1>1. c \in Client /\ c.state = "CONNECTED" /\ c.current_room_id = NoRoom
      /\ c.is_active = clients[i].is_active
      /\ clients' = [clients EXCEPT ![i] = c]
  BY DEF HandleLeaveRoom, IInv, TypeOK, Client, ClientStates
<1>2. Gone(i)
  BY <1>1, VacatedGone DEF Vacated
<1>3. Departs(i)
  BY RoomsOfMember DEF HandleLeaveRoom, Departs
<1>4. SlotsConsistent'
  BY <1>1 DEF HandleLeaveRoom, InRoom, IInv, TypeOK, SlotsConsistent, RoomIds, NoRoom
<1>5. clients' \in [Slots -> Client] /\ key' \in [Slots -> Passwords \cup {NoPassword}]
  BY <1>1 DEF HandleLeaveRoom, IInv, TypeOK
<1> QED
  BY <1>2, <1>3, <1>4, <1>5, DepartsKeeps DEF IInv, TypeOK, Departs

\* handle_disconnect_request and the memset that follows it are a departure
\* and keep the invariant.
LEMMA DisconnectStep ==
  ASSUME IInv, NEW i \in Slots, HandleDisconnect(i)
  PROVE  Gone(i) /\ Departs(i) /\ IInv'
<1>1. Gone(i) /\ SlotsConsistent' /\ clients' \in [Slots -> Client]
  BY ZeroClientVacates DEF HandleDisconnect
<1>2. Departs(i)
  BY RoomsOfMember DEF HandleDisconnect, Departs
<1>3. key' \in [Slots -> Passwords \cup {NoPassword}]
  BY DEF HandleDisconnect, IInv, TypeOK
<1> QED
  BY <1>1, <1>2, <1>3, DepartsKeeps DEF IInv, TypeOK, Departs

-----------------------------------------------------------------------------
(* The invariant.                                                          *)

\* Every step of Next is one of six kinds.
LEMMA NextCases ==
  ASSUME Next
  PROVE  \/ HandleNewConnection
         \/ \E i \in Slots : \E u \in Usernames : HandleLogin(i, u)
         \/ \E i \in Slots : \E n, p, m : HandleCreateRoom(i, n, p, m)
         \/ \E i \in Slots : \E n : \E p \in Passwords \cup {NoPassword} :
              HandleJoinRoom(i, n, p)
         \/ \E i \in Slots : HandleLeaveRoom(i) \/ HandleDisconnect(i)
         \/ \E i \in Slots : clients[i].is_active /\ Drop(i)
BY DEF Next, Request, ConnectionLost, Timeout, UserListRefused, ChatMessageFails,
       PrivateMessageFails

\* Every step of the server keeps the invariant.
LEMMA NextIInv == IInv /\ [Next]_vars => IInv'
<1> SUFFICES ASSUME IInv, [Next]_vars PROVE IInv'
  OBVIOUS
<1>1. CASE Next
  BY <1>1, NextCases, NewConnectionStep, LoginStep, CreateStep, JoinStep,
     LeaveStep, DisconnectStep, DropStep
<1>2. CASE UNCHANGED vars
  BY <1>2 DEF vars, IInv, TypeOK, SlotsConsistent, ActiveRoomsValid, CountWithinLimit,
     MembersHaveRoom, CountExact, UniqueRoomNames, MembersKnowPassword, Members
<1> QED
  BY <1>1, <1>2

\* The inductive invariant holds in every state the server reaches.
THEOREM Invariance == Spec => []IInv
BY InitIInv, NextIInv, PTL DEF Spec

\* Every variable keeps its type: in particular client_count, which the code
\* increments and decrements, stays between 0 and MAX_CLIENTS.
THEOREM TypeCorrect == Spec => []TypeOK
<1>1. IInv => TypeOK
  BY DEF IInv
<1> QED
  BY <1>1, Invariance, PTL

\* The fields of a slot that say what its client is doing never disagree,
\* though five functions write them.
THEOREM SlotsAreConsistent == Spec => []SlotsConsistent
<1>1. IInv => SlotsConsistent
  BY DEF IInv
<1> QED
  BY <1>1, Invariance, PTL

\* A member's room is active: no other client closes it.
THEOREM MemberRoomsActive == Spec => []MembersHaveRoom
<1>1. IInv => MembersHaveRoom
  BY DEF IInv
<1> QED
  BY <1>1, Invariance, PTL

\* client_count is the number of members plus the number of dropped members.
THEOREM CountIsExact == Spec => []CountExact
<1>1. IInv => CountExact
  BY DEF IInv
<1> QED
  BY <1>1, Invariance, PTL

\* No room is ever entered beyond the limit its creator set.
THEOREM CapacityHolds == Spec => []WithinCapacity
<1>1. IInv => WithinCapacity
  <2> SUFFICES ASSUME IInv, NEW r \in RoomIds, Members(r) # {}
               PROVE  Cardinality(Members(r)) <= rooms[r].max_clients
    BY DEF WithinCapacity
  <2>1. rooms[r].is_active /\ rooms[r] \in Room /\ lost[r] \in Nat
    BY DEF IInv, MembersHaveRoom, TypeOK
  <2>2. /\ rooms[r].client_count = Cardinality(Members(r)) + lost[r]
        /\ rooms[r].client_count <= rooms[r].max_clients
    BY <2>1 DEF IInv, CountExact, CountWithinLimit
  <2> QED
    BY <2>1, <2>2, MembersFinite, SizesAssumption DEF Room
<1> QED
  BY <1>1, Invariance, PTL

\* Two active rooms never have the same name.
THEOREM NamesAreUnique == Spec => []UniqueRoomNames
<1>1. IInv => UniqueRoomNames
  BY DEF IInv
<1> QED
  BY <1>1, Invariance, PTL

\* Whoever is in a room presented the password the room has now.
THEOREM PasswordsRespected == Spec => []MembersKnowPassword
<1>1. IInv => MembersKnowPassword
  BY DEF IInv
<1> QED
  BY <1>1, Invariance, PTL

-----------------------------------------------------------------------------
(* What a step may never do.                                               *)

\* Steps in which no room with members changes, and no room loses a member.
LEMMA QuietStep ==
  ASSUME \A r \in RoomIds : Members(r) # {} => rooms'[r] = rooms[r],
         \A r \in RoomIds : Members(r) # {} => Members(r)' # {}
  PROVE  KeepsOccupiedRooms /\ ClosesWithLastMember
BY DEF KeepsOccupiedRooms, ClosesWithLastMember

\* Creating a room overwrites no room with members and closes none.
LEMMA CreateQuiet ==
  ASSUME IInv, NEW i \in Slots, NEW n, NEW p, NEW m, HandleCreateRoom(i, n, p, m)
  PROVE  KeepsOccupiedRooms /\ ClosesWithLastMember
<1>1. PICK r \in RoomIds :
        /\ ~rooms[r].is_active
        /\ \A s \in RoomIds : s # r => rooms'[s] = rooms[s]
  BY DEF HandleCreateRoom, IsFirst, FreeRooms, IInv, TypeOK
<1>2. \A s \in RoomIds : Members(s)' = Members(s)
  BY DEF HandleCreateRoom, Members
<1> QED
  BY <1>1, <1>2, QuietStep DEF IInv, MembersHaveRoom

\* Joining changes nothing of a room but its count.
LEMMA JoinKeeps ==
  ASSUME IInv, NEW i \in Slots, NEW n, NEW p, HandleJoinRoom(i, n, p)
  PROVE  KeepsOccupiedRooms /\ ClosesWithLastMember
<1>1. PICK r \in RoomIds :
        /\ clients[i].state = "CONNECTED"
        /\ clients' = [clients EXCEPT ![i].state = "IN_ROOM",
                                      ![i].current_room_id = r]
        /\ rooms' = [rooms EXCEPT ![r].client_count = @ + 1]
  BY DEF HandleJoinRoom, Admits
<1>2. \A s \in RoomIds : Members(s) \subseteq Members(s)'
  BY <1>1 DEF IInv, TypeOK, Client, Members
<1>3. \A s \in RoomIds : /\ rooms'[s].room_name = rooms[s].room_name
                         /\ rooms'[s].password = rooms[s].password
                         /\ rooms'[s].max_clients = rooms[s].max_clients
  BY <1>1 DEF IInv, TypeOK, Room
<1> QED
  BY <1>2, <1>3 DEF KeepsOccupiedRooms, ClosesWithLastMember

\* A departure keeps the rooms of others and closes its own behind the last.
LEMMA DepartsCloses ==
  ASSUME IInv, NEW i \in Slots, Gone(i), Departs(i)
  PROVE  KeepsOccupiedRooms /\ ClosesWithLastMember
<1>1. KeepsOccupiedRooms
  BY DepartFacts DEF Departs, KeepsOccupiedRooms
<1>2. ClosesWithLastMember
  <2> SUFFICES ASSUME NEW r \in RoomIds, Members(r) # {}, Members(r)' = {},
                      lost'[r] = 0
               PROVE  ~rooms'[r].is_active
    BY DEF ClosesWithLastMember
  <2>1. i \in Members(r) /\ Members(r) \ {i} = {}
    BY DEF Gone
  <2>2. rooms'[r] = Depart(rooms[r]) /\ lost[r] = 0
    BY <2>1 DEF Departs
  <2>3. Cardinality(Members(r) \ {i}) = 0
    BY <2>1, FS_EmptySet
  <2>4. Depart(rooms[r]).client_count = Cardinality(Members(r) \ {i}) + lost[r]
    BY <2>1, DepartFacts
  <2>5. Depart(rooms[r]).client_count = 0
    BY <2>2, <2>3, <2>4
  <2> QED
    BY <2>1, <2>2, <2>5, DepartFacts
<1> QED
  BY <1>1, <1>2

\* A drop from a room is counted in lost.
LEMMA DropCounts ==
  ASSUME IInv, NEW i \in Slots, Drop(i)
  PROVE  KeepsOccupiedRooms /\ ClosesWithLastMember
<1>1. Gone(i)
  BY ZeroClientVacates DEF Drop
<1>2. \A r \in RoomIds : i \in Members(r) => lost'[r] # 0
  BY DEF Drop, IInv, TypeOK
<1> QED
  BY <1>1, <1>2 DEF Drop, Gone, KeepsOccupiedRooms, ClosesWithLastMember

\* Every step has both action properties.
LEMMA StepProperties ==
  IInv /\ [Next]_vars => [KeepsOccupiedRooms]_vars /\ [ClosesWithLastMember]_vars
<1> SUFFICES ASSUME IInv, Next PROVE KeepsOccupiedRooms /\ ClosesWithLastMember
  OBVIOUS
<1>1. CASE HandleNewConnection
  <2>1. \A r \in RoomIds : Members(r) \subseteq Members(r)'
    BY <1>1 DEF HandleNewConnection, IsFirst, FreeSlots, IInv, TypeOK, Client, Members
  <2> QED
    BY <1>1, <2>1, QuietStep DEF HandleNewConnection
<1>2. ASSUME NEW i \in Slots, NEW u \in Usernames, HandleLogin(i, u)
      PROVE  KeepsOccupiedRooms /\ ClosesWithLastMember
  <2>1. \A r \in RoomIds : Members(r) \subseteq Members(r)'
    BY <1>2 DEF HandleLogin, IInv, TypeOK, Client, Members
  <2> QED
    BY <1>2, <2>1, QuietStep DEF HandleLogin
<1> QED
  BY <1>1, <1>2, NextCases, CreateQuiet, JoinKeeps, LeaveStep, DisconnectStep,
     DepartsCloses, DropCounts

\* A room with members keeps its name, password and limit.
THEOREM OccupiedRoomsKept == Spec => RoomKeptWhileOccupied
BY Invariance, StepProperties, PTL DEF Spec, RoomKeptWhileOccupied

\* The last member to go closes the room, unless a drop left it miscounted.
THEOREM LastMemberCloses == Spec => ClosedByLastMember
BY Invariance, StepProperties, PTL DEF Spec, ClosedByLastMember

-----------------------------------------------------------------------------
(* ChatServer implements ChatRooms, under the mapping of the module        *)
(* ChatServer: the room table becomes the directory, the client table the  *)
(* seats.  Opening and entering a room are each one step of the directory; *)
(* leaving, disconnecting and being dropped are all Exit, and everything   *)
(* else is a stutter.                                                      *)


\* The step of the abstract rooms that a step of the server is.
RoomsStep == [Rooms!Next]_(Rooms!vars)

\* Cardinality, as the instance of ChatRooms expands it, is Cardinality.
LEMMA SameCardinality ==
  ASSUME NEW S PROVE Rooms!Cardinality(S) = Cardinality(S)
BY Zenon DEF Cardinality, Rooms!Cardinality

\* The occupants of a room in the abstraction are its members.
LEMMA OccupantsAreMembers ==
  ASSUME IInv, NEW r \in RoomIds PROVE Rooms!Occupants(r) = Members(r)
BY DEF IInv, TypeOK, Client, SlotsConsistent, Rooms!Occupants, Seat, Members, RoomIds

\* A seat is a room id exactly for the members of that room.
LEMMA SeatFacts ==
  ASSUME IInv, NEW i \in Slots
  PROVE  /\ \A r \in RoomIds : Seat[i] = r <=> i \in Members(r)
         /\ Seat[i] # 0 => Seat[i] \in RoomIds
BY DEF IInv, TypeOK, Client, SlotsConsistent, Seat, Members, RoomIds

\* The directory changes only where the room table does.
LEMMA DirectoryAt ==
  ASSUME NEW r \in RoomIds, rooms'[r] = rooms[r] PROVE Directory'[r] = Directory[r]
BY DEF Directory

\* Initially every room is closed and nobody is seated.
LEMMA InitImplements == Init => Rooms!Init
BY DEF Init, ZeroRoom, ZeroClient, Rooms!Init, Rooms!Closed, Rooms!Nowhere,
       Directory, Seat

\* Creating a room is OpenRoom.
LEMMA CreateImplements ==
  ASSUME IInv, NEW i \in Slots, NEW n, NEW p, NEW m, HandleCreateRoom(i, n, p, m)
  PROVE  Rooms!Next
<1>1. PICK r \in RoomIds :
        /\ ~rooms[r].is_active
        /\ rooms' = [rooms EXCEPT ![r] =
             [is_active |-> TRUE, room_name |-> n, password |-> p,
              max_clients |-> m, client_count |-> 0]]
  BY DEF HandleCreateRoom, IsFirst, FreeRooms
<1>2. /\ n \in RoomNames /\ p \in Passwords /\ m \in 1 .. MaxClients
      /\ RoomsNamed(n) = {} /\ UNCHANGED <<clients, key>>
  BY DEF HandleCreateRoom, Creatable
<1> DEFINE room == [open |-> TRUE, name |-> n, password |-> p, limit |-> m]
<1>3. room \in Rooms!Open
  BY <1>2 DEF Rooms!Open
<1>4. Directory[r] = [open |-> FALSE]
  BY <1>1 DEF Directory
<1>5. ASSUME NEW s \in RoomIds, Directory[s] # [open |-> FALSE]
      PROVE  Directory[s].name # n
  BY <1>2, <1>5 DEF Directory, RoomsNamed
<1>6. Directory' = [Directory EXCEPT ![r] = room]
  BY <1>1 DEF Directory, IInv, TypeOK
<1>7. Seat' = Seat
  BY <1>2 DEF Seat
<1>8. Rooms!OpenRoom(r, room)
  BY <1>2, <1>4, <1>5, <1>6, <1>7 DEF Rooms!OpenRoom, Rooms!Closed
<1> QED
  BY <1>3, <1>8 DEF Rooms!Next

\* Joining a room is Enter: the count is never below the number of members,
\* so that a room which admits by its count admits by its occupants.
LEMMA JoinImplements ==
  ASSUME IInv, NEW i \in Slots, NEW n, NEW p, HandleJoinRoom(i, n, p)
  PROVE  Rooms!Next
<1>1. PICK r \in RoomIds :
        /\ r \in RoomsNamed(n) /\ Admits(i, r, p)
        /\ clients' = [clients EXCEPT ![i].state = "IN_ROOM",
                                      ![i].current_room_id = r]
        /\ rooms' = [rooms EXCEPT ![r].client_count = @ + 1]
        /\ key' = [key EXCEPT ![i] = p]
  BY DEF HandleJoinRoom, IsFirst
<1>2. /\ rooms[r].is_active /\ rooms[r].max_clients \in 1 .. MaxClients
      /\ rooms[r].password \in Passwords /\ rooms[r] \in Room
      /\ rooms[r].client_count <= rooms[r].max_clients
      /\ rooms[r].client_count = Cardinality(Members(r)) + lost[r]
      /\ lost[r] \in Nat
  BY <1>1 DEF RoomsNamed, IInv, ActiveRoomsValid, CountWithinLimit, CountExact, TypeOK
<1>3. /\ clients[i].state = "CONNECTED" /\ p = rooms[r].password
      /\ rooms[r].client_count < rooms[r].max_clients
  BY <1>1, <1>2, SizesAssumption, PasswordsAssumption DEF Admits
<1>4. Cardinality(Rooms!Occupants(r)) < rooms[r].max_clients
  BY <1>2, <1>3, OccupantsAreMembers, MembersFinite, SizesAssumption DEF Room
<1>5. /\ Directory[r] # [open |-> FALSE] /\ Directory[r].limit = rooms[r].max_clients
      /\ Directory[r].password = p
  BY <1>2, <1>3 DEF Directory
<1>6. Directory' = Directory
  BY <1>1 DEF Directory, IInv, TypeOK, Room
<1>7. Seat[i] = 0 /\ Seat' = [Seat EXCEPT ![i] = r]
  BY <1>1, <1>3 DEF Seat, IInv, TypeOK, Client
<1>8. Rooms!Enter(i, r)
  BY <1>1, <1>4, <1>5, <1>6, <1>7, SameCardinality
  DEF Rooms!Enter, Rooms!Closed, Rooms!Nowhere
<1> QED
  BY <1>8 DEF Rooms!Next

\* A client that goes empties its seat, whatever the way it goes.
LEMMA GoneSeat ==
  ASSUME IInv, NEW i \in Slots, NEW c, Vacated(i, c)
  PROVE  Seat' = [Seat EXCEPT ![i] = 0]
BY DEF Vacated, Seat, IInv, TypeOK, Client

\* A client outside every room holds no password, so that a client that goes
\* from outside every room is a stutter.
KeysOnlyInRooms ==
  \A i \in Slots : clients[i].state # "IN_ROOM" => key[i] = NoPassword

\* Initially nobody has presented a password.
LEMMA KeysInitially == Init => KeysOnlyInRooms
BY DEF Init, KeysOnlyInRooms

\* Only a client in a room has presented a password.
LEMMA KeysKept == IInv /\ KeysOnlyInRooms /\ [Next]_vars => KeysOnlyInRooms'
<1> SUFFICES ASSUME IInv, KeysOnlyInRooms, [Next]_vars PROVE KeysOnlyInRooms'
  OBVIOUS
<1> USE DEF IInv, TypeOK, Client, KeysOnlyInRooms
<1>1. CASE HandleNewConnection
  BY <1>1 DEF HandleNewConnection, IsFirst, FreeSlots, SlotsConsistent
<1>2. ASSUME NEW i \in Slots, NEW u, HandleLogin(i, u) PROVE KeysOnlyInRooms'
  BY <1>2 DEF HandleLogin
<1>3. ASSUME NEW i \in Slots, NEW n, NEW p, NEW m, HandleCreateRoom(i, n, p, m)
      PROVE  KeysOnlyInRooms'
  BY <1>3 DEF HandleCreateRoom
<1>4. ASSUME NEW i \in Slots, NEW n, NEW p, HandleJoinRoom(i, n, p)
      PROVE  KeysOnlyInRooms'
  BY <1>4 DEF HandleJoinRoom
<1>5. ASSUME NEW i \in Slots, HandleLeaveRoom(i) \/ HandleDisconnect(i) \/ Drop(i)
      PROVE  KeysOnlyInRooms'
  BY <1>5 DEF HandleLeaveRoom, HandleDisconnect, Drop
<1>6. CASE UNCHANGED vars
  BY <1>6 DEF vars
<1> QED
  BY <1>1, <1>2, <1>3, <1>4, <1>5, <1>6, NextCases

RInv == IInv /\ KeysOnlyInRooms

\* A client that goes and takes the directory from one of the two states that
\* Exit allows to the next.
LEMMA ExitImplements ==
  ASSUME RInv, NEW i \in Slots, NEW c, Vacated(i, c),
         key' = [key EXCEPT ![i] = NoPassword],
         \/ Directory' = Directory
         \/ \E r \in RoomIds : /\ Members(r) = {i}
                               /\ Directory' = [Directory EXCEPT ![r] = [open |-> FALSE]]
  PROVE  RoomsStep
<1>1. Seat' = [Seat EXCEPT ![i] = 0]
  BY GoneSeat DEF RInv
<1>2. CASE Seat[i] # 0
  <2>1. Seat[i] \in RoomIds /\ i \in Members(Seat[i])
    BY <1>2, SeatFacts DEF RInv
  <2>2. ASSUME NEW r \in RoomIds, Members(r) = {i}
        PROVE  r = Seat[i] /\ Rooms!Occupants(r) = {i}
    BY <2>2, SeatFacts, OccupantsAreMembers DEF RInv
  <2>3. Rooms!Exit(i)
    BY <1>1, <1>2, <2>2 DEF Rooms!Exit, Rooms!Closed, Rooms!Nowhere
  <2> QED
    BY <2>3 DEF RoomsStep, Rooms!Next
<1>3. CASE Seat[i] = 0
  <2>1. \A r \in RoomIds : i \notin Members(r)
    BY <1>3, SeatFacts DEF RInv, RoomIds
  <2>2. Directory' = Directory
    BY <2>1
  <2>3. Seat' = Seat
    BY <1>1, <1>3 DEF Seat
  <2>4. key' = key
    BY <1>3 DEF RInv, IInv, KeysOnlyInRooms, SlotsConsistent, TypeOK, Seat, RoomIds
  <2> QED
    BY <2>2, <2>3, <2>4 DEF RoomsStep, Rooms!vars
<1> QED
  BY <1>2, <1>3

\* A departure changes nothing in the directory or closes a room that has no
\* other occupant.
LEMMA DepartsDirectory ==
  ASSUME IInv, NEW i \in Slots, Departs(i)
  PROVE  \/ Directory' = Directory
         \/ \E r \in RoomIds : /\ Members(r) = {i}
                               /\ Directory' = [Directory EXCEPT ![r] = [open |-> FALSE]]
<1>1. ASSUME \A r \in RoomIds : i \notin Members(r) PROVE Directory' = Directory
  <2>1. rooms' = rooms
    BY <1>1 DEF Departs, IInv, TypeOK
  <2> QED
    BY <2>1 DEF Directory
<1>2. ASSUME NEW r \in RoomIds, i \in Members(r)
      PROVE  \/ Directory' = Directory
             \/ /\ Members(r) = {i}
                /\ Directory' = [Directory EXCEPT ![r] = [open |-> FALSE]]
  <2>1. /\ rooms'[r] = Depart(rooms[r])
        /\ \A s \in RoomIds : s # r => rooms'[s] = rooms[s]
    BY <1>2 DEF Departs, Members
  <2>2. /\ rooms'[r].room_name = rooms[r].room_name
        /\ rooms'[r].password = rooms[r].password
        /\ rooms'[r].max_clients = rooms[r].max_clients
        /\ rooms'[r].client_count = Cardinality(Members(r) \ {i}) + lost[r]
        /\ rooms'[r].is_active <=> rooms'[r].client_count # 0
        /\ rooms[r].is_active
    <3>1. /\ Depart(rooms[r]).room_name = rooms[r].room_name
          /\ Depart(rooms[r]).password = rooms[r].password
          /\ Depart(rooms[r]).max_clients = rooms[r].max_clients
          /\ Depart(rooms[r]).client_count = Cardinality(Members(r) \ {i}) + lost[r]
          /\ Depart(rooms[r]).is_active <=> Depart(rooms[r]).client_count # 0
          /\ rooms[r].is_active
      BY <1>2, DepartFacts
    <3> QED
      BY <2>1, <3>1
  <2>3. \A s \in RoomIds : s # r => Directory'[s] = Directory[s]
    BY <2>1, DirectoryAt
  <2>4. CASE rooms'[r].is_active
    <3>1. Directory'[r] = Directory[r]
      BY <2>2, <2>4 DEF Directory
    <3> QED
      BY <2>3, <3>1 DEF Directory
  <2>5. CASE ~rooms'[r].is_active
    <3>1. IsFiniteSet(Members(r) \ {i}) /\ lost[r] \in Nat
      BY MembersFinite, FS_RemoveElement DEF IInv, TypeOK
    <3>2. Cardinality(Members(r) \ {i}) = 0
      BY <2>2, <2>5, <3>1, FS_CardinalityType
    <3>3. Members(r) = {i}
      BY <1>2, <3>1, <3>2, FS_EmptySet
    <3>4. Directory'[r] = [open |-> FALSE]
      BY <2>5 DEF Directory
    <3> QED
      BY <2>3, <3>3, <3>4 DEF Directory
  <2> QED
    BY <2>4, <2>5
<1> QED
  BY <1>1, <1>2

-----------------------------------------------------------------------------

\* Every step of the server is a step of the abstract rooms, or none.
LEMMA NextImplements == RInv /\ [Next]_vars => RoomsStep
<1> SUFFICES ASSUME RInv, [Next]_vars PROVE RoomsStep
  OBVIOUS
<1>1. IInv /\ IInv'
  BY NextIInv DEF RInv
<1>2. ASSUME Seat' = Seat, UNCHANGED <<rooms, key>> PROVE RoomsStep
  BY <1>2 DEF RoomsStep, Rooms!vars, Directory
<1>3. CASE HandleNewConnection
  <2>1. Seat' = Seat
    BY <1>1, <1>3 DEF HandleNewConnection, IsFirst, FreeSlots, IInv, TypeOK, Client,
                      SlotsConsistent, Seat
  <2> QED
    BY <1>2, <1>3, <2>1 DEF HandleNewConnection
<1>4. ASSUME NEW i \in Slots, NEW u, HandleLogin(i, u) PROVE RoomsStep
  <2>1. Seat' = Seat
    BY <1>1, <1>4 DEF HandleLogin, IInv, TypeOK, Client, SlotsConsistent, Seat
  <2> QED
    BY <1>2, <1>4, <2>1 DEF HandleLogin
<1>5. ASSUME NEW i \in Slots, NEW n, NEW p,
             HandleJoinRoom(i, n, p) \/ \E m : HandleCreateRoom(i, n, p, m)
      PROVE  RoomsStep
  BY <1>1, <1>5, JoinImplements, CreateImplements DEF RoomsStep
<1>6. ASSUME NEW i \in Slots, HandleLeaveRoom(i) PROVE RoomsStep
  <2> DEFINE c == [clients[i] EXCEPT !.state = "CONNECTED", !.current_room_id = NoRoom]
  <2>1. Vacated(i, c)
    BY <1>1, <1>6 DEF HandleLeaveRoom, Vacated, IInv, TypeOK, Client, ClientStates
  <2>2. Departs(i)
    BY <1>1, <1>6, LeaveStep
  <2> QED
    BY <1>1, <2>1, <2>2, DepartsDirectory, ExitImplements DEF Departs
<1>7. ASSUME NEW i \in Slots, HandleDisconnect(i) PROVE RoomsStep
  <2>1. Vacated(i, ZeroClient)
    BY <1>1, <1>7, ZeroClientVacates DEF HandleDisconnect
  <2>2. Departs(i)
    BY <1>1, <1>7, DisconnectStep
  <2> QED
    BY <1>1, <2>1, <2>2, DepartsDirectory, ExitImplements DEF Departs
<1>8. ASSUME NEW i \in Slots, Drop(i) PROVE RoomsStep
  <2>1. Vacated(i, ZeroClient)
    BY <1>1, <1>8, ZeroClientVacates DEF Drop
  <2>2. Directory' = Directory
    BY <1>8 DEF Drop, Directory
  <2> QED
    BY <1>8, <2>1, <2>2, ExitImplements DEF Drop
<1>9. CASE UNCHANGED vars
  BY <1>2, <1>9 DEF vars, Seat
<1> QED
  BY <1>3, <1>4, <1>5, <1>6, <1>7, <1>8, <1>9, NextCases

\* The server implements the abstract rooms.
THEOREM Implementation == Spec => ImplementsRooms
<1>1. Init => RInv
  BY InitIInv, KeysInitially DEF RInv
<1>2. RInv /\ [Next]_vars => RInv'
  BY NextIInv, KeysKept DEF RInv
<1> QED
  BY <1>1, <1>2, InitImplements, NextImplements, PTL
  DEF Spec, ImplementsRooms, Rooms!Spec, RoomsStep

=============================================================================
