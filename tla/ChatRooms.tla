----------------------------- MODULE ChatRooms ------------------------------
(***************************************************************************)
(* What the chat rooms promise their users, without tables, counters or    *)
(* locks: a directory of rooms, each with a name of its own, and a seat    *)
(* per client.  Nobody enters without the password or beyond the limit,    *)
(* and a room stays what it is until its last occupant has gone.  Only the *)
(* time at which an empty room disappears is left open.                    *)
(***************************************************************************)
EXTENDS Integers, FiniteSets

CONSTANTS
  Clients,      \* who can be in a room
  RoomIds,      \* the identities rooms can have
  Names, Keys,  \* room names and room passwords
  NoKey,        \* what a client holds outside every room
  MaxCapacity   \* the largest limit a creator can set

VARIABLES
  directory,    \* per room id: Closed, or the room that is open there
  seat,         \* per client: Nowhere, or the room the client is in
  ticket        \* per client: NoKey, or the password it entered with

vars == <<directory, seat, ticket>>

Closed == [open |-> FALSE]
Open == [open : {TRUE}, name : Names, password : Keys, limit : 1 .. MaxCapacity]
Nowhere == 0

Occupants(r) == {c \in Clients : seat[c] = r}

Init ==
  /\ directory = [r \in RoomIds |-> Closed]
  /\ seat = [c \in Clients |-> Nowhere]
  /\ ticket = [c \in Clients |-> NoKey]

OpenRoom(r, room) ==
  /\ directory[r] = Closed
  /\ \A s \in RoomIds : directory[s] # Closed => directory[s].name # room.name
  /\ directory' = [directory EXCEPT ![r] = room]
  /\ UNCHANGED <<seat, ticket>>

Enter(c, r) ==
  /\ seat[c] = Nowhere
  /\ directory[r] # Closed
  /\ Cardinality(Occupants(r)) < directory[r].limit
  /\ seat' = [seat EXCEPT ![c] = r]
  /\ ticket' = [ticket EXCEPT ![c] = directory[r].password]
  /\ UNCHANGED directory

\* The room may close in the same step, when its last occupant goes.
Exit(c) ==
  /\ seat[c] # Nowhere
  /\ seat' = [seat EXCEPT ![c] = Nowhere]
  /\ ticket' = [ticket EXCEPT ![c] = NoKey]
  /\ \/ UNCHANGED directory
     \/ /\ Occupants(seat[c]) = {c}
        /\ directory' = [directory EXCEPT ![seat[c]] = Closed]

Next ==
  \/ \E r \in RoomIds : \E room \in Open : OpenRoom(r, room)
  \/ \E c \in Clients : \E r \in RoomIds : Enter(c, r)
  \/ \E c \in Clients : Exit(c)

Spec == Init /\ [][Next]_vars
=============================================================================
