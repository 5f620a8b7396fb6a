CONSTANTS
  MaxClients = 3
  MaxRooms = 2
  alice = alice
  bob = bob
  red = red
  blue = blue
  pw1 = pw1
  pw2 = pw2
  NoName = NoName
  NoPassword = NoPassword
  Usernames = {alice, bob}
  RoomNames = {red, blue}
  Passwords = {pw1, pw2}
  Capacities = {0, 1, 2, 4}
SPECIFICATION Spec
INVARIANTS
  TypeOK
  SlotsConsistent
  MembersHaveRoom
  CountExact
  WithinCapacity
  UniqueRoomNames
  MembersKnowPassword
PROPERTIES
  ImplementsRooms
  RoomKeptWhileOccupied
  ClosedByLastMember
SYMMETRY Symmetry
