CONSTANTS
  c1 = c1
  c2 = c2
  c3 = c3
  red = red
  blue = blue
  Main = Main
  NoAgent = NoAgent
  Clients = {c1, c2, c3}
  Threaded = {c1, c2, c3}
  MainRequests = {}
  ThreadRequests = {"create", "join", "leave", "chat", "room_list", "user_list", "disconnect", "lost"}
  MaxRooms = 2
  RoomNames = {red, blue}
  Limits = {1, 2}
SPECIFICATION FairSpec
INVARIANTS
  LocksMatchSteps
  CountExact
  UniqueRoomNames
  ListsFit
PROPERTIES
  ImplementsRooms
  RequestsFinish
