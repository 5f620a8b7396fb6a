CONSTANTS
  c1 = c1
  c2 = c2
  c3 = c3
  red = red
  blue = blue
  Main = Main
  NoAgent = NoAgent
  Clients = {c1, c2, c3}
  Threaded = {}
  MainRequests = {"create", "join", "leave", "chat", "private", "room_list", "user_list", "disconnect", "lost", "timeout"}
  ThreadRequests = {}
  MaxRooms = 2
  RoomNames = {red, blue}
  Limits = {1, 2}
SPECIFICATION FairSpec
INVARIANTS
  CountExact
PROPERTIES
  ImplementsRooms
  RequestsFinish
