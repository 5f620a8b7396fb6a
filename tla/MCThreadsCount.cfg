CONSTANTS
  c1 = c1
  c2 = c2
  c3 = c3
  red = red
  blue = blue
  Main = Main
  NoAgent = NoAgent
  Clients = {c1, c2, c3}
  Threaded = {c1}
  MainRequests = {"join", "disconnect"}
  ThreadRequests = {"create", "join", "leave"}
  MaxRooms = 1
  RoomNames = {red}
  Limits = {1, 2}
SPECIFICATION Spec
INVARIANTS
  CountExact
