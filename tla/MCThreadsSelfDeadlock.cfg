CONSTANTS
  c1 = c1
  c2 = c2
  c3 = c3
  red = red
  blue = blue
  Main = Main
  NoAgent = NoAgent
  Clients = {c1, c2}
  Threaded = {c1}
  MainRequests = {"private"}
  ThreadRequests = {"private"}
  MaxRooms = 2
  RoomNames = {red, blue}
  Limits = {1, 2}
SPECIFICATION Spec
INVARIANTS
  NoSelfDeadlock
