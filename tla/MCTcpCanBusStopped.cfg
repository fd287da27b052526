\* The same two clients, with no read or write cut.
CONSTANTS
  c1 = c1
  c2 = c2
  c3 = c3
  Client = {c1, c2}
  SendThread = {}
  Steady = {}
  Restart = {}
  Cleanup = Cleanup
  NoThread = NoThread
  Capacity = 1
  BodySize = {6}
  Slow = {}
  Torn = {"BODY"}
  MaxSends <- OnlyFirst
SPECIFICATION Spec
PROPERTY StoppedGetsNothing
CHECK_DEADLOCK FALSE
