SPECIFICATION MCSpec
CONSTANTS
  Kinds <- MCKinds
  Lists <- MCLists
  Words = 2
  SocketSize = 2
  IdBits = 1
  Peer <- MCPeer
  Ids = {1}
  MaxArrivals = 2
  MaxSent = 2
INVARIANTS TypeOK NeverSentBack StoppedIsSilent DeletedIsUnused
PROPERTIES ImplementsChannel MainEnds
CHECK_DEADLOCK FALSE
