CONSTANTS
  Node = {1, 2}
  RAFT_MAX_QUEUE = 2
  RAFT_MAX_NODES = 2
  LISTEN_BACKLOG = 2
  KnownPeers <- OneKnowsTwo
  Observed = {2}
  HasPort = {}
  MaxFrames = 3
  MaxOperations = 2
SPECIFICATION Spec
CHECK_DEADLOCK FALSE
INVARIANT StopLeavesOneMessage
PROPERTY ImplementsNetwork
PROPERTY EventuallyReceived
PROPERTY StopReturnsUnlessHung
