CONSTANTS
  Node = {1, 2}
  RAFT_MAX_QUEUE = 2
  RAFT_MAX_NODES = 2
  Letters = {"n", "1", "2", "5"}
  NodeId <- EvenIds
  Observed = {2}
  MaxPublishes = 2
  MaxOperations = 2
SPECIFICATION Spec
CHECK_DEADLOCK FALSE
PROPERTY ImplementsNetwork
PROPERTY EventuallyReceived
PROPERTY EventuallyReported
