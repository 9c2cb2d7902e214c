CONSTANTS
  Server = {1, 2}
  RAFT_MAX_NODES = 2
  RAFT_MAX_LOG = 3
  RAFT_MAX_BATCH = 3
  InitialMembers <- SelfInitial
  Learners = {}
  OutOfBounds <- ZeroMemory
  Starts <- MCStarts
  Received <- MCReceived
SPECIFICATION Spec
INVARIANT ClosedForm
CHECK_DEADLOCK FALSE
