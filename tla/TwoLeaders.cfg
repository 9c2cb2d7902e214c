CONSTANTS
  Server = {1, 2, 3}
  RAFT_MAX_NODES = 3
  RAFT_MAX_LOG = 2
  RAFT_MAX_BATCH = 1
  InitialMembers <- AllInitial
  Learners = {}
  OutOfBounds <- ZeroMemory
  ClientCommands <- OneCommand
  Memberships = {}
  Rejoining = {}
  MaxEntries = 1
  ElectionsFrom <- OneThenTwo
  MaxCrashes = 0
  MaxApiCalls = 0
  MaxReceived = 1
  MaxInFlight = 1
  Duplication = FALSE
SPECIFICATION Spec
INVARIANT ElectionSafety
