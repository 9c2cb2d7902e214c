CONSTANTS
  Server = {1, 2, 3}
  RAFT_MAX_NODES = 3
  RAFT_MAX_LOG = 3
  RAFT_MAX_BATCH = 1
  InitialMembers <- AllInitial
  Learners = {}
  OutOfBounds <- ZeroMemory
  ClientCommands <- MaxlogCommand
  Memberships = {}
  Rejoining = {}
  MaxEntries = 2
  ElectionsFrom <- OneElection
  MaxCrashes = 1
  MaxApiCalls = 0
  MaxReceived = 1
  MaxInFlight = 1
  Duplication = FALSE
SPECIFICATION Spec
INVARIANT StateMachineSafety
