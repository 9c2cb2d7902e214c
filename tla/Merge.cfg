CONSTANTS
  Server = {1, 2}
  RAFT_MAX_NODES = 2
  RAFT_MAX_LOG = 6
  RAFT_MAX_BATCH = 2
  InitialMembers <- SoloClusters
  Learners = {}
  OutOfBounds <- ZeroMemory
  ClientCommands <- OneCommand
  Memberships = {{1, 2}}
  Rejoining = {2}
  MaxEntries = 1
  ElectionsFrom <- OwnElections
  MaxCrashes = 0
  MaxApiCalls = 2
  MaxReceived = 2
  MaxInFlight = 2
  Duplication = TRUE
SPECIFICATION Spec
INVARIANT LogMatching
INVARIANT AppliedIsLogPrefix
PROPERTY LeaderAppendOnly
