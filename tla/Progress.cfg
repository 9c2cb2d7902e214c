CONSTANTS
  Server = {1, 2}
  RAFT_MAX_NODES = 2
  RAFT_MAX_LOG = 7
  RAFT_MAX_BATCH = 1
  InitialMembers <- OneInitial
  Learners = {2}
  OutOfBounds <- ZeroMemory
  ClientCommands <- OneCommand
  Memberships = {{1, 2}}
  Rejoining = {}
  MaxEntries = 1
  ElectionsFrom <- OneThenTwo
  MaxCrashes = 0
  MaxApiCalls = 1
  MaxReceived = 1
  MaxInFlight = 2
  Duplication = FALSE
SPECIFICATION FairSpec
PROPERTY EntriesReachMembers
PROPERTY MembershipChangeEndsInTerm
