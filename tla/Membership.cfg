CONSTANTS
  Server = {1, 2, 3}
  RAFT_MAX_NODES = 3
  RAFT_MAX_LOG = 2
  RAFT_MAX_BATCH = 1
  InitialMembers <- PairInitial
  Learners = {3}
  OutOfBounds <- ZeroMemory
  ClientCommands = {}
  Memberships = {{1, 3}}
  Rejoining = {}
  MaxEntries = 1
  ElectionsFrom <- OneThenTwo
  MaxCrashes = 0
  MaxApiCalls = 2
  MaxReceived = 1
  MaxInFlight = 1
  Duplication = FALSE
SPECIFICATION Spec
INVARIANT LeaveMatchesEnter
INVARIANT ConfigurationIsLogged
INVARIANT OnlyMembersLead
INVARIANT MembersWereChosen
INVARIANT NextToApplyIsInLog
