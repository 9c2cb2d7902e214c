CONSTANTS
    Server = {1,2}
    RAFT_MAX_NODES = 3
    RAFT_MAX_LOG = 8
    RAFT_MAX_BATCH = 4
    RAFT_MAX_QUEUE = 3
    InitialMembers <- Solo
    Learners = {2}
    OutOfBounds <- Garbage
    ClientCommands = {}
    Memberships = {}
    Rejoining = {}
    MaxEntries = 0
    ElectionsFrom <- FirstTerm
    MaxCrashes = 0
    MaxApiCalls = 0
    MaxReceived = 1
    MaxInFlight = 1
    Duplication = FALSE
    KnownPeers <- NoPeers
    JoinVia <- TwoViaOne
    Lines <- Typed
    MaxLines = 2
    MaxLost = 1
SPECIFICATION CliSpec
INVARIANT AppliedOnce
PROPERTY LeavesWhenRemoved
