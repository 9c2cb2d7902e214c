CONSTANTS
    Server = {1,2,3}
    RAFT_MAX_NODES = 3
    RAFT_MAX_LOG = 8
    RAFT_MAX_BATCH = 4
    RAFT_MAX_QUEUE = 3
    InitialMembers <- Pair
    Learners = {3}
    OutOfBounds <- Garbage
    ClientCommands = {}
    Memberships = {}
    Rejoining = {}
    MaxEntries = 0
    ElectionsFrom <- FirstTerm
    MaxCrashes = 0
    MaxApiCalls = 0
    MaxReceived = 1
    MaxInFlight = 1
    Duplication = FALSE
    KnownPeers <- PairKnown
    JoinVia <- ThreeViaAny
    Lines <- Nothing
    MaxLines = 0
    MaxLost = 0
SPECIFICATION CliSpec
INVARIANT MembersKnowEachOther
PROPERTY JoinCompletes
