SPECIFICATION FairSpec
CONSTANTS
    Self = "n1"
    Daemons = {"nginx", "php", "redis"}
    Known = {"nginx", "redis"}
    Resources <- MCResources
    Files <- MCFiles
    Listed <- MCListed
    Blank = {"s"}
    Keyed <- MCKeyed
    Apps <- MCApps
    Under <- MCUnder
    Home = "web"
    ViewOf <- MCViewOf
    Contents <- MCContents
    Jobs <- MCJobs
    Queries <- MCQueries
    Scenarios <- MCScenarios
    MaxFaults = 2
INVARIANTS
    TypeOK
    LocalInvariant
    ContainerIsRegistered
    CreateLeavesContainer
    OkStartRan
    OkResourceIsComplete
    ListsAreComplete
    StatusAddsUp
PROPERTIES
    HealthIsWorst
    OnlyAppsComingUpBreakLists
    EverythingEnds
CHECK_DEADLOCK FALSE
