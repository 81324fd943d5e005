SPECIFICATION OSpec
CONSTANTS
    Uids = {"u1", "peer1", "downlink"}
    Users = {"u1"}
    Downlink = "downlink"
    PeerLists <- MCPeerLists
    Estimates <- MCEstimates
    ReportGap = 1
    NumLevels = 3
    StartLevel = 1
    Tick = 1
    Window = 1
    Stale = 2
    Cooldown = 1
    UpDuration = 2
    DownDuration = 2
    UpNum = 6
    UpDen = 5
    DownNum = 13
    DownDen = 10
    AgeCap = 3
    TimeCap = 4
INVARIANTS
    TypeOK
PROPERTIES
    CountersSound
    ChangesAreSpaced
    SteadyLevel
    GhostsPruned
    PersistentDipFalls
    RefinesGovernor
