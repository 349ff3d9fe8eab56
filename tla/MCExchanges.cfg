SPECIFICATION Spec
CONSTANTS
    Ids = {"c1", "c2"}
    Transports = {"http", "stdio"}
    Events = {"text"}
    MaxEvents = 2
    MaxStops = 1
    Overlap = TRUE
    MayLeave = TRUE
    Posts = {"c1", "c2"}
    Readers = {"c3"}
    MaxStored = 3
    MaxTeams = 2
    StartsMeet = FALSE
    QueriesMeet = FALSE
    Fallbacks = 2
    Retries = 2
    Threshold = 2
    Chains <- MCChains
    ApiTypes <- MCApiTypes
    MaxCalls = 2
    Calls = {"c1"}
    MaxFaults = 2
    Overtaking = FALSE
    Sessions = {"discovery", "stdio", "http"}
    MaxLines = 3
    MaxNoise = 2
    Chatty = {"stdio", "http"}
    EarlyExit = FALSE
    CutBodies = FALSE
    Agents = {"a1", "a2"}
    Names = {"s1", "s2"}
    Configured <- MCConfigured
    ToolNames = {"t"}
    MaxRounds = 2
    MaxFailures = 1
INVARIANTS
    StreamsWhole
    OwnAnswer
    OwnTools
PROPERTIES
    TeamIsFollowed
    RunsAsTold
    AsksWhoMayHelp
    NobodyWaitsForEver
CHECK_DEADLOCK FALSE
