SPECIFICATION Spec
CONSTANTS
    Agents = {"root", "sub"}
    Root = "root"
    Calls = {"serial", "agent", "inner"}
    OwnerOf <- SmallOwnerOf
    SubOf <- SmallSubOf
    Serial = {"serial"}
    StopCalls = {"serial"}
    Wrapped = {"root"}
    MaxIterations = 3
    MaxAttempts = 1
    MaxRuns = 1
    MaxMessages = 1
PROPERTY EveryRunEnds
CHECK_DEADLOCK FALSE
