SPECIFICATION Spec
CONSTANTS
    Agents = {"root", "sub"}
    Root = "root"
    Calls = {"serial", "agent", "inner"}
    OwnerOf <- SmallOwnerOf
    SubOf <- SmallSubOf
    Serial = {"serial"}
    StopCalls = {"serial"}
    Wrapped = {"root"}
    MaxIterations = 3
    MaxAttempts = 2
    MaxRuns = 2
    MaxMessages = 1
INVARIANTS SerialAlone AsksOnlyWithResults
PROPERTY StopIsObeyed
CHECK_DEADLOCK FALSE
