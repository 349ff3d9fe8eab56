CONSTANTS
    Runs = {r1, r2, r3}
    NoRun = NoRun
    TTL = 5
    HBInterval = 1
    Lag = 1
    MaxTime = 6
    MaxCrashes = 1
    MaxFaults = 1
    MaxForced = 1
SPECIFICATION Spec
SYMMETRY RunSymmetry
INVARIANTS
    LeaseNeverLapses
PROPERTIES
    NoLeasedRunJudgedExpired
CHECK_DEADLOCK FALSE
