SPECIFICATION Spec
CONSTANTS
    t1 = t1
    t2 = t2
    Tools = {t1, t2}
    Initial = {skill}
    Late = {late}
    late = late
    skill = skill
    MaxSandboxes = 2
    MaxLoops = 2
    MaxRuns = 2
    MaxAccesses = 3
    MaxFaults = 1
INVARIANTS OneSandbox FollowsRuns
SYMMETRY Threads
CHECK_DEADLOCK FALSE
