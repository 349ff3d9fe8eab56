CONSTANTS
    Calls = {c1, c2}
    Agents = {a1, a2}
    Nobody = Nobody
    MaxTasks = 2
    Dependencies <- Chain
    Updates = {"completed"}
    MaxFailures = 1
SPECIFICATION Spec
SYMMETRY CallSymmetry
INVARIANTS
    OneClaim
PROPERTIES
    NoLostUpdate
    DependenciesFirst
CHECK_DEADLOCK FALSE
