SPECIFICATION Spec
CONSTANT
    Runs = {r1, r2}
SYMMETRY RunSymmetry
INVARIANTS
    ConversationKept
    RecordsAreTrue
PROPERTY
    ReducesForward
CHECK_DEADLOCK FALSE
