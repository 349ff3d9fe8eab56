SPECIFICATION Spec
CONSTANTS
    Trees <- MCTrees
    Operations <- MCOperations
    Elsewhere <- MCElsewhere
    Before <- MCBefore
    Calls <- MCCalls
    FileTexts <- MCFileTexts
    Chunks <- MCChunks
    Texts <- MCTexts
    Olds <- MCOlds
    News <- MCNews
    Hunks <- MCHunks
    Absent = Absent
    None = None
    Torn = Torn
INVARIANTS
    AsLocal
    ToolsAreTrue
    AllOrSaid
    EditsAreFaithful
    SessionsKept
CHECK_DEADLOCK FALSE
