SPECIFICATION Spec
CONSTANTS
    Agents = {a1}
    Resolvers = {r1}
    Calls = {"c1", "c2", "c3"}
    KeysOf <- SmallKeysOf
    Refused = {"k3"}
    MaxQuestions = 1
    MaxRestarts = 1
INVARIANTS NoRunWithoutConsent RepeatedOnlyIfInterrupted ModelSeesResults
PROPERTY EveryAskAnswered
CHECK_DEADLOCK FALSE
