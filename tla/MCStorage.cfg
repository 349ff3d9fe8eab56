SPECIFICATION Spec
CONSTANTS
    Rank <- MCRank
    Lower <- MCLower
    Likes <- MCLikes
    Numerals = {"1", "2"}
    Judges <- Evaluate
    Selects <- ToSql
    Precedes <- ValueBefore
    Clients <- MCClients
    Keys <- MCKeys
    Values <- MCValues
    DeleteFilters <- MCDeletes
    QueryFilters <- MCFilters
    Orders = {"up"}
    MaxCalls = 3
    MaxCrashes = 1
INVARIANT FiltersAgree
PROPERTIES Implements
CHECK_DEADLOCK FALSE
