SPECIFICATION FairSpec
CONSTANTS
    u1 = u1
    u2 = u2
    w1 = w1
    w2 = w2
    Users <- MCUsers
    Workers <- MCTwoWorkers
    Calls <- MCCalls
    Places = {1, 2}
    Faults = {"statement", "commit", "rows"}
    NoRow = NoRow
    MaxIds = 2
    MaxRequests = 4
INVARIANTS
    TypeOK
    SavedTogether
    ListedFromOneSave
    SuccessIsLasting
PROPERTIES
    ImplementsSaved
    RequestEnds
CHECK_DEADLOCK FALSE
