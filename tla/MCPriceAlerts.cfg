SPECIFICATION FairSpec
CONSTANTS
    u1 = u1
    c1 = c1
    s1 = s1
    Users <- MCUsers
    Components <- MCComponents
    Shops <- MCShops
    Prices = {14, 20}
    Names = {1}
    Lists <- MCLists
    ImporterRuns = {1, 2}
    Mishaps = {"importer"}
    AggregatorFaults = {"broker", "crash"}
    NotificationsFaults = {"db", "connection", "crash"}
    MaxLists = 2
    MaxRows = 2
    MaxFailures = 1
INVARIANTS
    TypeOK
    NewestListOpened
    SubscriberKnowsPrice
PROPERTY
    SubscriberLearnsPrice
CHECK_DEADLOCK FALSE
