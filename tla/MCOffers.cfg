SPECIFICATION FairSpec
CONSTANTS
    c1 = c1
    c2 = c2
    s1 = s1
    j1 = j1
    Components <- MCTwoComponents
    Known <- MCOneComponent
    Shops <- MCShops
    Prices = {0, 14}
    Uploads <- MCUploads
    Jobs <- MCJobs
    Faults = {"db", "broker", "shortRow", "crash"}
    MaxRows = 3
INVARIANTS
    TypeOK
    AnnouncedPriceCurrent
    EventsMakeChain
    HistoryFollowsOffers
    RunningJobHasWorker
PROPERTY
    JobEnds
