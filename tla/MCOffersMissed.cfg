SPECIFICATION Spec
CONSTANTS
    c1 = c1
    c2 = c2
    s1 = s1
    j1 = j1
    Components <- MCOneComponent
    Known <- MCOneComponent
    Shops <- MCShops
    Prices = {10, 20}
    Uploads <- MCUploads
    Jobs <- MCJobs
    Faults = {}
    MaxRows = 3
INVARIANT
    EveryChangePublished
