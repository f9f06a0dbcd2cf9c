SPECIFICATION Spec
CONSTANTS
    u1 = u1
    c1 = c1
    c2 = c2
    l1 = l1
    r1 = r1
    k1 = k1
    Nobody = Nobody
    Users <- MCUsers
    Components <- MCComponents
    Catalogue <- MCCatalogue
    Misnamed = {}
    Popups <- MCPopups
    Readers <- MCReaders
    Closings <- MCClosings
    Mishaps = {"request", "tab"}
    MaxEvents = 2
    PageSize = 1
INVARIANTS
    TypeOK
    ReadOnlyIfSeen
    PagingMissesNone
