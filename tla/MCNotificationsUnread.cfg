SPECIFICATION Spec
CONSTANTS
    u1 = u1
    u2 = u2
    c1 = c1
    Users <- MCUsers
    Components <- MCComponents
    Faults = {}
    MaxEvents = 2
    MaxRequests = 1
INVARIANT
    UnreadCountExact
