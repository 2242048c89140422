\* Three callers of two users; any fetch, cache access or context may fail.
CONSTANTS
    Users = {u1, u2}
    Profiles = {p1}
    Callers = {c1, c2, c3}
    Loads = {l1, l2, l3}
    None = None
    CacheFaults = TRUE
SPECIFICATION Spec
INVARIANTS TypeOK OneFetchPerUser WaitersHaveOwner RefillIsReadable
PROPERTIES ImplementsSingleFlight CallsWindDown
SYMMETRY Symmetry
