\* Two callers of one user; TLC takes no symmetry with liveness.
CONSTANTS
    Users = {u1}
    Profiles = {p1, p2}
    Callers = {c1, c2}
    Loads = {l1, l2}
    None = None
    CacheFaults = TRUE
SPECIFICATION FairSpec
PROPERTY CallsReturn
