\* Nobody but the service changes bids, and targets begin aligned.
CONSTANTS
    AdGroups = {g1}
    Targets = {t1}
    AdGroupOf <- MCAdGroupOf
    Bids <- MCBids
    NoBid = NoBid
    Edited = {}
    Policies = {p1}
    NoPolicy = NoPolicy
    NoChange = NoChange
    MaxAttached = 1
    MaxAttempts = 2
    Faults = TRUE
    Results <- MCResults
    MaxJobs = 2
SPECIFICATION Spec
INVARIANT SkippedNeedsNothing
CHECK_DEADLOCK FALSE
