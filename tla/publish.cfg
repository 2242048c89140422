\* One ad group with a target, which a seller changes, too; two policies, two
\* attachments, two attempts per call and two jobs; any call may fail.
CONSTANTS
    AdGroups = {g1}
    Targets = {t1}
    AdGroupOf <- MCAdGroupOf
    Bids <- MCBids
    NoBid = NoBid
    Edited = {g1}
    Policies = {p1, p2}
    NoPolicy = NoPolicy
    NoChange = NoChange
    MaxAttached = 2
    MaxAttempts = 2
    Faults = TRUE
    Results <- MCResults
    MaxJobs = 2
SPECIFICATION Spec
INVARIANTS TypeOK LookupIsFirst OnlyLivePoliciesChangeBids SuccessIsComplete RecordedIsDone LogFollowsBids OneChangePerJob OnlyUnfinishedMisaligns
SYMMETRY Symmetry
CHECK_DEADLOCK FALSE
