\* Two processors, one slot per channel, requests may fail or go unanswered.
CONSTANTS
    a = a  b = b  c = c  d = d  None = None
    Schedules = {a, b, c}
    ProfileID <- MCProfileID
    Results = {"PENDING", "FAILED", "SOME ERRORS"}
    NumProcessors = 2
    BufferSize = 1
    MaxAttempts = 2
    Outages = TRUE
    ListsProcessing = FALSE
    RetriesOutliveInterval = FALSE
SPECIFICATION Spec
INVARIANTS TypeOK AtMostOneJob ListingStaysTrue ProcessingHasOwner NoUseAfterClose
INVARIANTS QueueBounded StuckNeedsSmallChannel ShutdownIsNotBlocked
PROPERTIES ImplementsLedger ShutdownWindsDown
