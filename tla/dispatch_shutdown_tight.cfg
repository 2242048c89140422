\* One processor whose channel is smaller than its set of schedules.
CONSTANTS
    a = a  b = b  c = c  d = d  None = None
    Schedules = {a, b, c}
    ProfileID <- MCProfileID
    Results = {"PENDING", "FAILED", "SOME ERRORS"}
    NumProcessors = 1
    BufferSize = 1
    MaxAttempts = 3
    Outages = FALSE
    ListsProcessing = FALSE
    RetriesOutliveInterval = FALSE
SPECIFICATION FairSpec
PROPERTY ShutdownCompletes
