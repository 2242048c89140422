\* A perfect network: only SIGTERM makes requests fail.
CONSTANTS
    a = a  b = b  c = c  d = d  None = None
    Schedules = {a, b, c}
    ProfileID <- MCProfileID
    Results = {"PENDING", "FAILED", "SOME ERRORS"}
    NumProcessors = 2
    BufferSize = 1
    MaxAttempts = 3
    Outages = FALSE
    ListsProcessing = FALSE
    RetriesOutliveInterval = FALSE
SPECIFICATION Spec
PROPERTY HandledIsDriven
