\* The user service lists PROCESSING schedules as due again, and drives are repeated
\* after the schedule has come due again; outages, crashes and restarts.
CONSTANTS
    a = a  b = b  c = c  d = d  None = None
    Schedules = {a, b}
    ProfileID <- MCProfileID
    Results = {"PENDING"}
    NumProcessors = 2
    BufferSize = 1
    MaxAttempts = 2
    Outages = TRUE
    ListsProcessing = TRUE
    RetriesOutliveInterval = TRUE
SPECIFICATION RecoverSpec
INVARIANT SerialHandling
PROPERTIES StrandedIsRecovered 
