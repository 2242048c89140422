\* Any call may fail, SIGTERM at any time, one message after another.
CONSTANTS
    m1 = m1  m2 = m2  bad = bad  None = None
    Messages = {m1, m2, bad}
    BadRegions = {bad}
    MaxRows = 2
    AdsFaults = TRUE
    ServiceFaults = TRUE
SPECIFICATION FairSpec
INVARIANTS TypeOK CredentialsMatch BlameIsOwn StateMatchesRows OneResultEach
PROPERTIES ImplementsTaskGroup FailedWorkWaitsAnHour CancelStopsPolling JobEnds
