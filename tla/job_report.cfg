\* Amazon answers every call; the user and policy services may fail.
CONSTANTS
    m1 = m1  m2 = m2  bad = bad  None = None
    Messages = {m1, m2, bad}
    BadRegions = {bad}
    MaxRows = 2
    AdsFaults = FALSE
    ServiceFaults = TRUE
SPECIFICATION Spec
INVARIANT ReportNotLeftRunning
