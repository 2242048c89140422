\* No call fails.
CONSTANTS
    m1 = m1  m2 = m2  bad = bad  None = None
    Messages = {m1, m2, bad}
    BadRegions = {bad}
    MaxRows = 2
    AdsFaults = FALSE
    ServiceFaults = FALSE
SPECIFICATION Spec
PROPERTY FailureWaitsAnHour
