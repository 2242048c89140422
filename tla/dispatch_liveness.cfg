\* Three of four schedules share a processor whose channel has one slot: messages
\* queue, and the receiver waits for room.
CONSTANTS
    a = a  b = b  c = c  d = d  None = None
    Schedules = {a, b, c, d}
    ProfileID <- MCProfileID
    Results = {"PENDING"}
    NumProcessors = 2
    BufferSize = 1
    MaxAttempts = 2
    Outages = TRUE
    ListsProcessing = FALSE
    RetriesOutliveInterval = FALSE
SPECIFICATION FairSpec
PROPERTIES ProcessingResolves ListedIsReached OnlyFullChannelBlocksShutdown
