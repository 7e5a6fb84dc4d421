CONSTANTS
    j1 = j1
    NULL = NULL
    JobOf <- TwoEvents
    Relays = {r1, r2}
    Partitions = {1}
    Batch = 2
    Unreliable = {r1}
    MaxReplays = 2
    Calm = TRUE
SPECIFICATION FairOutboxSpec
INVARIANTS
    OutboxTypeOK
    PublishedWasStored
PROPERTIES
    EventuallyPublished
CHECK_DEADLOCK FALSE
