CONSTANTS
    Jobs = {j1}
    Workers = {w1, w2}
    NULL = NULL
    Backoff = 1
    DefaultBackoff = 2
    Second = 2
    Width = 3
    MaxRetriesChoices = {2}
    RequeueMaxRetries = 1
    BatchSize = 1
    MaxAttempts = 3
    Concurrency = 1
    RedisTimely = TRUE
    MayStop = {w1}
    Operators = {"cancel", "pause", "resume"}
SPECIFICATION FairWorkerSpec
INVARIANTS
    WorkerTypeOK
    
PROPERTIES
    JobsSettle
CHECK_DEADLOCK FALSE
