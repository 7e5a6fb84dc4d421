CONSTANTS
    Jobs = {j1}
    Workers = {w1}
    NULL = NULL
    Backoff = 1
    DefaultBackoff = 2
    Second = 2
    Width = 3
    MaxRetriesChoices = {1}
    RequeueMaxRetries = 1
    BatchSize = 1
    MaxAttempts = 3
    Concurrency = 2
    RedisTimely = TRUE
    MayStop = {}
    Operators = {}
SPECIFICATION WorkerSpec
PROPERTIES
    FinalizesNewestClaim
CHECK_DEADLOCK FALSE
