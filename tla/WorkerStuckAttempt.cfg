CONSTANTS
    Jobs = {j1}
    Workers = {w1, w2}
    NULL = NULL
    Backoff = 1
    DefaultBackoff = 2
    Second = 2
    Width = 3
    MaxRetriesChoices = {1}
    RequeueMaxRetries = 1
    BatchSize = 1
    MaxAttempts = 3
    Concurrency = 1
    RedisTimely = FALSE
    MayStop = {w1}
    Operators = {}
SPECIFICATION WorkerSpec
INVARIANTS
    NoStuckAttempt
CHECK_DEADLOCK FALSE
