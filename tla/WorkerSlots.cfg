CONSTANTS
    Jobs = {j1, j2}
    Workers = {w1}
    NULL = NULL
    Backoff = 1
    DefaultBackoff = 2
    Second = 2
    Width = 3
    MaxRetriesChoices = {1}
    RequeueMaxRetries = 1
    BatchSize = 2
    MaxAttempts = 2
    Concurrency = 2
    RedisTimely = FALSE
    MayStop = {}
    Operators = {}
SPECIFICATION WorkerSpec
SYMMETRY JobSymmetry
INVARIANTS
    ClaimsAreDisjoint
PROPERTIES
    StoreSpec
CHECK_DEADLOCK FALSE
