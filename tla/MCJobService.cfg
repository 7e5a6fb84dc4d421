CONSTANTS
    Jobs = {j1, j2, j3}
    Workers = {w1}
    NULL = NULL
    Backoff = 1
    DefaultBackoff = 2
    Second = 2
    Width = 3
    MaxRetriesChoices = {0}
    RequeueMaxRetries = 0
    BatchSize = 1
    MaxAttempts = 1
    Handlers = {h1, h2, h3}
    Tenants = {t1, t2}
    Keys = {k1}
    Hashes = {x1, x2}
    Kinds = {"create", "cancel", "pause", "resume", "retry", "requeue"}
SPECIFICATION ServiceSpec
SYMMETRY ServiceSymmetry
INVARIANTS
    ServiceTypeOK
    IdempotentCreate
    TenantIsolation
    CancelHolds
    RequeuedOnce
    
PROPERTIES
    StoreSpec
CHECK_DEADLOCK FALSE
