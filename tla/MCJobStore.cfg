CONSTANTS
    Jobs = {j1, j2}
    Workers = {w1, w2}
    NULL = NULL
    Backoff = 1
    DefaultBackoff = 2
    Second = 2
    Width = 3
    MaxRetriesChoices = {0, 2}
    RequeueMaxRetries = 1
    BatchSize = 2
    MaxAttempts = 3
SPECIFICATION StoreSpec
SYMMETRY Symmetry
INVARIANTS
    TypeOK
    OwnedWhileRunning
    RunningHasAttempt
    WithinRetryBudget
    AttemptsWithinBudget
    OneDeadLetter
    
PROPERTIES
    
    BackoffHonoured
CHECK_DEADLOCK FALSE
