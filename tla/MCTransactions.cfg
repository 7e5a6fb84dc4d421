CONSTANTS
    Jobs = {j1, j2}
    Workers = {w1}
    Sessions = {s1, s2}
    Operators = {"cancel"}
    NULL = NULL
    Backoff = 1
    DefaultBackoff = 2
    Second = 2
    Width = 3
    MaxRetriesChoices = {0}
    RequeueMaxRetries = 1
    BatchSize = 2
    MaxAttempts = 2
SPECIFICATION TxnSpec
SYMMETRY TxnSymmetry
INVARIANTS
    LocksMatchWrites
    OnlyFailuresDeadlock
PROPERTIES
    ImplementsStore
