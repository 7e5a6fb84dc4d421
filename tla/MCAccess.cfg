CONSTANTS
    Clients = {c1, c2}
    Keys = {k1, k2}
    Tenants = {t1, t2}
    Requests = {q1}
    Commands = {m1, m2, m3}
    NULL = NULL
SPECIFICATION AccessSpec
SYMMETRY AccessSymmetry
INVARIANTS
    AccessTypeOK
    RevocationHolds
    HandledAsClient
    BootstrapAgrees
PROPERTIES
    KeysStayDead
CHECK_DEADLOCK FALSE
