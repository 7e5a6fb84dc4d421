CONSTANTS
    Workers = {w1, w2}
    Readers = {a1, a2}
SPECIFICATION FairRegistrySpec
INVARIANTS
    
    ListedWasAlive
PROPERTIES
    Rediscovered
    Forgotten
