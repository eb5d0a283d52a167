SPECIFICATION MCSpec
CONSTANTS
    Sids = {s1, s2}
    Names = {n1}
    Passphrases = {p1, p2}
    Reqs = {r1, r2, r3, r4}
    None = None
    NoLock = NoLock
    MaxAtOnce = 2
    MaxRestarts = 1
SYMMETRY Symmetry
INVARIANTS
    MemoryKnowsLocks
    
PROPERTIES
    LockGoesByPassphrase
    LockedServesItsTab
CHECK_DEADLOCK FALSE
