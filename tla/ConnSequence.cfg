SPECIFICATION Spec
CONSTANTS
    Sids = {s1, s2}
    Names = {n1, n2}
    n1 = n1
    Known <- MCKnown
    c1 = c1
    c2 = c2
    d1 = d1
    d2 = d2
    Configs = {c1, c2}
    Dbs = {d1, d2}
    Lists <- MCLists
    Reqs = {r1, r2, r3}
    None = None
    MaxAtOnce = 2
    MaxRestarts = 1
SYMMETRY Symmetry
INVARIANTS
    CacheAgrees
    NamesOK
CHECK_DEADLOCK FALSE
