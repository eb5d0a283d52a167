SPECIFICATION MCSpec
CONSTANTS
    MaxWorkspaces = 2
    MaxRows = 2
    Names = {a, b}
    Queries = {q1, q2}
    Dashboards = {d1}
    Remotes = {m1, m2}
    Sids = {s1}
    Reqs = {r1, r2, r3}
    None = None
    Absent = Absent
    MaxAtOnce = 2
    Mixes <- MCMixes
SYMMETRY Symmetry
INVARIANTS
    TablesOK
    
    
PROPERTIES
    DropTakesOnlyEmpty
    SavedIsLive
    LiveStays
CHECK_DEADLOCK FALSE
