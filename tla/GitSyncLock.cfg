SPECIFICATION LockSpec
CONSTANTS
    Workspaces = {w1, w2}
    Queries = {q1, q2}
    Dashboards = {}
    Contents = {c1}
    Tasks = {t1, t2}
    None = None
    MaxPerWs = 2
    MaxOps = 2
    MaxEdits = 2
CHECK_DEADLOCK FALSE
INVARIANTS
    OneHolder
    
PROPERTIES
    RequestsEnd
