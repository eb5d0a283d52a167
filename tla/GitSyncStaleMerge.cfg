SPECIFICATION FairSpec
CONSTANTS
    Workspaces = {w1, w2}
    Queries = {q1}
    Dashboards = {}
    Contents = {c1, c2}
    Tasks = {t1, t2}
    None = None
    MaxPerWs = 1
    MaxOps = 2
    MaxEdits = 2
CHECK_DEADLOCK FALSE
PROPERTIES
    MergeKeepsContent
