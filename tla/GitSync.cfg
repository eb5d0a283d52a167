SPECIFICATION MCSpec
CONSTANTS
    Workspaces = {w1, w2}
    Queries = {q1}
    Dashboards = {d1}
    Contents = {c1, c2}
    Tasks = {t1, t2}
    None = None
    MaxPerWs = 1
    MaxOps = 5
    MaxEdits = 3
CHECK_DEADLOCK FALSE
SYMMETRY Symmetry
INVARIANTS
    TypeOK
    AgreedInHistory
    UnseenContentIsReported
    AgreedContentKnown
PROPERTIES
    OverwriteIsSeen
    NoResurrection
