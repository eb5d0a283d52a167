SPECIFICATION Spec
CONSTANTS
    MaxWorkspaces = 2
    MaxRows = 1
    Names = {a, b}
    Queries = {q1}
    Dashboards = {}
    Remotes = {}
    Sids = {s1}
    Reqs = {r1, r2}
    None = None
    Absent = Absent
    MaxAtOnce = 2
INVARIANT LastWorkspaceStays
CHECK_DEADLOCK FALSE
