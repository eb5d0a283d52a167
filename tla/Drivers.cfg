SPECIFICATION MCSpec
CONSTANTS
    Reqs = {r1, r2}
    DriverTypes = {"clickhouse", "postgres", "sqlite", "duckdb", "folder", "memory"}
    Scripts <- MCScripts
    Cap = 2
    MaxCrashes = 1
    Chunks <- MCChunks
    MaxChunks = 4
INVARIANTS
    
    TruncationTold
    SplitIsRight
    CursorRunsOne
PROPERTIES
    KeepsPromise
    Answered
CHECK_DEADLOCK FALSE
