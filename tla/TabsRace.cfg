SPECIFICATION MCSpec
CONSTANTS
    Tabs = {t1, t2}
    Ids = {agent, s1, s2}
    Agent = agent
    None = None
    TTL = 2
    MaxQuiet = 1
    MaxLate = 1
    MaxActs = 3
    Armable = {h1, h2}
    Streams = {c1, c2, c3}
    LockTTL = 3
    BeatEvery = 1
    MaxPushes = 2
    MaxHubActs = 2
    Acts = {"disarm", "drop", "restart", "switch"}
SYMMETRY Symmetry
INVARIANTS
    TypeOK
    OneClaimPerTab
    ShownOnceInOrder
    NothingFromBefore
PROPERTIES
    ClaimRespected
    NeverMovedSilently
    ReloadGrace
CHECK_DEADLOCK FALSE
