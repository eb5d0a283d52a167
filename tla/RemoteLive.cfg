SPECIFICATION FairSpec
CONSTANTS
    Tabs = {t1}
    Sessions = {s1, s2}
    Streams = {c1, c2}
    None = None
    LockTTL = 3
    BeatEvery = 1
    MaxPushes = 1
    MaxActs = 3
    Acts = {"disarm", "drop", "edit", "freeze", "losepost", "restart", "switch"}
PROPERTIES
    
    DisarmTakesEffect
    FrozenLockLapses
    EditingBlocks
CHECK_DEADLOCK FALSE
