SPECIFICATION Spec
CONSTANTS
    Tabs = {t1, t2}
    Sessions = {s1, s2}
    Streams = {c1, c2, c3}
    None = None
    LockTTL = 3
    BeatEvery = 1
    MaxPushes = 2
    MaxActs = 2
    Acts = {"drop"}
SYMMETRY Symmetry
INVARIANTS
    ShownIdIsUsable
CHECK_DEADLOCK FALSE
