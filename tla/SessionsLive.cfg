SPECIFICATION LiveSpec
CONSTANTS
    Tabs = {t1, t2}
    Ids = {agent, s1, s2, s3, s4}
    Agent = agent
    None = None
    TTL = 2
    MaxQuiet = 1
    MaxLate = 1
    MaxActs = 1
PROPERTIES
    SharingEnds
    ClaimLapses
CHECK_DEADLOCK FALSE
