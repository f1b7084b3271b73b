CONSTANTS
    Threads = {t1, t2}
    Loop = Loop
    Infos = {i1, i2, i3}
    NoInfo = NoInfo
    NoThread = NoThread
    Reporter = t1
    Builds = {"usual", "noMemory", "unsigned", "legacy"}
    MaxGrabs = 3
SPECIFICATION FairSpec
INVARIANTS HeldHasTimeout  NothingDangles
PROPERTIES EventuallyReleased
CHECK_DEADLOCK FALSE
