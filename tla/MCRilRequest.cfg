CONSTANTS
    Sockets = {1, 2}
    Cids <- MCCids
    IdProxy = 3
    Binder = Binder
    Unsol = Unsol
    Infos = {a1, a2}
    NoAddr = NoAddr
    Settings = {"calm", "noMemory", "stale"}
    MaxReqs = 2
    MaxLocals = 1
SPECIFICATION FairSpec
INVARIANTS ListsSound AnsweredRight 
PROPERTIES EveryRequestAnswered
CHECK_DEADLOCK FALSE
