CONSTANTS
    Kinds = {"scan", "full", "hotlist", "epno", "change", "rssi", "anqpo", "rtt"}
    MaxCommands = 2
    AllocCmds = {1, 2}
    MaxEvents = 2
    Overlap = FALSE
SPECIFICATION FairSpec
INVARIANTS TypeOK SavedIsAlive HandlersAlive EventsHeard CleanupFrees
PROPERTIES CleanupEnds
CHECK_DEADLOCK FALSE
