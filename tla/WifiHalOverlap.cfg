CONSTANTS
    Kinds = {"scan", "rtt"}
    MaxCommands = 2
    AllocCmds = {2}
    MaxEvents = 1
    Overlap = TRUE
SPECIFICATION Spec
CHECK_DEADLOCK FALSE
INVARIANT SavedIsAlive
