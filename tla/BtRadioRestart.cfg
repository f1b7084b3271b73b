CONSTANTS
    Chips = {"consys"}
    MaxSessions = 2
    MaxRandom = 1
SPECIFICATION Spec
INVARIANT NextTimeStarts
CHECK_DEADLOCK FALSE
