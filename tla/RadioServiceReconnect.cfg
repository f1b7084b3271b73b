CONSTANTS
    Modem = {m1}
    Binder = Binder
    NoThread = NoThread
    Slots = {1}
    Asserts = FALSE
    MaxCalls = 2
    MaxProcs = 2
SPECIFICATION FairSpec
PROPERTY Reconnects
CHECK_DEADLOCK FALSE
