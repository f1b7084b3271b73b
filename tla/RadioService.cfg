CONSTANTS
    Modem = {m1}
    Binder = Binder
    NoThread = NoThread
    Slots = {1, 2}
    Asserts = TRUE
    MaxCalls = 3
    MaxProcs = 2
SPECIFICATION FairSpec
INVARIANTS TypeOK LockBalanced
PROPERTIES FreshClientKept EventuallyConnected
CHECK_DEADLOCK FALSE
