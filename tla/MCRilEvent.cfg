CONSTANTS
    Clients = {c1}
    Loop = Loop
    Timers = {t1, t2}
    Wake = Wake
    sock = sock
    Watches <- MCWatches
    Persist <- MCPersist
    Fd <- MCFd
    NoEvent = NoEvent
    MAX_FD_EVENTS = 2
    Delays = {0, 1}
    MaxNow = 2
SPECIFICATION FairSpec
INVARIANTS TypeOK WatchTableConsistent TimersSafe WakeupNotLost
PROPERTIES NoExpiredTimerLeft AllServed ImplementsTimers
CHECK_DEADLOCK FALSE
