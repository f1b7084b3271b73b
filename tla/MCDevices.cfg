CONSTANTS
    MaxQueue = 2
    MaxTroubles = 1
    Chips = {"combo", "consys", "none"}
    MaxSessions = 3
    MaxRandom = 2
    Threads = {t1, t2}
    Nobody = Nobody
    Ids = {1, 2}
    MaxSuspends = 1
SPECIFICATION Spec
INVARIANTS SessionAgrees SuccessMeansAll
PROPERTIES CallsReturn AddressKept CleanupReturns OverdueReported
CHECK_DEADLOCK FALSE
