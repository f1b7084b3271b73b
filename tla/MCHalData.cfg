CONSTANTS
    Pieces = 2
    gps_epo_period = 3
    wifi_epo_period = 1
    Retries = 2
    MaxDay = 2
    MaxStarts = 1
    GNSS_MAX_SVS = 4
    MaxEpochs = 3
    MaxUpsets = 2
    Colors = {red, green}
    MaxRate = 2
    MaxFailures = 1
SPECIFICATION AllSpec
INVARIANTS  ReportsAreExact 
PROPERTIES FailureEnds
CHECK_DEADLOCK FALSE
