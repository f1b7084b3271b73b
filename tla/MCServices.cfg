CONSTANTS
    Slots = {1, 2}
    Settings = {"single", "faulty"}
    MaxNitz = 4
    MaxConnects = 4
    Keys = {k1, k2}
    MaxRequests = 3
    MaxClients = 2
    MaxTroubles = 1
    Cids = {0, 1, 2, 3, 4}
    MaxSetups = 5
    MaxAsked = 2
    Kinds = {"void", "string", "strings", "ints", "callForward", "raw", "iccApdu", "dial",
             "iccIO", "writeSms", "attachApn", "attachApn15", "imsGsmSms", "imsCdmaSms",
             "nvWriteItem", "simAuth", "dataProfile", "dataProfile15", "carriers",
             "unsupported", "deviceState"}
    MaxStrings = 3
    MaxProfiles = 1
    Producers = {p1, p2}
    Consumers = {c1}
    Nobody = Nobody
    Bufs = {b1}
    MAX_ALLOC_SIZE = 2
    MaxItems = 3
SPECIFICATION Spec
INVARIANTS OwnRequestFreed  ArgumentsFreed 
 
CHECK_DEADLOCK FALSE
