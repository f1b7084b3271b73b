CONSTANTS
    Kinds = {"dataProfile", "dataProfile15"}
    MaxStrings = 1
    MaxProfiles = 2
SPECIFICATION Spec
INVARIANT NoBadFree
CHECK_DEADLOCK FALSE
