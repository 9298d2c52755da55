CONSTANTS
    r1 = r1
    r2 = r2
    NoSlot = NoSlot
    Slots = {r1, r2}
    MaxPages = 1
    Paths <- StartStop
    Faults <- NoFaults
    MaxFaults = 0
    Serial = TRUE
SPECIFICATION FairSpec
PROPERTIES EnabledFetches
CHECK_DEADLOCK FALSE
