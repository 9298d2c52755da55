CONSTANTS
    r1 = r1
    r2 = r2
    NoSlot = NoSlot
    Slots = {r1, r2}
    MaxPages = 1
    Paths <- StartOnly
    Faults <- NoFaults
    MaxFaults = 0
    Serial = FALSE
SPECIFICATION Spec
INVARIANTS SingleSync
CHECK_DEADLOCK FALSE
