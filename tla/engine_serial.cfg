CONSTANTS
    r1 = r1
    r2 = r2
    r3 = r3
    NoSlot = NoSlot
    Slots = {r1, r2, r3}
    MaxPages = 1
    Paths <- AllPaths
    Faults <- AllFaults
    MaxFaults = 2
    Serial = TRUE
SPECIFICATION Spec
SYMMETRY Symmetry
INVARIANTS Exclusive TickerStays FlagsTell
CHECK_DEADLOCK FALSE
