CONSTANTS
    r1 = r1
    r2 = r2
    NoRequest = NoRequest
    Unit = 3
    Half = 262144
    Default = 15
    Hours = {23}
    Minutes = {59}
    Typed <- TypedSeconds
    Requests = {r1, r2}
    Faults = TRUE
SPECIFICATION Spec
SYMMETRY Symmetry
INVARIANTS TypeOK StartsUnlessWrapped TickerAsStored ShowsSaved
CHECK_DEADLOCK FALSE
