CONSTANTS
    r1 = r1
    r2 = r2
    NoSlot = NoSlot
    Slots = {r1, r2}
    MaxPages = 1
    Paths <- StartStop
    Faults <- DeathFaults
    MaxFaults = 1
    Serial = FALSE
SPECIFICATION FairSpec
INVARIANTS TypeOK OwnedFlags OwnedTicker ChannelDiscipline
PROPERTIES StopsOrWedges StaleFlagsHeal
CHECK_DEADLOCK FALSE
