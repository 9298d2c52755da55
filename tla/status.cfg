CONSTANTS
    MaxFlips = 2
    MaxFetches = 1
    MaxFaults = 1
    MaxAsks = 1
    MaxReloads = 1
SPECIFICATION Spec
INVARIANTS TypeOK
PROPERTIES StatusFollows SwitchFollows TimerFollows
CHECK_DEADLOCK FALSE
