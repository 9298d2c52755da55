CONSTANTS
    p1 = p1
    p2 = p2
    p3 = p3
    Posts <- ThreePosts
    Text <- TwoText
    Channels <- TwoChannels
    Home <- HomeOfTwo
    PageSize = 1
    Edits <- TwoText
    MaxTime = 4
SPECIFICATION Spec
INVARIANTS TypeOK Complete
PROPERTIES FailureUndone
CHECK_DEADLOCK FALSE
