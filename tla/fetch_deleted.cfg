CONSTANTS
    p1 = p1
    p2 = p2
    p3 = p3
    Posts <- ThreePosts
    Text <- ThreePosts
    Channels <- OneChannel
    Home <- HomeOfOne
    PageSize = 10
    Edits <- ThreePosts
    MaxTime = 5
SPECIFICATION Spec
INVARIANTS DeletedGone
CHECK_DEADLOCK FALSE
