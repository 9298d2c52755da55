CONSTANTS
    p1 = p1
    s1 = s1
    q1 = q1
    q2 = q2
    r1 = r1
    r2 = r2
    NoQuery = NoQuery
    NoRequest = NoRequest
    Posts = {p1}
    Slack = {s1}
    Queries = {q1, q2}
    Requests = {r1, r2}
    Distance <- Distances
    MaxDistance = 2
    NResults = 1
    Faults = TRUE
SPECIFICATION FairSpec
INVARIANTS TypeOK NothingDeletedShown LoaderTells ShownIsLatest
PROPERTIES LoaderEnds ResultsAppear
CHECK_DEADLOCK FALSE
