CONSTANTS
    c1 = c1
    c2 = c2
    f1 = f1
    f2 = f2
    Clients = {c1, c2}
    Forwarders = {f1, f2}
    MaxMessages = 2
SPECIFICATION FairSpec
INVARIANTS TypeOK OpenWhenUsed
PROPERTIES OffersTaken HangupEnds LockStep
CHECK_DEADLOCK FALSE
