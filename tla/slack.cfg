CONSTANTS
    general = general
    random = random
    first = first
    second = second
    r1 = r1
    r2 = r2
    NoListing = NoListing
    Torn = Torn
    Channels <- TwoChannels
    LastDay = 2
    Created <- CreatedAt
    Exports <- TwoExports
    ListedIn <- ListedInBoth
    FoldersIn <- FoldersInBoth
    FilesIn <- FilesInBoth
    Choices <- FromDayTwo
    Requests <- TwoRequests
    MaxUploads = 2
    MaxSaves = 2
    MaxCrashes = 1
    MaxEvents = 4
SPECIFICATION Spec
SYMMETRY Symmetry
INVARIANTS TypeOK OnlyPicked
PROPERTIES DoneMeansStored DroppedOverOthers
CHECK_DEADLOCK FALSE
