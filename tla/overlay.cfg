SPECIFICATION AssetsSpec
CONSTANTS
    a = a
    b = b
    c = c
    Names <- MCNames
    Directories <- MCDirectories
    MaxExtras = 2
    Counts <- MCSome
    Missing = Missing
    NotAdded = NotAdded
    Size = 3
    Positions <- MCPositions
    Lengths <- MCLengths
CHECK_DEADLOCK FALSE
INVARIANTS
    TypeOK
    NothingCut
PROPERTIES
    ListingEnds
    ReadsContent
    ListsAsOne
