SPECIFICATION Spec
CONSTANTS
    a = a
    b = b
    c = c
    Names <- MCNames
    Directories <- MCDirectories
    MaxExtras = 0
    Counts <- MCAll
    Missing = Missing
    Unreadable = Unreadable
    NotAdded = NotAdded
CHECK_DEADLOCK FALSE
INVARIANT
    ReaddirAll
