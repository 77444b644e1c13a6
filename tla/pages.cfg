SPECIFICATION Spec
CONSTANTS
    PageSize = 2
    Numbers = 2
    Latest = 8
    ListCap = 5
    Word = 64
    Unread <- MCUnread
    Rounds <- MCRounds
    MaxTop = 8
    MaxClicks = 2
CHECK_DEADLOCK FALSE
INVARIANTS
    TypeOK
    NumberFits
    NothingSkipped
    LastPageIsLast
    ClicksInRange
