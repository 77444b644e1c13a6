SPECIFICATION Spec
CONSTANTS
    PageSize = 10
    Numbers = 10
    Latest = 8
    ListCap = 500
    Word = 64
    Unread <- MCNone
    Rounds <- MCRounds
    MaxTop = 9
    MaxClicks = 1
CHECK_DEADLOCK FALSE
INVARIANT
    NewestShown
