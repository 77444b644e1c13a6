SPECIFICATION Spec
CONSTANTS
    h1 = h1
    h2 = h2
    index = index
    blocks = blocks
    css = css
    Main = Main
    Layout = Layout
    Handlers <- MCHandlers
    Pages <- MCPages
    Others <- MCOthers
    MaxEdits = 2
    MaxRemovals = 1
    BrokenEdits <- MCNoBroken
CHECK_DEADLOCK FALSE
INVARIANTS
    TypeOK
    CompleteWhenQuiet
    StaleOnlyIfMissed
