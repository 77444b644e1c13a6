SPECIFICATION FairSpec
CONSTANTS
    h1 = h1
    h2 = h2
    index = index
    blocks = blocks
    css = css
    Main = Main
    Layout = Layout
    Handlers <- MCHandlers
    Pages <- MCPages
    Others <- MCNoOthers
    MaxEdits = 2
    MaxRemovals = 0
    BrokenEdits <- MCBroken
CHECK_DEADLOCK FALSE
INVARIANT
    OneRebuild
PROPERTY
    RequestsAnswered
    KeepsTheSet
