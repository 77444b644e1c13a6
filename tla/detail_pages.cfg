CONSTANTS
    t1 = t1
    t2 = t2
    Tx = {t1, t2}
    BlockSize = 2
    MaxBlocks = 4
    Word = 8
    AskedHeights <- MCAskedHeights
    RecoveryLoss = 1
    MaxFaults = 1
    MaxCrashes = 2
SPECIFICATION Spec
SYMMETRY MCSymmetry
INVARIANTS
    KeysPointHome
    PageShowsAsked
    ChainCovered
PROPERTY
    AnswersAtOnce
CHECK_DEADLOCK FALSE
