SPECIFICATION Spec
CONSTANTS
    alice = alice
    bob = bob
    MaxHeight = 2
    TxsUpTo <- MCTxsUpTo
    Formulators <- MCFormulators
    Formulator <- MCFormulator
    ListCap = 3
    ChartBatch = 1
    InitHeights <- MCFresh
    RecoveryLoss = 0
    MaxFaults = 0
    MaxCrashes = 1
INVARIANT
    BlockCountExact
