SPECIFICATION Spec
CONSTANTS
    alice = alice
    bob = bob
    MaxHeight = 4
    TxsUpTo <- MCTxsUpTo
    Formulators <- MCFormulators
    Formulator <- MCFormulator
    ListCap = 3
    ChartBatch = 1
    InitHeights <- MCFresh
    RecoveryLoss = 2
    MaxFaults = 0
    MaxCrashes = 1
INVARIANT
    RecoveredTotal
