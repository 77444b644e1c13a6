SPECIFICATION DisplaySpec
CONSTANTS
    alice = alice
    bob = bob
    MaxHeight = 5
    TxsUpTo <- MCTxsUpTo
    Formulators <- MCFormulators
    Formulator <- MCFormulator
    ListCap = 3
    ChartBatch = 1
    InitHeights <- MCAnyHeight
    RecoveryLoss = 2
    MaxFaults = 1
    MaxCrashes = 2
    MaxSetbacks = 1
INVARIANTS
    TypeOK
    IndexCovers
    TransactionsExact
    PeakIsMaximum
    ProducedCounted
    FeedIsLatest
    FeedAtMostTwice
    ChartDescending
    TotalBounded
    FeedNamesPair
PROPERTIES
    ShownTogether
    SummaryNeverGoesBack
    KeepsPromise
    RoundsEnd
    EventuallyIndexed
    SummaryCatchesUp
