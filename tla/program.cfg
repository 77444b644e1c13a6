SPECIFICATION ServiceSpec
CONSTANTS
    Formulators = 3
    TestAccounts = 4
    Word16 = 8
    MaxStarts = 3
    u1 = u1
    u2 = u2
    p1 = p1
    p2 = p2
    p3 = p3
    URLs <- MCURLs
    Own = Own
    Packs <- MCPacks
    Handling <- MCHandling
    Null = Null
    MaxInits = 2
CHECK_DEADLOCK FALSE
INVARIANTS
    EveryAccountCreated
    CleanExit
    ExtensionsServed
PROPERTY
    SignalEndsProgram
