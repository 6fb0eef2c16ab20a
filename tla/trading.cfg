SPECIFICATION Spec
CHECK_DEADLOCK FALSE
CONSTANTS
    U64Max = 20
    StatePda = "state"
    Solvers = {"sid"}
    Mints <- SomeMints
    NativeMint = "W"
    NativeSol = "native"
    Programs <- ProgramOf
    Decimals <- DecimalsOf
    Symbols <- SomeSymbols
    Numerals <- SomeNumerals
    Ata <- Atas
    Buffer <- Buffers
    Requests <- SomeRequests
    OtherFills <- SomeOtherFills
    InitAccounts <- SomeAccounts
    InitOrders <- SomeOrders
    InitSol <- Sol
    MaxCommands = 2
    MaxChanges = 2
    MaxTime = 1
INVARIANTS FreshSettlementsSucceed SettledOncePerCreation
PROPERTIES BuffersAreNotDrained FreshOrdersAreReady
