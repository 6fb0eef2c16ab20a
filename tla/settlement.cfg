SPECIFICATION Spec
CHECK_DEADLOCK FALSE
CONSTANTS
    alice = alice
    bob = bob
    X = X
    Y = Y
    aliceX = aliceX
    aliceY = aliceY
    bufferX = bufferX
    bufferY = bufferY
    otherY = otherY
    aliceSol = aliceSol
    Users = {alice, bob}
    StatePda = StatePda
    KeyOf <- SomeKeys
    SlotCount = 4
    SlotWidth = 4
    KNOWN_MINTS <- KnownX
    Derived <- Addressed
    CanonicalBump <- BumpIsOne
    Multipliers <- SomeMultipliers
    NativeSol = NativeSol
    Accounts = {aliceX, aliceY, bufferX, bufferY}
    NativeBuffer = NativeBuffer
    Wallets = {aliceSol}
    Book <- OpenOrders
    InitTokens <- TokensAtStart
    InitLamports <- LamportsAtStart
    NativeRent = 1
    PushSet <- SomePushes
    Amounts = {1}
    MaxPushes = 2
    U64Max = 2
INVARIANTS TypeOK FundsMoveForOwnOrders RecordedIsPaid NativeBufferLives
