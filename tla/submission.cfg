SPECIFICATION Spec
CHECK_DEADLOCK FALSE
CONSTANTS
    Byte = 17
    KeyWidth = 1
    Word = 1
    TimeWidth = 1
    NativeSol <- System
    OrderDiscriminator = 15
    StatePda <- State
    NativeBuffer <- Native
    Buffer <- BufferOf
    SettlementProgram <- Settlement
    SquadsProgram <- SquadsKey
    MultisigAddress <- MultisigKey
    Vault <- Vaults
    LenWidth = 1
    MaxIndex = 2
    Requests <- SomeRequests
    TokenProgramOf <- Programs
    InitMembers <- Members
    Permissions <- NewPermissions
    Threshold = 2
    MaxCommands = 2
    MaxChanges = 1
INVARIANTS ReportedIsHeld ApprovalsAreInformed StagedIsBuilt SignaturesMatch
