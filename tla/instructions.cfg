SPECIFICATION WireSpec
CONSTANTS
    Byte = 16
    KeyWidth = 1
    Word = 2
    TimeWidth = 1
    NativeSol <- System
    OrderDiscriminator = 15
    Calls <- SomeCalls
    StatePda <- State
    NativeBuffer <- Native
    Buffer <- BufferOf
    OrderAuthority <- Bob
    CanonicalBump = 13
    Stray <- Strays
    Totals <- Filled
    MaxEdits = 1
INVARIANTS ArrivesAsMeant PrivilegesMatch OnePayloadPerMeaning OneAddressPerIntent StoredAsMeant
