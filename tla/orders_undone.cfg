SPECIFICATION Spec
CONSTANTS
    alice = alice
    bob = bob
    Users = {alice, bob}
    StatePda = StatePda
    NoOrder = NoOrder
    NoSigner = NoSigner
    Intents <- OneIntent
    U64Max = 1
    Rent = 0
    Funds <- RentForTwo
    MaxTime = 1
    MaxPermits = 2
    MaxOpened = 2
PROPERTY CancellationCannotBeUndone
