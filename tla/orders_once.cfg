SPECIFICATION Spec
CONSTANTS
    alice = alice
    bob = bob
    Users = {alice}
    StatePda = StatePda
    NoOrder = NoOrder
    NoSigner = NoSigner
    Intents <- KillIntents
    U64Max = 3
    Rent = 0
    Funds <- RentForTwo
    MaxTime = 1
    MaxPermits = 1
    MaxOpened = 1
PROPERTY FillOrKillSettlesOnce
