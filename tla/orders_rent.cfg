SPECIFICATION FairSpec
CONSTANTS
    alice = alice
    bob = bob
    Users = {alice, bob}
    StatePda = StatePda
    NoOrder = NoOrder
    NoSigner = NoSigner
    Intents <- RentIntents
    U64Max = 1
    Rent = 2
    Funds <- DonorAndSponsor
    MaxTime = 1
    MaxPermits = 1
    MaxOpened = 1
PROPERTIES RentGoesToCreator RentIsRecovered
