SPECIFICATION Spec
CONSTANTS
    Addresses <- FiveSolvers
    Holders <- ThreeParties
    Trusted <- FourTrusted
    Guarded <- SolverRoles
    INITIALIZER = 1
    StatePda = 99
    HeaderRent = 1
    SlotRent = 1
    MaxDonation = 2
INVARIANTS TypeOK SlotsAreSolvers StaysRentExempt NoEscalation
PROPERTY ImplementsRegistry
