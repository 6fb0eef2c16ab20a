SPECIFICATION Spec
CONSTANTS
    MaxLen = 4
    Instructions <- AllInstructions
CHECK_DEADLOCK FALSE
INVARIANTS PushesWereValidated OneOpenSettlement PullsArePaid
