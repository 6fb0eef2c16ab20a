SPECIFICATION Spec
CONSTANTS
    X = X
    Y = Y
    Z = Z
    operator = operator
    other = other
    spl = spl
    t22 = t22
    Mints = {X, Y, Z}
    Program <- ProgramOf
    Parties = {operator, other}
    Operator = operator
    Rent = 2
    InitLamports <- LamportsAtStart
    InitTokens <- TokensAtStart
    Limits = {0, 1}
    MaxBatch = 2
    MaxCommands = 2
INVARIANTS TypeOK BurnsAreGranted BuffersAreFunded ReportIsTrue
