SPECIFICATION Spec
CONSTANTS
    L = L
    M = M
    X = X
    Y = Y
    Name = {L, M, X, Y}
    Statements <- ShiftStatements
    MaxNodes = 5
    MAX_PROG_SIZE = 6
    MAX_VAR_COUNT = 4
    TOK_REGPC = 100
INVARIANTS
    JumpsReachTheirLabel
\* A link ends with the program.
CHECK_DEADLOCK FALSE
