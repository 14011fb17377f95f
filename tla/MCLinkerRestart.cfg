SPECIFICATION Spec
CONSTANTS
    L = L
    M = M
    X = X
    Y = Y
    Name = {L, M, X, Y}
    Statements <- RestartStatements
    MaxNodes = 2
    MAX_PROG_SIZE = 6
    MAX_VAR_COUNT = 2
    TOK_REGPC = 100
INVARIANTS
    RestartsEncodeTheirVector
\* A link ends with the program.
CHECK_DEADLOCK FALSE
