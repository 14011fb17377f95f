SPECIFICATION Spec
CONSTANTS
    L = L
    M = M
    X = X
    Y = Y
    Name = {L, M, X, Y}
    Statements <- SectionStatements
    MaxNodes = 4
    MAX_PROG_SIZE = 6
    MAX_VAR_COUNT = 2
    TOK_REGPC = 100
INVARIANTS
    OutputStartsAtOrg
\* A link ends with the program.
CHECK_DEADLOCK FALSE
