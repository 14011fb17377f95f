SPECIFICATION BkSpec
CONSTANTS
    Ident = {"X", "LOOP", "O"}
    Unknown = {"@"}
    MAX_VAR_COUNT = 3
    MAX_PROG_SIZE = 17
    MAX_TEXT = 46
    TOK_REGPC = 100
    FirstMargins <- NoMargin
    Creatable <- MCCreatable
INVARIANTS
    TypeOK
    LinesTakenOneByOne
    GrammarParsed
    GrammarAccepted
    EndToEnd
    RefusedWritesNothing
    SilentMeansFresh
PROPERTIES
    StatementsAdvance
    RunEnds
\* The program ends.
CHECK_DEADLOCK FALSE
