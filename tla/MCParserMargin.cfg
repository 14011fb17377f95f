SPECIFICATION MCSpec
CONSTANTS
    Ident = {"X", "LOOP", "O"}
    Unknown = {"@"}
    MAX_VAR_COUNT = 3
    FirstMargins <- AnyMargin
INVARIANTS
    FirstLineParsed
\* The parser ends with its source.
CHECK_DEADLOCK FALSE
