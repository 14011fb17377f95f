SPECIFICATION Spec
CONSTANTS
    Cell = {c1, c2, c3, c4, c5, c6, c7}
    Id = {x}
    Num = {2, 3}
    Null = Null
INVARIANTS
    TypeOK
    NoFault
    ValueKept
    OneOwner
    NothingLeaked
PROPERTIES
    EvaluationReturns
\* An expression ends with the program.
CHECK_DEADLOCK FALSE
