SPECIFICATION Spec
CONSTANTS
    a = a
    b = b
    c = c
    d = d
    Key = {a, b, c, d}
    Val = {1, 2}
    NoVal = NoVal
    Size = 3
    Home <- Homes
    Stored <- AllShort
    Empty = Empty
    Deleted = Deleted
    MaxDecls = 5
INVARIANTS
    TypeOK
    OneSlotPerName
    NoGapBeforeEntry
    LostOnlyWhenFull
    DuplicatesOnlyOfLost
PROPERTIES
    SettledAfterParse
    ImplementsSymbolMap
\* A second definition of a name ends the run (exit_nicely).
CHECK_DEADLOCK FALSE
