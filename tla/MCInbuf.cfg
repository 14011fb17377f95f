SPECIFICATION Spec
CONSTANTS
    main = main
    lib = lib
    File = {main, lib}
    Main = main
    Texts <- ShortTexts
    MAX_INCLUDE_DEPTH = 3
    Buf = {b1, b2, b3}
    Static = Static
INVARIANTS
    TypeOK
    DeliversExpansion
    LineIsRight
    BuffersOwned
PROPERTIES
    ReadingEnds
\* The program exits when the source is read.
CHECK_DEADLOCK FALSE
