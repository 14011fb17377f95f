SPECIFICATION FairSpec
CONSTANTS
    N = 2
    Names <- MCNames
    tmpfile = "tmpfile"
    ReadOnly = {"locked"}
    BUF = 2
    NAME_MAX = 3
    PADDING = 2
    EncodeBehind <- MCEncodeBehind
    DecodeBehind <- MCDecodeBehind
    Worlds <- MCWorlds
INVARIANTS
    TypeOK
    OutputIsPrefix
    ResultIsWhole
    PackedDecodes
    TmpRemoved
PROPERTY
    ProcessesEnd
CHECK_DEADLOCK FALSE
