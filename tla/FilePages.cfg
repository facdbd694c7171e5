SPECIFICATION Spec
CONSTANTS
    t1 = t1
    t2 = t2
    NULL = NULL
    NOBODY = NOBODY
    Tasks = {t1, t2}
    NPages = 1
    PageSize = 2
    InitSize = 2
    Ranges <- AllRanges
    Sizes = {0, 1}
    ShortCopies = {1}
    Errors = {"getattr", "read", "nomem"}
    Mapped = TRUE
    MaxChanges = 2
SYMMETRY Symmetry
INVARIANTS
    TypeOK
    Coherent
    LocksExact
    ReadFresh
    FileInv
    WrittenThrough
CHECK_DEADLOCK FALSE
