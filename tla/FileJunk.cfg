SPECIFICATION Spec
CONSTANTS
    t1 = t1
    t2 = t2
    NULL = NULL
    NOBODY = NOBODY
    Tasks = {t1, t2}
    NPages = 1
    PageSize = 2
    InitSize = 2
    Ranges <- AllRanges
    Sizes = {}
    ShortCopies = {}
    Errors = {}
    Mapped = FALSE
    MaxChanges = 2
INVARIANTS
    NoJunkRead
