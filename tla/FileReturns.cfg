SPECIFICATION FairSpec
CONSTANTS
    t1 = t1
    t2 = t2
    NULL = NULL
    NOBODY = NOBODY
    Tasks = {t1, t2}
    NPages = 2
    PageSize = 1
    InitSize = 2
    Ranges <- OneBlock
    Sizes = {1}
    ShortCopies = {}
    Errors = {"getattr", "read", "write", "setattr", "nomem"}
    Mapped = TRUE
    MaxChanges = 1
INVARIANTS
    NoJunkRead
PROPERTIES
    CallsReturn
CHECK_DEADLOCK FALSE
