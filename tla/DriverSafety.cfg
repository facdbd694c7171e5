SPECIFICATION Spec
CONSTANTS
    c1 = c1
    c2 = c2
    t1 = t1
    t2 = t2
    t3 = t3
    NULL = NULL
    Callers = {c1, c2}
    Threads = {t1, t2}
    Killable = {c1, c2}
    Interruptible = {t1, t2}
    Faulty = {t1, t2}
    Controllers = {}
    MaxSerial = 2
INVARIANTS
    TypeOK
    OnePlace
    InUseExact
    CopyOutLive
    NoLostCaller
    SerialMatches
    RightReply
    IInv
PROPERTIES
    AnswerStands
    KeepsPromise
SYMMETRY Symmetry
CONSTRAINT Untainted
CHECK_DEADLOCK FALSE
