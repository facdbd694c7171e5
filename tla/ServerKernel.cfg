SPECIFICATION KernelSpec
CONSTANTS
    c1 = c1
    c2 = c2
    t1 = t1
    t2 = t2
    t3 = t3
    NULL = NULL
    Callers = {c1}
    Threads = {t1, t2, t3}
    Killable = {c1}
    Interruptible = {}
    Faulty = {t1}
    Controllers = {t1}
    MaxSerial = 1
INVARIANTS
    NoLostReader
    ClosedIsEmpty
PROPERTIES
    CrashReleasesCallers
    KilledReturns
    ShutdownReachesAll
CHECK_DEADLOCK FALSE
