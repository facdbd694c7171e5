SPECIFICATION ServedSpec
CONSTANTS
    c1 = c1
    c2 = c2
    t1 = t1
    t2 = t2
    t3 = t3
    NULL = NULL
    Callers = {c1, c2}
    Threads = {t1, t2, t3}
    Killable = {}
    Interruptible = {}
    Faulty = {}
    Controllers = {}
    MaxSerial = 3
INVARIANTS
    NoKillNoDangling
PROPERTIES
    EveryRequestReturns
CHECK_DEADLOCK FALSE
