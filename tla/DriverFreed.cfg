SPECIFICATION Spec
CONSTANTS
    c1 = c1
    c2 = c2
    t1 = t1
    t2 = t2
    t3 = t3
    NULL = NULL
    Callers = {c1, c2}
    Threads = {t1, t2}
    Killable = {c1}
    Interruptible = {}
    Faulty = {}
    Controllers = {}
    MaxSerial = 2
INVARIANTS
    FreedAfterUse
CHECK_DEADLOCK FALSE
