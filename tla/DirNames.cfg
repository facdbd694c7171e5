SPECIFICATION Spec
CONSTANTS
    t1 = t1
    t2 = t2
    A = A
    B = B
    n1 = n1
    n2 = n2
    f1 = f1
    f2 = f2
    s1 = s1
    s2 = s2
    NULL = NULL
    Tasks = {t1, t2}
    Dirs = {A}
    Names = {n1, n2}
    Files = {f1}
    SubDirs = {s1}
    MountPoints = {s1}
    Kinds = {"walk", "create", "unlink", "rename"}
    Errors = {"ERESTARTSYS", "ENOMEM"}
    MaxRemote = 1
INVARIANTS
    TypeOK
    FoundIsThere
    MissingIsAbsent
    DcacheExact
    DirInv
SYMMETRY Symmetry
