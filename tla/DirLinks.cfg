SPECIFICATION Spec
CONSTANTS
    t1 = t1
    t2 = t2
    A = A
    B = B
    n1 = n1
    n2 = n2
    f1 = f1
    f2 = f2
    s1 = s1
    s2 = s2
    NULL = NULL
    Tasks = {t1}
    Dirs = {A, B}
    Names = {n1, n2}
    Files = {f1, f2}
    SubDirs = {s1, s2}
    MountPoints = {}
    Kinds = {"walk", "stat", "create", "symlink", "mkdir", "unlink", "rmdir", "rename"}
    Errors = {}
    MaxRemote = 0
INVARIANTS
    NlinkExact
    LinkInv
SYMMETRY Symmetry
