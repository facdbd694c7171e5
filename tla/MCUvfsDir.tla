------------------------------ MODULE MCUvfsDir ------------------------------
(* Small instances of UvfsDir for TLC.                                     *)
EXTENDS UvfsDirInv, TLC

CONSTANTS t1, t2, A, B, n1, n2, f1, f2, s1, s2

Symmetry ==
    Permutations(Tasks) \cup Permutations(Dirs) \cup Permutations(Names)
        \cup Permutations(Files) \cup Permutations(SubDirs)
=============================================================================
