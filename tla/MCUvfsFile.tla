----------------------------- MODULE MCUvfsFile -----------------------------
(* Small instances of UvfsFile for TLC.                                    *)
EXTENDS UvfsFileInv, TLC

CONSTANTS t1, t2

\* Tasks are interchangeable.
Symmetry == Permutations(Tasks)

\* The ranges of a page of two blocks, and of a page of one.
AllRanges == {<<0, 1>>, <<1, 2>>, <<0, 2>>}
OneBlock == {<<0, 1>>}
=============================================================================
