---------------------------- MODULE MCUvfsDriver ----------------------------
(* Small instances of UvfsDriver for TLC.                                  *)
EXTENDS UvfsDriverCall, TLC

CONSTANTS c1, c2, t1, t2, t3

\* Callers, and threads, are interchangeable where the cfg treats them alike.
Symmetry == Permutations(Callers) \cup Permutations(Threads)

\* Once a freed transaction has been written to, anything can happen: the
\* behaviours end there.
Untainted == ~tainted
=============================================================================
