---------------------------- MODULE MCUvfsServer ----------------------------
(* Small instances of UvfsServer for TLC.                                  *)
EXTENDS UvfsServer

CONSTANTS c1, c2, t1, t2, t3
=============================================================================
