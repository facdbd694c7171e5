--------------------------- MODULE MCUvfsMounted ---------------------------
(* A small instance of UvfsMounted for TLC.                                *)
EXTENDS UvfsMountedInv, TLC

CONSTANTS t1, t2

Ident(a, s, b) == [aruid |-> a, sfuid |-> s, sbxid |-> b]

\* A directory and a file of it that share their sfuid, hence their hash.
RootDir == Ident(1, 1, 1)
SubDir == Ident(1, 2, 1)
AFile == Ident(1, 2, 2)
Tree == {RootDir, SubDir, AFile}
Dirs == {RootDir, SubDir}
ParentOf == [o \in Tree \ {RootDir} |-> IF o = AFile THEN SubDir ELSE RootDir]

\* Two users in one group.  What the server shows of the owner, and what it
\* shows of the others, changes.
OwnUser == (t1 :> "alice") @@ (t2 :> "bob")
OneGroup == [u \in {"alice", "bob"} |-> "staff"]
Caps == (t1 :> {}) @@ (t2 :> {"CAP_DAC_READ_SEARCH"})
Bits(u, g, o) == [user |-> u, group |-> g, other |-> o]
Shows == {[dir |-> FALSE, uid |-> "alice", gid |-> "staff",
           bits |-> Bits({"MAY_READ", "MAY_WRITE"}, {"MAY_READ"}, {})],
          [dir |-> FALSE, uid |-> "bob", gid |-> "staff",
           bits |-> Bits({"MAY_READ"}, {}, {})]}
SomeMasks == {{"MAY_READ"}, {"MAY_WRITE", "MAY_EXEC"}}
=============================================================================
