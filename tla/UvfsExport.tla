----------------------------- MODULE UvfsExport -----------------------------
(***************************************************************************)
(* The inodes of a mounted file system and the ways to get one: mounting,  *)
(* lookups, the parent of a directory and the file handles that NFS        *)
(* clients keep across evictions and unmounts (super.c), with the          *)
(* operations that make one request and keep nothing (statfs, readlink and *)
(* follow_link).                                                           *)
(*                                                                         *)
(* An object of the server is named by the three fields of a file handle   *)
(* that identify it.  The handles the server gives have a mount id too;    *)
(* those decoded from NFS have none.                                       *)
(***************************************************************************)
EXTENDS UvfsOps

CONSTANTS
    Objects,        \* a set of [aruid, sfuid, sbxid]
    Root,
    Directories,
    Parent,         \* the directory of every object but the root
    MaxHandles      \* bound: handles that NFS clients keep

(* An object and its directory are in one archive: uvfs_encode_fh stores   *)
(* one na_aruid for the two.                                               *)
ASSUME ExportConstants ==
    /\ Root \in Directories /\ Directories \subseteq Objects
    /\ Parent \in [Objects \ {Root} -> Directories]
    /\ \A o \in Objects \ {Root} : Parent[o].aruid = o.aruid
    /\ MaxHandles \in Nat

VARIABLES
    mounted,        \* "no", "yes", or "rootless": mounted with no root
    icache,         \* the handles of the inodes in memory
    exists,         \* the objects, at the server
    handles,        \* what NFS clients keep
    missed          \* history: the tasks whose object was gone at some
                    \* moment of their operation

exportVars == <<mounted, icache, exists, handles, missed>>

\* A handle as the server gives it.
Handle(o) ==
    [mntid |-> 1, aruid |-> o.aruid, sfuid |-> o.sfuid, sbxid |-> o.sbxid]

IsOf(h, o) ==
    h.aruid = o.aruid /\ h.sfuid = o.sfuid /\ h.sbxid = o.sbxid

\* Not mounted yet, or mounted with every inode in memory.
ExportInit ==
    /\ \/ mounted = "no" /\ icache = {}
       \/ mounted = "yes" /\ icache = {Handle(o) : o \in Objects}
    /\ exists = Objects
    /\ handles = {}
    /\ missed = {}

-----------------------------------------------------------------------------
(* The inode cache.                                                        *)

\* Mutant: the mount id is compared too.
uvfs_compare_inode_mntid(h, g) == h = g

uvfs_compare_inode(h, g) ==
    h.aruid = g.aruid /\ h.sfuid = g.sfuid /\ h.sbxid = g.sbxid

ilookup5(h) == {g \in icache : uvfs_compare_inode(g, h)}

\* iget5_locked: the inode for handle h, a new one if there is none.
uvfs_iget(h) == IF ilookup5(h) = {} THEN h ELSE CHOOSE g \in ilookup5(h) : TRUE

\* Memory pressure, for an inode that is not in use: not the root, a directory
\* whose parent is asked for, or one an operation is about to return.
Evict(h) ==
    /\ h \in icache
    /\ ~IsOf(h, Root)
    /\ \A t \in Tasks :
          /\ op[t].kind = "get_parent" => ~IsOf(h, op[t].child)
          /\ op[t].kind = "found" => op[t].inode # h
    /\ icache' = icache \ {h}
    /\ UNCHANGED <<mounted, exists, handles, missed, conduitVars, op,
                   reply>>

-----------------------------------------------------------------------------
(* File handles for NFS.                                                   *)

\* uvfs_encode_fh, for a dentry of object o: too short a buffer gets none.
uvfs_encode_fh(o, connectable, max_len) ==
    LET long == connectable /\ o \notin Directories
        h    == uvfs_iget(Handle(o))
    IN  /\ mounted = "yes"
        /\ Cardinality(handles) < MaxHandles
        /\ ilookup5(Handle(o)) # {}
        /\ max_len >= 3 /\ (connectable => max_len >= 5)
        /\ handles' = handles \cup
              {[of |-> o, type |-> IF long THEN 2 ELSE 1,
                raw |-> IF long THEN <<h.aruid, h.sfuid, h.sbxid,
                                       Parent[o].sfuid, Parent[o].sbxid>>
                        ELSE <<h.aruid, h.sfuid, h.sbxid>>]}
        /\ UNCHANGED <<mounted, icache, exists, missed, conduitVars, op,
                       reply>>

\* Mutant: the words of the object and of its directory are swapped.
DecodedParent_swapped(raw) ==
    [mntid |-> 0, aruid |-> raw[1], sfuid |-> raw[5], sbxid |-> raw[4]]

Decoded(raw) ==
    [mntid |-> 0, aruid |-> raw[1], sfuid |-> raw[2], sbxid |-> raw[3]]
DecodedParent(raw) ==
    [mntid |-> 0, aruid |-> raw[1], sfuid |-> raw[4], sbxid |-> raw[5]]

-----------------------------------------------------------------------------
(* The operations.                                                         *)

\* Mounting: a request for the root.  Options that do not parse, or that are
\* too long, fail before it.
uvfs_read_super(t) ==
    /\ mounted = "no"
    /\ \A v \in Tasks : op[v] = Idle
    /\ begin(t, [kind |-> "read_super", want |-> Root])
    /\ UNCHANGED exportVars

\* The operation is about to return: a dentry for the inode, or the error of a
\* file handle.  The other errors are the caller's own business.
Dentry(o, h) == [kind |-> "found", want |-> o, inode |-> h]
Error(e) == [kind |-> "failed", error |-> e]

\* A request of a mounted file system.  With no memory for a transaction the
\* operation returns -ENOMEM and nothing has changed.
Start(t, request) ==
    /\ mounted = "yes"
    /\ op[t] = Idle
    /\ begin(t, request)

lookup(t, o) ==
    /\ o # Root
    /\ Start(t, [kind |-> "lookup", want |-> o])
    /\ UNCHANGED exportVars

uvfs_get_parent(t, o) ==
    /\ o \in Directories \ {Root}
    /\ ilookup5(Handle(o)) # {}
    /\ Start(t, [kind |-> "get_parent", want |-> Parent[o], child |-> o])
    /\ UNCHANGED exportVars

\* uvfs_get_dentry: an inode in memory will do; otherwise the server is asked.
uvfs_get_dentry(t, h, o) ==
    \/ /\ ilookup5(h) = {}
       /\ Start(t, [kind |-> "get_dentry", want |-> o, fh |-> h])
       /\ missed' = IF o \in exists THEN missed ELSE missed \cup {t}
       /\ UNCHANGED <<mounted, icache, exists, handles>>
    \/ /\ ilookup5(h) # {}
       /\ mounted = "yes" /\ op[t] = Idle
       /\ op' = [op EXCEPT ![t] = Dentry(o, uvfs_iget(h))]
       /\ UNCHANGED <<exportVars, conduitVars, reply>>

uvfs_fh_to_dentry(t, f) ==
    /\ Len(f.raw) >= 3 /\ f.type <= 2
    /\ uvfs_get_dentry(t, Decoded(f.raw), f.of)

uvfs_fh_to_parent(t, f) ==
    /\ Len(f.raw) >= 5 /\ f.type = 2
    /\ uvfs_get_dentry(t, DecodedParent(f.raw), Parent[f.of])

uvfs_statfs(t) ==
    Start(t, [kind |-> "statfs", want |-> Root]) /\ UNCHANGED exportVars

uvfs_readlink(t, o) ==
    /\ o \notin Directories /\ ilookup5(Handle(o)) # {}
    /\ Start(t, [kind |-> "readlink", want |-> o])
    /\ UNCHANGED exportVars

uvfs_follow_link(t, o) ==
    /\ o \notin Directories /\ ilookup5(Handle(o)) # {}
    /\ Start(t, [kind |-> "follow_link", want |-> o])
    /\ UNCHANGED exportVars

-----------------------------------------------------------------------------
(* The server answers.                                                     *)

\* What it finds: the handle of an object looked up by name, or the
\* attributes of the object that a handle names; -ECOMM if there is none.
Answer(t) ==
    IF op[t].kind = "get_dentry"
    THEN IF \E o \in exists : IsOf(op[t].fh, o) THEN Success(op[t].fh)
         ELSE Failure("ECOMM")
    ELSE IF op[t].want \in exists THEN Success(Handle(op[t].want))
    ELSE Failure(IF op[t].kind \in {"statfs", "readlink", "follow_link"}
                 THEN "ECOMM" ELSE "ENOENT")

Requests == {"read_super", "lookup", "get_parent", "get_dentry", "statfs",
             "readlink", "follow_link"}

Asked(t) == op[t].kind \in Requests

serve_export(t) ==
    /\ Asked(t)
    /\ serve(t, Answer(t))
    /\ UNCHANGED exportVars

-----------------------------------------------------------------------------
(* The operations act on the result.                                       *)

\* -ECOMM from the server means the handle is stale.
StaleError(e) == IF e = "ECOMM" THEN "ESTALE" ELSE e

op_error(t) ==
    /\ Asked(t)
    /\ Failed(t)
    /\ finish(t, IF op[t].kind = "get_dentry"
                 THEN Error(StaleError(ErrorOf(t))) ELSE Idle)
    /\ UNCHANGED exportVars

\* uvfs_iget finds no memory for the inode.
iget_nomem(t) ==
    /\ NoMemory
    /\ Succeeded(t)
    /\ \/ /\ op[t].kind \in {"read_super", "lookup", "get_parent"}
          /\ finish(t, Idle)
       \/ op[t].kind = "get_dentry" /\ finish(t, Error("EACCES"))
    /\ UNCHANGED exportVars

\* uvfs_iget for the handle of the reply, or the one that was decoded.
Obtain(t) ==
    LET h == uvfs_iget(reply[t].value)
    IN  /\ Succeeded(t)
        /\ finish(t, Dentry(op[t].want, h))
        /\ icache' = icache \cup {h}
        /\ UNCHANGED <<exists, handles, missed>>

iget_done(t) ==
    /\ op[t].kind \in {"lookup", "get_parent", "get_dentry"}
    /\ Obtain(t)
    /\ UNCHANGED mounted

\* The result of d_alloc_root is not looked at.
read_super_done(t) ==
    /\ op[t].kind = "read_super"
    /\ Obtain(t)
    /\ \/ mounted' = "yes"
       \/ NoMemory /\ mounted' = "rootless"

\* statfs and readlink use the reply and are done.
reply_done(t) ==
    /\ op[t].kind \in {"statfs", "readlink"}
    /\ Succeeded(t)
    /\ finish(t, Idle)
    /\ UNCHANGED exportVars

\* vfs_follow_link walks along the path in the reply; the transaction is
\* freed when the walk is over.
follow_link_walk(t) ==
    /\ op[t].kind = "follow_link"
    /\ Succeeded(t)
    /\ op' = [op EXCEPT ![t] = [kind |-> "walking"]]
    /\ UNCHANGED <<conduitVars, reply, exportVars>>

follow_link_done(t) ==
    /\ op[t].kind = "walking"
    /\ finish(t, Idle)
    /\ UNCHANGED exportVars

\* The dentry is returned, or the inode is put again for want of memory for
\* one, and the inode may be evicted from then on.
op_return(t) ==
    /\ op[t].kind \in {"found", "failed"}
    /\ op' = [op EXCEPT ![t] = Idle]
    /\ missed' = missed \ {t}
    /\ UNCHANGED <<mounted, icache, exists, handles, conduitVars, reply>>

export_step(t) ==
    \/ op_error(t) \/ iget_nomem(t) \/ iget_done(t) \/ read_super_done(t)
    \/ reply_done(t) \/ follow_link_walk(t) \/ follow_link_done(t)
    \/ op_return(t)

-----------------------------------------------------------------------------

\* An object is removed or comes back, at the server.
RemoteObject(o) ==
    /\ o # Root /\ Parent[o] \in exists
    /\ \A c \in exists \ {Root} : Parent[c] # o
    /\ exists' = IF o \in exists THEN exists \ {o} ELSE exists \cup {o}
    /\ missed' = missed \cup
          {t \in Tasks : op[t].kind = "get_dentry" /\ op[t].want = o}
    /\ UNCHANGED <<mounted, icache, handles, conduitVars, op, reply>>

\* Unmounting drops every inode.
umount ==
    /\ mounted # "no"
    /\ \A t \in Tasks : op[t] = Idle
    /\ mounted' = "no"
    /\ icache' = {}
    /\ UNCHANGED <<exists, handles, missed, conduitVars, op, reply>>

ExportNext ==
    \/ \E t \in Tasks :
          \/ uvfs_read_super(t)
          \/ \E o \in Objects : lookup(t, o) \/ uvfs_get_parent(t, o)
          \/ \E f \in handles : uvfs_fh_to_dentry(t, f)
                                \/ uvfs_fh_to_parent(t, f)
    \/ \E o \in Objects, connectable \in BOOLEAN, max_len \in {2, 3, 5} :
          uvfs_encode_fh(o, connectable, max_len)
    \/ \E h \in icache : Evict(h)
    \/ umount

LinkNext ==
    \E t \in Tasks :
        \/ uvfs_statfs(t)
        \/ \E o \in Objects : uvfs_readlink(t, o) \/ uvfs_follow_link(t, o)

AnswerNext ==
    \/ \E t \in Tasks : serve_export(t) \/ export_step(t)
    \/ \E o \in Objects : RemoteObject(o)

(* One object, one inode: whatever mixture of mounts, lookups, parents and *)
(* decoded handles races for it, and however often it is evicted, an       *)
(* object never has two inodes, and whoever asks for an object gets the    *)
(* one inode of that object (uvfs_compare_inode, uvfs_iget,                *)
(* uvfs_get_dentry, uvfs_encode_fh, uvfs_fh_to_dentry, uvfs_fh_to_parent). *)
OneInode ==
    /\ \A o \in Objects, g, h \in icache : IsOf(g, o) /\ IsOf(h, o) => g = h
    /\ \A t \in Tasks : op[t].kind = "found" =>
          IsOf(op[t].inode, op[t].want) /\ op[t].inode \in icache

(* A handle is called stale only if its object was gone at some moment of  *)
(* the call, never because the server was, or the caller was killed        *)
(* (uvfs_get_dentry): an NFS client gives a stale handle up for good.      *)
StaleMeansGone ==
    \A t \in Tasks : op[t] = Error("ESTALE") => t \in missed

=============================================================================
