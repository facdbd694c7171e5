------------------------------- MODULE UvfsDir -------------------------------
(***************************************************************************)
(* dir.c: names.  The directories of the server, the kernel's dentry cache *)
(* above them, and the link counts kept in the in-core inodes.             *)
(*                                                                         *)
(* A dentry found in the cache is never trusted: uvfs_dentry_revalidate    *)
(* drops a negative one and asks the server about a positive one, without  *)
(* a lock.  uvfs_lookup, uvfs_create, uvfs_symlink, uvfs_mkdir,            *)
(* uvfs_unlink, uvfs_rmdir and uvfs_rename run under the i_mutex of the    *)
(* directories they work in; the VFS calls them with the dentry it looked  *)
(* up under the same mutex.                                                *)
(*                                                                         *)
(* The name that a revalidation asks about is that of the dentry when it   *)
(* is read: a rename that ends meanwhile gives the dentry another one.     *)
(*                                                                         *)
(* A request is a step in which the server carries it out, or fails it, or *)
(* both, and a later step in which the task goes on with the reply.        *)
(***************************************************************************)
EXTENDS Integers, FiniteSets

CONSTANTS
    Tasks, Dirs, Names,
    Files,          \* handles of regular files and symbolic links
    SubDirs,        \* handles of directories that may be entries
    MountPoints,    \* the ones of these with a file system mounted below
    Errors,         \* what may go wrong with a request at any time
    Kinds,          \* the operations tasks ask for
    MaxRemote,      \* bound: changes made at the server itself
    NULL

ASSUME DirConstants ==
    /\ Errors \subseteq {"EIO", "ERESTARTSYS", "ENOMEM"}
    /\ MountPoints \subseteq SubDirs
    /\ Kinds \subseteq {"walk", "stat", "create", "symlink", "mkdir",
                        "unlink", "rmdir", "rename"}
    /\ Files \cap SubDirs = {} /\ Dirs \cap (Files \cup SubDirs) = {}
    /\ MaxRemote \in Nat

Inos    == Files \cup SubDirs
Entries == Dirs \X Names
DirOf(e) == e[1]
NameOf(e) == e[2]

\* A name in the dentry cache: not there, negative, or with an inode.
UNHASHED == "unhashed"
NEGATIVE == "negative"

VARIABLES
    ns,         \* the server's directories: an inode or NULL for each entry
    remote,     \* changes made at the server itself so far
    dcache,     \* the hashed dentry of each entry
    i_nlink,    \* link counts in the in-core inodes
    i_mutex,    \* the task that holds the mutex of a directory
    pc, op,     \* where a task is, in which operation
    at,         \* the entry a task is looking up
    dentry,     \* the inode of the dentry a task has got hold of
    where,      \* the entry that dentry is the latest one of, hashed or
                \* dropped since; NULL when another has taken its place
    asks,       \* the parent and name of that dentry, which a revalidation
                \* asks about; fixed once it has read them
    moved,      \* the inode a rename is moving
    rep,        \* the reply a task is working with
    result,     \* what the last call of a task returned
    \* History variables: they record what happened and guard nothing.
    truth,      \* what the server had for the entry of a walk since the walk
                \* began, and what a rename that ended meanwhile took away
                \* from it in the cache
    calm        \* no change at the server itself and no failure so far

srvVars  == <<ns, remote, calm>>
taskVars == <<pc, op, at, dentry, where, asks, moved, rep, result>>
vars == <<srvVars, dcache, i_nlink, i_mutex, taskVars, truth>>

Ops ==
    {o \in [kind : Kinds, src : Entries, dst : Entries] :
        o.kind = "rename" <=> o.src # o.dst}

Creations == {"create", "symlink", "mkdir"}

PCs == {"idle", "lock", "cached", "revalidate", "parent", "asking",
        "revalidated", "missed", "lookup", "looked_up", "getattr", "refresh",
        "request", "finish"}

\* EINVAL stands for what the VFS, or the server, says of a wrong kind of
\* inode.
ReplyErrors == {"ENOENT", "EEXIST", "EINVAL", "EREMOTE", "EIO",
                "ERESTARTSYS", "ENOMEM"}
Results == Inos \cup ReplyErrors \cup {"OK", "ENOTEMPTY", NULL}

Replies == [err : ReplyErrors \cup {"OK"}, ino : Inos \cup {NULL}, nlink : 0..2]

\* A pointer that is NULL points to nothing, and a mark is no inode.
ASSUME DirMarks ==
    /\ NULL \notin Tasks \cup Inos \cup Entries \cup Ops \cup Replies
    /\ {UNHASHED, NEGATIVE, "ENOENT"} \cap Inos = {}

CacheTypes ==
    /\ ns \in [Entries -> Inos \cup {NULL}]
    /\ remote \in 0..MaxRemote
    /\ calm \in BOOLEAN
    /\ dcache \in [Entries -> Inos \cup {UNHASHED, NEGATIVE}]
    /\ i_nlink \in [Inos \cup Dirs -> Int]
    /\ i_mutex \in [Dirs -> Tasks \cup {NULL}]

TaskTypes ==
    /\ pc \in [Tasks -> PCs]
    /\ op \in [Tasks -> Ops \cup {NULL}]
    /\ at \in [Tasks -> Entries \cup {NULL}]
    /\ dentry \in [Tasks -> Inos \cup {NEGATIVE, NULL}]
    /\ where \in [Tasks -> Entries \cup {NULL}]
    /\ asks \in [Tasks -> Entries \cup {NULL}]
    /\ moved \in [Tasks -> Inos \cup {NULL}]
    /\ rep \in [Tasks -> Replies \cup {NULL}]
    /\ result \in [Tasks -> Results]
    /\ truth \in [Tasks -> SUBSET (Inos \cup {NULL})]

TypeOK == CacheTypes /\ TaskTypes

Linked == {ns[e] : e \in Entries} \ {NULL}

\* The server's link counts: no hard links.
Nlink(i) == IF i \notin Linked THEN 0 ELSE IF i \in SubDirs THEN 2 ELSE 1
DirNlink(d) == 2 + Cardinality({n \in Names : ns[<<d, n>>] \in SubDirs})

Init ==
    /\ ns = [e \in Entries |-> NULL]
    /\ remote = 0
    /\ dcache = [e \in Entries |-> UNHASHED]
    /\ i_nlink = [i \in Inos \cup Dirs |-> IF i \in Dirs THEN 2 ELSE 0]
    /\ i_mutex = [d \in Dirs |-> NULL]
    /\ pc = [t \in Tasks |-> "idle"]
    /\ op = [t \in Tasks |-> NULL]
    /\ at = [t \in Tasks |-> NULL]
    /\ dentry = [t \in Tasks |-> NULL]
    /\ where = [t \in Tasks |-> NULL]
    /\ asks = [t \in Tasks |-> NULL]
    /\ moved = [t \in Tasks |-> NULL]
    /\ rep = [t \in Tasks |-> NULL]
    /\ result = [t \in Tasks |-> NULL]
    /\ truth = [t \in Tasks |-> {}]
    /\ calm = TRUE

-----------------------------------------------------------------------------
(* Helpers.                                                                *)

Reply(err, i) ==
    [err |-> err, ino |-> i, nlink |-> IF i = NULL THEN 0 ELSE Nlink(i)]

Failed(err) == [err |-> err, ino |-> NULL, nlink |-> 0]

Unlocked(t) ==
    [d \in Dirs |-> IF i_mutex[d] = t THEN NULL ELSE i_mutex[d]]

\* The server's directories change: what every task could truly be told of
\* the entry it asked for grows.
ServerHas(new) ==
    /\ ns' = new
    /\ truth' = [t \in Tasks |-> IF op[t] = NULL THEN {}
                                 ELSE truth[t] \cup {new[op[t].src]}]

\* d_drop: the dentry hashed under e, if any, leaves the cache.
Dropped(e) == [x \in Entries |-> IF x = e THEN UNHASHED ELSE dcache[x]]

\* Where the dentries of the tasks are once task t has hashed a new one
\* under e.
Replaced(t, e) ==
    [x \in Tasks |-> IF x = t THEN e
                     ELSE IF where[x] = e THEN NULL ELSE where[x]]

\* Did the last request of the task fail?  Was the task killed meanwhile?
NoAnswer(t) == rep[t] # NULL /\ rep[t].err \in Errors
Killed(t) == rep[t] # NULL /\ rep[t].err = "ERESTARTSYS"

Heed(t) == calm' = (calm /\ rep'[t].err \notin Errors)

\* The call ends: mutexes and dentries are given back.  w, q and h are where
\* the dentries of the tasks are by then, what they ask for, and the truth.
\* Only a walk is remembered.
Return(t, r, w, q, h) ==
    LET walk == op[t].kind = "walk"
    IN  /\ pc' = [pc EXCEPT ![t] = "idle"]
        /\ result' = [result EXCEPT ![t] = r]
        /\ i_mutex' = Unlocked(t)
        /\ at' = [at EXCEPT ![t] = NULL]
        /\ dentry' = [dentry EXCEPT ![t] = NULL]
        /\ moved' = [moved EXCEPT ![t] = NULL]
        /\ where' = [w EXCEPT ![t] = NULL]
        /\ asks' = [q EXCEPT ![t] = NULL]
        /\ rep' = [rep EXCEPT ![t] = IF walk /\ NoAnswer(t) THEN @ ELSE NULL]
        /\ op' = [op EXCEPT ![t] = IF walk THEN @ ELSE NULL]
        /\ truth' = [h EXCEPT ![t] = IF walk THEN @ ELSE {}]

Leave(t, r) == Return(t, r, where, asks, truth)

-----------------------------------------------------------------------------
(* What the VFS does.                                                      *)

\* Somebody else changes an entry at the server.
RemoteChange(e, i) ==
    /\ remote < MaxRemote
    /\ i # ns[e]
    /\ i = NULL \/ i \notin Linked
    /\ remote' = remote + 1
    /\ calm' = FALSE
    /\ ServerHas([ns EXCEPT ![e] = i])
    /\ UNCHANGED <<dcache, i_nlink, i_mutex, taskVars>>

\* A path walk needs no mutex while names are in the cache.
Call(t, o) ==
    /\ pc[t] = "idle"
    /\ op' = [op EXCEPT ![t] = o]
    /\ at' = [at EXCEPT ![t] = o.src]
    /\ pc' = [pc EXCEPT ![t] =
                IF o.kind \in {"walk", "stat"} THEN "cached" ELSE "lock"]
    /\ dentry' = [dentry EXCEPT ![t] = NULL]
    /\ where' = [where EXCEPT ![t] = NULL]
    /\ asks' = [asks EXCEPT ![t] = NULL]
    /\ moved' = [moved EXCEPT ![t] = NULL]
    /\ rep' = [rep EXCEPT ![t] = NULL]
    /\ result' = [result EXCEPT ![t] = NULL]
    /\ truth' = [truth EXCEPT ![t] = {ns[o.src]}]
    /\ UNCHANGED <<srvVars, dcache, i_nlink, i_mutex>>

lock_rename(t) ==
    LET needed == {DirOf(op[t].src), DirOf(op[t].dst)}
    IN  /\ pc[t] = "lock"
        /\ \A d \in needed : i_mutex[d] = NULL
        /\ i_mutex' = [d \in Dirs |-> IF d \in needed THEN t ELSE i_mutex[d]]
        /\ pc' = [pc EXCEPT ![t] = "cached"]
        /\ UNCHANGED <<srvVars, dcache, i_nlink, op, at, dentry, where,
                       asks, moved, rep, result, truth>>

\* What the VFS does with the dentry it was looking for, that of v: an inode
\* or NEGATIVE.
Found(t, v, w) ==
    LET o == op[t]
        first == o.kind = "rename" /\ at[t] = o.src
        goto(l, e, m) ==
            /\ pc' = [pc EXCEPT ![t] = l]
            /\ at' = [at EXCEPT ![t] = e]
            /\ moved' = [moved EXCEPT ![t] = m]
            /\ dentry' = [dentry EXCEPT ![t] = v]
            /\ where' = w
            /\ asks' = [asks EXCEPT ![t] = NULL]
            /\ i_mutex' = IF o.kind = "stat" THEN Unlocked(t) ELSE i_mutex
            /\ rep' = [rep EXCEPT ![t] = NULL]
            /\ UNCHANGED <<op, result, truth>>
    IN  \/ /\ o.kind = "walk"
           /\ Return(t, IF v = NEGATIVE THEN "ENOENT" ELSE v, w, asks, truth)
        \/ /\ v = NEGATIVE
           /\ o.kind \in {"stat", "unlink", "rmdir"} \/ first
           /\ Return(t, "ENOENT", w, asks, truth)
        \/ /\ v # NEGATIVE
           /\ o.kind \in Creations
           /\ Return(t, "EEXIST", w, asks, truth)
        \/ /\ \/ o.kind = "unlink" /\ v \in SubDirs
              \/ o.kind = "rmdir" /\ v \in Files
              \/ /\ o.kind = "rename" /\ ~first /\ v # NEGATIVE
                 /\ v = moved[t] \/ (v \in Files <=> moved[t] \in SubDirs)
           /\ Return(t, "EINVAL", w, asks, truth)
        \/ /\ o.kind = "stat" /\ v # NEGATIVE
           /\ goto("getattr", at[t], NULL)
        \/ /\ first /\ v # NEGATIVE
           /\ goto("cached", o.dst, v)
        \/ /\ \/ o.kind \in Creations /\ v = NEGATIVE
              \/ o.kind = "unlink" /\ v \in Files
              \/ o.kind = "rmdir" /\ v \in SubDirs
              \/ /\ o.kind = "rename" /\ ~first
                 /\ \/ v = NEGATIVE
                    \/ v # moved[t] /\ (v \in Files <=> moved[t] \in Files)
           /\ goto("request", at[t], moved[t])

-----------------------------------------------------------------------------
(* Looking a name up.                                                      *)

\* uvfs_lookup_by_name: the server's answer as of this moment.
LookupReplies(e) ==
    {IF ns[e] = NULL THEN Failed("ENOENT") ELSE Reply("OK", ns[e])}
        \cup {Failed(err) : err \in Errors}

\* Mutant: a cached negative dentry is believed.
cached_lookup_negative(t) ==
    LET e == at[t]
    IN  /\ pc[t] = "cached"
        /\ \/ /\ dcache[e] \in Inos
              /\ dentry' = [dentry EXCEPT ![t] = dcache[e]]
              /\ where' = [where EXCEPT ![t] = e]
              /\ asks' = [asks EXCEPT ![t] = e]
              /\ pc' = [pc EXCEPT ![t] = "revalidate"]
              /\ UNCHANGED <<i_mutex, op, at, moved, rep, result, truth>>
           \/ /\ dcache[e] = NEGATIVE
              /\ Found(t, NEGATIVE, [where EXCEPT ![t] = e])
           \/ /\ dcache[e] = UNHASHED
              /\ pc' = [pc EXCEPT ![t] = "missed"]
              /\ UNCHANGED <<dentry, where, asks, i_mutex, op, at, moved, rep,
                             result, truth>>
        /\ UNCHANGED <<srvVars, dcache, i_nlink>>

\* The name is in the cache or it is not.  uvfs_dentry_revalidate drops a
\* negative dentry without asking.
cached_lookup(t) ==
    LET e == at[t]
    IN  /\ pc[t] = "cached"
        /\ \/ /\ dcache[e] \in Inos
              /\ dentry' = [dentry EXCEPT ![t] = dcache[e]]
              /\ where' = [where EXCEPT ![t] = e]
              /\ asks' = [asks EXCEPT ![t] = e]
              /\ pc' = [pc EXCEPT ![t] = "revalidate"]
              /\ UNCHANGED dcache
           \/ /\ dcache[e] \notin Inos
              /\ dcache' = Dropped(e)
              /\ pc' = [pc EXCEPT ![t] = "missed"]
              /\ UNCHANGED <<dentry, where, asks>>
        /\ UNCHANGED <<srvVars, i_nlink, i_mutex, op, at, moved, rep, result,
                       truth>>

\* uvfs_dentry_revalidate reads the parent of the dentry first and then its
\* name.  A d_move in between, or before, changes what it will ask.
Read(t, from, to) ==
    /\ pc[t] = from
    /\ pc' = [pc EXCEPT ![t] = to]
    /\ UNCHANGED <<srvVars, dcache, i_nlink, i_mutex, op, at, dentry, where,
                   asks, moved, rep, result, truth>>

dget_parent(t) == Read(t, "revalidate", "parent")

d_name(t) == Read(t, "parent", "asking")

revalidate_request(t) ==
    /\ pc[t] = "asking"
    /\ \E r \in LookupReplies(asks[t]) : rep' = [rep EXCEPT ![t] = r]
    /\ Heed(t)
    /\ pc' = [pc EXCEPT ![t] = "revalidated"]
    /\ UNCHANGED <<ns, remote, dcache, i_nlink, i_mutex, op, at, dentry, where,
                   asks, moved, result, truth>>

\* Mutant: any answer but an error will do.
StillValid_uncompared(t) ==
    rep[t].err \in {"OK", "ERESTARTSYS"} \/ dentry[t] \in MountPoints

\* The dentry is good: the server has the same handle under the name, or the
\* task was killed and nobody will look, or it is in use as a mount point.
StillValid(t) ==
    \/ rep[t].err = "ERESTARTSYS"
    \/ rep[t].err = "OK" /\ rep[t].ino = dentry[t]
    \/ dentry[t] \in MountPoints

uvfs_dentry_revalidate(t) ==
    /\ pc[t] = "revalidated"
    /\ \/ /\ StillValid(t)
          /\ Found(t, dentry[t], where)
          /\ UNCHANGED dcache
       \/ /\ ~StillValid(t)
          /\ dcache' = Dropped(where[t])
          /\ where' = [where EXCEPT ![t] = NULL]
          /\ asks' = [asks EXCEPT ![t] = NULL]
          /\ pc' = [pc EXCEPT ![t] = "missed"]
          /\ dentry' = [dentry EXCEPT ![t] = NULL]
          /\ rep' = [rep EXCEPT ![t] = NULL]
          /\ UNCHANGED <<i_mutex, op, at, moved, result, truth>>
    /\ UNCHANGED <<srvVars, i_nlink>>

\* real_lookup: under the mutex the cache is looked at once more.
real_lookup(t) ==
    LET e == at[t]
        d == DirOf(e)
    IN  /\ pc[t] = "missed"
        /\ i_mutex[d] \in {NULL, t}
        /\ \/ /\ dcache[e] = UNHASHED
              /\ i_mutex' = [i_mutex EXCEPT ![d] = t]
              /\ pc' = [pc EXCEPT ![t] = "lookup"]
           \/ /\ dcache[e] # UNHASHED
              /\ pc' = [pc EXCEPT ![t] = "cached"]
              /\ UNCHANGED i_mutex
        /\ UNCHANGED <<srvVars, dcache, i_nlink, op, at, dentry, where,
                       asks, moved, rep, result, truth>>

lookup_request(t) ==
    /\ pc[t] = "lookup"
    /\ \E r \in LookupReplies(at[t]) : rep' = [rep EXCEPT ![t] = r]
    /\ Heed(t)
    /\ pc' = [pc EXCEPT ![t] = "looked_up"]
    /\ UNCHANGED <<ns, remote, dcache, i_nlink, i_mutex, op, at, dentry, where,
                   asks, moved, result, truth>>

\* The link counts after uvfs_iget: a new inode, or the one in core
\* refreshed.
uvfs_iget(r) == [i_nlink EXCEPT ![r.ino] = r.nlink]

\* d_splice_alias makes the dentry negative whenever there is no inode to
\* put into it, and its result replaces the error.
uvfs_lookup(t) ==
    LET r == rep[t]
        v == IF r.err = "OK" THEN r.ino ELSE NEGATIVE
    IN  /\ pc[t] = "looked_up"
        /\ dcache' = [dcache EXCEPT ![at[t]] = v]
        /\ i_nlink' = IF r.err = "OK" THEN uvfs_iget(r) ELSE i_nlink
        /\ Found(t, v, Replaced(t, at[t]))
        /\ UNCHANGED srvVars

-----------------------------------------------------------------------------
(* stat: uvfs_revalidate_inode on the inode that was found.                *)

getattr_request(t) ==
    LET i == dentry[t]
    IN  /\ pc[t] = "getattr"
        /\ \E r \in {Reply("OK", i)} \cup {Failed(err) : err \in Errors} \cup
                    {Failed("ENOENT") : x \in {i} \ Linked} :
              rep' = [rep EXCEPT ![t] = r]
        /\ Heed(t)
        /\ pc' = [pc EXCEPT ![t] = "refresh"]
        /\ UNCHANGED <<ns, remote, dcache, i_nlink, i_mutex, op, at, dentry,
                       where, asks, moved, result, truth>>

uvfs_revalidate_inode(t) ==
    /\ pc[t] = "refresh"
    /\ i_nlink' = IF rep[t].err = "OK" THEN uvfs_iget(rep[t]) ELSE i_nlink
    /\ Leave(t, rep[t].err)
    /\ UNCHANGED <<srvVars, dcache>>

-----------------------------------------------------------------------------
(* Changing a directory: the server's part.                                *)

\* What the server makes of its directories, and the reply, for operation o.
Served(o) ==
    LET have == ns[o.src]
        over == ns[o.dst]
        gone == [ns EXCEPT ![o.src] = NULL]
        new(kind) == {<<[ns EXCEPT ![o.src] = i], [err |-> "OK", ino |-> i,
                        nlink |-> IF i \in SubDirs THEN 2 ELSE 1]>> :
                        i \in kind \ Linked}
        same(err) == {<<ns, Failed(err)>>}
    IN  CASE o.kind \in Creations /\ have # NULL -> same("EEXIST")
          [] o.kind \in {"create", "symlink"} /\ have = NULL /\ new(Files) # {} ->
                new(Files)
          [] o.kind = "mkdir" /\ have = NULL /\ new(SubDirs) # {} ->
                new(SubDirs)
          [] o.kind \in {"unlink", "rmdir", "rename"} /\ have = NULL ->
                same("ENOENT")
          [] o.kind = "unlink" /\ have \in Files ->
                {<<gone, Failed("OK")>>}
          [] o.kind = "rmdir" /\ have \in SubDirs ->
                {<<gone, Failed("OK")>>} \cup same("EREMOTE")
          [] o.kind = "rename" /\ have # NULL
             /\ (over = NULL \/ (over \in Files <=> have \in Files)) ->
                {<<[gone EXCEPT ![o.dst] = have], Failed("OK")>>}
          [] OTHER -> same("EINVAL")

\* The request is carried out and answered, or an error takes the place of
\* the answer, whether it was carried out or not.
make_request(t) ==
    /\ pc[t] = "request"
    /\ \E s \in Served(op[t]) :
          \/ /\ ServerHas(s[1])
             /\ rep' = [rep EXCEPT ![t] = s[2]]
          \/ \E err \in Errors \ {"ENOMEM"} :
                /\ \/ ServerHas(s[1])
                   \/ UNCHANGED <<ns, truth>>
                /\ rep' = [rep EXCEPT ![t] = Failed(err)]
    /\ Heed(t)
    /\ pc' = [pc EXCEPT ![t] = "finish"]
    /\ UNCHANGED <<remote, dcache, i_nlink, i_mutex, op, at, dentry, where,
                   asks, moved, result>>

\* uvfs_new_transaction fails: nothing was sent.
no_memory(t) ==
    /\ "ENOMEM" \in Errors
    /\ pc[t] = "request"
    /\ calm' = FALSE
    /\ Leave(t, "ENOMEM")
    /\ UNCHANGED <<ns, remote, dcache, i_nlink>>

-----------------------------------------------------------------------------
(* Changing a directory: the kernel's part, still under the mutex.         *)

Finish(t, kind) == pc[t] = "finish" /\ op[t].kind = kind

\* d_instantiate: the dentry of t, hashed or not, gets inode i.
Instantiated(t, i) ==
    [e \in Entries |-> IF e = where[t] /\ dcache[e] # UNHASHED THEN i
                       ELSE dcache[e]]

\* Mutant: a new directory is not counted in its parent.
Subdirectory_uncounted(links, d) == links

\* The link counts after directory d has gained a subdirectory.
Subdirectory(links, d) == [links EXCEPT ![d] = @ + 1]

\* Mutant: the reply's error is not looked at.
CreateFailed_unchecked(r) == FALSE

CreateFailed(r) == r.err # "OK"

\* The end of the three: an error drops the dentry, and without memory for
\* the inode the dentry stays negative.  links are the link counts after a
\* success.
Created(t, links) ==
    LET r == rep[t]
    IN  /\ \/ /\ CreateFailed(r)
              /\ dcache' = Dropped(where[t])
              /\ Leave(t, r.err)
              /\ UNCHANGED <<i_nlink, calm>>
           \/ /\ ~CreateFailed(r)
              /\ dcache' = Instantiated(t, r.ino)
              /\ i_nlink' = links
              /\ Leave(t, "OK")
              /\ UNCHANGED calm
           \/ /\ ~CreateFailed(r)
              /\ "ENOMEM" \in Errors
              /\ calm' = FALSE
              /\ Leave(t, "ENOMEM")
              /\ UNCHANGED <<dcache, i_nlink>>
        /\ UNCHANGED <<ns, remote>>

uvfs_create(t) == Finish(t, "create") /\ Created(t, uvfs_iget(rep[t]))

uvfs_symlink(t) == Finish(t, "symlink") /\ Created(t, uvfs_iget(rep[t]))

uvfs_mkdir(t) ==
    /\ Finish(t, "mkdir")
    /\ Created(t, Subdirectory(uvfs_iget(rep[t]), DirOf(op[t].src)))

\* Mutant: the dentry is left as it was.
d_delete_missing(t) == {dcache}

\* The VFS's d_delete: the dentry is dropped, or turns negative if nobody
\* else has got hold of it.
d_delete(t) ==
    {Dropped(where[t])} \cup
        IF \E x \in Tasks \ {t} : where[x] = where[t] THEN {}
        ELSE {Instantiated(t, NEGATIVE)}

\* The link counts after inode i has lost its name in directory d.
Unlinked(links, i, d) ==
    IF i \in SubDirs THEN [links EXCEPT ![i] = @ - 2, ![d] = @ - 1]
                     ELSE [links EXCEPT ![i] = @ - 1]

\* The end of uvfs_unlink and uvfs_rmdir, and the VFS's part of a
\* successful one.  err is the error an unsuccessful one returns.
Removed(t, err) ==
    /\ \/ /\ rep[t].err = "OK"
          /\ i_nlink' = Unlinked(i_nlink, dentry[t], DirOf(op[t].src))
          /\ dcache' \in d_delete(t)
          /\ Leave(t, "OK")
       \/ /\ rep[t].err # "OK"
          /\ Leave(t, err)
          /\ UNCHANGED <<dcache, i_nlink>>
    /\ UNCHANGED srvVars

uvfs_unlink(t) == Finish(t, "unlink") /\ Removed(t, rep[t].err)

\* EREMOTE is the server's word for a directory that is not empty.
uvfs_rmdir(t) ==
    /\ Finish(t, "rmdir")
    /\ Removed(t, IF rep[t].err = "EREMOTE" THEN "ENOTEMPTY" ELSE rep[t].err)

\* The VFS's d_move: the dentry of e becomes the one of f, hashed or not, and
\* takes along the tasks that have got hold of it; the one of f leaves the
\* cache.
Moved(t, e, f) == [dcache EXCEPT ![e] = UNHASHED, ![f] = moved[t]]
TakenAlong(e, f) ==
    [x \in Tasks |-> IF where[x] = e THEN f
                     ELSE IF where[x] = f THEN NULL ELSE where[x]]

\* A task whose dentry becomes that of e asks for e, as far as it has not
\* read its parent and name yet.
AsksNow(x, e) ==
    CASE pc[x] = "revalidate" -> e
      [] pc[x] = "parent" -> <<DirOf(asks[x]), NameOf(e)>>
      [] OTHER -> asks[x]

\* The two dentries exchange their parents.  n is the name that the replaced
\* one ends up with: a short one it keeps, a long one they exchange too.
AskedAlong(e, f, n) ==
    [x \in Tasks |-> IF where[x] = e THEN AsksNow(x, f)
                     ELSE IF where[x] = f THEN AsksNow(x, <<DirOf(e), n>>)
                     ELSE asks[x]]

\* Until now the inode was to be found under the name.
SeenUntil(e, f) ==
    [x \in Tasks |-> IF op[x] # NULL /\ where[x] \in {e, f}
                     THEN truth[x] \cup ({dentry[x]} \cap Inos) ELSE truth[x]]

uvfs_rename(t) ==
    LET err == rep[t].err
        e == op[t].src
        f == op[t].dst
        links == IF dentry[t] = NEGATIVE THEN i_nlink
                 ELSE Unlinked(i_nlink, dentry[t], DirOf(f))
    IN  /\ Finish(t, "rename")
        /\ \/ /\ err = "OK"
              /\ i_nlink' = IF moved[t] \in SubDirs
                            THEN [Subdirectory(links, DirOf(f))
                                    EXCEPT ![DirOf(e)] = @ - 1]
                            ELSE links
              /\ dcache' = Moved(t, e, f)
              /\ \E n \in {NameOf(e), NameOf(f)} :
                    Return(t, "OK", TakenAlong(e, f), AskedAlong(e, f, n),
                           SeenUntil(e, f))
           \/ /\ err # "OK"
              /\ Leave(t, err)
              /\ UNCHANGED <<dcache, i_nlink>>
        /\ UNCHANGED srvVars

-----------------------------------------------------------------------------

Step(t) ==
    \/ lock_rename(t)
    \/ cached_lookup(t)
    \/ dget_parent(t)
    \/ d_name(t)
    \/ revalidate_request(t)
    \/ uvfs_dentry_revalidate(t)
    \/ real_lookup(t)
    \/ lookup_request(t)
    \/ uvfs_lookup(t)
    \/ getattr_request(t)
    \/ uvfs_revalidate_inode(t)
    \/ make_request(t)
    \/ no_memory(t)
    \/ uvfs_create(t)
    \/ uvfs_symlink(t)
    \/ uvfs_mkdir(t)
    \/ uvfs_unlink(t)
    \/ uvfs_rmdir(t)
    \/ uvfs_rename(t)

Next ==
    \/ \E e \in Entries, i \in Inos \cup {NULL} : RemoteChange(e, i)
    \/ \E t \in Tasks : Step(t) \/ \E o \in Ops : Call(t, o)

Spec == Init /\ [][Next]_vars

-----------------------------------------------------------------------------
(* What must hold.                                                         *)

Returned(t, kind) == pc[t] = "idle" /\ op[t] # NULL /\ op[t].kind = kind

(* A name a walk finds was there: the server had this very inode under the *)
(* name at some time during the walk, whatever the cache held and whatever *)
(* failed on the way, or the cache had it there until a rename of this     *)
(* machine ended during the walk and gave the dentry another name, which   *)
(* is the one the server was asked about (uvfs_dentry_revalidate,          *)
(* uvfs_lookup, uvfs_rename).  A killed task and a mount point are the two *)
(* exceptions the code makes.                                              *)
FoundIsThere ==
    \A t \in Tasks :
        Returned(t, "walk") /\ result[t] \in Inos \ MountPoints
            => Killed(t) \/ result[t] \in truth[t]

(* A name a walk says does not exist did not exist at some time during the *)
(* walk: no cached negative dentry is believed (uvfs_dentry_revalidate).   *)
(* The exception is a walk whose last lookup failed: uvfs_lookup takes any *)
(* failure for an absence.                                                 *)
MissingIsAbsent ==
    \A t \in Tasks :
        Returned(t, "walk") /\ result[t] = "ENOENT"
            => NoAnswer(t) \/ NULL \in truth[t]

(* As long as only this machine has changed the directories and nothing    *)
(* has failed, the dentry cache agrees with the server about every name it *)
(* holds whenever the mutex of the directory is free: dentries dropped by  *)
(* unlocked revalidations do not confuse uvfs_create, uvfs_unlink or       *)
(* uvfs_rename.                                                            *)
DcacheExact ==
    calm => \A e \in Entries :
        i_mutex[DirOf(e)] = NULL
            => /\ dcache[e] \in Inos => ns[e] = dcache[e]
               /\ dcache[e] = NEGATIVE => ns[e] = NULL

(* The link counts adjusted by hand in uvfs_mkdir, uvfs_unlink, uvfs_rmdir *)
(* and uvfs_rename are the server's, for one task at a time.               *)
NlinkExact ==
    (\A t \in Tasks : pc[t] = "idle")
        => /\ \A d \in Dirs : i_nlink[d] = DirNlink(d)
           /\ \A e \in Entries :
                 dcache[e] \in Inos => i_nlink[dcache[e]] = Nlink(dcache[e])

=============================================================================
