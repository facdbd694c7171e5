----------------------------- MODULE UvfsDirInv -----------------------------
(***************************************************************************)
(* The inductive invariant of UvfsDir: where a task is in which operation, *)
(* whose mutexes it holds, and what the dentry cache may hold meanwhile.   *)
(***************************************************************************)
EXTENDS UvfsDir

Changes == Creations \cup {"unlink", "rmdir", "rename"}

\* In uvfs_dentry_revalidate.
Revalidating == {"revalidate", "parent", "asking", "revalidated"}

\* Task t is where the code holds the mutex of directory d: in a lookup, or
\* from lock_rename to the end of a change.
Holds(t, d) ==
    \/ /\ pc[t] \notin {"idle", "lock"} /\ op[t].kind \in Changes
       /\ d \in {DirOf(op[t].src), DirOf(op[t].dst)}
    \/ pc[t] \in {"lookup", "looked_up"} /\ d = DirOf(at[t])

MutexInv == \A d \in Dirs, t \in Tasks : i_mutex[d] = t <=> Holds(t, d)

\* The program counter tells the operation, and what has been found for it.
PlaceInv(t) ==
    /\ pc[t] = "idle" => op[t] = NULL \/ (op[t] \in Ops /\ op[t].kind = "walk")
    /\ pc[t] # "idle" =>
          /\ op[t] \in Ops /\ at[t] \in {op[t].src, op[t].dst}
          /\ at[t] # op[t].src => moved[t] \in Inos
    /\ pc[t] = "lock" => op[t].kind \in Changes /\ at[t] = op[t].src
    /\ pc[t] \in Revalidating => dentry[t] \in Inos /\ asks[t] \in Entries
    /\ pc[t] = "getattr" => dentry[t] \in Inos
    /\ pc[t] \in {"getattr", "refresh"} => op[t].kind = "stat"
    /\ pc[t] \in {"request", "finish"} =>
          /\ op[t].kind \in Changes /\ at[t] = op[t].dst
          /\ op[t].kind \in {"unlink", "rmdir"} => dentry[t] \in Inos
          /\ op[t].kind = "rename" => dentry[t] \in Inos \cup {NEGATIVE}

\* The reply a task works with.  What it says of the entry of a walk was
\* true since the walk began.
ReplyInv(t) ==
    /\ pc[t] \in {"revalidated", "looked_up"} =>
          /\ rep[t] \in Replies /\ rep[t].err \in {"OK", "ENOENT"} \cup Errors
          /\ rep[t].err = "OK" => rep[t].ino \in Inos
    /\ pc[t] = "revalidated" /\ op[t].kind = "walk" =>
          (rep[t].err = "OK" /\ rep[t].ino = dentry[t] => dentry[t] \in truth[t])
    /\ pc[t] = "looked_up" /\ op[t].kind = "walk" =>
          /\ rep[t].err = "OK" => rep[t].ino \in truth[t]
          /\ rep[t].err = "ENOENT" => NULL \in truth[t]
    /\ pc[t] \in {"refresh", "finish"} =>
          /\ rep[t] \in Replies
          /\ pc[t] = "refresh" \/ op[t].kind \in Creations =>
                (rep[t].err = "OK" => rep[t].ino \in Inos)
    /\ op[t] # NULL => ns[op[t].src] \in truth[t]

\* The dentry that a change has looked up is still the one of its name: it may
\* have been dropped, but nobody has hashed another one there.  A walk asks
\* about its own name, unless the dentry was renamed while the walk had it.
WhereInv(t) ==
    /\ pc[t] \in Revalidating \cup {"request", "finish"} /\ op[t].kind \in Changes =>
          where[t] = at[t]
    /\ pc[t] \in Revalidating /\ op[t].kind = "walk" =>
          asks[t] = at[t] \/ dentry[t] \in truth[t]

\* While nothing has failed, what a task has found under the mutex is what
\* the server has, and after its request what it asked for.
CalmInv(t) ==
    /\ pc[t] \in Revalidating /\ op[t].kind \in Changes =>
          ns[at[t]] = dentry[t]
    /\ pc[t] = "looked_up" =>
          ns[at[t]] = IF rep[t].err = "OK" THEN rep[t].ino ELSE NULL
    /\ pc[t] \notin {"idle", "finish"} /\ at[t] # op[t].src =>
          ns[op[t].src] = moved[t]
    /\ pc[t] = "finish" /\ rep[t].err = "OK" =>
          /\ op[t].kind \in Creations => ns[op[t].src] = rep[t].ino
          /\ op[t].kind \notin Creations => ns[op[t].src] = NULL
          /\ op[t].kind = "rename" => ns[op[t].dst] = moved[t]

\* Task t has changed the entry at the server, and is about to do so in the
\* cache.
Changing(t, e) ==
    /\ pc[t] = "finish" /\ rep[t].err = "OK"
    /\ e \in {op[t].src, op[t].dst}

Agrees(e) ==
    /\ dcache[e] \in Inos => ns[e] = dcache[e]
    /\ dcache[e] = NEGATIVE => ns[e] = NULL

\* FoundIsThere and MissingIsAbsent of one task.
WalkInv(t) ==
    Returned(t, "walk") =>
       /\ result[t] \in Inos \ MountPoints => Killed(t) \/ result[t] \in truth[t]
       /\ result[t] = "ENOENT" => NoAnswer(t) \/ NULL \in truth[t]

DirInv ==
    /\ MutexInv
    /\ \A t \in Tasks : PlaceInv(t) /\ ReplyInv(t) /\ WhereInv(t) /\ WalkInv(t)
    /\ calm => /\ \A t \in Tasks : CalmInv(t)
               /\ \A e \in Entries : Agrees(e) \/ \E t \in Tasks : Changing(t, e)

-----------------------------------------------------------------------------
(* The link counts, for one task at a time.                                *)

OneTask == \A t, u \in Tasks : t = u

\* The server's link counts, were its directories m.
LinkedIn(m) == {m[e] : e \in Entries} \ {NULL}
Full(i) == IF i \in SubDirs THEN 2 ELSE 1
NlinkIn(m, i) == IF i \in LinkedIn(m) THEN Full(i) ELSE 0
SubsIn(m, d) == {n \in Names : m[<<d, n>>] \in SubDirs}

Exact(links, m) ==
    /\ \A i \in Inos : links[i] = NlinkIn(m, i)
    /\ \A d \in Dirs : links[d] = 2 + Cardinality(SubsIn(m, d))

\* There are no hard links, and directories are finite.
Tree(m) ==
    /\ \A e, f \in Entries : m[e] = m[f] /\ m[e] # NULL => e = f
    /\ \A d \in Dirs : IsFiniteSet(SubsIn(m, d))

\* The server has carried out the change of task t, and the link counts have
\* yet to be adjusted.  What the directories were before:
Pending(t) == pc[t] = "finish" /\ rep[t].err = "OK"

Inode(v) == IF v = NEGATIVE THEN NULL ELSE v

Before(t) ==
    LET o == op[t]
    IN  CASE o.kind \in Creations -> [ns EXCEPT ![o.src] = NULL]
          [] o.kind \in {"unlink", "rmdir"} -> [ns EXCEPT ![o.src] = dentry[t]]
          [] o.kind = "rename" -> [ns EXCEPT ![o.dst] = Inode(dentry[t]),
                                             ![o.src] = moved[t]]

\* What a task has found is what the server has, and a reply has the link
\* count that the server has.
CountInv(t) ==
    /\ pc[t] = "request" =>
          /\ ns[at[t]] = Inode(dentry[t])
          /\ op[t].kind = "rename" => dentry[t] # moved[t]
    /\ pc[t] = "looked_up" /\ rep[t].err = "OK" => rep[t].nlink = Full(rep[t].ino)
    /\ pc[t] = "refresh" /\ rep[t].err = "OK" => rep[t].nlink = Nlink(rep[t].ino)
    /\ Pending(t) =>
          /\ op[t].kind \in Creations =>
                /\ rep[t].nlink = Full(rep[t].ino)
                /\ rep[t].ino \in SubDirs <=> op[t].kind = "mkdir"
          /\ op[t].kind \notin Creations => dentry[t] \notin Linked

(* The link counts are those of the server's directories before a change   *)
(* until the operation has finished, and then those after it, as long as   *)
(* no request fails and nobody else changes the directories (uvfs_mkdir,   *)
(* uvfs_unlink, uvfs_rmdir, uvfs_rename, uvfs_refresh_inode).              *)
LinkInv ==
    /\ Tree(ns)
    /\ calm => /\ \A t \in Tasks : CountInv(t) /\ (Pending(t) => Exact(i_nlink, Before(t)))
               /\ (\A t \in Tasks : ~Pending(t)) => Exact(i_nlink, ns)

=============================================================================
