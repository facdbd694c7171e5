---------------------------- MODULE UvfsDirProofs ----------------------------
(***************************************************************************)
(* The safety properties of UvfsDir, for every number of tasks,            *)
(* directories, names, inodes and changes at the server.                   *)
(*                                                                         *)
(* The invariant is TypeOK with DirInv.  MutexInv says which tasks hold    *)
(* which mutex, WhereInv that the dentry a change works with stays the one *)
(* of its name and that a walk asks about another name than its own only   *)
(* when a rename has ended meanwhile, CalmInv that what was looked up      *)
(* under the mutex is still what the server has, and the last part that    *)
(* the cache is right about every name but those a change is just          *)
(* finishing.  DcacheExact alone is not inductive: it says nothing of a    *)
(* directory whose mutex is held.                                          *)
(*                                                                         *)
(* A step of task t is proved in two parts (TaskStep): it keeps what       *)
(* concerns t, and it moves mutexes, entries and dentries only in the ways *)
(* MutexMoves, NsMoves, WhereMoves and AgreeMoves allow, which OtherTask   *)
(* shows to be harmless to every other task.                               *)
(***************************************************************************)
EXTENDS UvfsDirInv, TLAPS

\* The inductive invariant.
Shape == TypeOK /\ DirInv

\* An operation names two entries, the same one unless it is a rename.
LEMMA OpFields ==
    ASSUME NEW o \in Ops
    PROVE  /\ o # NULL /\ o.src \in Entries /\ o.dst \in Entries
           /\ o.kind \in Changes \cup {"walk", "stat"}
           /\ o.kind = "rename" <=> o.src # o.dst
           /\ DirOf(o.src) \in Dirs /\ DirOf(o.dst) \in Dirs
<1>1. o # NULL
  BY DirMarks, Zenon
<1>2. /\ o.src \in Entries /\ o.dst \in Entries /\ o.kind \in Kinds
      /\ o.kind = "rename" <=> o.src # o.dst
  BY Zenon DEF Ops
<1>3. o.kind \in Changes \cup {"walk", "stat"}
  BY <1>2, DirConstants, Zenon DEF Changes, Creations
<1>4. \A e \in Entries : DirOf(e) \in Dirs
  BY DEF Entries, DirOf
<1> QED
  BY <1>1, <1>2, <1>3, <1>4, Zenon

\* The directory of an entry.
LEMMA EntryDir == \A e \in Entries : DirOf(e) \in Dirs
  BY DEF Entries, DirOf

\* What Shape says about one task.
LEMMA Known ==
    ASSUME Shape, NEW t \in Tasks
    PROVE  /\ CacheTypes /\ TaskTypes /\ MutexInv
           /\ PlaceInv(t) /\ ReplyInv(t) /\ WhereInv(t) /\ WalkInv(t)
           /\ calm => CalmInv(t)
           /\ pc[t] # "idle" => /\ op[t] \in Ops /\ at[t] \in Entries
                                /\ DirOf(at[t]) \in Dirs
           /\ op[t] # NULL => op[t] \in Ops
<1>1. /\ CacheTypes /\ TaskTypes /\ MutexInv
      /\ PlaceInv(t) /\ ReplyInv(t) /\ WhereInv(t) /\ WalkInv(t)
      /\ calm => CalmInv(t)
  BY Zenon DEF Shape, TypeOK, DirInv
<1>2. pc[t] # "idle" => op[t] \in Ops /\ at[t] \in {op[t].src, op[t].dst}
  BY <1>1, Zenon DEF PlaceInv
<1>3. pc[t] # "idle" => at[t] \in Entries /\ DirOf(at[t]) \in Dirs
  BY <1>2, OpFields, EntryDir, Zenon
<1>4. op[t] # NULL => op[t] \in Ops
  BY <1>1, Zenon DEF TaskTypes
<1> QED
  BY <1>1, <1>2, <1>3, <1>4, Zenon

\* A change holds the mutexes of its directories, and nobody else does.
LEMMA Held ==
    ASSUME Shape, NEW t \in Tasks
    PROVE  /\ pc[t] \notin {"idle", "lock"} /\ op[t].kind \in Changes =>
                /\ Holds(t, DirOf(op[t].src)) /\ Holds(t, DirOf(op[t].dst))
                /\ Holds(t, DirOf(at[t]))
           /\ pc[t] \in {"lookup", "looked_up"} => Holds(t, DirOf(at[t]))
           /\ \A u \in Tasks \ {t}, d \in Dirs : Holds(t, d) => ~Holds(u, d)
           /\ \A d \in Dirs : Holds(t, d) => i_mutex[d] = t
<1>1. pc[t] # "idle" => at[t] \in {op[t].src, op[t].dst}
  BY Known, Zenon DEF PlaceInv
<1>2. /\ \A u \in Tasks \ {t}, d \in Dirs : Holds(t, d) => ~Holds(u, d)
      /\ \A d \in Dirs : Holds(t, d) => i_mutex[d] = t
  BY Known, Zenon DEF MutexInv
<1>3. /\ pc[t] \notin {"idle", "lock"} /\ op[t].kind \in Changes =>
           /\ Holds(t, DirOf(op[t].src)) /\ Holds(t, DirOf(op[t].dst))
           /\ Holds(t, DirOf(at[t]))
      /\ pc[t] \in {"lookup", "looked_up"} => Holds(t, DirOf(at[t]))
  BY <1>1, Zenon DEF Holds
<1> QED
  BY <1>2, <1>3, Zenon

-----------------------------------------------------------------------------
(* The ways in which a step of task t may touch what the others rely on.   *)

\* The state of the other tasks, apart from their dentries, stays.
Others(t) ==
    \A u \in Tasks \ {t} :
       /\ pc'[u] = pc[u] /\ op'[u] = op[u] /\ at'[u] = at[u] /\ rep'[u] = rep[u]
       /\ dentry'[u] = dentry[u] /\ moved'[u] = moved[u] /\ result'[u] = result[u]

\* A mutex is taken when it is free, and kept or dropped by its holder.
MutexMoves(t) ==
    \A d \in Dirs :
       \/ i_mutex'[d] = i_mutex[d] /\ (Holds(t, d)' <=> Holds(t, d))
       \/ i_mutex'[d] = t /\ i_mutex[d] \in {NULL, t} /\ Holds(t, d)'
       \/ i_mutex'[d] = NULL /\ i_mutex[d] = t /\ ~Holds(t, d)'

\* What the server has, or had, for the entry of a walk only grows.
TruthMoves(t) ==
    \A u \in Tasks \ {t} :
       op[u] # NULL => truth[u] \subseteq truth'[u] /\ ns'[op[u].src] \in truth'[u]

\* The server's entries change under the mutex.
NsMoves(t) == \A e \in Entries : ns'[e] = ns[e] \/ Holds(t, DirOf(e))

\* To hash another dentry, or to move one, takes the mutex of its directory.
\* Only a rename changes what others ask, and then the truth takes note.
WhereMoves(t) ==
    \A u \in Tasks \ {t} :
       /\ \/ where'[u] = where[u]
          \/ where[u] \in Entries /\ Holds(t, DirOf(where[u]))
       /\ \/ asks'[u] = asks[u]
          \/ /\ asks'[u] \in Entries
             /\ op[u] # NULL /\ dentry[u] \in Inos => dentry[u] \in truth'[u]

\* An entry the cache disagrees about is one that t is in the middle of
\* changing.
AgreeMoves(t) ==
    \A e \in Entries :
       \/ Agrees(e)'
       \/ Changing(t, e)'
       \/ /\ ns'[e] = ns[e] /\ dcache'[e] \in {dcache[e], UNHASHED}
          /\ ~Changing(t, e)

\* The dentry that another change has looked up stays the one of its name, and
\* another walk asks about its own name, or its dentry has been renamed.
LEMMA OtherWhere ==
    ASSUME Shape, NEW t \in Tasks, Others(t), TruthMoves(t), WhereMoves(t),
           NEW u \in Tasks \ {t}
    PROVE  WhereInv(u)'
<1>1. /\ pc'[u] = pc[u] /\ op'[u] = op[u] /\ at'[u] = at[u] /\ dentry'[u] = dentry[u]
      /\ WhereInv(u) /\ PlaceInv(u)
  BY Known, Zenon DEF Others
<1>2. ASSUME pc[u] \in Revalidating \cup {"request", "finish"}, op[u].kind \in Changes
      PROVE  where'[u] = at[u]
  <2>1. where[u] = at[u] /\ pc[u] \notin {"idle", "lock"} /\ at[u] \in Entries
    BY <1>1, <1>2, Known, Zenon DEF WhereInv, Revalidating
  <2>2. ~Holds(t, DirOf(at[u]))
    BY <1>2, <2>1, Known, Held, Zenon
  <2> QED
    BY <2>1, <2>2, Zenon DEF WhereMoves
<1>3. ASSUME pc[u] \in Revalidating, op[u].kind = "walk"
      PROVE  asks'[u] = at[u] \/ dentry[u] \in truth'[u]
  <2>1. op[u] # NULL /\ dentry[u] \in Inos
    BY <1>1, <1>3, Known, OpFields, Zenon DEF PlaceInv, Revalidating
  <2> QED
    BY <1>1, <1>3, <2>1, Zenon DEF WhereMoves, TruthMoves, WhereInv
<1> QED
  BY <1>1, <1>2, <1>3, Zenon DEF WhereInv

\* What another task has found under its mutex stays what the server has.
LEMMA OtherCalm ==
    ASSUME Shape, calm, NEW t \in Tasks, Others(t), NsMoves(t), NEW u \in Tasks \ {t}
    PROVE  CalmInv(u)'
<1>1. CalmInv(u) /\ (pc[u] # "idle" => op[u] \in Ops /\ at[u] \in Entries)
  BY Known, Zenon
<1>2. /\ pc'[u] = pc[u] /\ op'[u] = op[u] /\ at'[u] = at[u] /\ rep'[u] = rep[u]
      /\ dentry'[u] = dentry[u] /\ moved'[u] = moved[u]
  BY Zenon DEF Others
<1>3. pc[u] \in {"lookup", "looked_up"} => ns'[at[u]] = ns[at[u]]
  BY <1>1, Known, Held, Zenon DEF NsMoves
<1>4. pc[u] \notin {"idle", "lock"} /\ op[u].kind \in Changes =>
         /\ ns'[at[u]] = ns[at[u]] /\ ns'[op[u].src] = ns[op[u].src]
         /\ ns'[op[u].dst] = ns[op[u].dst]
  <2> SUFFICES ASSUME pc[u] \notin {"idle", "lock"}, op[u].kind \in Changes
               PROVE  /\ ns'[at[u]] = ns[at[u]] /\ ns'[op[u].src] = ns[op[u].src]
                      /\ ns'[op[u].dst] = ns[op[u].dst]
    BY Zenon
  <2>1. op[u].src \in Entries /\ op[u].dst \in Entries /\ at[u] \in Entries
    BY <1>1, OpFields, Zenon
  <2>2. /\ Holds(u, DirOf(op[u].src)) /\ Holds(u, DirOf(op[u].dst))
        /\ Holds(u, DirOf(at[u]))
    BY Held, Zenon
  <2>3. /\ ~Holds(t, DirOf(op[u].src)) /\ ~Holds(t, DirOf(op[u].dst))
        /\ ~Holds(t, DirOf(at[u]))
    BY <2>1, <2>2, Held, EntryDir, Zenon
  <2> QED
    BY <2>1, <2>3, Zenon DEF NsMoves
<1>5. pc[u] # "idle" /\ at[u] # op[u].src => pc[u] # "lock" /\ op[u].kind \in Changes
  <2>1. pc[u] # "idle" => /\ at[u] \in {op[u].src, op[u].dst}
                          /\ pc[u] = "lock" => at[u] = op[u].src
    BY Known, Zenon DEF PlaceInv
  <2> QED
    BY <1>1, <2>1, OpFields, Zenon DEF Changes
<1>6. pc[u] = "finish" => op[u].kind \in Changes
  BY Known, Zenon DEF PlaceInv
<1>7. /\ pc[u] \in Revalidating /\ op[u].kind \in Changes =>
            ns'[at[u]] = dentry[u]
      /\ pc[u] = "looked_up" =>
            ns'[at[u]] = IF rep[u].err = "OK" THEN rep[u].ino ELSE NULL
  BY <1>1, <1>3, <1>4, Zenon DEF CalmInv, Revalidating
<1>8. pc[u] \notin {"idle", "finish"} /\ at[u] # op[u].src => ns'[op[u].src] = moved[u]
  BY <1>1, <1>4, <1>5, Zenon DEF CalmInv
<1>9. pc[u] = "finish" /\ rep[u].err = "OK" =>
          /\ op[u].kind \in Creations => ns'[op[u].src] = rep[u].ino
          /\ op[u].kind \notin Creations => ns'[op[u].src] = NULL
          /\ op[u].kind = "rename" => ns'[op[u].dst] = moved[u]
  BY <1>1, <1>4, <1>6, Zenon DEF CalmInv
<1> QED
  BY <1>2, <1>7, <1>8, <1>9, Zenon DEF CalmInv

\* The invariant of every other task survives a step of t.
LEMMA OtherTask ==
    ASSUME Shape, NEW t \in Tasks, Others(t), TruthMoves(t), WhereMoves(t),
           NEW u \in Tasks \ {t}
    PROVE  PlaceInv(u)' /\ ReplyInv(u)' /\ WalkInv(u)'
<1>1. /\ pc'[u] = pc[u] /\ op'[u] = op[u] /\ at'[u] = at[u] /\ rep'[u] = rep[u]
      /\ dentry'[u] = dentry[u] /\ moved'[u] = moved[u] /\ result'[u] = result[u]
  BY Zenon DEF Others
<1>2. op[u] # NULL => truth[u] \subseteq truth'[u] /\ ns'[op[u].src] \in truth'[u]
  BY Zenon DEF TruthMoves
<1>3. PlaceInv(u)'
  <2>1. asks[u] \in Entries => asks'[u] \in Entries
    BY Zenon DEF WhereMoves
  <2> QED
    BY <1>1, <2>1, Known, Zenon DEF PlaceInv
<1>4. pc[u] # "idle" => op[u] # NULL
  BY Known, OpFields, Zenon
<1>5. ReplyInv(u)'
  BY <1>1, <1>2, <1>4, Known, Zenon DEF ReplyInv
<1>6. WalkInv(u)'
  BY <1>1, <1>2, Known, Zenon DEF WalkInv, Returned, Killed, NoAnswer
<1> QED
  BY <1>3, <1>5, <1>6, Zenon

\* A step of task t keeps the invariant when it keeps what concerns t and
\* touches the rest in one of these ways.
LEMMA TaskStep ==
    ASSUME Shape, NEW t \in Tasks, CacheTypes', TaskTypes', Others(t),
           MutexMoves(t), TruthMoves(t), WhereMoves(t), NsMoves(t),
           PlaceInv(t)', ReplyInv(t)', WhereInv(t)', WalkInv(t)',
           calm' => calm /\ CalmInv(t)' /\ AgreeMoves(t)
    PROVE  Shape'
<1>1. MutexInv'
  <2>1. ASSUME NEW u \in Tasks \ {t}, NEW d \in Dirs
        PROVE  i_mutex'[d] = u <=> Holds(u, d)'
    <3>1. Holds(u, d)' <=> Holds(u, d)
      BY <2>1, Zenon DEF Holds, Others
    <3>2. i_mutex[d] = u <=> Holds(u, d)
      BY <2>1, Known, Zenon DEF MutexInv
    <3>3. u # NULL /\ u # t
      BY <2>1, DirMarks, Zenon
    <3>4. \/ i_mutex'[d] = i_mutex[d]
          \/ i_mutex'[d] = t /\ i_mutex[d] \in {NULL, t}
          \/ i_mutex'[d] = NULL /\ i_mutex[d] = t
      BY <2>1, Zenon DEF MutexMoves
    <3> QED
      BY <3>1, <3>2, <3>3, <3>4, Zenon
  <2>2. ASSUME NEW d \in Dirs PROVE i_mutex'[d] = t <=> Holds(t, d)'
    BY <2>2, DirMarks, Known, Zenon DEF MutexMoves, MutexInv
  <2> QED
    BY <2>1, <2>2, Zenon DEF MutexInv
<1>2. \A u \in Tasks : PlaceInv(u)' /\ ReplyInv(u)' /\ WhereInv(u)' /\ WalkInv(u)'
  BY OtherTask, OtherWhere, Zenon
<1>3. calm' => \A u \in Tasks : CalmInv(u)'
  BY OtherCalm, Zenon
<1>4. ASSUME calm', NEW e \in Entries
      PROVE  Agrees(e)' \/ \E u \in Tasks : Changing(u, e)'
  <2>1. \A u \in Tasks \ {t} : Changing(u, e) => Changing(u, e)'
    BY Zenon DEF Changing, Others
  <2>2. Agrees(e) \/ \E u \in Tasks : Changing(u, e)
    BY <1>4, Zenon DEF Shape, DirInv
  <2>3. ns'[e] = ns[e] /\ dcache'[e] \in {dcache[e], UNHASHED} /\ Agrees(e) => Agrees(e)'
    BY DirMarks DEF Agrees, UNHASHED, NEGATIVE
  <2> QED
    BY <1>4, <2>1, <2>2, <2>3, Zenon DEF AgreeMoves
<1> QED
  BY <1>1, <1>2, <1>3, <1>4, Zenon DEF Shape, TypeOK, DirInv
-----------------------------------------------------------------------------
(* The two ways out of a lookup: the call ends, or goes on.                *)

\* WhereMoves of a step after which the dentries of the others are where w
\* says, they ask for what q says, and the truth is h.
WhereGoes(t, w, q, h) ==
    \A u \in Tasks \ {t} :
       /\ \/ w[u] = where[u]
          \/ where[u] \in Entries /\ Holds(t, DirOf(where[u]))
       /\ \/ q[u] = asks[u]
          \/ /\ q[u] \in Entries
             /\ op[u] # NULL /\ dentry[u] \in Inos => dentry[u] \in h[u]
       /\ truth[u] \subseteq h[u]

\* The end of a call.
LEMMA Returns ==
    ASSUME Shape, NEW t \in Tasks, pc[t] # "idle", NEW r \in Results,
           NEW w \in [Tasks -> Entries \cup {NULL}],
           NEW q \in [Tasks -> Entries \cup {NULL}],
           NEW h \in [Tasks -> SUBSET (Inos \cup {NULL})],
           Return(t, r, w, q, h), WhereGoes(t, w, q, h), truth[t] \subseteq h[t], ns' = ns
    PROVE  /\ TaskTypes' /\ Others(t) /\ MutexMoves(t) /\ TruthMoves(t) /\ NsMoves(t)
           /\ PlaceInv(t)' /\ ReplyInv(t)' /\ WhereInv(t)' /\ CalmInv(t)'
           /\ WhereMoves(t)
           /\ i_mutex' \in [Dirs -> Tasks \cup {NULL}]
           /\ \A e : ~Changing(t, e)'
           /\ op[t].kind # "walk" => WalkInv(t)'
           /\ op[t].kind = "walk" =>
                 /\ op'[t] = op[t] /\ truth[t] \subseteq truth'[t] /\ result'[t] = r
                 /\ NoAnswer(t) => rep'[t] = rep[t]
<1>1. TaskTypes /\ CacheTypes /\ op[t] \in Ops /\ op[t] # NULL
  BY Known, OpFields, Zenon
<1>2. /\ pc'[t] = "idle" /\ result'[t] = r
      /\ op'[t] = IF op[t].kind = "walk" THEN op[t] ELSE NULL
      /\ truth'[t] = IF op[t].kind = "walk" THEN h[t] ELSE {}
      /\ rep'[t] = IF op[t].kind = "walk" /\ NoAnswer(t) THEN rep[t] ELSE NULL
      /\ i_mutex' = Unlocked(t)
  BY <1>1, Zenon DEF Return, TaskTypes
<1>3. /\ Others(t)
      /\ \A u \in Tasks \ {t} : where'[u] = w[u] /\ asks'[u] = q[u] /\ truth'[u] = h[u]
  BY <1>1, Zenon DEF Return, TaskTypes, Others
<1>4. TaskTypes'
  <2>1. /\ pc' \in [Tasks -> PCs] /\ at' \in [Tasks -> Entries \cup {NULL}]
        /\ dentry' \in [Tasks -> Inos \cup {NEGATIVE, NULL}]
        /\ moved' \in [Tasks -> Inos \cup {NULL}]
    BY <1>1, Zenon DEF Return, TaskTypes, PCs
  <2>2. /\ result' \in [Tasks -> Results] /\ where' \in [Tasks -> Entries \cup {NULL}]
        /\ asks' \in [Tasks -> Entries \cup {NULL}]
    BY <1>1, Zenon DEF Return, TaskTypes
  <2>3. /\ op' \in [Tasks -> Ops \cup {NULL}] /\ rep' \in [Tasks -> Replies \cup {NULL}]
    BY <1>1, Zenon DEF Return, TaskTypes
  <2>4. truth' \in [Tasks -> SUBSET (Inos \cup {NULL})]
    BY <1>1, Zenon DEF Return, TaskTypes
  <2> QED
    BY <2>1, <2>2, <2>3, <2>4, Zenon DEF TaskTypes
<1>5. \A d : ~Holds(t, d)'
  BY <1>2, Zenon DEF Holds
<1>6. MutexMoves(t)
  <2>1. ASSUME NEW d \in Dirs
        PROVE  /\ i_mutex[d] = t <=> Holds(t, d)
               /\ i_mutex'[d] = IF i_mutex[d] = t THEN NULL ELSE i_mutex[d]
    BY <1>2, <2>1, Known, Zenon DEF MutexInv, Unlocked
  <2> QED
    BY <1>5, <2>1, Zenon DEF MutexMoves
<1>7. i_mutex' \in [Dirs -> Tasks \cup {NULL}]
  BY <1>1, <1>2, Zenon DEF CacheTypes, Unlocked
<1>8. TruthMoves(t) /\ NsMoves(t)
  <2>1. \A u \in Tasks : op[u] # NULL => ns[op[u].src] \in truth[u]
    BY Known, Zenon DEF ReplyInv
  <2> QED
    BY <1>3, <2>1, Zenon DEF TruthMoves, NsMoves, WhereGoes
<1>9. PlaceInv(t)' /\ WhereInv(t)' /\ CalmInv(t)' /\ \A e : ~Changing(t, e)'
  BY <1>1, <1>2, Zenon DEF PlaceInv, WhereInv, CalmInv, Changing, Revalidating
<1>10. ReplyInv(t)'
  BY <1>1, <1>2, Known, Zenon DEF ReplyInv
<1>11. op[t].kind # "walk" => WalkInv(t)'
  BY <1>2, Zenon DEF WalkInv, Returned
<1>12. WhereMoves(t)
  BY <1>3, Zenon DEF WhereMoves, WhereGoes
<1> QED
  BY <1>2, <1>3, <1>4, <1>6, <1>7, <1>8, <1>9, <1>10, <1>11, <1>12, Zenon

\* Found goes on with the dentry of v.
Went(t, v, w, l, e, m) ==
    /\ pc' = [pc EXCEPT ![t] = l]
    /\ at' = [at EXCEPT ![t] = e]
    /\ moved' = [moved EXCEPT ![t] = m]
    /\ dentry' = [dentry EXCEPT ![t] = v]
    /\ where' = w
    /\ asks' = [asks EXCEPT ![t] = NULL]
    /\ i_mutex' = IF op[t].kind = "stat" THEN Unlocked(t) ELSE i_mutex
    /\ rep' = [rep EXCEPT ![t] = NULL]
    /\ UNCHANGED <<op, result, truth>>

\* The call goes on: to the second name of a rename, to the getattr of a
\* stat, or to the request of a change.
LEMMA Goes ==
    ASSUME Shape, NEW t \in Tasks, pc[t] \in {"revalidated", "looked_up"},
           NEW v \in Inos \cup {NEGATIVE}, NEW w \in [Tasks -> Entries \cup {NULL}],
           NEW l \in {"getattr", "cached", "request"}, NEW e \in Entries,
           NEW m \in Inos \cup {NULL}, Went(t, v, w, l, e, m), ns' = ns,
           l = "getattr" <=> op[t].kind = "stat",
           op[t].kind \in Changes \cup {"stat"}
    PROVE  /\ TaskTypes' /\ Others(t) /\ MutexMoves(t) /\ TruthMoves(t) /\ NsMoves(t)
           /\ ReplyInv(t)' /\ WalkInv(t)'
           /\ \A u \in Tasks \ {t} : where'[u] = w[u] /\ asks'[u] = asks[u]
           /\ i_mutex' \in [Dirs -> Tasks \cup {NULL}]
           /\ \A x : ~Changing(t, x)'
           /\ pc'[t] = l /\ at'[t] = e /\ moved'[t] = m /\ dentry'[t] = v
           /\ where'[t] = w[t] /\ op'[t] = op[t]
<1>1. TaskTypes /\ CacheTypes /\ op[t] \in Ops /\ op[t] # NULL
  BY Known, OpFields, Zenon
<1>2. /\ pc'[t] = l /\ at'[t] = e /\ moved'[t] = m /\ dentry'[t] = v
      /\ where'[t] = w[t] /\ op'[t] = op[t] /\ truth' = truth
  BY <1>1, Zenon DEF Went, TaskTypes
<1>3. Others(t) /\ \A u \in Tasks \ {t} : where'[u] = w[u] /\ asks'[u] = asks[u]
  BY <1>1, Zenon DEF Went, TaskTypes, Others
<1>4. TaskTypes'
  <2>1. /\ pc' \in [Tasks -> PCs] /\ at' \in [Tasks -> Entries \cup {NULL}]
    BY <1>1, Zenon DEF Went, TaskTypes, PCs
  <2>2. /\ dentry' \in [Tasks -> Inos \cup {NEGATIVE, NULL}]
        /\ moved' \in [Tasks -> Inos \cup {NULL}]
        /\ asks' \in [Tasks -> Entries \cup {NULL}]
        /\ rep' \in [Tasks -> Replies \cup {NULL}]
    BY <1>1, Zenon DEF Went, TaskTypes
  <2> QED
    BY <1>1, <2>1, <2>2, Zenon DEF Went, TaskTypes
<1>5. ReplyInv(t)' /\ WalkInv(t)' /\ \A x : ~Changing(t, x)'
  BY <1>2, Known, Zenon DEF ReplyInv, WalkInv, Returned, Changing
<1>6. TruthMoves(t) /\ NsMoves(t)
  <2>1. \A u \in Tasks : op[u] # NULL => ns[op[u].src] \in truth[u]
    BY Known, Zenon DEF ReplyInv
  <2> QED
    BY <1>2, <2>1, Zenon DEF TruthMoves, NsMoves
<1>7. ASSUME NEW d \in Dirs
      PROVE  /\ i_mutex[d] = t <=> Holds(t, d)
             /\ op[t].kind = "stat" => ~Holds(t, d)'
             /\ op[t].kind # "stat" => (Holds(t, d)' <=> Holds(t, d))
  <2>1. i_mutex[d] = t <=> Holds(t, d)
    BY <1>7, Known, Zenon DEF MutexInv
  <2>2. op[t].kind = "stat" => ~Holds(t, d)'
    BY <1>2, Zenon DEF Holds, Changes, Creations
  <2>3. op[t].kind # "stat" => (Holds(t, d)' <=> Holds(t, d))
    <3>1. at[t] \in {op[t].src, op[t].dst}
      BY Known, Zenon DEF PlaceInv
    <3> QED
      BY <1>2, <3>1, Zenon DEF Holds
  <2> QED
    BY <2>1, <2>2, <2>3, Zenon
<1>8. MutexMoves(t) /\ i_mutex' \in [Dirs -> Tasks \cup {NULL}]
  <2>1. CASE op[t].kind = "stat"
    <3>1. i_mutex' = Unlocked(t)
      BY <2>1, Zenon DEF Went
    <3> QED
      BY <1>1, <1>7, <2>1, <3>1, Zenon DEF MutexMoves, Unlocked, CacheTypes
  <2>2. CASE op[t].kind # "stat"
    BY <1>1, <1>7, <2>2, Zenon DEF Went, MutexMoves, CacheTypes
  <2> QED
    BY <2>1, <2>2, Zenon
<1> QED
  BY <1>2, <1>3, <1>4, <1>5, <1>6, <1>8, Zenon

\* The dentry of v was found, revalidated where it is or hashed by a lookup.
LEMMA FoundStep ==
    ASSUME Shape, NEW t \in Tasks, NEW v \in Inos \cup {NEGATIVE},
           NEW w \in [Tasks -> Entries \cup {NULL}], Found(t, v, w),
           UNCHANGED <<ns, remote, calm>>, i_nlink' \in [Inos \cup Dirs -> Int],
           \/ pc[t] = "revalidated" /\ dcache' = dcache /\ w = where
           \/ /\ pc[t] = "looked_up" /\ dcache' = [dcache EXCEPT ![at[t]] = v]
              /\ w = Replaced(t, at[t]),
           calm => /\ op[t].kind \in Changes \/ pc[t] = "looked_up" =>
                        (v \in Inos => ns[at[t]] = v)
                   /\ v = NEGATIVE => ns[at[t]] = NULL,
           op[t].kind = "walk" =>
              /\ v \in Inos \ MountPoints =>
                    (rep[t].err = "ERESTARTSYS" /\ NoAnswer(t)) \/ v \in truth[t]
              /\ v = NEGATIVE => NoAnswer(t) \/ NULL \in truth[t]
    PROVE  Shape'
<1>1. /\ TaskTypes /\ CacheTypes /\ PlaceInv(t) /\ WhereInv(t) /\ (calm => CalmInv(t))
      /\ op[t] \in Ops /\ op[t] # NULL /\ at[t] \in Entries
      /\ pc[t] \in {"revalidated", "looked_up"}
  BY Known, OpFields, Zenon
<1>2. /\ op[t].kind \in Changes \cup {"walk", "stat"}
      /\ op[t].kind = "rename" <=> op[t].src # op[t].dst
      /\ op[t].dst \in Entries
      /\ at[t] \in {op[t].src, op[t].dst} /\ moved[t] \in Inos \cup {NULL}
      /\ at[t] # op[t].src => moved[t] \in Inos
  BY <1>1, OpFields, Zenon DEF PlaceInv, TaskTypes
<1>3. /\ dcache' \in [Entries -> Inos \cup {UNHASHED, NEGATIVE}]
      /\ \A e \in Entries : dcache'[e] = IF e = at[t] /\ pc[t] = "looked_up"
                                         THEN v ELSE dcache[e]
      /\ \A u \in Tasks \ {t} : w[u] = where[u] \/ (pc[t] = "looked_up" /\ where[u] = at[t])
      /\ pc[t] = "looked_up" => w[t] = at[t]
  <2>1. CASE pc[t] = "revalidated" /\ dcache' = dcache /\ w = where
    BY <1>1, <2>1, Zenon DEF CacheTypes
  <2>2. CASE /\ pc[t] = "looked_up" /\ dcache' = [dcache EXCEPT ![at[t]] = v]
             /\ w = Replaced(t, at[t])
    <3>1. /\ \A u \in Tasks \ {t} : w[u] = where[u] \/ where[u] = at[t]
          /\ w[t] = at[t]
      BY <2>2, Zenon DEF Replaced
    <3>2. /\ dcache' \in [Entries -> Inos \cup {UNHASHED, NEGATIVE}]
          /\ \A e \in Entries : dcache'[e] = IF e = at[t] THEN v ELSE dcache[e]
      BY <1>1, <2>2, SMTT(30) DEF CacheTypes
    <3> QED
      BY <2>2, <3>1, <3>2, Zenon
  <2> QED
    BY <2>1, <2>2, Zenon
<1>4. WhereGoes(t, w, asks, truth)
  BY <1>1, <1>3, Held, Zenon DEF WhereGoes
<1>5. ASSUME i_mutex' \in [Dirs -> Tasks \cup {NULL}] PROVE CacheTypes'
  BY <1>1, <1>3, <1>5, Zenon DEF CacheTypes
<1>6. ASSUME calm PROVE AgreeMoves(t)
  <2>1. ASSUME NEW e \in Entries
        PROVE  \/ Agrees(e)'
               \/ /\ ns'[e] = ns[e] /\ dcache'[e] \in {dcache[e], UNHASHED}
                  /\ ~Changing(t, e)
    <3>1. CASE e = at[t] /\ pc[t] = "looked_up"
      <4>1. dcache'[e] = v /\ ns'[e] = ns[at[t]]
        BY <1>3, <2>1, <3>1, Zenon
      <4>2. /\ v \in Inos => ns'[e] = v /\ v # NEGATIVE
            /\ v = NEGATIVE => ns'[e] = NULL /\ v \notin Inos
        BY <1>6, <3>1, <4>1, DirMarks, Zenon
      <4> QED
        BY <4>1, <4>2, Zenon DEF Agrees
    <3>2. CASE ~(e = at[t] /\ pc[t] = "looked_up")
      BY <1>1, <1>3, <2>1, <3>2, Zenon DEF Changing
    <3> QED
      BY <3>1, <3>2, Zenon
  <2> QED
    BY <2>1, Zenon DEF AgreeMoves
<1>7. ASSUME NEW r \in Results, Return(t, r, w, asks, truth), op[t].kind = "walk" =>
                r = IF v = NEGATIVE THEN "ENOENT" ELSE v
      PROVE  Shape'
  <2>1. /\ TaskTypes' /\ Others(t) /\ MutexMoves(t) /\ TruthMoves(t) /\ NsMoves(t)
        /\ PlaceInv(t)' /\ ReplyInv(t)' /\ WhereInv(t)' /\ CalmInv(t)'
        /\ WhereMoves(t)
        /\ i_mutex' \in [Dirs -> Tasks \cup {NULL}]
        /\ op[t].kind # "walk" => WalkInv(t)'
        /\ op[t].kind = "walk" =>
              /\ op'[t] = op[t] /\ truth[t] \subseteq truth'[t] /\ result'[t] = r
              /\ NoAnswer(t) => rep'[t] = rep[t]
    <3>1. /\ asks \in [Tasks -> Entries \cup {NULL}]
          /\ truth \in [Tasks -> SUBSET (Inos \cup {NULL})] /\ truth[t] \subseteq truth[t]
          /\ pc[t] # "idle" /\ ns' = ns
      BY <1>1, Zenon DEF TaskTypes
    <3> QED
      BY <1>4, <1>7, <3>1, Returns, Zenon
  <2>2. ASSUME op[t].kind = "walk" PROVE WalkInv(t)'
    <3>1. /\ v # NEGATIVE => v \in Inos /\ result'[t] = v /\ v # "ENOENT"
          /\ v = NEGATIVE => result'[t] = "ENOENT" /\ "ENOENT" \notin Inos
      BY <1>7, <2>1, <2>2, DirMarks, Zenon
    <3>2. /\ NoAnswer(t) => NoAnswer(t)'
          /\ NoAnswer(t) /\ rep[t].err = "ERESTARTSYS" => Killed(t)'
      BY <2>1, <2>2, Zenon DEF NoAnswer, Killed
    <3>3. result'[t] \in Inos \ MountPoints => Killed(t)' \/ result'[t] \in truth'[t]
      BY <2>1, <2>2, <3>1, <3>2, Zenon
    <3>4. result'[t] = "ENOENT" => NoAnswer(t)' \/ NULL \in truth'[t]
      BY <2>1, <2>2, <3>1, <3>2, Zenon
    <3> QED
      BY <3>3, <3>4, Zenon DEF WalkInv
  <2>3. CacheTypes' /\ WalkInv(t)'
    BY <1>5, <2>1, <2>2, Zenon
  <2> QED
    BY <1>6, <2>1, <2>3, TaskStep, Zenon
<1>8. ASSUME NEW l \in {"getattr", "cached", "request"}, NEW e \in Entries,
             NEW m \in Inos \cup {NULL}, Went(t, v, w, l, e, m),
             l = "getattr" => op[t].kind = "stat" /\ v \in Inos /\ e = at[t],
             l = "cached" => /\ op[t].kind = "rename" /\ at[t] = op[t].src /\ v \in Inos
                             /\ e = op[t].dst /\ m = v,
             l = "request" =>
                /\ op[t].kind \in Changes /\ e = at[t] /\ m = moved[t]
                /\ op[t].kind \in {"unlink", "rmdir"} => v \in Inos
                /\ op[t].kind = "rename" => at[t] # op[t].src
      PROVE  Shape'
  <2>0. (l = "getattr" <=> op[t].kind = "stat") /\ op[t].kind \in Changes \cup {"stat"}
    BY <1>8, Zenon DEF Changes, Creations
  <2>1. /\ TaskTypes' /\ Others(t) /\ MutexMoves(t) /\ TruthMoves(t) /\ NsMoves(t)
        /\ ReplyInv(t)' /\ WalkInv(t)'
        /\ \A u \in Tasks \ {t} : where'[u] = w[u] /\ asks'[u] = asks[u]
        /\ i_mutex' \in [Dirs -> Tasks \cup {NULL}]
        /\ pc'[t] = l /\ at'[t] = e /\ moved'[t] = m /\ dentry'[t] = v
        /\ where'[t] = w[t] /\ op'[t] = op[t]
    BY <1>1, <1>8, <2>0, Goes, SMTT(30)
  <2>2. PlaceInv(t)'
    <3>1. CASE l = "getattr"
      BY <1>1, <1>2, <1>8, <2>1, <3>1, Zenon DEF PlaceInv, Revalidating
    <3>2. CASE l = "cached"
      BY <1>1, <1>2, <1>8, <2>1, <3>2, Zenon DEF PlaceInv, Revalidating
    <3>3. CASE l = "request"
      BY <1>1, <1>2, <1>8, <2>1, <3>3, Zenon DEF PlaceInv, Revalidating
    <3> QED
      BY <1>8, <3>1, <3>2, <3>3, Zenon
  <2>3. WhereInv(t)'
    <3> SUFFICES ASSUME l = "request"
                 PROVE  w[t] = at[t]
      BY <1>8, <2>1, Zenon DEF WhereInv, Revalidating
    <3>1. CASE pc[t] = "looked_up"
      BY <1>1, <1>3, <3>1, Zenon
    <3>2. CASE pc[t] = "revalidated" /\ dcache' = dcache /\ w = where
      BY <1>1, <1>8, <3>2, Zenon DEF WhereInv, Revalidating
    <3> QED
      BY <3>1, <3>2, Zenon
  <2>4. ASSUME calm PROVE CalmInv(t)'
    <3>1. ns' = ns
      OBVIOUS
    <3>2. e # op[t].src => ns[op[t].src] = m
      <4>1. CASE l = "getattr"
        BY <1>2, <1>8, <4>1, Zenon
      <4>2. CASE l = "cached"
        BY <1>8, <2>4, <4>2, Zenon DEF Changes
      <4>3. CASE l = "request"
        BY <1>1, <1>8, <2>4, <4>3, Zenon DEF CalmInv
      <4> QED
        BY <1>8, <4>1, <4>2, <4>3, Zenon
    <3> QED
      BY <1>8, <2>1, <3>1, <3>2, Zenon DEF CalmInv, Revalidating
  <2>5. CacheTypes' /\ WhereMoves(t)
    BY <1>4, <1>5, <2>1, Zenon DEF WhereMoves, WhereGoes
  <2> QED
    BY <1>6, <2>1, <2>2, <2>3, <2>4, <2>5, TaskStep, Zenon
<1>9. /\ "ENOENT" \in Results /\ "EEXIST" \in Results /\ "EINVAL" \in Results
      /\ v # NEGATIVE => v \in Results /\ v \in Inos
      /\ NULL \in Inos \cup {NULL}
  BY Zenon DEF Results, ReplyErrors
<1>10. \/ \E r \in Results : Return(t, r, w, asks, truth) /\ (op[t].kind = "walk" =>
                                r = IF v = NEGATIVE THEN "ENOENT" ELSE v)
       \/ /\ op[t].kind = "stat" /\ v # NEGATIVE
          /\ Went(t, v, w, "getattr", at[t], NULL)
       \/ /\ op[t].kind = "rename" /\ at[t] = op[t].src /\ v # NEGATIVE
          /\ Went(t, v, w, "cached", op[t].dst, v)
       \/ /\ \/ op[t].kind \in Creations /\ v = NEGATIVE
             \/ op[t].kind = "unlink" /\ v \in Files
             \/ op[t].kind = "rmdir" /\ v \in SubDirs
             \/ op[t].kind = "rename" /\ at[t] # op[t].src
          /\ Went(t, v, w, "request", at[t], moved[t])
  BY <1>9, Zenon DEF Found, Went, Creations
<1>11. CASE op[t].kind = "stat" /\ v # NEGATIVE /\ Went(t, v, w, "getattr", at[t], NULL)
  BY <1>1, <1>8, <1>9, <1>11, Zenon
<1>12. CASE /\ op[t].kind = "rename" /\ at[t] = op[t].src /\ v # NEGATIVE
            /\ Went(t, v, w, "cached", op[t].dst, v)
  BY <1>2, <1>8, <1>9, <1>12, Zenon
<1>13. CASE /\ \/ op[t].kind \in Creations /\ v = NEGATIVE
               \/ op[t].kind = "unlink" /\ v \in Files
               \/ op[t].kind = "rmdir" /\ v \in SubDirs
               \/ op[t].kind = "rename" /\ at[t] # op[t].src
            /\ Went(t, v, w, "request", at[t], moved[t])
  <2>1. /\ op[t].kind \in Changes
        /\ op[t].kind \in {"unlink", "rmdir"} => v \in Inos
        /\ op[t].kind = "rename" => at[t] # op[t].src
    BY <1>13, Zenon DEF Changes, Creations, Inos
  <2> QED
    BY <1>1, <1>2, <1>8, <1>13, <2>1, Zenon
<1> QED
  BY <1>7, <1>10, <1>11, <1>12, <1>13, Zenon
-----------------------------------------------------------------------------
(* The steps of a lookup.                                                  *)

\* Dropping a dentry keeps the types.
LEMMA DropTypes ==
    ASSUME Shape, NEW x \in Entries \cup {NULL}
    PROVE  /\ Dropped(x) \in [Entries -> Inos \cup {UNHASHED, NEGATIVE}]
           /\ \A e \in Entries : Dropped(x)[e] \in {dcache[e], UNHASHED}
  BY Zenon DEF Shape, TypeOK, CacheTypes, Dropped

\* A step within a call that changes nothing at the server, and drops at
\* most one dentry.
LEMMA Moves ==
    ASSUME Shape, NEW t \in Tasks, pc[t] \notin {"idle", "finish"},
           NEW l \in PCs \ {"idle"}, pc' = [pc EXCEPT ![t] = l],
           UNCHANGED <<ns, remote, i_nlink, op, at, moved, result, truth>>,
           \/ dentry' = dentry
           \/ \E v \in Inos \cup {NULL} : dentry' = [dentry EXCEPT ![t] = v],
           \/ rep' = rep
           \/ \E r \in Replies \cup {NULL} : rep' = [rep EXCEPT ![t] = r],
           where' \in [Tasks -> Entries \cup {NULL}],
           \A u \in Tasks \ {t} : where'[u] = where[u],
           \/ asks' = asks
           \/ \E x \in Entries \cup {NULL} : asks' = [asks EXCEPT ![t] = x],
           \/ dcache' = dcache
           \/ \E x \in Entries \cup {NULL} : dcache' = Dropped(x)
    PROVE  /\ TaskTypes' /\ Others(t) /\ TruthMoves(t) /\ NsMoves(t) /\ WalkInv(t)'
           /\ AgreeMoves(t) /\ WhereMoves(t)
           /\ dcache' \in [Entries -> Inos \cup {UNHASHED, NEGATIVE}]
           /\ pc'[t] = l /\ op'[t] = op[t] /\ at'[t] = at[t] /\ moved'[t] = moved[t]
<1>1. TaskTypes /\ CacheTypes
  BY Known, Zenon
<1>2. pc'[t] = l /\ op'[t] = op[t] /\ at'[t] = at[t] /\ moved'[t] = moved[t]
  BY <1>1, Zenon DEF TaskTypes
<1>3. /\ dentry' \in [Tasks -> Inos \cup {NEGATIVE, NULL}]
      /\ \A u \in Tasks \ {t} : dentry'[u] = dentry[u]
  BY <1>1 DEF TaskTypes
<1>4. /\ rep' \in [Tasks -> Replies \cup {NULL}]
      /\ \A u \in Tasks \ {t} : rep'[u] = rep[u]
  BY <1>1 DEF TaskTypes
<1>5. pc' \in [Tasks -> PCs] /\ \A u \in Tasks \ {t} : pc'[u] = pc[u]
  BY <1>1, Zenon DEF TaskTypes
<1>6. /\ asks' \in [Tasks -> Entries \cup {NULL}]
      /\ \A u \in Tasks \ {t} : asks'[u] = asks[u]
  BY <1>1 DEF TaskTypes
<1>7. WhereMoves(t)
  BY <1>6, Zenon DEF WhereMoves
<1>8. TaskTypes' /\ Others(t)
  BY <1>1, <1>3, <1>4, <1>5, <1>6, Zenon DEF TaskTypes, Others
<1>9. TruthMoves(t) /\ NsMoves(t)
  <2>1. \A u \in Tasks : op[u] # NULL => ns[op[u].src] \in truth[u]
    BY Known, Zenon DEF ReplyInv
  <2>2. truth' = truth /\ ns' = ns
    OBVIOUS
  <2> QED
    BY <2>1, <2>2, Zenon DEF TruthMoves, NsMoves
<1>10. WalkInv(t)'
  BY <1>2, Zenon DEF WalkInv, Returned
<1>11. /\ dcache' \in [Entries -> Inos \cup {UNHASHED, NEGATIVE}]
       /\ \A e \in Entries : dcache'[e] \in {dcache[e], UNHASHED}
  BY <1>1, DropTypes, Zenon DEF CacheTypes
<1>12. AgreeMoves(t)
  BY <1>11, Zenon DEF AgreeMoves, Changing
<1> QED
  BY <1>2, <1>7, <1>8, <1>9, <1>10, <1>11, <1>12, Zenon

\* A step that neither takes nor drops a mutex.
LEMMA SameMutex ==
    ASSUME Shape, NEW t \in Tasks, pc[t] \notin {"idle", "lock"},
           pc'[t] \notin {"idle", "lock"}, op'[t] = op[t], at'[t] = at[t],
           \/ op[t].kind \in Changes
           \/ pc[t] \in {"lookup", "looked_up"} <=> pc'[t] \in {"lookup", "looked_up"},
           i_mutex' = i_mutex
    PROVE  MutexMoves(t)
<1>1. at[t] \in {op[t].src, op[t].dst}
  BY Known, Zenon DEF PlaceInv
<1>2. \A d : Holds(t, d)' <=> Holds(t, d)
  BY <1>1, Zenon DEF Holds
<1> QED
  BY <1>2, Zenon DEF MutexMoves

\* Under the mutex the cache agrees with the server, as long as nothing has
\* failed.
LEMMA UnderMutex ==
    ASSUME Shape, calm, NEW t \in Tasks, pc[t] # "finish", NEW e \in Entries,
           Holds(t, DirOf(e))
    PROVE  Agrees(e)
<1>1. ASSUME NEW u \in Tasks, Changing(u, e) PROVE Holds(u, DirOf(e))
  <2>1. op[u].kind \in Changes
    BY <1>1, Known, Zenon DEF PlaceInv, Changing
  <2> QED
    BY <1>1, <2>1, Held, Zenon DEF Changing
<1>2. \A u \in Tasks : ~Changing(u, e)
  BY <1>1, Held, EntryDir, Zenon DEF Changing
<1> QED
  BY <1>2, Zenon DEF Shape, DirInv

\* What the server says of an entry.
LEMMA LookupReply ==
    ASSUME Shape, NEW e \in Entries, NEW r \in LookupReplies(e)
    PROVE  /\ r \in Replies /\ r.err \in {"OK", "ENOENT"} \cup Errors
           /\ r.err = "OK" => r.ino \in Inos /\ r.ino = ns[e]
           /\ r.err = "ENOENT" => ns[e] = NULL
<1>1. ns[e] \in Inos \cup {NULL}
  BY Zenon DEF Shape, TypeOK, CacheTypes
<1>2. \A i : Nlink(i) \in 0..2
  BY DEF Nlink
<1>3. \A err \in ReplyErrors \cup {"OK"} : Failed(err) \in Replies
  BY DEF Failed, Replies
<1>4. ASSUME NEW err \in Errors
      PROVE  Failed(err) \in Replies /\ Failed(err).err = err /\ err \notin {"OK", "ENOENT"}
  <2>1. err \in ReplyErrors /\ err \notin {"OK", "ENOENT"}
    BY <1>4, DirConstants DEF ReplyErrors
  <2> QED
    BY <1>3, <2>1 DEF Failed
<1>5. CASE ns[e] = NULL /\ r = Failed("ENOENT")
  <2>1. "ENOENT" \in ReplyErrors
    BY DEF ReplyErrors
  <2> QED
    BY <1>3, <1>5, <2>1 DEF Failed
<1>6. CASE ns[e] # NULL /\ r = Reply("OK", ns[e])
  BY <1>1, <1>2, <1>6 DEF Reply, Replies
<1>7. CASE \E err \in Errors : r = Failed(err)
  BY <1>4, <1>7
<1> QED
  BY <1>5, <1>6, <1>7, Zenon DEF LookupReplies

\* The steps up to the answer of a lookup keep the invariant.
LEMMA LookupSteps ==
    ASSUME Shape, NEW t \in Tasks
    PROVE  \/ lock_rename(t) \/ cached_lookup(t) \/ real_lookup(t)
           \/ dget_parent(t) \/ d_name(t) \/ revalidate_request(t) \/ lookup_request(t)
           => Shape'
<1>1. ASSUME lock_rename(t) PROVE Shape'
  <2> USE <1>1
  <2>1. /\ pc[t] = "lock" /\ pc' = [pc EXCEPT ![t] = "cached"]
        /\ UNCHANGED <<ns, remote, calm, dcache, i_nlink, op, at, dentry, where>>
        /\ UNCHANGED <<asks, moved, rep, result, truth>>
    BY Zenon DEF lock_rename, srvVars
  <2>2. /\ CacheTypes /\ TaskTypes /\ op[t] \in Ops /\ op[t].kind \in Changes
        /\ at[t] = op[t].src /\ PlaceInv(t) /\ ReplyInv(t)
    BY <2>1, Known, Zenon DEF PlaceInv
  <2>3. /\ TaskTypes' /\ Others(t) /\ TruthMoves(t) /\ NsMoves(t) /\ WalkInv(t)'
        /\ AgreeMoves(t) /\ WhereMoves(t) /\ pc'[t] = "cached"
        /\ op'[t] = op[t] /\ at'[t] = at[t]
    <3>1. "cached" \in PCs \ {"idle"} /\ where' \in [Tasks -> Entries \cup {NULL}]
      BY <2>1, <2>2, Zenon DEF PCs, TaskTypes
    <3> QED
      BY <2>1, <3>1, Moves, Zenon
  <2>4. ASSUME NEW d \in Dirs
        PROVE  /\ Holds(t, d)' <=> d \in {DirOf(op[t].src), DirOf(op[t].dst)}
               /\ ~Holds(t, d)
               /\ i_mutex'[d] = IF d \in {DirOf(op[t].src), DirOf(op[t].dst)}
                                THEN t ELSE i_mutex[d]
               /\ d \in {DirOf(op[t].src), DirOf(op[t].dst)} => i_mutex[d] = NULL
    BY <2>1, <2>2, <2>3, <2>4, Zenon DEF lock_rename, Holds
  <2>5. MutexMoves(t) /\ CacheTypes'
    <3>1. MutexMoves(t)
      BY <2>4, Zenon DEF MutexMoves
    <3>2. i_mutex' \in [Dirs -> Tasks \cup {NULL}]
      BY <2>2, Zenon DEF CacheTypes, lock_rename
    <3> QED
      BY <2>1, <2>2, <3>1, <3>2, Zenon DEF CacheTypes
  <2>6. PlaceInv(t)' /\ WhereInv(t)' /\ CalmInv(t)'
    BY <2>2, <2>3, Zenon DEF PlaceInv, WhereInv, CalmInv, Revalidating
  <2>7. ReplyInv(t)'
    BY <2>1, <2>2, <2>3, Zenon DEF ReplyInv
  <2> QED
    BY <2>1, <2>3, <2>5, <2>6, <2>7, TaskStep, Zenon
<1>2. ASSUME cached_lookup(t) PROVE Shape'
  <2> USE <1>2
  <2>1. /\ pc[t] = "cached"
        /\ UNCHANGED <<ns, remote, calm, i_nlink, i_mutex, op, at, moved, rep>>
        /\ UNCHANGED <<result, truth>>
    BY Zenon DEF cached_lookup, srvVars
  <2>2. /\ CacheTypes /\ TaskTypes /\ op[t] \in Ops /\ at[t] \in Entries
        /\ PlaceInv(t) /\ ReplyInv(t) /\ (calm => CalmInv(t))
    BY <2>1, Known, Zenon
  <2>3. CASE /\ dcache[at[t]] \in Inos
             /\ dentry' = [dentry EXCEPT ![t] = dcache[at[t]]]
             /\ where' = [where EXCEPT ![t] = at[t]]
             /\ asks' = [asks EXCEPT ![t] = at[t]]
             /\ pc' = [pc EXCEPT ![t] = "revalidate"]
             /\ dcache' = dcache
    <3>1. /\ "revalidate" \in PCs \ {"idle"} /\ where' \in [Tasks -> Entries \cup {NULL}]
          /\ dentry'[t] = dcache[at[t]] /\ where'[t] = at[t] /\ asks'[t] = at[t]
          /\ \A u \in Tasks \ {t} : where'[u] = where[u]
      BY <2>2, <2>3, Zenon DEF PCs, TaskTypes
    <3>2. /\ TaskTypes' /\ Others(t) /\ TruthMoves(t) /\ NsMoves(t) /\ WalkInv(t)'
          /\ AgreeMoves(t) /\ WhereMoves(t) /\ pc'[t] = "revalidate"
          /\ op'[t] = op[t] /\ at'[t] = at[t] /\ moved'[t] = moved[t]
      BY <2>1, <2>3, <3>1, Moves, Zenon
    <3>3. MutexMoves(t) /\ CacheTypes'
      <4>1. MutexMoves(t)
        BY <2>1, <3>2, SameMutex, Zenon
      <4> QED
        BY <2>1, <2>2, <2>3, <4>1, Zenon DEF CacheTypes
    <3>4. PlaceInv(t)' /\ ReplyInv(t)' /\ WhereInv(t)'
      <4>1. PlaceInv(t)'
        BY <2>1, <2>2, <2>3, <3>1, <3>2, Zenon DEF PlaceInv
      <4>2. ReplyInv(t)'
        BY <2>1, <2>2, <3>2, Zenon DEF ReplyInv
      <4>3. WhereInv(t)'
        BY <2>2, <3>1, <3>2, DirMarks, Zenon DEF WhereInv
      <4> QED
        BY <4>1, <4>2, <4>3, Zenon
    <3>5. ASSUME calm PROVE CalmInv(t)'
      <4>1. op[t].kind \in Changes => ns[at[t]] = dcache[at[t]]
        <5>1. op[t].kind \in Changes => Holds(t, DirOf(at[t]))
          BY <2>1, Held, Zenon
        <5> QED
          BY <2>1, <2>2, <2>3, <3>5, <5>1, UnderMutex, Zenon DEF Agrees
      <4>2. at[t] # op[t].src => ns[op[t].src] = moved[t]
        BY <2>1, <2>2, <3>5, Zenon DEF CalmInv
      <4> QED
        BY <2>1, <3>1, <3>2, <4>1, <4>2, Zenon DEF CalmInv
    <3> QED
      BY <2>1, <3>2, <3>3, <3>4, <3>5, TaskStep, Zenon
  <2>4. CASE /\ dcache' = Dropped(at[t])
             /\ UNCHANGED <<where, asks>>
             /\ pc' = [pc EXCEPT ![t] = "missed"]
             /\ dentry' = dentry
    <3>1. /\ "missed" \in PCs \ {"idle"} /\ where' \in [Tasks -> Entries \cup {NULL}]
          /\ at[t] \in Entries \cup {NULL}
      BY <2>2, <2>4, Zenon DEF PCs, TaskTypes
    <3>2. /\ TaskTypes' /\ Others(t) /\ TruthMoves(t) /\ NsMoves(t) /\ WalkInv(t)'
          /\ AgreeMoves(t) /\ WhereMoves(t) /\ pc'[t] = "missed"
          /\ op'[t] = op[t] /\ at'[t] = at[t] /\ moved'[t] = moved[t]
          /\ dcache' \in [Entries -> Inos \cup {UNHASHED, NEGATIVE}]
      BY <2>1, <2>4, <3>1, Moves, Zenon
    <3>3. MutexMoves(t) /\ CacheTypes'
      <4>1. MutexMoves(t)
        BY <2>1, <3>2, SameMutex, Zenon
      <4> QED
        BY <2>1, <2>2, <3>2, <4>1, Zenon DEF CacheTypes
    <3>4. PlaceInv(t)' /\ ReplyInv(t)' /\ WhereInv(t)'
      <4>1. PlaceInv(t)'
        BY <2>1, <2>2, <3>2, Zenon DEF PlaceInv, Revalidating
      <4>2. ReplyInv(t)'
        BY <2>1, <2>2, <3>2, Zenon DEF ReplyInv
      <4> QED
        BY <3>2, <4>1, <4>2, Zenon DEF WhereInv, Revalidating
    <3>5. calm => CalmInv(t)'
      BY <2>1, <2>2, <3>2, Zenon DEF CalmInv, Revalidating
    <3> QED
      BY <2>1, <3>2, <3>3, <3>4, <3>5, TaskStep, Zenon
  <2> QED
    BY <2>3, <2>4, Zenon DEF cached_lookup
<1>3. ASSUME real_lookup(t) PROVE Shape'
  <2> USE <1>3
  <2>1. /\ pc[t] = "missed"
        /\ UNCHANGED <<ns, remote, calm, dcache, i_nlink, op, at, dentry, where>>
        /\ UNCHANGED <<asks, moved, rep, result, truth>>
    BY Zenon DEF real_lookup, srvVars
  <2>2. /\ CacheTypes /\ TaskTypes /\ op[t] \in Ops /\ at[t] \in Entries
        /\ DirOf(at[t]) \in Dirs
        /\ PlaceInv(t) /\ ReplyInv(t) /\ (calm => CalmInv(t))
    BY <2>1, Known, Zenon
  <2>3. PICK l \in {"lookup", "cached"} :
           /\ pc' = [pc EXCEPT ![t] = l]
           /\ i_mutex[DirOf(at[t])] \in {NULL, t}
           /\ l = "lookup" => i_mutex' = [i_mutex EXCEPT ![DirOf(at[t])] = t]
           /\ l = "cached" => i_mutex' = i_mutex
    BY Zenon DEF real_lookup
  <2>4. /\ TaskTypes' /\ Others(t) /\ TruthMoves(t) /\ NsMoves(t) /\ WalkInv(t)'
        /\ AgreeMoves(t) /\ WhereMoves(t) /\ pc'[t] = l
        /\ op'[t] = op[t] /\ at'[t] = at[t] /\ moved'[t] = moved[t]
    <3>1. l \in PCs \ {"idle"} /\ where' \in [Tasks -> Entries \cup {NULL}]
      BY <2>1, <2>2, <2>3, Zenon DEF PCs, TaskTypes
    <3> QED
      BY <2>1, <2>3, <3>1, Moves, Zenon
  <2>5. MutexMoves(t) /\ i_mutex' \in [Dirs -> Tasks \cup {NULL}]
    <3>1. CASE l = "cached"
      BY <2>1, <2>2, <2>3, <2>4, <3>1, SameMutex, Zenon DEF CacheTypes
    <3>2. CASE l = "lookup"
      <4>1. /\ i_mutex' \in [Dirs -> Tasks \cup {NULL}]
            /\ i_mutex'[DirOf(at[t])] = t
            /\ \A d \in Dirs : d # DirOf(at[t]) => i_mutex'[d] = i_mutex[d]
        BY <2>2, <2>3, <3>2, Zenon DEF CacheTypes
      <4>2. \A d : Holds(t, d)' <=> Holds(t, d) \/ d = DirOf(at[t])
        BY <2>1, <2>4, <3>2, Zenon DEF Holds
      <4> QED
        BY <2>3, <4>1, <4>2, Zenon DEF MutexMoves
    <3> QED
      BY <2>3, <3>1, <3>2, Zenon
  <2>6. CacheTypes'
    BY <2>1, <2>2, <2>5, Zenon DEF CacheTypes
  <2>7. PlaceInv(t)' /\ WhereInv(t)' /\ (calm => CalmInv(t)')
    <3>1. PlaceInv(t)'
      BY <2>1, <2>2, <2>3, <2>4, Zenon DEF PlaceInv, Revalidating
    <3> QED
      BY <2>1, <2>2, <2>3, <2>4, <3>1, Zenon DEF WhereInv, CalmInv, Revalidating
  <2>8. ReplyInv(t)'
    BY <2>1, <2>2, <2>3, <2>4, Zenon DEF ReplyInv
  <2> QED
    BY <2>1, <2>4, <2>5, <2>6, <2>7, <2>8, TaskStep, Zenon
<1>4. ASSUME NEW l \in {"revalidated", "looked_up"}, NEW e \in Entries,
             NEW r \in LookupReplies(e),
             e = IF l = "revalidated" THEN asks[t] ELSE at[t],
             pc[t] = IF l = "revalidated" THEN "asking" ELSE "lookup",
             pc' = [pc EXCEPT ![t] = l], rep' = [rep EXCEPT ![t] = r], Heed(t),
             UNCHANGED <<ns, remote, dcache, i_nlink, i_mutex, op, at, dentry, where>>,
             UNCHANGED <<asks, moved, result, truth>>
      PROVE  Shape'
  <2> USE <1>4
  <2>1. /\ pc[t] \in {"asking", "lookup"} /\ l \in PCs \ {"idle"}
        /\ pc[t] = "asking" <=> l = "revalidated"
    BY Zenon DEF PCs
  <2>2. /\ CacheTypes /\ TaskTypes /\ op[t] \in Ops /\ at[t] \in Entries
        /\ PlaceInv(t) /\ ReplyInv(t) /\ WhereInv(t) /\ (calm => CalmInv(t))
    BY <2>1, Known, Zenon
  <2>3. /\ r \in Replies /\ r.err \in {"OK", "ENOENT"} \cup Errors
        /\ r.err = "OK" => r.ino \in Inos /\ r.ino = ns[e]
        /\ r.err = "ENOENT" => ns[e] = NULL
    BY <2>2, LookupReply, Zenon
  <2>4. /\ TaskTypes' /\ Others(t) /\ TruthMoves(t) /\ NsMoves(t) /\ WalkInv(t)'
        /\ AgreeMoves(t) /\ WhereMoves(t) /\ pc'[t] = l
        /\ op'[t] = op[t] /\ at'[t] = at[t] /\ moved'[t] = moved[t]
    <3>1. where' \in [Tasks -> Entries \cup {NULL}] /\ pc[t] \notin {"idle", "finish"}
      BY <2>1, <2>2, Zenon DEF TaskTypes
    <3> QED
      BY <2>1, <2>3, <3>1, Moves, Zenon
  <2>5. /\ rep'[t] = r /\ dentry'[t] = dentry[t] /\ where'[t] = where[t]
        /\ asks'[t] = asks[t] /\ truth'[t] = truth[t] /\ calm' \in BOOLEAN
        /\ calm' => calm /\ r.err \notin Errors
    BY <2>2, Zenon DEF TaskTypes, CacheTypes, Heed
  <2>6. MutexMoves(t) /\ CacheTypes'
    <3>1. MutexMoves(t)
      BY <2>1, <2>4, SameMutex, Zenon
    <3> QED
      BY <2>2, <2>5, <3>1, Zenon DEF CacheTypes
  <2>7. PlaceInv(t)'
    BY <2>1, <2>2, <2>4, <2>5, Zenon DEF PlaceInv, Revalidating
  <2>8. ReplyInv(t)'
    <3>1. op[t].kind = "walk" => ns[at[t]] \in truth[t]
      <4>1. op[t].src = op[t].dst \/ op[t].kind = "rename"
        BY <2>2, OpFields, Zenon
      <4>2. at[t] \in {op[t].src, op[t].dst} /\ op[t] # NULL
        BY <2>1, <2>2, OpFields, Zenon DEF PlaceInv
      <4> QED
        BY <2>2, <4>1, <4>2, Zenon DEF ReplyInv
    <3>2. op[t] # NULL => ns'[op[t].src] \in truth[t]
      BY <2>2, Zenon DEF ReplyInv
    <3>3. l = "revalidated" /\ op[t].kind = "walk" =>
             (r.err = "OK" /\ r.ino = dentry[t] => dentry[t] \in truth[t])
      BY <2>1, <2>2, <2>3, <3>1, Zenon DEF WhereInv, Revalidating
    <3>4. l = "looked_up" /\ op[t].kind = "walk" =>
             /\ r.err = "OK" => r.ino \in truth[t]
             /\ r.err = "ENOENT" => NULL \in truth[t]
      BY <2>3, <3>1, Zenon
    <3> QED
      BY <2>3, <2>4, <2>5, <3>2, <3>3, <3>4, Zenon DEF ReplyInv
  <2>9. WhereInv(t)'
    BY <2>1, <2>2, <2>4, <2>5, Zenon DEF WhereInv, Revalidating
  <2>10. ASSUME calm' PROVE CalmInv(t)'
    <3>1. r.err # "OK" => ns[e] = NULL
      BY <2>3, <2>5, <2>10, Zenon
    <3>2. CalmInv(t) /\ ns' = ns
      BY <2>2, <2>5, <2>10, Zenon
    <3> QED
      BY <2>1, <2>3, <2>4, <2>5, <3>1, <3>2, Zenon DEF CalmInv, Revalidating
  <2> QED
    BY <2>4, <2>5, <2>6, <2>7, <2>8, <2>9, <2>10, TaskStep, Zenon
<1>5. ASSUME revalidate_request(t) PROVE Shape'
  <2>1. PICK r \in LookupReplies(asks[t]) : rep' = [rep EXCEPT ![t] = r]
    BY <1>5, Zenon DEF revalidate_request
  <2>2. asks[t] \in Entries
    BY <1>5, Known, Zenon DEF revalidate_request, PlaceInv, Revalidating
  <2> QED
    BY <1>4, <1>5, <2>1, <2>2, Zenon DEF revalidate_request
<1>6. ASSUME lookup_request(t) PROVE Shape'
  <2>1. PICK r \in LookupReplies(at[t]) : rep' = [rep EXCEPT ![t] = r]
    BY <1>6, Zenon DEF lookup_request
  <2>2. at[t] \in Entries
    BY <1>6, Known, Zenon DEF lookup_request
  <2> QED
    BY <1>4, <1>6, <2>1, <2>2, Zenon DEF lookup_request
<1>7. ASSUME NEW k \in {"revalidate", "parent"}, NEW l \in {"parent", "asking"}, Read(t, k, l)
      PROVE  Shape'
  <2> USE <1>7
  <2>1. /\ pc[t] = k /\ pc' = [pc EXCEPT ![t] = l] /\ l \in PCs \ {"idle"}
        /\ UNCHANGED <<ns, remote, calm, dcache, i_nlink, i_mutex, op, at, dentry, where>>
        /\ UNCHANGED <<asks, moved, rep, result, truth>>
    BY Zenon DEF Read, srvVars, PCs
  <2>2. /\ CacheTypes /\ TaskTypes /\ PlaceInv(t) /\ ReplyInv(t) /\ WhereInv(t)
        /\ calm => CalmInv(t)
    BY Known, Zenon
  <2>3. /\ TaskTypes' /\ Others(t) /\ TruthMoves(t) /\ NsMoves(t) /\ WalkInv(t)'
        /\ AgreeMoves(t) /\ WhereMoves(t) /\ pc'[t] = l
        /\ op'[t] = op[t] /\ at'[t] = at[t]
    <3>1. where' \in [Tasks -> Entries \cup {NULL}] /\ pc[t] \notin {"idle", "finish"}
      BY <2>1, <2>2, Zenon DEF TaskTypes
    <3> QED
      BY <2>1, <3>1, Moves, Zenon
  <2>4. MutexMoves(t) /\ CacheTypes'
    <3>1. MutexMoves(t)
      BY <2>1, <2>3, SameMutex, Zenon
    <3> QED
      BY <2>1, <2>2, <3>1, Zenon DEF CacheTypes
  <2>5. PlaceInv(t)'
    BY <2>1, <2>2, <2>3, Zenon DEF PlaceInv, Revalidating
  <2>6. ReplyInv(t)' /\ WhereInv(t)'
    BY <2>1, <2>2, <2>3, Zenon DEF ReplyInv, WhereInv, Revalidating
  <2>7. calm => CalmInv(t)'
    BY <2>1, <2>2, <2>3, Zenon DEF CalmInv, Revalidating
  <2> QED
    BY <2>1, <2>3, <2>4, <2>5, <2>6, <2>7, TaskStep, Zenon
<1>8. dget_parent(t) \/ d_name(t) => Shape'
  BY <1>7, Zenon DEF dget_parent, d_name
<1> QED
  BY <1>1, <1>2, <1>3, <1>5, <1>6, <1>8, Zenon

\* What the change was about is now in the cache, or was dropped.
AgreeGoes(t) ==
    \A e \in Entries :
       \/ Agrees(e)'
       \/ dcache'[e] \in {dcache[e], UNHASHED} /\ ~Changing(t, e)

\* The last step of a call keeps the invariant when the cache has caught up
\* with the server.
LEMMA ReturnStep ==
    ASSUME Shape, NEW t \in Tasks, pc[t] # "idle", op[t].kind # "walk",
           NEW r \in Results, NEW w \in [Tasks -> Entries \cup {NULL}],
           NEW q \in [Tasks -> Entries \cup {NULL}],
           NEW h \in [Tasks -> SUBSET (Inos \cup {NULL})],
           Return(t, r, w, q, h), WhereGoes(t, w, q, h), truth[t] \subseteq h[t],
           UNCHANGED <<ns, remote>>, calm' \in BOOLEAN,
           dcache' \in [Entries -> Inos \cup {UNHASHED, NEGATIVE}],
           i_nlink' \in [Inos \cup Dirs -> Int],
           calm' => calm /\ AgreeGoes(t)
    PROVE  Shape'
<1>1. /\ TaskTypes' /\ Others(t) /\ MutexMoves(t) /\ TruthMoves(t) /\ NsMoves(t)
      /\ PlaceInv(t)' /\ ReplyInv(t)' /\ WhereInv(t)' /\ CalmInv(t)'
      /\ WhereMoves(t)
      /\ i_mutex' \in [Dirs -> Tasks \cup {NULL}] /\ WalkInv(t)'
  BY Returns, Zenon
<1>2. CacheTypes'
  BY <1>1, Known, Zenon DEF CacheTypes
<1>3. calm' => AgreeMoves(t)
  BY Zenon DEF AgreeGoes, AgreeMoves
<1> QED
  BY <1>1, <1>2, <1>3, TaskStep, Zenon

\* The same, when the dentries of the others stay where they are.
LEMMA LeaveStep ==
    ASSUME Shape, NEW t \in Tasks, pc[t] # "idle", op[t].kind # "walk",
           NEW r \in Results, Leave(t, r),
           UNCHANGED <<ns, remote>>, calm' \in BOOLEAN,
           dcache' \in [Entries -> Inos \cup {UNHASHED, NEGATIVE}],
           i_nlink' \in [Inos \cup Dirs -> Int],
           calm' => calm /\ AgreeGoes(t)
    PROVE  Shape'
<1>1. /\ where \in [Tasks -> Entries \cup {NULL}] /\ asks \in [Tasks -> Entries \cup {NULL}]
      /\ truth \in [Tasks -> SUBSET (Inos \cup {NULL})]
  BY Known, Zenon DEF TaskTypes
<1>2. WhereGoes(t, where, asks, truth) /\ truth[t] \subseteq truth[t]
  BY Zenon DEF WhereGoes
<1>3. Return(t, r, where, asks, truth)
  BY Zenon DEF Leave
<1> QED
  BY <1>1, <1>2, <1>3, ReturnStep, Zenon

\* A call ends and the cache stays as it is.
LEMMA QuietReturn ==
    ASSUME Shape, NEW t \in Tasks, pc[t] # "idle", op[t].kind # "walk",
           NEW r \in Results, Leave(t, r),
           UNCHANGED <<ns, remote, dcache>>, calm' \in BOOLEAN,
           i_nlink' \in [Inos \cup Dirs -> Int],
           calm' => calm /\ \A e \in Entries : Agrees(e)' \/ ~Changing(t, e)
    PROVE  Shape'
<1>1. dcache' \in [Entries -> Inos \cup {UNHASHED, NEGATIVE}]
  BY Known, Zenon DEF CacheTypes
<1>2. calm' => AgreeGoes(t)
  BY Zenon DEF AgreeGoes
<1> QED
  BY <1>1, <1>2, LeaveStep, Zenon

\* uvfs_iget keeps the link counts numbers.
LEMMA IgetTypes ==
    ASSUME Shape, NEW r \in Replies, r.ino \in Inos
    PROVE  uvfs_iget(r) \in [Inos \cup Dirs -> Int]
<1>1. i_nlink \in [Inos \cup Dirs -> Int] /\ r.nlink \in Int /\ r.ino \in Inos \cup Dirs
  BY DEF Shape, TypeOK, CacheTypes, Replies
<1> QED
  BY <1>1, Zenon DEF uvfs_iget

\* The steps that work with the answer of a lookup or a getattr, and the one
\* that never sends its request, keep the invariant.
LEMMA AnswerSteps ==
    ASSUME Shape, NEW t \in Tasks
    PROVE  \/ uvfs_dentry_revalidate(t) \/ uvfs_lookup(t) \/ getattr_request(t)
           \/ uvfs_revalidate_inode(t) \/ no_memory(t)
           => Shape'
<1>1. ASSUME uvfs_dentry_revalidate(t) PROVE Shape'
  <2> USE <1>1
  <2>1. pc[t] = "revalidated" /\ UNCHANGED <<ns, remote, calm, i_nlink>>
    BY Zenon DEF uvfs_dentry_revalidate, srvVars
  <2>2. /\ CacheTypes /\ TaskTypes /\ op[t] \in Ops /\ at[t] \in Entries
        /\ PlaceInv(t) /\ ReplyInv(t) /\ WhereInv(t) /\ (calm => CalmInv(t))
    BY <2>1, Known, Zenon
  <2>3. /\ dentry[t] \in Inos /\ dentry[t] # NEGATIVE /\ rep[t] \in Replies
        /\ rep[t] # NULL /\ rep[t].err \in {"OK", "ENOENT"} \cup Errors
        /\ where[t] \in Entries \cup {NULL}
    BY <2>1, <2>2, DirMarks, Zenon DEF PlaceInv, ReplyInv, TaskTypes, Revalidating
  <2>4. CASE StillValid(t) /\ Found(t, dentry[t], where) /\ dcache' = dcache
    <3>1. /\ where \in [Tasks -> Entries \cup {NULL}]
          /\ i_nlink' \in [Inos \cup Dirs -> Int]
      BY <2>1, <2>2, Zenon DEF TaskTypes, CacheTypes
    <3>2. calm /\ op[t].kind \in Changes => ns[at[t]] = dentry[t]
      BY <2>1, <2>2, Zenon DEF CalmInv, Revalidating
    <3>3. op[t].kind = "walk" /\ dentry[t] \notin MountPoints =>
             (rep[t].err = "ERESTARTSYS" /\ NoAnswer(t)) \/ dentry[t] \in truth[t]
      BY <2>1, <2>2, <2>3, <2>4, Zenon DEF StillValid, ReplyInv, NoAnswer
    <3> QED
      BY <2>1, <2>3, <2>4, <3>1, <3>2, <3>3, FoundStep, SMTT(30)
  <2>5. CASE /\ dcache' = Dropped(where[t])
             /\ where' = [where EXCEPT ![t] = NULL]
             /\ asks' = [asks EXCEPT ![t] = NULL]
             /\ pc' = [pc EXCEPT ![t] = "missed"]
             /\ dentry' = [dentry EXCEPT ![t] = NULL]
             /\ rep' = [rep EXCEPT ![t] = NULL]
             /\ UNCHANGED <<i_mutex, op, at, moved, result, truth>>
    <3>1. /\ "missed" \in PCs \ {"idle"} /\ where' \in [Tasks -> Entries \cup {NULL}]
          /\ \A u \in Tasks \ {t} : where'[u] = where[u]
      BY <2>2, <2>5, Zenon DEF PCs, TaskTypes
    <3>2. /\ TaskTypes' /\ Others(t) /\ TruthMoves(t) /\ NsMoves(t) /\ WalkInv(t)'
          /\ AgreeMoves(t) /\ WhereMoves(t) /\ pc'[t] = "missed"
          /\ op'[t] = op[t] /\ at'[t] = at[t] /\ moved'[t] = moved[t]
          /\ dcache' \in [Entries -> Inos \cup {UNHASHED, NEGATIVE}]
      BY <2>1, <2>3, <2>5, <3>1, Moves, Zenon
    <3>3. MutexMoves(t) /\ CacheTypes'
      <4>1. MutexMoves(t)
        BY <2>1, <2>5, <3>2, SameMutex, Zenon
      <4> QED
        BY <2>1, <2>2, <2>5, <3>2, <4>1, Zenon DEF CacheTypes
    <3>4. PlaceInv(t)' /\ ReplyInv(t)' /\ WhereInv(t)'
      <4>1. PlaceInv(t)'
        BY <2>1, <2>2, <3>2, Zenon DEF PlaceInv, Revalidating
      <4>2. ReplyInv(t)'
        BY <2>1, <2>2, <2>5, <3>2, Zenon DEF ReplyInv
      <4> QED
        BY <3>2, <4>1, <4>2, Zenon DEF WhereInv, Revalidating
    <3>5. calm => CalmInv(t)'
      BY <2>1, <2>2, <3>2, Zenon DEF CalmInv, Revalidating
    <3> QED
      BY <2>1, <3>2, <3>3, <3>4, <3>5, TaskStep, Zenon
  <2> QED
    BY <2>4, <2>5, Zenon DEF uvfs_dentry_revalidate
<1>2. ASSUME uvfs_lookup(t) PROVE Shape'
  <2> USE <1>2
  <2> DEFINE v == IF rep[t].err = "OK" THEN rep[t].ino ELSE NEGATIVE
             w == Replaced(t, at[t])
  <2>1. /\ pc[t] = "looked_up" /\ UNCHANGED <<ns, remote, calm>>
        /\ dcache' = [dcache EXCEPT ![at[t]] = v] /\ Found(t, v, w)
        /\ i_nlink' = IF rep[t].err = "OK" THEN uvfs_iget(rep[t]) ELSE i_nlink
    BY Zenon DEF uvfs_lookup, srvVars
  <2>2. /\ CacheTypes /\ TaskTypes /\ op[t] \in Ops /\ at[t] \in Entries
        /\ ReplyInv(t) /\ (calm => CalmInv(t))
    BY <2>1, Known, Zenon
  <2>3. /\ rep[t] \in Replies /\ rep[t] # NULL
        /\ rep[t].err \in {"OK", "ENOENT"} \cup Errors
        /\ rep[t].err = "OK" => rep[t].ino \in Inos
    BY <2>1, <2>2, DirMarks, Zenon DEF ReplyInv
  <2>4. /\ v \in Inos \cup {NEGATIVE} /\ w \in [Tasks -> Entries \cup {NULL}]
        /\ v \in Inos => rep[t].err = "OK" /\ v = rep[t].ino
        /\ v = NEGATIVE => rep[t].err # "OK"
    <3>1. w \in [Tasks -> Entries \cup {NULL}]
      BY <2>2, Zenon DEF TaskTypes, Replaced
    <3> QED
      BY <2>3, <3>1, DirMarks, Zenon
  <2>5. i_nlink' \in [Inos \cup Dirs -> Int]
    BY <2>1, <2>2, <2>3, IgetTypes, Zenon DEF CacheTypes
  <2>6. calm => (v \in Inos => ns[at[t]] = v) /\ (v = NEGATIVE => ns[at[t]] = NULL)
    BY <2>1, <2>2, <2>4, Zenon DEF CalmInv
  <2>7. op[t].kind = "walk" => /\ v \in Inos => v \in truth[t]
                               /\ v = NEGATIVE => NoAnswer(t) \/ NULL \in truth[t]
    BY <2>1, <2>2, <2>3, <2>4, Zenon DEF ReplyInv, NoAnswer
  <2>8. /\ pc[t] = "looked_up" /\ dcache' = [dcache EXCEPT ![at[t]] = v]
        /\ w = Replaced(t, at[t])
    BY <2>1, Zenon
  <2> HIDE DEF v, w
  <2>9. calm => /\ op[t].kind \in Changes \/ pc[t] = "looked_up" =>
                     (v \in Inos => ns[at[t]] = v)
                /\ v = NEGATIVE => ns[at[t]] = NULL
    BY <2>6, Zenon
  <2>10. op[t].kind = "walk" =>
           /\ v \in Inos \ MountPoints =>
                 (rep[t].err = "ERESTARTSYS" /\ NoAnswer(t)) \/ v \in truth[t]
           /\ v = NEGATIVE => NoAnswer(t) \/ NULL \in truth[t]
    BY <2>7, Zenon
  <2> QED
    BY <2>1, <2>4, <2>5, <2>8, <2>9, <2>10, FoundStep, Zenon
<1>3. ASSUME getattr_request(t) PROVE Shape'
  <2> USE <1>3
  <2>1. /\ pc[t] = "getattr" /\ pc' = [pc EXCEPT ![t] = "refresh"] /\ Heed(t)
        /\ UNCHANGED <<ns, remote, dcache, i_nlink, i_mutex, op, at, dentry, where>>
        /\ UNCHANGED <<asks, moved, result, truth>>
    BY Zenon DEF getattr_request
  <2>2. /\ CacheTypes /\ TaskTypes /\ op[t] \in Ops /\ at[t] \in Entries
        /\ PlaceInv(t) /\ ReplyInv(t) /\ dentry[t] \in Inos /\ op[t].kind = "stat"
        /\ calm => CalmInv(t)
    BY <2>1, Known, Zenon DEF PlaceInv
  <2>3. PICK r \in Replies : /\ rep' = [rep EXCEPT ![t] = r]
                             /\ r.err = "OK" => r.ino \in Inos
    <3>1. /\ Reply("OK", dentry[t]) \in Replies /\ Reply("OK", dentry[t]).ino = dentry[t]
      <4>1. Nlink(dentry[t]) \in 0..2
        BY DEF Nlink
      <4> QED
        BY <2>2, <4>1 DEF Reply, Replies
    <3>2. \A err \in Errors \cup {"ENOENT"} :
             Failed(err) \in Replies /\ Failed(err).err # "OK"
      BY DirConstants DEF Failed, Replies, ReplyErrors
    <3>3. PICK r \in {Reply("OK", dentry[t])} \cup {Failed(err) : err \in Errors} \cup
                     {Failed("ENOENT") : x \in {dentry[t]} \ Linked} :
             rep' = [rep EXCEPT ![t] = r]
      BY Zenon DEF getattr_request
    <3>4. r = Reply("OK", dentry[t]) \/ \E err \in Errors \cup {"ENOENT"} : r = Failed(err)
      BY <3>3, Zenon
    <3> QED
      BY <2>2, <3>1, <3>2, <3>3, <3>4, Zenon
  <2>4. /\ TaskTypes' /\ Others(t) /\ TruthMoves(t) /\ NsMoves(t) /\ WalkInv(t)'
        /\ AgreeMoves(t) /\ WhereMoves(t) /\ pc'[t] = "refresh"
        /\ op'[t] = op[t] /\ at'[t] = at[t] /\ moved'[t] = moved[t]
    <3>1. "refresh" \in PCs \ {"idle"} /\ where' \in [Tasks -> Entries \cup {NULL}]
      BY <2>1, <2>2, Zenon DEF TaskTypes, PCs
    <3> QED
      BY <2>1, <2>3, <3>1, Moves, Zenon
  <2>5. rep'[t] = r /\ calm' \in BOOLEAN /\ (calm' => calm)
    BY <2>1, <2>2, <2>3, Zenon DEF TaskTypes, CacheTypes, Heed
  <2>6. MutexMoves(t) /\ CacheTypes'
    <3>1. MutexMoves(t)
      BY <2>1, <2>4, SameMutex, Zenon
    <3> QED
      BY <2>1, <2>2, <2>5, <3>1, Zenon DEF CacheTypes
  <2>7. PlaceInv(t)' /\ WhereInv(t)'
    BY <2>1, <2>2, <2>4, Zenon DEF PlaceInv, WhereInv, Revalidating
  <2>8. ReplyInv(t)'
    BY <2>1, <2>2, <2>3, <2>4, <2>5, Zenon DEF ReplyInv
  <2>9. calm => CalmInv(t)'
    BY <2>1, <2>2, <2>4, Zenon DEF CalmInv, Revalidating
  <2> QED
    BY <2>4, <2>5, <2>6, <2>7, <2>8, <2>9, TaskStep, Zenon
<1>4. ASSUME uvfs_revalidate_inode(t) PROVE Shape'
  <2> USE <1>4
  <2>1. /\ pc[t] = "refresh" /\ Leave(t, rep[t].err)
        /\ i_nlink' = IF rep[t].err = "OK" THEN uvfs_iget(rep[t]) ELSE i_nlink
        /\ UNCHANGED <<ns, remote, calm, dcache>>
    BY Zenon DEF uvfs_revalidate_inode, srvVars
  <2>2. /\ CacheTypes /\ op[t].kind = "stat" /\ rep[t] \in Replies
        /\ rep[t].err = "OK" => rep[t].ino \in Inos
    BY <2>1, Known, Zenon DEF PlaceInv, ReplyInv
  <2>3. rep[t].err \in Results /\ calm' \in BOOLEAN
    BY <2>1, <2>2, Zenon DEF Replies, Results, CacheTypes
  <2>4. i_nlink' \in [Inos \cup Dirs -> Int]
    BY <2>1, <2>2, IgetTypes, Zenon DEF CacheTypes
  <2>5. \A e \in Entries : ~Changing(t, e)
    BY <2>1, Zenon DEF Changing
  <2> QED
    BY <2>1, <2>2, <2>3, <2>4, <2>5, QuietReturn, Zenon
<1>5. ASSUME no_memory(t) PROVE Shape'
  <2> USE <1>5
  <2>1. /\ pc[t] = "request" /\ Leave(t, "ENOMEM") /\ calm' = FALSE
        /\ UNCHANGED <<ns, remote, dcache, i_nlink>>
    BY Zenon DEF no_memory
  <2>2. i_nlink' \in [Inos \cup Dirs -> Int] /\ op[t].kind # "walk" /\ "ENOMEM" \in Results
    BY <2>1, Known, Zenon DEF PlaceInv, CacheTypes, Changes, Creations, Results, ReplyErrors
  <2> QED
    BY <2>1, <2>2, QuietReturn, Zenon
<1> QED
  BY <1>1, <1>2, <1>3, <1>4, <1>5, Zenon

\* A new call keeps the invariant: whatever the task did before is over.
LEMMA CallStep ==
    ASSUME Shape, NEW t \in Tasks, NEW o \in Ops, Call(t, o)
    PROVE  Shape'
<1> DEFINE l == IF o.kind \in {"walk", "stat"} THEN "cached" ELSE "lock"
<1>1. /\ CacheTypes /\ TaskTypes /\ l \in PCs /\ o.src \in Entries /\ o # NULL
      /\ o.kind \in Changes \cup {"walk", "stat"}
  BY Known, OpFields, Zenon DEF PCs
<1>2. /\ pc[t] = "idle" /\ pc'[t] = l /\ op'[t] = o /\ at'[t] = o.src
      /\ truth'[t] = {ns[o.src]}
      /\ UNCHANGED <<ns, remote, calm, dcache, i_nlink, i_mutex>>
  BY <1>1, Zenon DEF Call, TaskTypes, srvVars
<1>3. /\ Others(t)
      /\ \A u \in Tasks \ {t} : /\ where'[u] = where[u] /\ asks'[u] = asks[u]
                              /\ truth'[u] = truth[u]
  BY <1>1, Zenon DEF Call, TaskTypes, Others
<1>4. TaskTypes'
  <2>1. /\ pc' \in [Tasks -> PCs] /\ op' \in [Tasks -> Ops \cup {NULL}]
        /\ at' \in [Tasks -> Entries \cup {NULL}]
    BY <1>1, Zenon DEF Call, TaskTypes
  <2>2. /\ dentry' \in [Tasks -> Inos \cup {NEGATIVE, NULL}]
        /\ where' \in [Tasks -> Entries \cup {NULL}]
        /\ asks' \in [Tasks -> Entries \cup {NULL}]
        /\ rep' \in [Tasks -> Replies \cup {NULL}]
        /\ moved' \in [Tasks -> Inos \cup {NULL}]
        /\ rep' \in [Tasks -> Replies \cup {NULL}]
    BY <1>1, Zenon DEF Call, TaskTypes
  <2>3. result' \in [Tasks -> Results]
    BY <1>1, Zenon DEF Call, TaskTypes, Results
  <2>4. truth' \in [Tasks -> SUBSET (Inos \cup {NULL})]
    <3>1. {ns[o.src]} \in SUBSET (Inos \cup {NULL})
      BY <1>1, Zenon DEF CacheTypes
    <3> QED
      BY <1>1, <3>1, Zenon DEF Call, TaskTypes
  <2> QED
    BY <2>1, <2>2, <2>3, <2>4, Zenon DEF TaskTypes
<1>5. CacheTypes' /\ WhereMoves(t)
  BY <1>1, <1>2, <1>3, Zenon DEF CacheTypes, WhereMoves
<1>6. MutexMoves(t)
  <2>1. \A d : ~Holds(t, d) /\ ~Holds(t, d)'
    BY <1>1, <1>2, Zenon DEF Holds, Changes, Creations
  <2> QED
    BY <1>2, <2>1, Zenon DEF MutexMoves
<1>7. TruthMoves(t) /\ NsMoves(t)
  <2>1. \A u \in Tasks : op[u] # NULL => ns[op[u].src] \in truth[u]
    BY Known, Zenon DEF ReplyInv
  <2> QED
    BY <1>2, <1>3, <2>1, Zenon DEF TruthMoves, NsMoves
<1>8. PlaceInv(t)' /\ WhereInv(t)' /\ CalmInv(t)' /\ WalkInv(t)'
  <2>1. PlaceInv(t)'
    BY <1>1, <1>2, Zenon DEF PlaceInv, Revalidating
  <2> QED
    BY <1>2, <2>1, Zenon DEF WhereInv, CalmInv, WalkInv, Returned, Revalidating
<1>9. ReplyInv(t)'
  BY <1>1, <1>2, Zenon DEF ReplyInv
<1>10. AgreeMoves(t)
  BY <1>2, Zenon DEF AgreeMoves, Changing
<1> QED
  BY <1>2, <1>3, <1>4, <1>5, <1>6, <1>7, <1>8, <1>9, <1>10, TaskStep, Zenon
-----------------------------------------------------------------------------
(* The steps of a change.                                                  *)

\* What the server makes of a change.
LEMMA ServedReply ==
    ASSUME Shape, NEW o \in Ops, o.kind \in Changes, NEW s \in Served(o)
    PROVE  /\ s[1] \in [Entries -> Inos \cup {NULL}] /\ s[2] \in Replies
           /\ \A e \in Entries : s[1][e] = ns[e] \/ e \in {o.src, o.dst}
           /\ s[2].err # "OK" => s[1] = ns
           /\ s[2].err = "OK" =>
                 /\ o.kind \in Creations => s[2].ino \in Inos /\ s[1][o.src] = s[2].ino
                 /\ o.kind \notin Creations => s[1][o.src] = NULL
                 /\ o.kind = "rename" => s[1][o.dst] = ns[o.src]
<1>1. /\ ns \in [Entries -> Inos \cup {NULL}] /\ o.src \in Entries /\ o.dst \in Entries
      /\ o.kind = "rename" <=> o.src # o.dst
  BY OpFields, Zenon DEF Shape, TypeOK, CacheTypes
<1>2. \A err \in ReplyErrors \cup {"OK"} : Failed(err) \in Replies /\ Failed(err).err = err
  BY DEF Failed, Replies
<1>3. CASE \E err \in ReplyErrors : s = <<ns, Failed(err)>>
  <2>1. "OK" \notin ReplyErrors
    BY DEF ReplyErrors
  <2>2. PICK err \in ReplyErrors : s = <<ns, Failed(err)>>
    BY <1>3, Zenon
  <2>3. s[1] = ns /\ s[2] = Failed(err)
    BY <2>2
  <2> QED
    BY <1>1, <1>2, <2>1, <2>2, <2>3, Zenon
<1>4. ASSUME o.kind \in Creations, NEW i \in Inos,
             s = <<[ns EXCEPT ![o.src] = i], [err |-> "OK", ino |-> i,
                   nlink |-> IF i \in SubDirs THEN 2 ELSE 1]>>
      PROVE  /\ s[1] \in [Entries -> Inos \cup {NULL}] /\ s[2] \in Replies
             /\ \A e \in Entries : s[1][e] = ns[e] \/ e = o.src
             /\ s[2].err = "OK" /\ s[2].ino = i /\ s[1][o.src] = i
  <2>1. s[1] = [ns EXCEPT ![o.src] = i]
        /\ s[2] = [err |-> "OK", ino |-> i, nlink |-> IF i \in SubDirs THEN 2 ELSE 1]
    BY <1>4
  <2>2. s[2] \in Replies /\ s[2].err = "OK" /\ s[2].ino = i
    BY <2>1 DEF Replies
  <2> QED
    BY <1>1, <2>1, <2>2, Zenon
<1>5. CASE /\ o.kind \in {"unlink", "rmdir"}
           /\ s = <<[ns EXCEPT ![o.src] = NULL], Failed("OK")>>
  <2>1. s[1] = [ns EXCEPT ![o.src] = NULL] /\ s[2] = Failed("OK")
    BY <1>5
  <2>2. o.kind \notin Creations /\ o.kind # "rename"
    BY <1>5, Zenon DEF Creations
  <2>3. /\ s[1] \in [Entries -> Inos \cup {NULL}] /\ s[1][o.src] = NULL
        /\ \A e \in Entries : s[1][e] = ns[e] \/ e = o.src
    BY <1>1, <2>1, Zenon
  <2>4. s[2] \in Replies /\ s[2].err = "OK"
    BY <1>2, <2>1, Zenon
  <2> QED
    BY <2>2, <2>3, <2>4, Zenon
<1>6. CASE /\ o.kind = "rename"
           /\ s = <<[[ns EXCEPT ![o.src] = NULL] EXCEPT ![o.dst] = ns[o.src]], Failed("OK")>>
  <2>1. s[1] = [[ns EXCEPT ![o.src] = NULL] EXCEPT ![o.dst] = ns[o.src]]
        /\ s[2] = Failed("OK")
    BY <1>6
  <2>2. o.kind \notin Creations /\ o.src # o.dst
    BY <1>1, <1>6, Zenon DEF Creations
  <2>3. /\ s[1] \in [Entries -> Inos \cup {NULL}] /\ s[1][o.src] = NULL
        /\ s[1][o.dst] = ns[o.src]
        /\ \A e \in Entries : s[1][e] = ns[e] \/ e \in {o.src, o.dst}
    BY <1>1, <2>1, <2>2, Zenon
  <2>4. s[2] \in Replies /\ s[2].err = "OK"
    BY <1>2, <2>1, Zenon
  <2> QED
    BY <2>2, <2>3, <2>4, Zenon
<1>7. \/ \E err \in ReplyErrors : s = <<ns, Failed(err)>>
      \/ /\ o.kind \in Creations
         /\ \E i \in Inos :
               s = <<[ns EXCEPT ![o.src] = i], [err |-> "OK", ino |-> i,
                     nlink |-> IF i \in SubDirs THEN 2 ELSE 1]>>
      \/ /\ o.kind \in {"unlink", "rmdir"}
         /\ s = <<[ns EXCEPT ![o.src] = NULL], Failed("OK")>>
      \/ /\ o.kind = "rename"
         /\ s = <<[[ns EXCEPT ![o.src] = NULL] EXCEPT ![o.dst] = ns[o.src]], Failed("OK")>>
  BY DEF Served, Creations, ReplyErrors, Inos, Changes
<1> QED
  BY <1>3, <1>4, <1>5, <1>6, <1>7, Zenon DEF Creations

\* The server carries out a change, or fails it, or both: the mutexes held
\* are those of the entries that change.
LEMMA RequestStep ==
    ASSUME Shape, NEW t \in Tasks, make_request(t)
    PROVE  Shape'
<1>1. /\ pc[t] = "request" /\ pc' = [pc EXCEPT ![t] = "finish"] /\ Heed(t)
      /\ UNCHANGED <<remote, dcache, i_nlink, i_mutex, op, at, dentry, where>>
      /\ UNCHANGED <<asks, moved, result>>
  BY Zenon DEF make_request
<1>2. /\ CacheTypes /\ TaskTypes /\ op[t] \in Ops /\ at[t] \in Entries
      /\ PlaceInv(t) /\ ReplyInv(t) /\ WhereInv(t) /\ (calm => CalmInv(t))
      /\ op[t].kind \in Changes /\ at[t] = op[t].dst
  BY <1>1, Known, Zenon DEF PlaceInv
<1>3. PICK s \in Served(op[t]), r \in Replies :
         /\ rep' = [rep EXCEPT ![t] = r]
         /\ ServerHas(s[1]) \/ UNCHANGED <<ns, truth>>
         /\ \/ r = s[2] /\ ServerHas(s[1])
            \/ r.err \in Errors
  <2>1. \A err \in Errors : Failed(err) \in Replies /\ Failed(err).err = err
    BY DirConstants DEF Failed, Replies, ReplyErrors
  <2>2. \A s \in Served(op[t]) : s[2] \in Replies
    BY <1>2, ServedReply, Zenon
  <2> QED
    BY <2>1, <2>2, Zenon DEF make_request
<1>4. /\ s[1] \in [Entries -> Inos \cup {NULL}]
      /\ \A e \in Entries : s[1][e] = ns[e] \/ e \in {op[t].src, op[t].dst}
      /\ s[2].err # "OK" => s[1] = ns
      /\ s[2].err = "OK" =>
            /\ op[t].kind \in Creations => /\ s[2].ino \in Inos
                                           /\ s[1][op[t].src] = s[2].ino
            /\ op[t].kind \notin Creations => s[1][op[t].src] = NULL
            /\ op[t].kind = "rename" => s[1][op[t].dst] = ns[op[t].src]
  BY <1>2, <1>3, ServedReply, Zenon
<1>5. /\ ns' \in [Entries -> Inos \cup {NULL}]
      /\ \A e \in Entries : ns'[e] = ns[e] \/ e \in {op[t].src, op[t].dst}
  BY <1>2, <1>3, <1>4, Zenon DEF ServerHas, CacheTypes
<1>6. \A u \in Tasks : op[u] # NULL => /\ truth[u] \subseteq truth'[u]
                                       /\ ns'[op[u].src] \in truth'[u]
  <2>1. \A u \in Tasks : op[u] # NULL => ns[op[u].src] \in truth[u]
    BY Known, Zenon DEF ReplyInv
  <2> QED
    BY <1>3, <2>1, Zenon DEF ServerHas
<1>7. truth' \in [Tasks -> SUBSET (Inos \cup {NULL})]
  <2>1. CASE truth' = truth
    BY <1>2, <2>1, Zenon DEF TaskTypes
  <2>2. CASE ServerHas(s[1])
    <3>1. ASSUME NEW u \in Tasks, op[u] # NULL PROVE s[1][op[u].src] \in Inos \cup {NULL}
      <4>1. op[u].src \in Entries
        BY <3>1, Known, OpFields, Zenon
      <4> QED
        BY <1>4, <4>1, Zenon
    <3> QED
      BY <1>2, <2>2, <3>1, Zenon DEF TaskTypes, ServerHas
  <2> QED
    BY <1>3, <2>1, <2>2, Zenon
<1>8. /\ pc'[t] = "finish" /\ op'[t] = op[t] /\ at'[t] = at[t] /\ moved'[t] = moved[t]
      /\ dentry'[t] = dentry[t] /\ where'[t] = where[t] /\ rep'[t] = r
      /\ dcache' = dcache /\ calm' \in BOOLEAN /\ (calm' => calm /\ r.err \notin Errors)
  BY <1>1, <1>2, <1>3, Zenon DEF TaskTypes, CacheTypes, Heed
<1>9. TaskTypes' /\ Others(t)
  <2>1. /\ pc' \in [Tasks -> PCs] /\ rep' \in [Tasks -> Replies \cup {NULL}]
        /\ \A u \in Tasks \ {t} : pc'[u] = pc[u] /\ rep'[u] = rep[u]
    BY <1>1, <1>2, <1>3, Zenon DEF TaskTypes, PCs
  <2> QED
    BY <1>1, <1>2, <1>7, <2>1, Zenon DEF TaskTypes, Others
<1>10. CacheTypes' /\ WhereMoves(t)
  BY <1>1, <1>2, <1>5, <1>8, Zenon DEF CacheTypes, WhereMoves
<1>11. MutexMoves(t) /\ TruthMoves(t)
  <2>1. MutexMoves(t)
    BY <1>1, <1>2, <1>8, SameMutex, Zenon
  <2> QED
    BY <1>6, <2>1, Zenon DEF TruthMoves
<1>12. NsMoves(t)
  <2>1. Holds(t, DirOf(op[t].src)) /\ Holds(t, DirOf(op[t].dst))
    BY <1>1, <1>2, Held, Zenon
  <2> QED
    BY <1>5, <2>1, Zenon DEF NsMoves
<1>13. PlaceInv(t)' /\ WhereInv(t)' /\ WalkInv(t)'
  <2>1. PlaceInv(t)'
    BY <1>1, <1>2, <1>8, Zenon DEF PlaceInv, Revalidating
  <2> QED
    BY <1>1, <1>2, <1>8, <2>1, Zenon DEF WhereInv, WalkInv, Returned, Revalidating
<1>14. ReplyInv(t)'
  <2>1. op[t].kind \in Creations /\ r.err = "OK" => r.ino \in Inos
    <3>1. "OK" \notin Errors
      BY DirConstants, Zenon
    <3> QED
      BY <1>3, <1>4, <3>1, Zenon
  <2> QED
    BY <1>3, <1>6, <1>8, <2>1, Zenon DEF ReplyInv
<1>15. ASSUME calm' PROVE CalmInv(t)' /\ AgreeMoves(t)
  <2>1. r = s[2] /\ ns' = s[1] /\ calm
    BY <1>3, <1>8, <1>15, Zenon DEF ServerHas
  <2>2. op[t].kind = "rename" => ns[op[t].src] = moved[t]
    <3>1. op[t].kind = "rename" => op[t].src # op[t].dst
      BY <1>2, OpFields, Zenon
    <3> QED
      BY <1>1, <1>2, <2>1, <3>1, Zenon DEF CalmInv
  <2>3. CalmInv(t)'
    BY <1>4, <1>8, <2>1, <2>2, Zenon DEF CalmInv, Revalidating
  <2>4. ASSUME NEW e \in Entries
        PROVE  \/ Changing(t, e)'
               \/ /\ ns'[e] = ns[e] /\ dcache'[e] \in {dcache[e], UNHASHED}
                  /\ ~Changing(t, e)
    BY <1>1, <1>4, <1>8, <2>1, <2>4, Zenon DEF Changing
  <2> QED
    BY <2>3, <2>4, Zenon DEF AgreeMoves
<1> QED
  BY <1>8, <1>9, <1>10, <1>11, <1>12, <1>13, <1>14, <1>15, TaskStep, Zenon

\* The dentry of a change other than a rename, and the entries it may touch.
LEMMA OneEntry ==
    ASSUME Shape, NEW t \in Tasks, pc[t] = "finish", op[t].kind # "rename"
    PROVE  /\ op[t] \in Ops /\ op[t].src \in Entries /\ op[t].kind # "walk"
           /\ where[t] = op[t].src /\ Holds(t, DirOf(op[t].src))
           /\ \A e : Changing(t, e) => e = op[t].src
           /\ DirOf(op[t].src) \in Dirs /\ NULL \notin Entries
<1>1. /\ op[t] \in Ops /\ PlaceInv(t) /\ WhereInv(t)
      /\ op[t].kind \in Changes /\ at[t] = op[t].dst
  BY Known, Zenon DEF PlaceInv
<1>2. /\ op[t].src \in Entries /\ op[t].src = op[t].dst /\ op[t].kind # "walk"
      /\ DirOf(op[t].src) \in Dirs /\ NULL \notin Entries
  BY <1>1, OpFields, DirMarks, Zenon DEF Changes, Creations
<1>3. Holds(t, DirOf(op[t].src))
  BY <1>1, Held, Zenon
<1> QED
  BY <1>1, <1>2, <1>3, Zenon DEF WhereInv, Changing

\* The common end of uvfs_create, uvfs_symlink and uvfs_mkdir: the dentry gets
\* the inode of the reply, even if it was dropped meanwhile, and is dropped
\* after an error.
LEMMA CreatedStep ==
    ASSUME Shape, NEW t \in Tasks, pc[t] = "finish", op[t].kind \in Creations,
           NEW links, rep[t].err = "OK" => links \in [Inos \cup Dirs -> Int],
           Created(t, links)
    PROVE  Shape'
<1>1. /\ CacheTypes /\ TaskTypes /\ ReplyInv(t) /\ (calm => CalmInv(t))
      /\ op[t].kind # "rename"
  BY Known, Zenon DEF Creations
<1>2. /\ op[t].src \in Entries /\ op[t].kind # "walk"
      /\ where[t] = op[t].src
      /\ \A e : Changing(t, e) => e = op[t].src
      /\ NULL \notin Entries
  BY <1>1, OneEntry, Zenon
<1>3. /\ rep[t] \in Replies /\ rep[t].err \in Results /\ "OK" \in Results
      /\ "ENOMEM" \in Results /\ (rep[t].err = "OK" => rep[t].ino \in Inos)
      /\ where[t] \in Entries \cup {NULL} /\ UNCHANGED <<ns, remote>>
      /\ where \in [Tasks -> Entries \cup {NULL}] /\ calm \in BOOLEAN
  <2>1. UNCHANGED <<ns, remote>>
    BY Zenon DEF Created
  <2>2. rep[t] \in Replies /\ (rep[t].err = "OK" => rep[t].ino \in Inos)
    BY <1>1, Zenon DEF ReplyInv
  <2>3. rep[t].err \in Results /\ "OK" \in Results /\ "ENOMEM" \in Results
    BY <2>2, Zenon DEF Replies, Results, ReplyErrors
  <2> QED
    BY <1>1, <2>1, <2>2, <2>3, Zenon DEF TaskTypes, CacheTypes
<1>4. CASE /\ CreateFailed(rep[t]) /\ dcache' = Dropped(where[t])
           /\ Leave(t, rep[t].err) /\ UNCHANGED <<i_nlink, calm>>
  <2>1. /\ dcache' \in [Entries -> Inos \cup {UNHASHED, NEGATIVE}]
        /\ \A e \in Entries : dcache'[e] \in {dcache[e], UNHASHED}
    BY <1>3, <1>4, DropTypes, Zenon
  <2>2. AgreeGoes(t)
    BY <1>4, <2>1, Zenon DEF AgreeGoes, Changing, CreateFailed
  <2>3. i_nlink' \in [Inos \cup Dirs -> Int] /\ calm' \in BOOLEAN /\ (calm' => calm)
    BY <1>1, <1>4, Zenon DEF CacheTypes
  <2> QED
    BY <1>2, <1>3, <1>4, <2>1, <2>2, <2>3, LeaveStep, Zenon
<1>5. CASE /\ ~CreateFailed(rep[t]) /\ dcache' = Instantiated(t, rep[t].ino)
           /\ i_nlink' = links /\ Leave(t, "OK") /\ calm' = calm
  <2>1. rep[t].err = "OK" /\ rep[t].ino \in Inos
    BY <1>3, <1>5, Zenon DEF CreateFailed
  <2>2. /\ dcache' \in [Entries -> Inos \cup {UNHASHED, NEGATIVE}]
        /\ \A e \in Entries : dcache'[e] = IF e = where[t] /\ dcache[e] # UNHASHED
                                           THEN rep[t].ino ELSE dcache[e]
    BY <1>1, <1>5, <2>1, Zenon DEF Instantiated, CacheTypes
  <2>3. ASSUME calm PROVE AgreeGoes(t)
    <3>1. ns[op[t].src] = rep[t].ino
      BY <1>1, <2>1, <2>3, Zenon DEF CalmInv
    <3>2. ASSUME NEW e \in Entries, e = op[t].src PROVE Agrees(e)'
      <4>1. dcache'[e] \in {rep[t].ino, UNHASHED} /\ ns'[e] = rep[t].ino
        BY <1>2, <1>3, <2>2, <3>1, <3>2, Zenon
      <4>2. rep[t].ino # NEGATIVE /\ UNHASHED # NEGATIVE /\ UNHASHED \notin Inos
        BY <2>1, DirMarks DEF UNHASHED, NEGATIVE
      <4> QED
        BY <4>1, <4>2, Zenon DEF Agrees
    <3> QED
      BY <1>2, <2>2, <3>2, Zenon DEF AgreeGoes
  <2> QED
    BY <1>2, <1>3, <1>5, <2>1, <2>2, <2>3, LeaveStep, Zenon
<1>6. CASE calm' = FALSE /\ Leave(t, "ENOMEM") /\ UNCHANGED <<dcache, i_nlink>>
  <2>1. i_nlink' \in [Inos \cup Dirs -> Int] /\ calm' \in BOOLEAN /\ ~calm'
    BY <1>1, <1>6, Zenon DEF CacheTypes
  <2> QED
    BY <1>2, <1>3, <1>6, <2>1, QuietReturn, Zenon
<1> QED
  BY <1>4, <1>5, <1>6, Zenon DEF Created

\* The three that create.
LEMMA CreateSteps ==
    ASSUME Shape, NEW t \in Tasks
    PROVE  uvfs_create(t) \/ uvfs_symlink(t) \/ uvfs_mkdir(t) => Shape'
<1>1. ASSUME pc[t] = "finish", op[t].kind \in Creations, rep[t].err = "OK"
      PROVE  /\ uvfs_iget(rep[t]) \in [Inos \cup Dirs -> Int]
             /\ Subdirectory(uvfs_iget(rep[t]), DirOf(op[t].src)) \in [Inos \cup Dirs -> Int]
  <2>1. rep[t] \in Replies /\ rep[t].ino \in Inos
    BY <1>1, Known, Zenon DEF ReplyInv
  <2>2. uvfs_iget(rep[t]) \in [Inos \cup Dirs -> Int]
    BY <2>1, IgetTypes, Zenon
  <2>3. DirOf(op[t].src) \in Inos \cup Dirs
    BY <1>1, OneEntry, Zenon DEF Creations
  <2>4. \A f \in [Inos \cup Dirs -> Int], d \in Inos \cup Dirs :
           [f EXCEPT ![d] = f[d] + 1] \in [Inos \cup Dirs -> Int]
    OBVIOUS
  <2> QED
    BY <2>2, <2>3, <2>4, Zenon DEF Subdirectory
<1>2. ASSUME uvfs_create(t) \/ uvfs_symlink(t) PROVE Shape'
  <2>1. pc[t] = "finish" /\ op[t].kind \in Creations /\ Created(t, uvfs_iget(rep[t]))
    BY <1>2, Zenon DEF uvfs_create, uvfs_symlink, Finish, Creations
  <2> QED
    BY <1>1, <2>1, CreatedStep, Zenon
<1>3. ASSUME uvfs_mkdir(t) PROVE Shape'
  <2>1. /\ pc[t] = "finish" /\ op[t].kind \in Creations
        /\ Created(t, Subdirectory(uvfs_iget(rep[t]), DirOf(op[t].src)))
    BY <1>3, Zenon DEF uvfs_mkdir, Finish, Creations
  <2> QED
    BY <1>1, <2>1, CreatedStep, Zenon
<1> QED
  BY <1>2, <1>3, Zenon

\* The link counts stay numbers.
LEMMA LinkTypes ==
    ASSUME NEW f \in [Inos \cup Dirs -> Int], NEW i \in Inos, NEW d \in Dirs
    PROVE  /\ Unlinked(f, i, d) \in [Inos \cup Dirs -> Int]
           /\ Subdirectory(f, d) \in [Inos \cup Dirs -> Int]
           /\ [f EXCEPT ![d] = f[d] - 1] \in [Inos \cup Dirs -> Int]
<1>1. \A g \in [Inos \cup Dirs -> Int], x \in Inos \cup Dirs :
         /\ [g EXCEPT ![x] = g[x] - 2] \in [Inos \cup Dirs -> Int]
         /\ [g EXCEPT ![x] = g[x] - 1] \in [Inos \cup Dirs -> Int]
         /\ [g EXCEPT ![x] = g[x] + 1] \in [Inos \cup Dirs -> Int]
  OBVIOUS
<1>2. i \in Inos \cup Dirs /\ d \in Inos \cup Dirs
  BY Zenon
<1>3. [f EXCEPT ![i] = f[i] - 2] \in [Inos \cup Dirs -> Int]
  BY <1>1, <1>2, Zenon
<1> QED
  BY <1>1, <1>2, <1>3, SMTT(30) DEF Unlinked, Subdirectory

\* The common end of uvfs_unlink and uvfs_rmdir: d_delete takes the inode out
\* of the dentry, or the dentry out of the cache.
LEMMA RemovedStep ==
    ASSUME Shape, NEW t \in Tasks, pc[t] = "finish", op[t].kind \in {"unlink", "rmdir"},
           NEW err \in Results, Removed(t, err)
    PROVE  Shape'
<1>1. /\ CacheTypes /\ TaskTypes /\ (calm => CalmInv(t)) /\ dentry[t] \in Inos
      /\ op[t].kind # "rename" /\ op[t].kind \notin Creations
  BY Known, Zenon DEF Creations, PlaceInv
<1>2. /\ op[t].src \in Entries /\ op[t].kind # "walk"
      /\ where[t] = op[t].src
      /\ \A e : Changing(t, e) => e = op[t].src
      /\ NULL \notin Entries /\ DirOf(op[t].src) \in Dirs
  BY <1>1, OneEntry, Zenon
<1>3. /\ UNCHANGED <<ns, remote, calm>> /\ calm' \in BOOLEAN /\ "OK" \in Results
      /\ where \in [Tasks -> Entries \cup {NULL}]
  BY <1>1, Zenon DEF Removed, srvVars, CacheTypes, TaskTypes, Results
<1>4. CASE /\ rep[t].err = "OK"
           /\ i_nlink' = Unlinked(i_nlink, dentry[t], DirOf(op[t].src))
           /\ dcache' \in d_delete(t) /\ Leave(t, "OK")
  <2>1. dcache' = Dropped(where[t]) \/ dcache' = Instantiated(t, NEGATIVE)
    BY <1>4, Zenon DEF d_delete
  <2>2. /\ dcache' \in [Entries -> Inos \cup {UNHASHED, NEGATIVE}]
        /\ \A e \in Entries : IF e = where[t] THEN dcache'[e] \in {UNHASHED, NEGATIVE}
                              ELSE dcache'[e] = dcache[e]
    BY <1>1, <2>1, Zenon DEF CacheTypes, Dropped, Instantiated
  <2>3. ASSUME calm PROVE AgreeGoes(t)
    <3>1. ns[op[t].src] = NULL
      BY <1>1, <1>4, <2>3, Zenon DEF CalmInv
    <3>2. ASSUME NEW e \in Entries, e = op[t].src PROVE Agrees(e)'
      <4>1. dcache'[e] \in {NEGATIVE, UNHASHED} /\ ns'[e] = NULL
        BY <1>2, <1>3, <2>2, <3>1, <3>2, Zenon
      <4>2. NEGATIVE \notin Inos /\ UNHASHED \notin Inos
        BY DirMarks, Zenon
      <4> QED
        BY <4>1, <4>2, Zenon DEF Agrees
    <3> QED
      BY <1>2, <2>2, <3>2, Zenon DEF AgreeGoes
  <2>4. i_nlink' \in [Inos \cup Dirs -> Int]
    BY <1>1, <1>2, <1>4, LinkTypes, Zenon DEF CacheTypes
  <2> QED
    BY <1>2, <1>3, <1>4, <2>2, <2>3, <2>4, LeaveStep, Zenon
<1>5. CASE rep[t].err # "OK" /\ Leave(t, err) /\ UNCHANGED <<dcache, i_nlink>>
  <2>1. i_nlink' \in [Inos \cup Dirs -> Int] /\ \A e \in Entries : ~Changing(t, e)
    BY <1>1, <1>5, Zenon DEF CacheTypes, Changing
  <2> QED
    BY <1>2, <1>3, <1>5, <2>1, QuietReturn, Zenon
<1> QED
  BY <1>4, <1>5, Zenon DEF Removed

\* The two that remove.
LEMMA RemoveSteps ==
    ASSUME Shape, NEW t \in Tasks
    PROVE  uvfs_unlink(t) \/ uvfs_rmdir(t) => Shape'
<1>1. pc[t] = "finish" => rep[t].err \in Results /\ "ENOTEMPTY" \in Results
  <2>1. pc[t] = "finish" => rep[t] \in Replies
    BY Known, Zenon DEF ReplyInv
  <2> QED
    BY <2>1, Zenon DEF Replies, Results
<1>2. ASSUME uvfs_unlink(t) PROVE Shape'
  <2>1. pc[t] = "finish" /\ op[t].kind \in {"unlink", "rmdir"} /\ Removed(t, rep[t].err)
    BY <1>2, Zenon DEF uvfs_unlink, Finish
  <2> QED
    BY <1>1, <2>1, RemovedStep, Zenon
<1>3. ASSUME uvfs_rmdir(t) PROVE Shape'
  <2> DEFINE err == IF rep[t].err = "EREMOTE" THEN "ENOTEMPTY" ELSE rep[t].err
  <2>1. pc[t] = "finish" /\ op[t].kind \in {"unlink", "rmdir"} /\ Removed(t, err)
    BY <1>3, Zenon DEF uvfs_rmdir, Finish
  <2>2. err \in Results
    BY <1>1, <2>1, Zenon
  <2> QED
    BY <2>1, <2>2, RemovedStep, Zenon
<1> QED
  BY <1>2, <1>3, Zenon

\* The name of an entry.
LEMMA EntryName ==
    /\ \A e \in Entries : NameOf(e) \in Names
    /\ \A e \in Entries, n \in Names : <<DirOf(e), n>> \in Entries
  BY DEF Entries, DirOf, NameOf

\* What the others ask after a d_move: it differs only for those that had got
\* hold of one of the two dentries.
LEMMA AskedTypes ==
    ASSUME Shape, NEW e \in Entries, NEW f \in Entries, NEW n \in Names
    PROVE  /\ AskedAlong(e, f, n) \in [Tasks -> Entries \cup {NULL}]
           /\ \A u \in Tasks : \/ AskedAlong(e, f, n)[u] = asks[u]
                               \/ where[u] \in {e, f} /\ AskedAlong(e, f, n)[u] \in Entries
<1>1. ASSUME NEW u \in Tasks, NEW g \in Entries
      PROVE  AsksNow(u, g) = asks[u] \/ AsksNow(u, g) \in Entries
  <2>1. pc[u] = "parent" => asks[u] \in Entries
    BY <1>1, Known, Zenon DEF PlaceInv, Revalidating
  <2>2. pc[u] = "parent" => <<DirOf(asks[u]), NameOf(g)>> \in Entries
    BY <1>1, <2>1, EntryName, Zenon
  <2> QED
    BY <1>1, <2>2 DEF AsksNow
<1>2. <<DirOf(e), n>> \in Entries
  BY EntryName, Zenon
<1>3. \A u \in Tasks : asks[u] \in Entries \cup {NULL}
  BY Zenon DEF Shape, TypeOK, TaskTypes
<1>4. ASSUME NEW u \in Tasks
      PROVE  /\ AskedAlong(e, f, n)[u] \in Entries \cup {NULL}
             /\ \/ AskedAlong(e, f, n)[u] = asks[u]
                \/ where[u] \in {e, f} /\ AskedAlong(e, f, n)[u] \in Entries
  <2>1. AskedAlong(e, f, n)[u] = IF where[u] = e THEN AsksNow(u, f)
                                 ELSE IF where[u] = f THEN AsksNow(u, <<DirOf(e), n>>)
                                 ELSE asks[u]
    BY <1>4, Zenon DEF AskedAlong
  <2> QED
    BY <1>1, <1>2, <1>3, <1>4, <2>1, Zenon
<1> QED
  BY <1>4, Zenon DEF AskedAlong

\* What a d_move adds to the truth.
LEMMA SeenTypes ==
    ASSUME TaskTypes, NEW e, NEW f
    PROVE  /\ SeenUntil(e, f) \in [Tasks -> SUBSET (Inos \cup {NULL})]
           /\ \A u \in Tasks :
                 /\ truth[u] \subseteq SeenUntil(e, f)[u]
                 /\ op[u] # NULL /\ dentry[u] \in Inos /\ where[u] \in {e, f} =>
                       dentry[u] \in SeenUntil(e, f)[u]
  BY Zenon DEF SeenUntil, TaskTypes

\* uvfs_rename and the d_move after it: the dentry of the old name becomes the
\* one of the new name, and nothing is left under the old one.
LEMMA RenameStep ==
    ASSUME Shape, NEW t \in Tasks, uvfs_rename(t)
    PROVE  Shape'
<1>1. /\ pc[t] = "finish" /\ op[t].kind = "rename" /\ UNCHANGED <<ns, remote, calm>>
  BY Zenon DEF uvfs_rename, Finish, srvVars
<1>2. /\ CacheTypes /\ TaskTypes /\ (calm => CalmInv(t)) /\ op[t] \in Ops
      /\ rep[t] \in Replies /\ moved[t] \in Inos /\ dentry[t] \in Inos \cup {NEGATIVE}
  <2>1. op[t].src # op[t].dst
    BY <1>1, Known, OpFields, Zenon
  <2> QED
    BY <1>1, <2>1, Known, Zenon DEF PlaceInv, ReplyInv
<1>3. PICK e \in Entries, f \in Entries :
         /\ e = op[t].src /\ f = op[t].dst /\ e # f
         /\ DirOf(e) \in Dirs /\ DirOf(f) \in Dirs
         /\ Holds(t, DirOf(e)) /\ Holds(t, DirOf(f))
         /\ \A x : Changing(t, x) => x \in {e, f}
  BY <1>1, <1>2, OpFields, Held, Zenon DEF Changes, Changing
<1>4. /\ rep[t].err \in Results /\ "OK" \in Results /\ calm' \in BOOLEAN
      /\ where \in [Tasks -> Entries \cup {NULL}] /\ NULL \notin Entries
      /\ op[t].kind # "walk"
  BY <1>1, <1>2, DirMarks, Zenon DEF Replies, Results, CacheTypes, TaskTypes
<1> DEFINE links == IF dentry[t] = NEGATIVE THEN i_nlink
                    ELSE Unlinked(i_nlink, dentry[t], DirOf(f))
           more == Subdirectory(links, DirOf(f))
<1>5. CASE /\ rep[t].err = "OK" /\ dcache' = Moved(t, e, f)
           /\ i_nlink' = IF moved[t] \in SubDirs
                         THEN [more EXCEPT ![DirOf(e)] = more[DirOf(e)] - 1]
                         ELSE links
           /\ \E n \in {NameOf(e), NameOf(f)} :
                 Return(t, "OK", TakenAlong(e, f), AskedAlong(e, f, n), SeenUntil(e, f))
  <2>1. i_nlink' \in [Inos \cup Dirs -> Int]
    <3>1. links \in [Inos \cup Dirs -> Int]
      BY <1>2, <1>3, LinkTypes, Zenon DEF CacheTypes
    <3> HIDE DEF links
    <3>2. more \in [Inos \cup Dirs -> Int]
      BY <1>2, <1>3, <3>1, LinkTypes, Zenon
    <3> HIDE DEF more
    <3> QED
      BY <1>2, <1>3, <1>5, <3>1, <3>2, LinkTypes, Zenon
  <2>2. /\ dcache' \in [Entries -> Inos \cup {UNHASHED, NEGATIVE}]
        /\ dcache'[e] = UNHASHED /\ dcache'[f] = moved[t]
        /\ \A x \in Entries \ {e, f} : dcache'[x] = dcache[x]
    BY <1>2, <1>3, <1>5, Zenon DEF Moved, CacheTypes
  <2>3. /\ TakenAlong(e, f) \in [Tasks -> Entries \cup {NULL}]
        /\ \A u \in Tasks : TakenAlong(e, f)[u] = where[u] \/ where[u] \in {e, f}
    BY <1>3, <1>4, Zenon DEF TakenAlong
  <2>4. PICK n \in Names :
           Return(t, "OK", TakenAlong(e, f), AskedAlong(e, f, n), SeenUntil(e, f))
    BY <1>3, <1>5, EntryName, Zenon
  <2>5. /\ AskedAlong(e, f, n) \in [Tasks -> Entries \cup {NULL}]
        /\ \A u \in Tasks : \/ AskedAlong(e, f, n)[u] = asks[u]
                            \/ where[u] \in {e, f} /\ AskedAlong(e, f, n)[u] \in Entries
    BY <1>3, AskedTypes, ZenonT(30)
  <2>6. /\ SeenUntil(e, f) \in [Tasks -> SUBSET (Inos \cup {NULL})]
        /\ \A u \in Tasks : /\ truth[u] \subseteq SeenUntil(e, f)[u]
                            /\ op[u] # NULL /\ dentry[u] \in Inos /\ where[u] \in {e, f} =>
                                  dentry[u] \in SeenUntil(e, f)[u]
    BY <1>2, SeenTypes, Zenon
  <2>7. WhereGoes(t, TakenAlong(e, f), AskedAlong(e, f, n), SeenUntil(e, f))
    BY <1>3, <2>3, <2>5, <2>6, Zenon DEF WhereGoes
  <2>8. ASSUME calm PROVE AgreeGoes(t)
    <3>1. ns'[f] = moved[t]
      BY <1>1, <1>2, <1>3, <1>5, <2>8, Zenon DEF CalmInv
    <3>2. UNHASHED \notin Inos /\ UNHASHED # NEGATIVE /\ moved[t] # NEGATIVE
      BY <1>2, DirMarks DEF UNHASHED, NEGATIVE
    <3>3. Agrees(e)' /\ Agrees(f)'
      BY <2>2, <3>1, <3>2, Zenon DEF Agrees
    <3> QED
      BY <1>3, <2>2, <3>3, Zenon DEF AgreeGoes
  <2> QED
    BY <1>1, <1>4, <1>5, <2>1, <2>2, <2>3, <2>4, <2>5, <2>6, <2>7, <2>8, ReturnStep,
       Zenon
<1>6. CASE /\ rep[t].err # "OK" /\ Leave(t, rep[t].err)
           /\ UNCHANGED <<dcache, i_nlink>>
  <2>1. i_nlink' \in [Inos \cup Dirs -> Int] /\ \A x \in Entries : ~Changing(t, x)
    BY <1>2, <1>6, Zenon DEF CacheTypes, Changing
  <2> QED
    BY <1>1, <1>4, <1>6, <2>1, QuietReturn, Zenon
<1> QED
  BY <1>3, <1>5, <1>6, Zenon DEF uvfs_rename

-----------------------------------------------------------------------------
(* The induction.                                                          *)

\* Somebody else changes the server: from then on it is not calm.
LEMMA RemoteStep ==
    ASSUME Shape, NEW e \in Entries, NEW i \in Inos \cup {NULL}, RemoteChange(e, i)
    PROVE  Shape'
<1> DEFINE new == [ns EXCEPT ![e] = i]
<1>1. /\ remote < MaxRemote /\ remote' = remote + 1 /\ calm' = FALSE
      /\ UNCHANGED <<dcache, i_nlink, i_mutex, pc, op, at, dentry, where, asks>>
      /\ UNCHANGED <<moved, rep, result>> /\ ServerHas(new)
  BY Zenon DEF RemoteChange, taskVars
<1>2. CacheTypes /\ TaskTypes /\ MutexInv
  BY Zenon DEF Shape, TypeOK, DirInv
<1>3. new \in [Entries -> Inos \cup {NULL}]
  BY <1>2, Zenon DEF CacheTypes
<1> HIDE DEF new
<1>4. remote' \in 0..MaxRemote
  BY <1>1, <1>2, DirConstants DEF CacheTypes
<1>5. CacheTypes'
  BY <1>1, <1>2, <1>3, <1>4, Zenon DEF CacheTypes, ServerHas
<1>6. TaskTypes'
  <2>1. ASSUME NEW u \in Tasks, op[u] # NULL PROVE new[op[u].src] \in Inos \cup {NULL}
    <3>1. op[u].src \in Entries
      BY <2>1, Known, OpFields, Zenon
    <3> QED
      BY <1>3, <3>1, Zenon
  <2>2. truth' \in [Tasks -> SUBSET (Inos \cup {NULL})]
    BY <1>1, <1>2, <2>1, Zenon DEF TaskTypes, ServerHas
  <2> QED
    BY <1>1, <1>2, <2>2, Zenon DEF TaskTypes
<1>7. MutexInv'
  BY <1>1, <1>2, Zenon DEF MutexInv, Holds
<1>8. ASSUME NEW u \in Tasks
      PROVE  PlaceInv(u)' /\ ReplyInv(u)' /\ WhereInv(u)' /\ WalkInv(u)'
  <2>1. PlaceInv(u)'
    BY <1>1, <1>8, Known, Zenon DEF PlaceInv
  <2>2. op[u] # NULL => truth[u] \subseteq truth'[u] /\ ns'[op[u].src] \in truth'[u]
    BY <1>1, <1>8, Zenon DEF ServerHas
  <2>3. pc[u] # "idle" => op[u] # NULL
    BY <1>8, Known, OpFields, Zenon
  <2>4. ReplyInv(u)'
    BY <1>1, <1>8, <2>2, <2>3, Known, Zenon DEF ReplyInv
  <2>5. WalkInv(u)'
    BY <1>1, <1>8, <2>2, Known, Zenon DEF WalkInv, Returned, Killed, NoAnswer
  <2>6. WhereInv(u)'
    BY <1>1, <1>8, <2>2, <2>3, Known, Zenon DEF WhereInv, Revalidating
  <2> QED
    BY <2>1, <2>4, <2>5, <2>6, Zenon
<1> QED
  BY <1>1, <1>5, <1>6, <1>7, <1>8, Zenon DEF Shape, TypeOK, DirInv

\* A step that changes nothing.
LEMMA StutterStep ==
    ASSUME Shape, UNCHANGED vars
    PROVE  Shape'
<1>1. /\ UNCHANGED <<ns, remote, calm, dcache, i_nlink, i_mutex, pc, op, at, dentry>>
      /\ UNCHANGED <<where, asks, moved, rep, result, truth>>
  BY Zenon DEF vars, srvVars, taskVars
<1>2. TypeOK'
  BY <1>1, Zenon DEF Shape, TypeOK, CacheTypes, TaskTypes
<1>3. MutexInv'
  BY <1>1, Zenon DEF Shape, DirInv, MutexInv, Holds
<1>4. ASSUME NEW u \in Tasks
      PROVE  /\ PlaceInv(u)' /\ ReplyInv(u)' /\ WhereInv(u)' /\ WalkInv(u)'
             /\ calm' => CalmInv(u)'
             /\ \A e : Changing(u, e) => Changing(u, e)'
  <2>1. PlaceInv(u)' /\ ReplyInv(u)'
    BY <1>1, <1>4, Known, Zenon DEF PlaceInv, ReplyInv
  <2>2. WhereInv(u)' /\ WalkInv(u)'
    BY <1>1, <1>4, Known, Zenon DEF WhereInv, WalkInv, Returned, Killed, NoAnswer
  <2>3. /\ calm' => CalmInv(u)'
        /\ \A e : Changing(u, e) => Changing(u, e)'
    BY <1>1, <1>4, Known, Zenon DEF CalmInv, Changing
  <2> QED
    BY <2>1, <2>2, <2>3, Zenon
<1>5. \A e \in Entries : Agrees(e) => Agrees(e)'
  BY <1>1, Zenon DEF Agrees
<1>6. calm' => \A e \in Entries : Agrees(e)' \/ \E u \in Tasks : Changing(u, e)'
  BY <1>1, <1>4, <1>5, Zenon DEF Shape, DirInv
<1> QED
  BY <1>2, <1>3, <1>4, <1>6, Zenon DEF Shape, DirInv

\* At first the cache is empty and nobody is in a call.
LEMMA InitShape == Init => Shape
<1> SUFFICES ASSUME Init PROVE Shape
  BY Zenon
<1>1. CacheTypes
  <2>1. remote \in 0..MaxRemote /\ i_nlink \in [Inos \cup Dirs -> Int]
    BY DirConstants DEF Init
  <2> QED
    BY <2>1, Zenon DEF Init, CacheTypes
<1>2. TaskTypes
  BY Zenon DEF Init, TaskTypes, PCs, Results
<1>3. \A t \in Tasks : pc[t] = "idle" /\ op[t] = NULL
  BY Zenon DEF Init
<1>4. MutexInv
  BY <1>3, DirMarks, Zenon DEF Init, MutexInv, Holds
<1>5. \A t \in Tasks : /\ PlaceInv(t) /\ ReplyInv(t) /\ WhereInv(t) /\ WalkInv(t)
                       /\ CalmInv(t)
  BY <1>3, Zenon DEF PlaceInv, ReplyInv, WhereInv, WalkInv, Returned, CalmInv, Revalidating
<1>6. \A e \in Entries : Agrees(e)
  BY DirMarks DEF Init, Agrees, UNHASHED, NEGATIVE
<1> QED
  BY <1>1, <1>2, <1>4, <1>5, <1>6, Zenon DEF Shape, TypeOK, DirInv

\* Every step keeps the invariant.
LEMMA NextShape == Shape /\ [Next]_vars => Shape'
<1> SUFFICES ASSUME Shape, [Next]_vars PROVE Shape'
  BY Zenon
<1>1. ASSUME NEW t \in Tasks, Step(t) PROVE Shape'
  BY <1>1, LookupSteps, AnswerSteps, RequestStep, CreateSteps, RemoveSteps,
     RenameStep, Zenon DEF Step
<1> QED
  BY <1>1, CallStep, RemoteStep, StutterStep, Zenon DEF Next

\* The invariant holds throughout.
LEMMA ShapeInvariant == Spec => []Shape
  BY InitShape, NextShape, PTL DEF Spec

(* Type correctness of dir.c's state: what the dentry cache, the mutexes,  *)
(* the link counts and every call in progress may hold.                    *)
THEOREM DirTypes == Spec => []TypeOK
<1>1. Shape => TypeOK
  BY Zenon DEF Shape
<1> QED
  BY <1>1, ShapeInvariant, PTL

(* The inductive invariant of dir.c: whose mutexes a task holds, what the  *)
(* reply it works with says of the server, which name the dentry it looked *)
(* up has and which one it asks about, and what of the cache agrees with   *)
(* the server meanwhile.                                                   *)
THEOREM DirInvariant == Spec => []DirInv
<1>1. Shape => DirInv
  BY Zenon DEF Shape
<1> QED
  BY <1>1, ShapeInvariant, PTL

(* A name that a walk finds, the server had under that very handle during  *)
(* the walk, or the cache had it until a rename of this machine ended      *)
(* during the walk: uvfs_dentry_revalidate compares the handle of a cached *)
(* dentry with the server's answer about the name the dentry has by then,  *)
(* which the d_move after uvfs_rename changes, and uvfs_lookup takes the   *)
(* inode from the answer.  For any number of tasks, names and changes at   *)
(* the server, and any failures, except that a killed task and a mount     *)
(* point are let through.                                                  *)
THEOREM FoundNamesAreThere == Spec => []FoundIsThere
<1>1. Shape => FoundIsThere
  BY Zenon DEF Shape, DirInv, WalkInv, FoundIsThere
<1> QED
  BY <1>1, ShapeInvariant, PTL

(* A name that a walk reports missing was missing during the walk:         *)
(* uvfs_dentry_revalidate drops a cached negative dentry without believing *)
(* it, and only uvfs_lookup makes one, from an answer.  The exception is a *)
(* failed request, which uvfs_lookup turns into a negative dentry as well. *)
THEOREM MissingNamesAreAbsent == Spec => []MissingIsAbsent
<1>1. Shape => MissingIsAbsent
  BY Zenon DEF Shape, DirInv, WalkInv, MissingIsAbsent
<1> QED
  BY <1>1, ShapeInvariant, PTL

(* While only this machine changes the directories and no request fails,   *)
(* the cache is right about every name of a directory whose mutex is free, *)
(* in spite of the unlocked d_drop of uvfs_dentry_revalidate in the middle *)
(* of another task's uvfs_create, uvfs_unlink or uvfs_rename.              *)
THEOREM DcacheIsExact == Spec => []DcacheExact
<1>1. ASSUME Shape PROVE DcacheExact
  <2> SUFFICES ASSUME calm, NEW e \in Entries, i_mutex[DirOf(e)] = NULL
               PROVE  Agrees(e)
    BY Zenon DEF DcacheExact, Agrees
  <2>1. ASSUME NEW t \in Tasks, Changing(t, e) PROVE FALSE
    <3>1. op[t].kind \in Changes /\ pc[t] = "finish"
      BY <1>1, <2>1, Known, Zenon DEF PlaceInv, Changing
    <3>2. Holds(t, DirOf(e))
      BY <1>1, <2>1, <3>1, Held, Zenon DEF Changing
    <3> QED
      BY <1>1, <2>1, <3>2, Held, EntryDir, DirMarks, Zenon
  <2> QED
    BY <1>1, <2>1, Zenon DEF Shape, DirInv
<1> QED
  BY <1>1, ShapeInvariant, PTL

=============================================================================
