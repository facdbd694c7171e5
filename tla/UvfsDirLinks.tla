---------------------------- MODULE UvfsDirLinks ----------------------------
(***************************************************************************)
(* Proofs about UvfsDir, part two: the link counts that dir.c adjusts by   *)
(* hand, for one task at a time.                                           *)
(*                                                                         *)
(* First what an entry that is made, removed or renamed does to the counts *)
(* of a tree of directories (Tree, Exact), as facts about functions on     *)
(* entries and cardinalities.  Then every action keeps LinkInv: a request  *)
(* changes the server's directories and leaves the counts those of before, *)
(* and the end of the operation makes up the difference.                   *)
(***************************************************************************)
EXTENDS UvfsDirProofs, FiniteSetTheorems

Directories == [Entries -> Inos \cup {NULL}]

\* Directories without the entry e lose what was there.
LEMMA TreeTake ==
    ASSUME NEW m \in Directories, Tree(m), NEW e \in Entries
    PROVE  /\ [m EXCEPT ![e] = NULL] \in Directories
           /\ Tree([m EXCEPT ![e] = NULL])
           /\ m[e] # NULL => m[e] \notin LinkedIn([m EXCEPT ![e] = NULL])
           /\ \A i : i \notin LinkedIn(m) => i \notin LinkedIn([m EXCEPT ![e] = NULL])
<1> DEFINE q == [m EXCEPT ![e] = NULL]
<1>1. q \in Directories /\ q[e] = NULL /\ \A f \in Entries \ {e} : q[f] = m[f]
  BY Zenon DEF Directories
<1>2. NULL \notin SubDirs
  BY DirMarks, Zenon DEF Inos
<1> HIDE DEF q
<1>3. \A f, g \in Entries : q[f] = q[g] /\ q[f] # NULL => f = g
  BY <1>1, Zenon DEF Tree
<1>4. ASSUME NEW d \in Dirs PROVE IsFiniteSet(SubsIn(q, d))
  <2>1. SubsIn(q, d) \subseteq SubsIn(m, d)
    <3> SUFFICES ASSUME NEW n \in Names, q[<<d, n>>] \in SubDirs
                 PROVE  m[<<d, n>>] \in SubDirs
      BY Zenon DEF SubsIn
    <3>1. <<d, n>> \in Entries
      BY <1>4 DEF Entries
    <3> QED
      BY <1>1, <1>2, <3>1, Zenon
  <2>2. IsFiniteSet(SubsIn(m, d))
    BY <1>4, Zenon DEF Tree
  <2> QED
    BY <2>1, <2>2, FS_Subset, Zenon
<1>5. m[e] # NULL => m[e] \notin LinkedIn(q)
  BY <1>1, Zenon DEF LinkedIn, Tree
<1>6. \A i : i \notin LinkedIn(m) => i \notin LinkedIn(q)
  BY <1>1, Zenon DEF LinkedIn
<1> QED
  BY <1>1, <1>3, <1>4, <1>5, <1>6, Zenon DEF q, Tree

\* What the entry e adds to the subdirectories of d when it gets inode i.
Gain(i, e, d) == IF i \in SubDirs /\ d = DirOf(e) THEN 1 ELSE 0

\* The subdirectories of d after the absent entry e has got inode i.
LEMMA SubsPut ==
    ASSUME NEW m \in Directories, NEW e \in Entries, NEW i \in Inos, m[e] = NULL,
           NEW d \in Dirs, IsFiniteSet(SubsIn(m, d))
    PROVE  /\ IsFiniteSet(SubsIn([m EXCEPT ![e] = i], d))
           /\ Cardinality(SubsIn(m, d)) \in Nat
           /\ Cardinality(SubsIn([m EXCEPT ![e] = i], d)) =
                 Cardinality(SubsIn(m, d)) + Gain(i, e, d)
<1> DEFINE p == [m EXCEPT ![e] = i]
<1>1. p[e] = i /\ \A f \in Entries \ {e} : p[f] = m[f]
  BY Zenon DEF Directories
<1>2. NULL \notin SubDirs
  BY DirMarks, Zenon DEF Inos
<1>3. PICK c \in Dirs, k \in Names : e = <<c, k>> /\ DirOf(e) = c
  BY DEF Entries, DirOf
<1>4. \A n \in Names : <<d, n>> \in Entries /\ (<<d, n>> = e <=> d = c /\ n = k)
  BY <1>3 DEF Entries
<1>5. Cardinality(SubsIn(m, d)) \in Nat
  BY FS_CardinalityType, Zenon
<1> HIDE DEF p
<1>6. CASE i \in SubDirs /\ d = c
  <2>1. SubsIn(p, d) = SubsIn(m, d) \cup {k}
    BY <1>1, <1>3, <1>4, <1>6, Zenon DEF SubsIn
  <2>2. k \notin SubsIn(m, d)
    BY <1>2, <1>3, <1>6, Zenon DEF SubsIn
  <2>3. /\ IsFiniteSet(SubsIn(p, d))
        /\ Cardinality(SubsIn(p, d)) = Cardinality(SubsIn(m, d)) + 1
    BY <2>1, <2>2, FS_AddElement, Zenon
  <2>4. Gain(i, e, d) = 1
    BY <1>3, <1>6, Zenon DEF Gain
  <2> QED
    BY <1>5, <2>3, <2>4 DEF p
<1>7. CASE ~(i \in SubDirs /\ d = c)
  <2>1. SubsIn(p, d) = SubsIn(m, d)
    <3>1. ASSUME NEW n \in Names
          PROVE  p[<<d, n>>] \in SubDirs <=> m[<<d, n>>] \in SubDirs
      <4>1. CASE <<d, n>> = e
        BY <1>1, <1>2, <1>4, <1>7, <4>1, Zenon
      <4>2. CASE <<d, n>> # e
        BY <1>1, <1>4, <4>2, Zenon
      <4> QED
        BY <4>1, <4>2, Zenon
    <3> QED
      BY <3>1, Zenon DEF SubsIn
  <2>2. Gain(i, e, d) = 0
    BY <1>3, <1>7, Zenon DEF Gain
  <2> QED
    BY <1>5, <2>1, <2>2 DEF p
<1> QED
  BY <1>6, <1>7, Zenon

\* Directories with one more entry, of an inode that had none.
LEMMA TreePut ==
    ASSUME NEW m \in Directories, Tree(m), NEW e \in Entries, NEW i \in Inos,
           m[e] = NULL, i \notin LinkedIn(m)
    PROVE  [m EXCEPT ![e] = i] \in Directories /\ Tree([m EXCEPT ![e] = i])
<1> DEFINE p == [m EXCEPT ![e] = i]
<1>1. p \in Directories /\ p[e] = i /\ \A f \in Entries \ {e} : p[f] = m[f]
  BY Zenon DEF Directories
<1>2. i # NULL /\ \A f \in Entries : m[f] # i
  BY DirMarks, Zenon DEF LinkedIn, Inos
<1>3. \A d \in Dirs : IsFiniteSet(SubsIn(p, d))
  BY SubsPut, Zenon DEF Tree
<1> HIDE DEF p
<1>4. \A f, g \in Entries : p[f] = p[g] /\ p[f] # NULL => f = g
  BY <1>1, <1>2, Zenon DEF Tree
<1> QED
  BY <1>1, <1>3, <1>4, Zenon DEF p, Tree

\* The counts of p are those of m with inode i under the name e.
Puts(m, e, i, p) ==
    /\ \A j \in Inos : NlinkIn(p, j) = IF j = i THEN Full(i) ELSE NlinkIn(m, j)
    /\ NlinkIn(m, i) = 0
    /\ \A d \in Dirs : /\ Cardinality(SubsIn(m, d)) \in Nat
                       /\ Cardinality(SubsIn(p, d)) =
                             Cardinality(SubsIn(m, d)) + Gain(i, e, d)

LEMMA PutCounts ==
    ASSUME NEW m \in Directories, Tree(m), NEW e \in Entries, NEW i \in Inos,
           m[e] = NULL, i \notin LinkedIn(m)
    PROVE  Puts(m, e, i, [m EXCEPT ![e] = i])
<1> DEFINE p == [m EXCEPT ![e] = i]
<1>1. p \in Directories /\ p[e] = i /\ \A f \in Entries \ {e} : p[f] = m[f]
  BY Zenon DEF Directories
<1>2. i # NULL
  BY DirMarks, Zenon
<1>3. \A d \in Dirs : /\ Cardinality(SubsIn(m, d)) \in Nat
                      /\ Cardinality(SubsIn(p, d)) =
                            Cardinality(SubsIn(m, d)) + Gain(i, e, d)
  BY SubsPut, Zenon DEF Tree
<1> HIDE DEF p
<1>4. \A j \in Inos : j \in LinkedIn(p) <=> j = i \/ j \in LinkedIn(m)
  BY <1>1, <1>2, Zenon DEF LinkedIn
<1>5. \A j \in Inos : NlinkIn(p, j) = IF j = i THEN Full(i) ELSE NlinkIn(m, j)
  BY <1>4 DEF NlinkIn
<1>6. NlinkIn(m, i) = 0
  BY Zenon DEF NlinkIn
<1> QED
  BY <1>3, <1>5, <1>6, Zenon DEF p, Puts
\* No directory is itself an entry.
LEMMA DirIno == \A d \in Dirs, i \in Inos : d # i
  BY DirConstants, Zenon DEF Inos

\* The adjustment of uvfs_create, uvfs_symlink and uvfs_mkdir.
LEMMA CreatedCounts ==
    ASSUME NEW f \in [Inos \cup Dirs -> Int], NEW m, NEW p, NEW e \in Entries,
           NEW i \in Inos, Puts(m, e, i, p), Exact(f, m)
    PROVE  /\ i \in SubDirs =>
                 Exact(Subdirectory([f EXCEPT ![i] = Full(i)], DirOf(e)), p)
           /\ i \notin SubDirs => Exact([f EXCEPT ![i] = Full(i)], p)
<1> DEFINE g == [f EXCEPT ![i] = Full(i)]
           h == Subdirectory(g, DirOf(e))
<1>1. Full(i) \in Int
  BY DEF Full
<1>2. /\ g \in [Inos \cup Dirs -> Int] /\ g[i] = Full(i)
      /\ \A x \in (Inos \cup Dirs) \ {i} : g[x] = f[x]
  BY <1>1, Zenon
<1>3. /\ \A j \in Inos : g[j] = NlinkIn(p, j)
      /\ \A d \in Dirs : g[d] = f[d]
  BY <1>2, DirIno, Zenon DEF Puts, Exact
<1> HIDE DEF g
<1>4. ASSUME i \notin SubDirs PROVE Exact(g, p)
  <2>1. \A d \in Dirs : Gain(i, e, d) = 0
    BY <1>4, Zenon DEF Gain
  <2>2. \A d \in Dirs : Cardinality(SubsIn(p, d)) = Cardinality(SubsIn(m, d))
    BY <2>1 DEF Puts
  <2> QED
    BY <1>3, <2>2, Zenon DEF Exact
<1>5. ASSUME i \in SubDirs PROVE Exact(h, p)
  <2>1. DirOf(e) \in Dirs
    BY EntryDir, Zenon
  <2>2. /\ h[DirOf(e)] = g[DirOf(e)] + 1
        /\ \A x \in (Inos \cup Dirs) \ {DirOf(e)} : h[x] = g[x]
    BY <1>2, <2>1, Zenon DEF Subdirectory
  <2> HIDE DEF h
  <2>3. \A j \in Inos : h[j] = NlinkIn(p, j)
    BY <1>3, <2>1, <2>2, DirIno, Zenon
  <2>4. ASSUME NEW d \in Dirs PROVE h[d] = 2 + Cardinality(SubsIn(p, d))
    <3>1. g[d] = 2 + Cardinality(SubsIn(m, d)) /\ Cardinality(SubsIn(m, d)) \in Nat
          /\ Cardinality(SubsIn(p, d)) = Cardinality(SubsIn(m, d)) + Gain(i, e, d)
      BY <1>3, <2>4, Zenon DEF Exact, Puts
    <3>2. h[d] = g[d] + Gain(i, e, d)
      BY <1>2, <1>5, <2>2, <2>4 DEF Gain
    <3>3. Gain(i, e, d) \in Int
      BY DEF Gain
    <3> QED
      BY <3>1, <3>2, <3>3
  <2> QED
    BY <2>3, <2>4, Zenon DEF Exact
<1> QED
  BY <1>4, <1>5, Zenon DEF g, h

\* The adjustment of uvfs_unlink and uvfs_rmdir, and of uvfs_rename for what
\* it replaces, inode by inode.
Loses(f, e, i, g) ==
    /\ g \in [Inos \cup Dirs -> Int]
    /\ g[i] = f[i] - Full(i)
    /\ \A j \in Inos \ {i} : g[j] = f[j]
    /\ \A d \in Dirs : g[d] = f[d] - Gain(i, e, d)

LEMMA UnlinkedCounts ==
    ASSUME NEW f \in [Inos \cup Dirs -> Int], NEW e \in Entries, NEW i \in Inos
    PROVE  Loses(f, e, i, Unlinked(f, i, DirOf(e)))
<1> DEFINE g == Unlinked(f, i, DirOf(e))
<1>1. DirOf(e) \in Dirs /\ DirOf(e) # i
  BY EntryDir, DirIno, Zenon
<1>2. g \in [Inos \cup Dirs -> Int]
  BY <1>1, LinkTypes, Zenon
<1>3. CASE i \in SubDirs
  BY <1>1, <1>2, <1>3, DirIno DEF Loses, Unlinked, Full, Gain
<1>4. CASE i \notin SubDirs
  BY <1>1, <1>2, <1>4, DirIno DEF Loses, Unlinked, Full, Gain
<1> QED
  BY <1>3, <1>4, Zenon

LEMMA RemovedCounts ==
    ASSUME NEW f \in [Inos \cup Dirs -> Int], NEW m, NEW p, NEW e \in Entries,
           NEW i \in Inos, Puts(m, e, i, p), Exact(f, p)
    PROVE  Exact(Unlinked(f, i, DirOf(e)), m)
<1> DEFINE g == Unlinked(f, i, DirOf(e))
<1>1. /\ g[i] = f[i] - Full(i)
      /\ \A j \in Inos \ {i} : g[j] = f[j]
      /\ \A d \in Dirs : g[d] = f[d] - Gain(i, e, d)
  BY UnlinkedCounts, Zenon DEF Loses
<1> HIDE DEF g
<1>2. \A j \in Inos : g[j] = NlinkIn(m, j)
  BY <1>1 DEF Puts, Exact, Full
<1>3. \A d \in Dirs : g[d] = 2 + Cardinality(SubsIn(m, d))
  BY <1>1 DEF Puts, Exact, Gain
<1> QED
  BY <1>2, <1>3, Zenon DEF g, Exact
\* A rename: v moves from x to y, and w, if any, loses the name y.  b has
\* neither, a has w at y, q is before, p after.
Renames(b, a, q, p, x, y, v, w) ==
    /\ x \in Entries /\ y \in Entries /\ v \in Inos
    /\ w \in Inos \cup {NEGATIVE} /\ w # v
    /\ Puts(b, y, v, p) /\ Puts(a, x, v, q)
    /\ w = NEGATIVE => a = b
    /\ w # NEGATIVE => Puts(b, y, w, a)

\* The adjustment of uvfs_rename.
LEMMA RenamedCounts ==
    ASSUME NEW f \in [Inos \cup Dirs -> Int], NEW b, NEW a, NEW q, NEW p,
           NEW x, NEW y, NEW v, NEW w, Renames(b, a, q, p, x, y, v, w), Exact(f, q),
           NEW links, links = IF w = NEGATIVE THEN f ELSE Unlinked(f, w, DirOf(y))
    PROVE  /\ v \in SubDirs =>
                 Exact([Subdirectory(links, DirOf(y)) EXCEPT ![DirOf(x)] = @ - 1], p)
           /\ v \notin SubDirs => Exact(links, p)
<1> DEFINE h == Subdirectory(links, DirOf(y))
           g == [h EXCEPT ![DirOf(x)] = @ - 1]
<1> x \in Entries /\ y \in Entries /\ v \in Inos
  BY Zenon DEF Renames
<1> /\ w \in Inos \cup {NEGATIVE} /\ w # v /\ Puts(b, y, v, p) /\ Puts(a, x, v, q)
    /\ w = NEGATIVE => a = b
    /\ w # NEGATIVE => Puts(b, y, w, a)
  BY Zenon DEF Renames
<1>1. DirOf(x) \in Dirs /\ DirOf(y) \in Dirs
  BY EntryDir, Zenon
<1>2. /\ \A j \in Inos : f[j] = IF j = v THEN Full(v) ELSE NlinkIn(a, j)
      /\ \A d \in Dirs : f[d] = 2 + Cardinality(SubsIn(a, d)) + Gain(v, x, d)
  <2>1. \A d \in Dirs : /\ f[d] = 2 + (Cardinality(SubsIn(a, d)) + Gain(v, x, d))
                        /\ Cardinality(SubsIn(a, d)) \in Nat
    BY Zenon DEF Puts, Exact
  <2>2. \A d \in Dirs : f[d] = 2 + Cardinality(SubsIn(a, d)) + Gain(v, x, d)
    BY <2>1 DEF Gain
  <2> QED
    BY <2>2, Zenon DEF Puts, Exact
<1>3. /\ links \in [Inos \cup Dirs -> Int]
      /\ \A j \in Inos : links[j] = IF j = v THEN Full(v) ELSE NlinkIn(b, j)
      /\ \A d \in Dirs : links[d] = 2 + Cardinality(SubsIn(b, d)) + Gain(v, x, d)
  <2>1. CASE w = NEGATIVE
    BY <1>2, <2>1, Zenon
  <2>2. CASE w # NEGATIVE
    <3>1. w \in Inos /\ Puts(b, y, w, a) /\ links = Unlinked(f, w, DirOf(y))
      BY <2>2, Zenon
    <3>2. Loses(f, y, w, links)
      BY <3>1, UnlinkedCounts, Zenon
    <3>3. links[w] = NlinkIn(b, w)
      BY <1>2, <3>1, <3>2 DEF Loses, Puts, Full
    <3>4. \A j \in Inos : links[j] = IF j = v THEN Full(v) ELSE NlinkIn(b, j)
      <4>1. \A j \in Inos \ {v, w} : links[j] = NlinkIn(b, j)
        BY <1>2, <3>1, <3>2, Zenon DEF Loses, Puts
      <4>2. links[v] = Full(v)
        BY <1>2, <3>2, Zenon DEF Loses
      <4> QED
        BY <3>1, <3>3, <4>1, <4>2, Zenon
    <3>5. \A d \in Dirs : links[d] = 2 + Cardinality(SubsIn(b, d)) + Gain(v, x, d)
      BY <1>2, <3>1, <3>2 DEF Loses, Puts, Gain
    <3> QED
      BY <3>2, <3>4, <3>5, Zenon DEF Loses
  <2> QED
    BY <2>1, <2>2, Zenon
<1>4. ASSUME v \notin SubDirs PROVE Exact(links, p)
  <2>1. \A d \in Dirs : Gain(v, x, d) = 0 /\ Gain(v, y, d) = 0
    BY <1>4, Zenon DEF Gain
  <2>2. \A d \in Dirs : links[d] = 2 + Cardinality(SubsIn(p, d))
    BY <1>3, <2>1 DEF Puts
  <2> QED
    BY <1>3, <2>2, Zenon DEF Puts, Exact
<1>5. ASSUME v \in SubDirs PROVE Exact(g, p)
  <2>1. /\ h \in [Inos \cup Dirs -> Int] /\ h[DirOf(y)] = links[DirOf(y)] + 1
        /\ \A z \in (Inos \cup Dirs) \ {DirOf(y)} : h[z] = links[z]
    <3>1. h \in [Inos \cup Dirs -> Int]
      BY <1>1, <1>3, LinkTypes, Zenon
    <3> QED
      BY <1>1, <1>3, <3>1, Zenon DEF Subdirectory
  <2> HIDE DEF h
  <2>2. /\ g[DirOf(x)] = h[DirOf(x)] - 1
        /\ \A z \in (Inos \cup Dirs) \ {DirOf(x)} : g[z] = h[z]
    BY <1>1, <2>1, Zenon
  <2> HIDE DEF g
  <2>3. \A j \in Inos : g[j] = links[j]
    BY <1>1, <2>1, <2>2, DirIno, Zenon
  <2>4. ASSUME NEW d \in Dirs PROVE g[d] = 2 + Cardinality(SubsIn(p, d))
    <3>1. h[d] = links[d] + Gain(v, y, d)
      BY <1>3, <1>5, <2>1, <2>4 DEF Gain
    <3>2. g[d] = h[d] - Gain(v, x, d)
      BY <1>5, <2>1, <2>2, <2>4 DEF Gain
    <3>3. Gain(v, x, d) \in Int /\ Gain(v, y, d) \in Int
      BY DEF Gain
    <3>4. /\ links[d] = 2 + Cardinality(SubsIn(b, d)) + Gain(v, x, d)
          /\ Cardinality(SubsIn(b, d)) \in Nat
          /\ Cardinality(SubsIn(p, d)) = Cardinality(SubsIn(b, d)) + Gain(v, y, d)
      BY <1>3, <2>4, Zenon DEF Puts
    <3> QED
      BY <3>1, <3>2, <3>3, <3>4
  <2>5. \A j \in Inos : g[j] = NlinkIn(p, j)
    BY <1>3, <2>3, Zenon DEF Puts
  <2> QED
    BY <2>4, <2>5, Zenon DEF Exact
<1> QED
  BY <1>4, <1>5, Zenon DEF g, h
\* The server's counts are those of its directories.
LEMMA ServerCounts ==
    /\ Linked = LinkedIn(ns) /\ \A i : Nlink(i) = NlinkIn(ns, i)
    /\ \A d : DirNlink(d) = 2 + Cardinality(SubsIn(ns, d))
  BY DEF Linked, LinkedIn, Nlink, NlinkIn, Full, DirNlink, SubsIn

\* Between two changes the link counts are the server's.
LEMMA NowExact ==
    ASSUME LinkInv, OneTask, NEW t \in Tasks, calm, ~Pending(t)
    PROVE  Exact(i_nlink, ns)
  BY Zenon DEF LinkInv, OneTask

\* A step of the only task that leaves the server alone.
LEMMA QuietStep ==
    ASSUME LinkInv, OneTask, NEW t \in Tasks, ns' = ns, ~Pending(t)',
           calm' => Exact(i_nlink', ns) /\ CountInv(t)'
    PROVE  LinkInv'
<1>1. Tree(ns)'
  BY Zenon DEF LinkInv, Tree, SubsIn
<1>2. Exact(i_nlink', ns) => Exact(i_nlink, ns)'
  BY Zenon
<1> QED
  BY <1>1, <1>2, Zenon DEF LinkInv, OneTask

\* Places at which there is nothing to count.
LEMMA NoCount ==
    ASSUME NEW t \in Tasks, pc'[t] \notin {"request", "looked_up", "refresh", "finish"}
    PROVE  CountInv(t)' /\ ~Pending(t)'
  BY Zenon DEF CountInv, Pending

\* What the directories were before a change that the server has carried out.
LEMMA BeforeIs ==
    ASSUME NEW t \in Tasks
    PROVE  /\ op[t].kind \in Creations => Before(t) = [ns EXCEPT ![op[t].src] = NULL]
           /\ op[t].kind \in {"unlink", "rmdir"} =>
                 Before(t) = [ns EXCEPT ![op[t].src] = dentry[t]]
           /\ op[t].kind = "rename" =>
                 Before(t) = [[ns EXCEPT ![op[t].dst] = Inode(dentry[t])]
                                 EXCEPT ![op[t].src] = moved[t]]
<1>1. CASE op[t].kind \in Creations
  BY <1>1 DEF Before, Creations
<1>2. CASE op[t].kind \in {"unlink", "rmdir"}
  BY <1>2 DEF Before, Creations
<1>3. CASE op[t].kind = "rename"
  BY <1>3 DEF Before, Creations
<1> QED
  BY <1>1, <1>2, <1>3, Zenon

\* Directories with the same entries are the same.
LEMMA SameEntries ==
    ASSUME NEW m \in Directories, NEW p \in Directories,
           \A e \in Entries : m[e] = p[e]
    PROVE  m = p
  BY DEF Directories

\* To take an entry away and put it back changes nothing.
LEMMA PutBack ==
    ASSUME NEW m \in Directories, NEW e \in Entries
    PROVE  /\ \A i : [[m EXCEPT ![e] = NULL] EXCEPT ![e] = i] = [m EXCEPT ![e] = i]
           /\ [m EXCEPT ![e] = m[e]] = m
  BY DEF Directories

\* uvfs_create, uvfs_symlink and uvfs_mkdir set the link counts right.
LEMMA CreatedExact ==
    ASSUME Shape, LinkInv, calm, NEW t \in Tasks, Pending(t), op[t].kind \in Creations
    PROVE  /\ op[t].kind = "mkdir" =>
                 Exact(Subdirectory(uvfs_iget(rep[t]), DirOf(op[t].src)), ns)
           /\ op[t].kind # "mkdir" => Exact(uvfs_iget(rep[t]), ns)
<1> DEFINE e == op[t].src
           i == rep[t].ino
           m == [ns EXCEPT ![e] = NULL]
<1>1. /\ ns \in Directories /\ i_nlink \in [Inos \cup Dirs -> Int]
      /\ pc[t] = "finish" /\ rep[t].err = "OK" /\ op[t] \in Ops
      /\ ReplyInv(t) /\ CalmInv(t)
  BY Known, Zenon DEF CacheTypes, Directories, Pending
<1>2. e \in Entries /\ i \in Inos /\ ns[e] = i
  BY <1>1, OpFields, Zenon DEF ReplyInv, CalmInv
<1>3. /\ rep[t].nlink = Full(i) /\ (i \in SubDirs <=> op[t].kind = "mkdir")
      /\ Tree(ns) /\ Exact(i_nlink, m)
  <2>1. CountInv(t) /\ Exact(i_nlink, Before(t)) /\ Tree(ns)
    BY Zenon DEF LinkInv
  <2>2. Before(t) = m
    BY BeforeIs, Zenon
  <2> QED
    BY <2>1, <2>2, Zenon DEF CountInv
<1>4. i # NULL
  BY <1>2, DirMarks, Zenon
<1>5. m \in Directories /\ Tree(m) /\ i \notin LinkedIn(m)
  BY <1>1, <1>2, <1>3, <1>4, TreeTake, Zenon
<1>6. m[e] = NULL /\ [m EXCEPT ![e] = i] = ns
  <2>1. m[e] = NULL
    BY <1>1, <1>2, Zenon DEF Directories
  <2>2. [m EXCEPT ![e] = i] = [ns EXCEPT ![e] = ns[e]]
    BY <1>1, <1>2, PutBack, Zenon
  <2> QED
    BY <1>1, <1>2, <2>1, <2>2, PutBack, Zenon
<1>7. uvfs_iget(rep[t]) = [i_nlink EXCEPT ![i] = Full(i)]
  BY <1>3, Zenon DEF uvfs_iget
<1> HIDE DEF e, i, m
<1>8. Puts(m, e, i, ns)
  BY <1>2, <1>5, <1>6, PutCounts, Zenon
<1>9. /\ i \in SubDirs => Exact(Subdirectory([i_nlink EXCEPT ![i] = Full(i)], DirOf(e)), ns)
      /\ i \notin SubDirs => Exact([i_nlink EXCEPT ![i] = Full(i)], ns)
  BY <1>1, <1>2, <1>3, <1>8, CreatedCounts, Zenon
<1> QED
  BY <1>3, <1>7, <1>9, Zenon DEF e

\* So do uvfs_unlink and uvfs_rmdir.
LEMMA RemovedExact ==
    ASSUME Shape, LinkInv, calm, NEW t \in Tasks, Pending(t),
           op[t].kind \in {"unlink", "rmdir"}
    PROVE  Exact(Unlinked(i_nlink, dentry[t], DirOf(op[t].src)), ns)
<1> DEFINE e == op[t].src
           i == dentry[t]
           p == [ns EXCEPT ![e] = i]
<1>1. /\ ns \in Directories /\ i_nlink \in [Inos \cup Dirs -> Int]
      /\ pc[t] = "finish" /\ rep[t].err = "OK" /\ op[t] \in Ops
      /\ PlaceInv(t) /\ CalmInv(t) /\ op[t].kind \notin Creations
  BY Known, Zenon DEF CacheTypes, Directories, Pending, Creations
<1>2. e \in Entries /\ i \in Inos /\ ns[e] = NULL
  BY <1>1, OpFields, Zenon DEF PlaceInv, CalmInv
<1>3. i \notin LinkedIn(ns) /\ Tree(ns) /\ Exact(i_nlink, p)
  <2>1. CountInv(t) /\ Exact(i_nlink, Before(t)) /\ Tree(ns)
    BY Zenon DEF LinkInv
  <2>2. Before(t) = p
    BY BeforeIs, Zenon
  <2> QED
    BY <1>1, <2>1, <2>2, ServerCounts, Zenon DEF CountInv
<1>4. Puts(ns, e, i, p)
  BY <1>1, <1>2, <1>3, PutCounts, Zenon
<1> HIDE DEF e, i, p
<1> QED
  BY <1>1, <1>2, <1>3, <1>4, RemovedCounts, Zenon DEF e, i

\* So does uvfs_rename.
LEMMA RenamedExact ==
    ASSUME Shape, LinkInv, calm, NEW t \in Tasks, Pending(t), op[t].kind = "rename",
           NEW links, links = IF dentry[t] = NEGATIVE THEN i_nlink
                              ELSE Unlinked(i_nlink, dentry[t], DirOf(op[t].dst))
    PROVE  /\ moved[t] \in SubDirs =>
                 Exact([Subdirectory(links, DirOf(op[t].dst))
                           EXCEPT ![DirOf(op[t].src)] = @ - 1], ns)
           /\ moved[t] \notin SubDirs => Exact(links, ns)
<1> DEFINE x == op[t].src
           y == op[t].dst
           v == moved[t]
           w == dentry[t]
           b == [ns EXCEPT ![y] = NULL]
           a == [b EXCEPT ![y] = Inode(w)]
           q == [a EXCEPT ![x] = v]
<1>1. /\ ns \in Directories /\ i_nlink \in [Inos \cup Dirs -> Int]
      /\ pc[t] = "finish" /\ rep[t].err = "OK" /\ op[t] \in Ops
      /\ PlaceInv(t) /\ CalmInv(t) /\ op[t].kind \notin Creations
  BY Known, Zenon DEF CacheTypes, Directories, Pending, Creations
<1>2. /\ x \in Entries /\ y \in Entries /\ x # y
      /\ at[t] = y /\ v \in Inos /\ w \in Inos \cup {NEGATIVE}
  BY <1>1, OpFields, Zenon DEF PlaceInv
<1>3. ns[x] = NULL /\ ns[y] = v
  BY <1>1, Zenon DEF CalmInv
<1>4. w \notin LinkedIn(ns) /\ Tree(ns) /\ Exact(i_nlink, q)
  <2>1. CountInv(t) /\ Exact(i_nlink, Before(t)) /\ Tree(ns)
    BY Zenon DEF LinkInv
  <2>2. Before(t) = [[ns EXCEPT ![y] = Inode(w)] EXCEPT ![x] = v]
    BY BeforeIs, Zenon
  <2>3. a = [ns EXCEPT ![y] = Inode(w)]
    BY <1>1, <1>2, PutBack, Zenon
  <2> QED
    BY <1>1, <2>1, <2>2, <2>3, ServerCounts, Zenon DEF CountInv
<1>5. v # NULL /\ w # v
  BY <1>2, <1>3, <1>4, DirMarks, Zenon DEF LinkedIn
<1>6. b \in Directories /\ Tree(b) /\ v \notin LinkedIn(b) /\ w \notin LinkedIn(b)
  BY <1>1, <1>2, <1>3, <1>4, <1>5, TreeTake, Zenon
<1>7. b[x] = NULL /\ b[y] = NULL /\ [b EXCEPT ![y] = v] = ns
  <2>1. b[x] = NULL /\ b[y] = NULL
    BY <1>1, <1>2, <1>3, Zenon DEF Directories
  <2>2. [b EXCEPT ![y] = v] = [ns EXCEPT ![y] = ns[y]]
    BY <1>1, <1>2, <1>3, PutBack, Zenon
  <2> QED
    BY <1>1, <1>2, <2>1, <2>2, PutBack, Zenon
<1> HIDE DEF b
<1>8. Puts(b, y, v, ns)
  BY <1>2, <1>6, <1>7, PutCounts, Zenon
<1>9. /\ a \in Directories /\ Tree(a) /\ a[x] = NULL /\ v \notin LinkedIn(a)
      /\ w = NEGATIVE => a = b
      /\ w # NEGATIVE => Puts(b, y, w, a)
  <2>1. CASE w = NEGATIVE
    <3>1. a = b
      BY <1>2, <1>6, <1>7, <2>1, PutBack, Zenon DEF Inode
    <3> QED
      BY <1>6, <1>7, <2>1, <3>1, Zenon
  <2>2. CASE w # NEGATIVE
    <3>1. w \in Inos /\ a = [b EXCEPT ![y] = w]
      BY <1>2, <2>2, Zenon DEF Inode
    <3>2. a \in Directories /\ Tree(a)
      BY <1>2, <1>6, <1>7, <3>1, TreePut, Zenon
    <3>3. Puts(b, y, w, a)
      BY <1>2, <1>6, <1>7, <3>1, PutCounts, Zenon
    <3>4. a[y] = w /\ \A z \in Entries \ {y} : a[z] = b[z]
      BY <1>2, <1>6, <3>1, Zenon DEF Directories
    <3>5. a[x] = NULL /\ v \notin LinkedIn(a)
      BY <1>2, <1>5, <1>6, <1>7, <3>4, Zenon DEF LinkedIn
    <3> QED
      BY <2>2, <3>2, <3>3, <3>5, Zenon
  <2> QED
    BY <2>1, <2>2, Zenon
<1> HIDE DEF a
<1>10. Puts(a, x, v, q)
  BY <1>2, <1>9, PutCounts, Zenon
<1> HIDE DEF x, y, v, w, q
<1>11. links = IF w = NEGATIVE THEN i_nlink ELSE Unlinked(i_nlink, w, DirOf(y))
  BY Zenon DEF w, y
<1>12. /\ v \in SubDirs =>
            Exact([Subdirectory(links, DirOf(y)) EXCEPT ![DirOf(x)] = @ - 1], ns)
       /\ v \notin SubDirs => Exact(links, ns)
  <2>1. Renames(b, a, q, ns, x, y, v, w)
    BY <1>2, <1>5, <1>8, <1>9, <1>10, Zenon DEF Renames
  <2> QED
    BY <1>1, <1>4, <1>11, <2>1, RenamedCounts, Zenon
<1> QED
  BY <1>12, Zenon DEF x, y, v
\* What a rename makes of the directories m.
Renamed(m, x, y) == [[m EXCEPT ![x] = NULL] EXCEPT ![y] = m[x]]

\* Forms of what the server makes of its directories.
Grown(o, s) ==
    /\ o.kind \in Creations /\ ns[o.src] = NULL
    /\ s[2].ino \in Inos /\ s[2].ino \notin LinkedIn(ns)
    /\ s[1] = [ns EXCEPT ![o.src] = s[2].ino]
    /\ s[2].nlink = Full(s[2].ino)
    /\ s[2].ino \in SubDirs <=> o.kind = "mkdir"

Shrunk(o, s) ==
    o.kind \in {"unlink", "rmdir"} /\ s[1] = [ns EXCEPT ![o.src] = NULL]

Shifted(o, s) ==
    /\ o.kind = "rename" /\ ns[o.src] # NULL
    /\ s[1] = Renamed(ns, o.src, o.dst)

LEMMA ServedForms ==
    ASSUME Shape, NEW o \in Ops, o.kind \in Changes, NEW s \in Served(o)
    PROVE  \/ s[1] = ns /\ s[2].err # "OK"
           \/ s[2].err = "OK" /\ (Grown(o, s) \/ Shrunk(o, s) \/ Shifted(o, s))
<1>1. \A err : Failed(err).err = err
  BY DEF Failed
<1>2. Files \cap SubDirs = {} /\ Linked = LinkedIn(ns)
  BY DirConstants, ServerCounts, Zenon
<1>3. CASE \E err \in ReplyErrors : s = <<ns, Failed(err)>>
  <2>1. PICK err \in ReplyErrors : s = <<ns, Failed(err)>>
    BY <1>3, Zenon
  <2>2. s[1] = ns /\ s[2] = Failed(err) /\ err # "OK"
    BY <2>1 DEF ReplyErrors
  <2> QED
    BY <1>1, <2>2, Zenon
<1>4. ASSUME o.kind \in Creations, ns[o.src] = NULL, NEW i \in Inos \ Linked,
             i \in SubDirs <=> o.kind = "mkdir",
             s = <<[ns EXCEPT ![o.src] = i], [err |-> "OK", ino |-> i,
                   nlink |-> IF i \in SubDirs THEN 2 ELSE 1]>>
      PROVE  s[2].err = "OK" /\ Grown(o, s)
  <2>1. /\ s[1] = [ns EXCEPT ![o.src] = i] /\ s[2].err = "OK" /\ s[2].ino = i
        /\ s[2].nlink = IF i \in SubDirs THEN 2 ELSE 1
    BY <1>4
  <2> QED
    BY <1>2, <1>4, <2>1, Zenon DEF Grown, Full
<1>5. ASSUME o.kind \in {"unlink", "rmdir"},
             s = <<[ns EXCEPT ![o.src] = NULL], Failed("OK")>>
      PROVE  s[2].err = "OK" /\ Shrunk(o, s)
  <2>1. s[1] = [ns EXCEPT ![o.src] = NULL] /\ s[2] = Failed("OK")
    BY <1>5
  <2> QED
    BY <1>1, <1>5, <2>1, Zenon DEF Shrunk
<1>6. ASSUME o.kind = "rename", ns[o.src] # NULL,
             s = <<[[ns EXCEPT ![o.src] = NULL] EXCEPT ![o.dst] = ns[o.src]], Failed("OK")>>
      PROVE  s[2].err = "OK" /\ Shifted(o, s)
  <2>1. s[1] = [[ns EXCEPT ![o.src] = NULL] EXCEPT ![o.dst] = ns[o.src]]
        /\ s[2] = Failed("OK")
    BY <1>6
  <2> QED
    BY <1>1, <1>6, <2>1, Zenon DEF Shifted, Renamed
<1>7. \/ \E err \in ReplyErrors : s = <<ns, Failed(err)>>
      \/ /\ o.kind \in Creations /\ ns[o.src] = NULL
         /\ \E i \in Inos \ Linked :
               /\ i \in SubDirs <=> o.kind = "mkdir"
               /\ s = <<[ns EXCEPT ![o.src] = i], [err |-> "OK", ino |-> i,
                        nlink |-> IF i \in SubDirs THEN 2 ELSE 1]>>
      \/ /\ o.kind \in {"unlink", "rmdir"}
         /\ s = <<[ns EXCEPT ![o.src] = NULL], Failed("OK")>>
      \/ /\ o.kind = "rename" /\ ns[o.src] # NULL
         /\ s = <<[[ns EXCEPT ![o.src] = NULL] EXCEPT ![o.dst] = ns[o.src]], Failed("OK")>>
  BY <1>2, SMTT(30) DEF Served, Creations, ReplyErrors, Inos, Changes
<1> QED
  BY <1>3, <1>4, <1>5, <1>6, <1>7, Zenon

\* A rename at the server, one entry at a time.
LEMMA ShiftedTree ==
    ASSUME NEW m \in Directories, Tree(m), NEW x \in Entries, NEW y \in Entries, x # y,
           m[x] # NULL
    PROVE  /\ Tree(Renamed(m, x, y))
           /\ \A w : w \notin LinkedIn(m) \/ (w = m[y] /\ w # m[x]) =>
                       w \notin LinkedIn(Renamed(m, x, y))
           /\ [[Renamed(m, x, y) EXCEPT ![y] = m[y]] EXCEPT ![x] = m[x]] = m
<1> DEFINE p == Renamed(m, x, y)
           b == [m EXCEPT ![x] = NULL]
           c == [b EXCEPT ![y] = NULL]
<1>1. b \in Directories /\ Tree(b) /\ m[x] \notin LinkedIn(b) /\ b[y] = m[y]
  <2>1. b[y] = m[y]
    BY Zenon DEF Directories
  <2> QED
    BY <2>1, TreeTake, Zenon
<1>2. m[x] \in Inos
  BY Zenon DEF Directories
<1>3. /\ p \in Directories /\ p[x] = NULL /\ p[y] = m[x]
      /\ \A z \in Entries \ {x, y} : p[z] = m[z]
  BY Zenon DEF Renamed, Directories
<1>7. p = [[b EXCEPT ![y] = NULL] EXCEPT ![y] = m[x]]
  BY <1>1, PutBack, ZenonT(30) DEF Renamed
<1> HIDE DEF p
<1>4. [[p EXCEPT ![y] = m[y]] EXCEPT ![x] = m[x]] = m
  <2> DEFINE r == [[p EXCEPT ![y] = m[y]] EXCEPT ![x] = m[x]]
  <2>1. r \in Directories
    BY <1>3, Zenon DEF Directories
  <2>2. \A z \in Entries : r[z] = m[z]
    BY <1>3, Zenon DEF Directories
  <2> HIDE DEF r
  <2>3. r = m
    BY <2>1, <2>2, SameEntries, Zenon
  <2> QED
    BY <2>3, Zenon DEF r
<1>5. \A w : w \notin LinkedIn(m) \/ (w = m[y] /\ w # m[x]) => w \notin LinkedIn(p)
  <2>1. SUFFICES ASSUME NEW w, w \notin LinkedIn(m) \/ (w = m[y] /\ w # m[x]),
                        NEW z \in Entries, p[z] = w, w # NULL
                 PROVE  FALSE
    BY Zenon DEF LinkedIn
  <2>2. CASE z \in {x, y}
    BY <1>3, <2>1, <2>2, Zenon DEF LinkedIn
  <2>3. CASE z \notin {x, y}
    BY <1>3, <2>1, <2>3, Zenon DEF LinkedIn, Tree
  <2> QED
    BY <2>2, <2>3, Zenon
<1> HIDE DEF b
<1>6. c \in Directories /\ Tree(c) /\ m[x] \notin LinkedIn(c) /\ c[y] = NULL
  <2>1. c[y] = NULL
    BY <1>1, Zenon DEF Directories
  <2> QED
    BY <1>1, <2>1, TreeTake, Zenon
<1> HIDE DEF c
<1>8. Tree(p)
  <2>1. Tree([c EXCEPT ![y] = m[x]])
    BY <1>2, <1>6, TreePut, Zenon
  <2> QED
    BY <1>7, <2>1, Zenon DEF c
<1> QED
  BY <1>4, <1>5, <1>8, Zenon DEF p
\* The server makes no hard links.
LEMMA ServedTree ==
    ASSUME Shape, Tree(ns), NEW o \in Ops, o.kind \in Changes, NEW s \in Served(o)
    PROVE  Tree(s[1])
<1>1. ns \in Directories /\ o.src \in Entries /\ o.dst \in Entries
  BY OpFields, Zenon DEF Shape, TypeOK, CacheTypes, Directories
<1>2. CASE s[1] = ns
  BY <1>2, Zenon
<1>3. CASE Grown(o, s)
  <2>1. /\ ns[o.src] = NULL /\ s[2].ino \in Inos /\ s[2].ino \notin LinkedIn(ns)
        /\ s[1] = [ns EXCEPT ![o.src] = s[2].ino]
    BY <1>3, Zenon DEF Grown
  <2>2. Tree([ns EXCEPT ![o.src] = s[2].ino])
    BY <1>1, <2>1, TreePut, Zenon
  <2> QED
    BY <2>1, <2>2, Zenon
<1>4. CASE Shrunk(o, s)
  BY <1>1, <1>4, TreeTake, Zenon DEF Shrunk
<1>5. CASE Shifted(o, s)
  <2>1. /\ o.src # o.dst /\ ns[o.src] # NULL
        /\ s[1] = Renamed(ns, o.src, o.dst)
    BY <1>5, OpFields, Zenon DEF Shifted
  <2>2. Tree(Renamed(ns, o.src, o.dst))
    BY <1>1, <2>1, ShiftedTree, Zenon
  <2> QED
    BY <2>1, <2>2, Zenon
<1> QED
  BY <1>2, <1>3, <1>4, <1>5, ServedForms, Zenon

\* The server carries out the change of t and says so: the link counts are
\* those of the directories before.
LEMMA CarriedOut ==
    ASSUME Shape, LinkInv, OneTask, calm, NEW t \in Tasks, pc[t] = "request",
           NEW s \in Served(op[t]), s[2].err = "OK", ns' = s[1],
           pc'[t] = "finish", rep'[t] = s[2],
           UNCHANGED <<i_nlink, op, dentry, moved>>
    PROVE  CountInv(t)' /\ Exact(i_nlink', Before(t)')
<1> DEFINE o == op[t]
<1>1. /\ ns \in Directories /\ o \in Ops /\ o.kind \in Changes /\ at[t] = o.dst
      /\ o.src \in Entries /\ o.dst \in Entries
      /\ o.kind = "rename" <=> o.src # o.dst
      /\ PlaceInv(t) /\ CalmInv(t)
  BY Known, OpFields, Zenon DEF CacheTypes, Directories, PlaceInv
<1>2. Tree(ns) /\ CountInv(t) /\ Exact(i_nlink, ns)
  BY NowExact, Zenon DEF LinkInv, Pending
<1>3. /\ ns[o.dst] = Inode(dentry[t])
      /\ o.kind = "rename" => dentry[t] # moved[t] /\ ns[o.src] = moved[t]
  BY <1>1, <1>2, Zenon DEF CountInv, CalmInv
<1>4. Grown(o, s) \/ Shrunk(o, s) \/ Shifted(o, s)
  BY <1>1, ServedForms, Zenon
<1>5. /\ \A m : Before(t)' = m /\ m = ns => Exact(i_nlink', Before(t)')
      /\ /\ o.kind \in Creations =>
               /\ s[2].nlink = Full(s[2].ino)
               /\ s[2].ino \in SubDirs <=> o.kind = "mkdir"
         /\ o.kind \notin Creations => dentry[t] \notin LinkedIn(s[1])
         => CountInv(t)'
  <2>1. Linked' = LinkedIn(s[1])
    BY Zenon DEF Linked, LinkedIn
  <2> QED
    BY <1>2, <2>1, Zenon DEF CountInv
<1>6. CASE Grown(o, s)
  <2>1. CountInv(t)'
    BY <1>5, <1>6, Zenon DEF Grown
  <2>2. Before(t)' = [s[1] EXCEPT ![o.src] = NULL]
    <3>1. op[t].kind \in Creations
      BY <1>6, Zenon DEF Grown
    <3> QED
      BY <3>1 DEF Before, Creations
  <2>3. [s[1] EXCEPT ![o.src] = NULL] = ns
    <3>1. [s[1] EXCEPT ![o.src] = NULL] \in Directories
      BY <1>1, <1>6, Zenon DEF Grown, Directories
    <3>2. \A e \in Entries : [s[1] EXCEPT ![o.src] = NULL][e] = ns[e]
      BY <1>1, <1>6, Zenon DEF Grown, Directories
    <3> QED
      BY <1>1, <3>1, <3>2, SameEntries, Zenon
  <2> QED
    BY <1>5, <2>1, <2>2, <2>3, Zenon
<1>7. CASE Shrunk(o, s)
  <2>1. /\ o.src = o.dst /\ o.kind \notin Creations /\ dentry[t] \in Inos
        /\ s[1] = [ns EXCEPT ![o.src] = NULL] /\ dentry[t] # NULL
    BY <1>1, <1>7, DirMarks, Zenon DEF Shrunk, Creations, PlaceInv
  <2>2. ns[o.src] = dentry[t]
    BY <1>3, <2>1, DirMarks, Zenon DEF Inode
  <2>3. CountInv(t)'
    BY <1>1, <1>2, <1>5, <2>1, <2>2, TreeTake, Zenon
  <2>4. Before(t)' = [s[1] EXCEPT ![o.src] = dentry[t]]
    BY <1>7 DEF Shrunk, Before, Creations
  <2>5. [s[1] EXCEPT ![o.src] = dentry[t]] = ns
    BY <1>1, <2>1, <2>2, PutBack, Zenon
  <2> QED
    BY <1>5, <2>3, <2>4, <2>5, Zenon
<1>8. CASE Shifted(o, s)
  <2>1. /\ o.src # o.dst /\ o.kind \notin Creations /\ o.kind = "rename"
        /\ ns[o.src] # NULL /\ ns[o.src] = moved[t] /\ dentry[t] # moved[t]
        /\ s[1] = Renamed(ns, o.src, o.dst)
    BY <1>1, <1>3, <1>8, Zenon DEF Shifted, Creations
  <2>2. dentry[t] \notin LinkedIn(ns) \/ (dentry[t] = ns[o.dst] /\ dentry[t] # ns[o.src])
    <3>1. CASE dentry[t] = NEGATIVE
      BY <1>1, <3>1, DirMarks, Zenon DEF LinkedIn, Directories
    <3>2. CASE dentry[t] # NEGATIVE
      BY <1>3, <2>1, <3>2, Zenon DEF Inode
    <3> QED
      BY <3>1, <3>2, Zenon
  <2>3. /\ dentry[t] \notin LinkedIn(s[1])
        /\ [[s[1] EXCEPT ![o.dst] = ns[o.dst]] EXCEPT ![o.src] = ns[o.src]] = ns
    <3>1. /\ \A w : w \notin LinkedIn(ns) \/ (w = ns[o.dst] /\ w # ns[o.src])
                     => w \notin LinkedIn(Renamed(ns, o.src, o.dst))
          /\ [[Renamed(ns, o.src, o.dst) EXCEPT ![o.dst] = ns[o.dst]] EXCEPT ![o.src] = ns[o.src]] = ns
      BY <1>1, <1>2, <2>1, ShiftedTree, Zenon
    <3> QED
      BY <2>1, <2>2, <3>1, Zenon
  <2>4. Before(t)' = [[s[1] EXCEPT ![o.dst] = Inode(dentry[t])] EXCEPT ![o.src] = moved[t]]
    BY <2>1 DEF Before, Creations, Inode
  <2>5. Before(t)' = ns
    BY <1>3, <2>1, <2>3, <2>4, Zenon
  <2> QED
    BY <1>5, <2>1, <2>3, <2>5, Zenon
<1> QED
  BY <1>4, <1>6, <1>7, <1>8, Zenon

\* The request of a change.
LEMMA RequestLinks ==
    ASSUME Shape, LinkInv, OneTask, NEW t \in Tasks, make_request(t)
    PROVE  LinkInv'
<1>1. /\ pc[t] = "request" /\ op[t] \in Ops /\ op[t].kind \in Changes
      /\ pc'[t] = "finish" /\ UNCHANGED <<i_nlink, op, dentry, moved>>
      /\ TaskTypes /\ Heed(t)
  BY Known, Zenon DEF make_request, PlaceInv, TaskTypes
<1>2. Tree(ns)
  BY Zenon DEF LinkInv
<1>3. PICK s \in Served(op[t]) :
         \/ ServerHas(s[1]) /\ rep' = [rep EXCEPT ![t] = s[2]]
         \/ \E err \in Errors \ {"ENOMEM"} :
               /\ ServerHas(s[1]) \/ UNCHANGED <<ns, truth>>
               /\ rep' = [rep EXCEPT ![t] = Failed(err)]
  BY Zenon DEF make_request
<1>4. Tree(ns')
  <2>1. ns' = s[1] \/ ns' = ns
    BY <1>3, Zenon DEF ServerHas
  <2>2. Tree(s[1])
    BY <1>1, <1>2, ServedTree, Zenon
  <2> QED
    BY <1>2, <2>1, <2>2, Zenon
<1>5. ASSUME calm' PROVE calm /\ ns' = s[1] /\ rep'[t] = s[2]
  <2>1. calm /\ rep'[t].err \notin Errors
    BY <1>1, <1>5, Zenon DEF Heed
  <2>2. ASSUME NEW err \in Errors, rep' = [rep EXCEPT ![t] = Failed(err)] PROVE FALSE
    <3>1. rep'[t] = Failed(err)
      BY <1>1, <2>2, Zenon DEF TaskTypes
    <3> QED
      BY <2>1, <2>2, <3>1 DEF Failed
  <2>3. ServerHas(s[1]) /\ rep' = [rep EXCEPT ![t] = s[2]]
    BY <1>3, <2>2, Zenon
  <2> QED
    BY <1>1, <2>1, <2>3, Zenon DEF ServerHas, TaskTypes
<1>6. ASSUME calm', s[2].err = "OK" PROVE CountInv(t)' /\ Exact(i_nlink', Before(t)')
  BY <1>1, <1>5, <1>6, CarriedOut, Zenon
<1>7. ASSUME calm', s[2].err # "OK" PROVE ~Pending(t)' /\ CountInv(t)' /\ Exact(i_nlink', ns')
  <2>1. ~Pending(t)' /\ CountInv(t)'
    BY <1>1, <1>5, <1>7, Zenon DEF Pending, CountInv
  <2>2. s[1] = ns
    BY <1>1, <1>7, ServedForms, Zenon
  <2>3. Exact(i_nlink, ns)
    BY <1>1, <1>5, <1>7, NowExact, Zenon DEF Pending
  <2> QED
    BY <1>1, <1>5, <1>7, <2>1, <2>2, <2>3, Zenon
<1>8. ASSUME calm', s[2].err = "OK" PROVE Pending(t)'
  BY <1>1, <1>5, <1>8, Zenon DEF Pending
<1>9. \A u \in Tasks : u = t
  BY Zenon DEF OneTask
<1> QED
  BY <1>4, <1>6, <1>7, <1>8, <1>9, Zenon DEF LinkInv
\* The dentry of v was found: the task goes on to its request only with what
\* the server has.
LEMMA FoundLinks ==
    ASSUME Shape, NEW t \in Tasks, NEW v \in Inos \cup {NEGATIVE}, NEW w, Found(t, v, w),
           pc[t] \in {"revalidated", "looked_up"}, ns' = ns,
           calm => (op[t].kind \in Changes => ns[at[t]] = Inode(v))
    PROVE  ~Pending(t)' /\ (calm => CountInv(t)')
<1>1. /\ TaskTypes /\ PlaceInv(t) /\ op[t] \in Ops /\ at[t] \in {op[t].src, op[t].dst}
      /\ op[t].kind = "rename" <=> op[t].src # op[t].dst
      /\ pc[t] # "idle"
  BY Known, OpFields, Zenon DEF PlaceInv
<1>2. CASE pc'[t] \in {"idle", "getattr", "cached"}
  BY <1>2, NoCount, Zenon
<1>3. CASE /\ pc'[t] = "request" /\ at'[t] = at[t] /\ op' = op /\ dentry'[t] = v
           /\ moved'[t] = moved[t] /\ op[t].kind \in Changes
           /\ op[t].kind = "rename" => v # moved[t]
  BY <1>3, Zenon DEF CountInv, Pending, Inode
<1>4. pc' = [pc EXCEPT ![t] = "idle"] => pc'[t] = "idle"
  BY <1>1, Zenon DEF TaskTypes
<1>5. ASSUME NEW l, NEW e, NEW m, Went(t, v, w, l, e, m)
      PROVE  pc'[t] = l /\ at'[t] = e /\ moved'[t] = m /\ dentry'[t] = v /\ op' = op
  BY <1>1, <1>5, Zenon DEF Went, TaskTypes
<1>6. \/ pc' = [pc EXCEPT ![t] = "idle"]
      \/ Went(t, v, w, "getattr", at[t], NULL)
      \/ Went(t, v, w, "cached", op[t].dst, v)
      \/ /\ Went(t, v, w, "request", at[t], moved[t])
         /\ \/ op[t].kind \in Creations \cup {"unlink", "rmdir"}
            \/ /\ op[t].kind = "rename" /\ at[t] # op[t].src
               /\ v = NEGATIVE \/ v # moved[t]
  BY Zenon DEF Found, Return, Went
<1>7. ASSUME op[t].kind = "rename", at[t] # op[t].src, v = NEGATIVE PROVE v # moved[t]
  BY <1>1, <1>7, DirMarks, Zenon DEF PlaceInv
<1>8. op[t].kind \in Creations \cup {"unlink", "rmdir", "rename"} => op[t].kind \in Changes
  BY Zenon DEF Changes
<1>9. op[t].kind \in Creations \cup {"unlink", "rmdir"} => op[t].kind # "rename"
  BY Zenon DEF Creations
<1> QED
  BY <1>2, <1>3, <1>4, <1>5, <1>6, <1>7, <1>8, <1>9, Zenon

\* Link counts that are set to what they are stay exact.
LEMMA SetAgain ==
    ASSUME Shape, Exact(i_nlink, ns), NEW r, r.ino \in Inos, r.nlink = NlinkIn(ns, r.ino)
    PROVE  Exact(uvfs_iget(r), ns)
<1>1. i_nlink \in [Inos \cup Dirs -> Int]
  BY Zenon DEF Shape, TypeOK, CacheTypes
<1>2. \A x \in Inos \cup Dirs : uvfs_iget(r)[x] = i_nlink[x]
  BY <1>1, Zenon DEF uvfs_iget, Exact
<1> QED
  BY <1>2, Zenon DEF Exact

\* The steps of a lookup leave the server alone.
LEMMA LookupQuiet ==
    ASSUME NEW t \in Tasks
    PROVE  /\ revalidate_request(t) \/ lookup_request(t) => (calm' => calm) /\ ns' = ns
           /\ lock_rename(t) \/ cached_lookup(t) => calm' = calm /\ ns' = ns
           /\ real_lookup(t) \/ uvfs_lookup(t) => calm' = calm /\ ns' = ns
           /\ uvfs_dentry_revalidate(t) => calm' = calm /\ ns' = ns
           /\ dget_parent(t) \/ d_name(t) => calm' = calm /\ ns' = ns
<1>1. revalidate_request(t) \/ lookup_request(t) => (calm' => calm) /\ ns' = ns
  BY Zenon DEF revalidate_request, lookup_request, Heed
<1>2. lock_rename(t) \/ cached_lookup(t) => calm' = calm /\ ns' = ns
  BY Zenon DEF lock_rename, cached_lookup, srvVars
<1>3. real_lookup(t) \/ uvfs_lookup(t) => calm' = calm /\ ns' = ns
  BY Zenon DEF real_lookup, uvfs_lookup, srvVars
<1>4. uvfs_dentry_revalidate(t) => calm' = calm /\ ns' = ns
  BY Zenon DEF uvfs_dentry_revalidate, srvVars
<1>5. dget_parent(t) \/ d_name(t) => calm' = calm /\ ns' = ns
  BY Zenon DEF dget_parent, d_name, Read, srvVars
<1> QED
  BY <1>1, <1>2, <1>3, <1>4, <1>5, Zenon

\* The steps of a lookup.
LEMMA LookupLinks ==
    ASSUME Shape, LinkInv, OneTask, NEW t \in Tasks,
           \/ lock_rename(t) \/ cached_lookup(t) \/ revalidate_request(t)
           \/ uvfs_dentry_revalidate(t) \/ real_lookup(t) \/ lookup_request(t)
           \/ uvfs_lookup(t) \/ dget_parent(t) \/ d_name(t)
    PROVE  LinkInv'
<1>1. TaskTypes /\ (calm => CalmInv(t)) /\ PlaceInv(t) /\ ReplyInv(t)
  BY Known, Zenon
<1>2. (calm' => calm) /\ ns' = ns
  BY LookupQuiet, Zenon
<1>3. calm' => calm /\ (pc[t] # "finish" => Exact(i_nlink, ns)) /\ CountInv(t)
  BY <1>2, NowExact, Zenon DEF Pending, LinkInv
<1>4. CASE \/ lock_rename(t) \/ cached_lookup(t) \/ dget_parent(t) \/ d_name(t)
           \/ revalidate_request(t) \/ real_lookup(t)
  <2>1. i_nlink' = i_nlink /\ pc[t] # "finish"
    BY <1>4, Zenon DEF lock_rename, cached_lookup, dget_parent, d_name, Read,
       revalidate_request, real_lookup
  <2>2. pc'[t] \in {"cached", "revalidate", "parent", "asking", "missed", "revalidated",
                    "lookup"}
    BY <1>1, <1>4, Zenon DEF lock_rename, cached_lookup, dget_parent, d_name, Read,
       revalidate_request, real_lookup, TaskTypes
  <2>3. CountInv(t)' /\ ~Pending(t)'
    BY <2>2, NoCount, Zenon
  <2> QED
    BY <1>2, <1>3, <2>1, <2>3, QuietStep, Zenon
<1>5. CASE lookup_request(t)
  <2>1. i_nlink' = i_nlink /\ pc[t] = "lookup" /\ pc'[t] = "looked_up"
    BY <1>1, <1>5, Zenon DEF lookup_request, TaskTypes
  <2>2. PICK r \in LookupReplies(at[t]) : rep'[t] = r
    BY <1>1, <1>5, Zenon DEF lookup_request, TaskTypes
  <2>3. r.err = "OK" => r.nlink = Full(r.ino)
    <3>1. at[t] \in Entries
      BY <2>1, Known, Zenon
    <3>2. ns[at[t]] # NULL => Nlink(ns[at[t]]) = Full(ns[at[t]])
      BY <3>1, ServerCounts, Zenon DEF NlinkIn, LinkedIn
    <3>3. \A err : Failed(err).err = err
      BY DEF Failed
    <3>4. "OK" \notin Errors
      BY DirConstants
    <3>5. ns[at[t]] # NULL => /\ Reply("OK", ns[at[t]]).nlink = Nlink(ns[at[t]])
                              /\ Reply("OK", ns[at[t]]).ino = ns[at[t]]
      BY DEF Reply
    <3>6. \/ r = Failed("ENOENT") \/ (ns[at[t]] # NULL /\ r = Reply("OK", ns[at[t]]))
          \/ \E err \in Errors : r = Failed(err)
      BY <2>2, Zenon DEF LookupReplies
    <3>7. CASE r = Failed("ENOENT") \/ \E err \in Errors : r = Failed(err)
      BY <3>3, <3>4, <3>7
    <3> QED
      BY <3>2, <3>5, <3>6, <3>7, Zenon
  <2>4. ~Pending(t)' /\ CountInv(t)'
    BY <2>1, <2>2, <2>3, Zenon DEF Pending, CountInv
  <2> QED
    BY <1>2, <1>3, <2>1, <2>4, QuietStep, Zenon
<1>6. CASE uvfs_dentry_revalidate(t)
  <2>1. i_nlink' = i_nlink /\ pc[t] = "revalidated" /\ dentry[t] \in Inos
    BY <1>1, <1>6, Zenon DEF uvfs_dentry_revalidate, PlaceInv, Revalidating
  <2>2. CASE Found(t, dentry[t], where)
    <3>1. calm => (op[t].kind \in Changes => ns[at[t]] = Inode(dentry[t]))
      BY <1>1, <2>1, DirMarks, Zenon DEF CalmInv, Inode, Revalidating
    <3>2. ~Pending(t)' /\ (calm => CountInv(t)')
      BY <1>2, <2>1, <2>2, <3>1, FoundLinks, Zenon
    <3> QED
      BY <1>2, <1>3, <2>1, <3>2, QuietStep, Zenon
  <2>3. CASE pc' = [pc EXCEPT ![t] = "missed"]
    <3>1. pc'[t] = "missed"
      BY <1>1, <2>3, Zenon DEF TaskTypes
    <3> QED
      BY <1>2, <1>3, <2>1, <3>1, NoCount, QuietStep, Zenon
  <2> QED
    BY <1>6, <2>2, <2>3, Zenon DEF uvfs_dentry_revalidate
<1>7. CASE uvfs_lookup(t)
  <2> DEFINE r == rep[t]
             v == IF r.err = "OK" THEN r.ino ELSE NEGATIVE
  <2>1. /\ pc[t] = "looked_up" /\ Found(t, v, Replaced(t, at[t]))
        /\ i_nlink' = IF r.err = "OK" THEN uvfs_iget(r) ELSE i_nlink
    BY <1>7, Zenon DEF uvfs_lookup
  <2>2. at[t] \in Entries /\ (r.err = "OK" => r.ino \in Inos)
    BY <1>1, <2>1, Known, Zenon DEF ReplyInv
  <2>3. v \in Inos \cup {NEGATIVE}
    BY <2>2, Zenon
  <2>4. calm => ns[at[t]] = Inode(v)
    <3>1. calm => ns[at[t]] = IF r.err = "OK" THEN r.ino ELSE NULL
      BY <1>1, <2>1, Zenon DEF CalmInv
    <3> QED
      BY <2>2, <3>1, DirMarks, Zenon DEF Inode
  <2>5. calm' => Exact(i_nlink', ns)
    <3>1. ASSUME calm', r.err = "OK" PROVE Exact(uvfs_iget(r), ns)
      <4>1. r.ino = ns[at[t]] /\ r.ino # NULL /\ r.nlink = Full(r.ino)
        BY <1>1, <1>3, <2>1, <2>2, <3>1, DirMarks, Zenon DEF CalmInv, CountInv
      <4>2. r.nlink = NlinkIn(ns, r.ino)
        BY <2>2, <4>1, Zenon DEF NlinkIn, LinkedIn
      <4> QED
        BY <1>3, <2>1, <2>2, <3>1, <4>2, SetAgain, Zenon
    <3> QED
      BY <1>3, <2>1, <3>1, Zenon
  <2> HIDE DEF v, r
  <2>6. ~Pending(t)' /\ (calm => CountInv(t)')
    BY <1>2, <2>1, <2>3, <2>4, FoundLinks, Zenon
  <2> QED
    BY <1>2, <1>3, <2>5, <2>6, QuietStep, Zenon
<1> QED
  BY <1>4, <1>5, <1>6, <1>7, Zenon
\* The steps of a stat, a call, and a request that was not sent.
LEMMA StatLinks ==
    ASSUME Shape, LinkInv, OneTask, NEW t \in Tasks,
           \/ getattr_request(t) \/ uvfs_revalidate_inode(t) \/ no_memory(t)
           \/ \E o \in Ops : Call(t, o)
    PROVE  LinkInv'
<1>1. TaskTypes /\ PlaceInv(t) /\ ReplyInv(t)
  BY Known, Zenon
<1>2. ASSUME NEW l, pc' = [pc EXCEPT ![t] = l] PROVE pc'[t] = l
  BY <1>1, <1>2, Zenon DEF TaskTypes
<1>3. ASSUME calm, pc[t] # "finish" PROVE Exact(i_nlink, ns) /\ CountInv(t)
  BY <1>3, NowExact, Zenon DEF Pending, LinkInv
<1>4. CASE getattr_request(t)
  <2>1. /\ ns' = ns /\ i_nlink' = i_nlink /\ pc[t] = "getattr" /\ pc'[t] = "refresh"
        /\ calm' => calm
    BY <1>2, <1>4, Zenon DEF getattr_request, Heed
  <2>2. PICK r \in {Reply("OK", dentry[t])} \cup {Failed(err) : err \in Errors} \cup
                    {Failed("ENOENT") : x \in {dentry[t]} \ Linked} : rep'[t] = r
    BY <1>1, <1>4, Zenon DEF getattr_request, TaskTypes
  <2>3. r.err = "OK" => r.nlink = Nlink(r.ino)
    <3>1. \A err : Failed(err).err = err
      BY DEF Failed
    <3>2. "OK" \notin Errors
      BY DirConstants
    <3>3. dentry[t] # NULL
      BY <1>1, <2>1, DirMarks, Zenon DEF PlaceInv
    <3>4. CASE r = Reply("OK", dentry[t])
      BY <3>3, <3>4 DEF Reply
    <3>5. CASE r = Failed("ENOENT") \/ \E err \in Errors : r = Failed(err)
      BY <3>1, <3>2, <3>5
    <3> QED
      BY <2>2, <3>4, <3>5, Zenon
  <2>4. \A i : Nlink(i)' = Nlink(i)
    BY <2>1, Zenon DEF Nlink, Linked
  <2>5. ~Pending(t)' /\ CountInv(t)'
    BY <2>1, <2>2, <2>3, <2>4, Zenon DEF Pending, CountInv
  <2> QED
    BY <1>3, <2>1, <2>5, QuietStep, Zenon
<1>5. CASE uvfs_revalidate_inode(t)
  <2>1. /\ ns' = ns /\ pc[t] = "refresh" /\ pc'[t] = "idle" /\ calm' = calm
        /\ i_nlink' = IF rep[t].err = "OK" THEN uvfs_iget(rep[t]) ELSE i_nlink
    BY <1>2, <1>5, Zenon DEF uvfs_revalidate_inode, Leave, Return, srvVars
  <2>2. ASSUME calm, rep[t].err = "OK" PROVE Exact(uvfs_iget(rep[t]), ns)
    <3>1. rep[t].ino \in Inos
      BY <1>1, <2>1, <2>2, Zenon DEF ReplyInv
    <3>2. rep[t].nlink = NlinkIn(ns, rep[t].ino)
      BY <1>3, <2>1, <2>2, ServerCounts, Zenon DEF CountInv
    <3> QED
      BY <1>3, <2>1, <2>2, <3>1, <3>2, SetAgain, Zenon
  <2>3. CountInv(t)' /\ ~Pending(t)'
    BY <2>1, NoCount, Zenon
  <2>4. calm' => Exact(i_nlink', ns)
    BY <1>3, <2>1, <2>2, Zenon
  <2> QED
    BY <2>1, <2>3, <2>4, QuietStep, Zenon
<1>6. CASE no_memory(t)
  <2>1. ns' = ns /\ pc'[t] = "idle" /\ ~calm'
    BY <1>2, <1>6, Zenon DEF no_memory, Leave, Return
  <2> QED
    BY <2>1, NoCount, QuietStep, Zenon
<1>7. CASE \E o \in Ops : Call(t, o)
  <2>1. /\ ns' = ns /\ calm' = calm /\ i_nlink' = i_nlink /\ pc[t] = "idle"
        /\ pc'[t] \in {"cached", "lock"}
    BY <1>1, <1>7, Zenon DEF Call, srvVars, TaskTypes
  <2>2. CountInv(t)' /\ ~Pending(t)'
    BY <2>1, NoCount, Zenon
  <2> QED
    BY <1>3, <2>1, <2>2, QuietStep, Zenon
<1> QED
  BY <1>4, <1>5, <1>6, <1>7, Zenon

\* The ends of the changes.
LEMMA FinishLinks ==
    ASSUME Shape, LinkInv, OneTask, NEW t \in Tasks,
           \/ uvfs_create(t) \/ uvfs_symlink(t) \/ uvfs_mkdir(t)
           \/ uvfs_unlink(t) \/ uvfs_rmdir(t) \/ uvfs_rename(t)
    PROVE  LinkInv'
<1>1. TaskTypes
  BY Known, Zenon
<1>2. ASSUME pc' = [pc EXCEPT ![t] = "idle"] PROVE CountInv(t)' /\ ~Pending(t)'
  <2>1. pc'[t] = "idle"
    BY <1>1, <1>2, Zenon DEF TaskTypes
  <2> QED
    BY <2>1, NoCount, Zenon
<1>3. ASSUME pc' = [pc EXCEPT ![t] = "idle"], ns' = ns, calm' => Exact(i_nlink', ns)
      PROVE  LinkInv'
  BY <1>2, <1>3, QuietStep, Zenon
<1>4. ASSUME calm, rep[t].err # "OK" PROVE Exact(i_nlink, ns)
  BY <1>4, NowExact, Zenon DEF Pending
<1>5. ASSUME NEW links, Created(t, links), pc[t] = "finish",
             calm /\ Pending(t) => Exact(links, ns)
      PROVE  LinkInv'
  <2>1. ns' = ns /\ pc' = [pc EXCEPT ![t] = "idle"]
    BY <1>5, Zenon DEF Created, Leave, Return
  <2>2. calm' => \/ calm /\ rep[t].err # "OK" /\ i_nlink' = i_nlink
                 \/ calm /\ rep[t].err = "OK" /\ i_nlink' = links
    BY <1>5, Zenon DEF Created, CreateFailed
  <2>3. calm' => Exact(i_nlink', ns)
    BY <1>4, <1>5, <2>2, Zenon DEF Pending
  <2> QED
    BY <1>3, <2>1, <2>3, Zenon
<1>6. CASE uvfs_create(t) \/ uvfs_symlink(t)
  <2>1. /\ Created(t, uvfs_iget(rep[t])) /\ pc[t] = "finish"
        /\ op[t].kind \in Creations /\ op[t].kind # "mkdir"
    BY <1>6, Zenon DEF uvfs_create, uvfs_symlink, Finish, Creations
  <2> QED
    BY <1>5, <2>1, CreatedExact, Zenon
<1>7. CASE uvfs_mkdir(t)
  <2>1. /\ Created(t, Subdirectory(uvfs_iget(rep[t]), DirOf(op[t].src)))
        /\ pc[t] = "finish" /\ op[t].kind = "mkdir" /\ op[t].kind \in Creations
    BY <1>7, Zenon DEF uvfs_mkdir, Finish, Creations
  <2> QED
    BY <1>5, <2>1, CreatedExact, Zenon
<1>8. CASE uvfs_unlink(t) \/ uvfs_rmdir(t)
  <2>1. pc[t] = "finish" /\ op[t].kind \in {"unlink", "rmdir"} /\ \E err : Removed(t, err)
    BY <1>8, Zenon DEF uvfs_unlink, uvfs_rmdir, Finish
  <2>2. /\ ns' = ns /\ calm' = calm /\ pc' = [pc EXCEPT ![t] = "idle"]
        /\ \/ rep[t].err # "OK" /\ i_nlink' = i_nlink
           \/ /\ rep[t].err = "OK"
              /\ i_nlink' = Unlinked(i_nlink, dentry[t], DirOf(op[t].src))
    BY <2>1, Zenon DEF Removed, Leave, Return, srvVars
  <2>3. calm' => Exact(i_nlink', ns)
    BY <1>4, <2>1, <2>2, RemovedExact, Zenon DEF Pending
  <2> QED
    BY <1>3, <2>2, <2>3, Zenon
<1>9. CASE uvfs_rename(t)
  <2> DEFINE links == IF dentry[t] = NEGATIVE THEN i_nlink
                      ELSE Unlinked(i_nlink, dentry[t], DirOf(op[t].dst))
             after == [Subdirectory(links, DirOf(op[t].dst))
                          EXCEPT ![DirOf(op[t].src)] = @ - 1]
  <2>1. /\ ns' = ns /\ calm' = calm /\ pc[t] = "finish" /\ op[t].kind = "rename"
        /\ pc' = [pc EXCEPT ![t] = "idle"]
        /\ \/ rep[t].err # "OK" /\ i_nlink' = i_nlink
           \/ /\ rep[t].err = "OK"
              /\ i_nlink' = IF moved[t] \in SubDirs THEN after ELSE links
    BY <1>9, Zenon DEF uvfs_rename, Finish, Leave, Return, srvVars
  <2>2. ASSUME calm, Pending(t)
        PROVE  /\ moved[t] \in SubDirs => Exact(after, ns)
               /\ moved[t] \notin SubDirs => Exact(links, ns)
    BY <2>1, <2>2, RenamedExact, Zenon
  <2> HIDE DEF after, links
  <2>3. ASSUME calm PROVE Exact(i_nlink', ns)
    <3>1. CASE rep[t].err # "OK"
      BY <1>4, <2>1, <2>3, <3>1, Zenon
    <3>2. CASE rep[t].err = "OK"
      BY <2>1, <2>2, <2>3, <3>2, Zenon DEF Pending
    <3> QED
      BY <3>1, <3>2, Zenon
  <2> QED
    BY <1>3, <2>1, <2>3, Zenon
<1> QED
  BY <1>6, <1>7, <1>8, <1>9, Zenon
\* Somebody else changes the server: no link counts are claimed from then on.
LEMMA RemoteLinks ==
    ASSUME Shape, LinkInv, NEW e \in Entries, NEW i \in Inos \cup {NULL}, RemoteChange(e, i)
    PROVE  LinkInv'
<1> DEFINE b == [ns EXCEPT ![e] = NULL]
<1>1. ~calm' /\ ns' = [ns EXCEPT ![e] = i] /\ (i = NULL \/ i \notin LinkedIn(ns))
  BY ServerCounts, Zenon DEF RemoteChange, ServerHas
<1>2. ns \in Directories /\ Tree(ns)
  BY Zenon DEF Shape, TypeOK, CacheTypes, Directories, LinkInv
<1>3. Tree(ns')
  <2>1. CASE i = NULL
    BY <1>1, <1>2, <2>1, TreeTake, Zenon
  <2>2. CASE i # NULL
    <3>1. i \in Inos /\ i \notin LinkedIn(ns)
      BY <1>1, <2>2, Zenon
    <3>2. b \in Directories /\ Tree(b) /\ i \notin LinkedIn(b)
      BY <1>2, <3>1, TreeTake, Zenon
    <3>3. b[e] = NULL /\ [b EXCEPT ![e] = i] = [ns EXCEPT ![e] = i]
      BY <1>2, PutBack, Zenon DEF Directories
    <3> HIDE DEF b
    <3>4. Tree([b EXCEPT ![e] = i])
      BY <3>1, <3>2, <3>3, TreePut, Zenon
    <3> QED
      BY <1>1, <3>3, <3>4, Zenon
  <2> QED
    BY <2>1, <2>2, Zenon
<1> QED
  BY <1>1, <1>3, Zenon DEF LinkInv

\* At first the directories are empty.
LEMMA InitLinks == Init => LinkInv
<1> SUFFICES ASSUME Init PROVE LinkInv
  BY Zenon
<1>1. \A e \in Entries : ns[e] = NULL
  BY Zenon DEF Init
<1>2. NULL \notin SubDirs
  BY DirMarks, Zenon DEF Inos
<1>3. ASSUME NEW d \in Dirs PROVE SubsIn(ns, d) = {}
  <2>1. \A n \in Names : <<d, n>> \in Entries
    BY <1>3 DEF Entries
  <2> QED
    BY <1>1, <1>2, <2>1, Zenon DEF SubsIn
<1>4. Tree(ns)
  BY <1>1, <1>3, FS_EmptySet, Zenon DEF Tree
<1>5. Exact(i_nlink, ns)
  <2>1. \A d \in Dirs : i_nlink[d] = 2
    BY Zenon DEF Init
  <2>2. \A i \in Inos : i_nlink[i] = 0
    BY DirIno, Zenon DEF Init
  <2>3. \A i : i \notin LinkedIn(ns)
    BY <1>1, Zenon DEF LinkedIn
  <2>4. \A d \in Dirs : Cardinality(SubsIn(ns, d)) = 0
    BY <1>3, FS_EmptySet, Zenon
  <2> QED
    BY <2>1, <2>2, <2>3, <2>4 DEF Exact, NlinkIn
<1>6. \A t \in Tasks : CountInv(t) /\ ~Pending(t)
  BY Zenon DEF Init, CountInv, Pending
<1> QED
  BY <1>4, <1>5, <1>6, Zenon DEF LinkInv

\* A step that changes nothing.
LEMMA StutterLinks ==
    ASSUME LinkInv, UNCHANGED vars
    PROVE  LinkInv'
<1>1. UNCHANGED <<ns, calm, i_nlink, pc, op, at, dentry, moved, rep>>
  BY Zenon DEF vars, srvVars, taskVars
<1>2. Tree(ns)' /\ (calm' => calm) /\ (Exact(i_nlink, ns) => Exact(i_nlink, ns)')
  BY <1>1, Zenon DEF LinkInv, Tree, SubsIn
<1>3. ASSUME NEW t \in Tasks
      PROVE  /\ Pending(t)' <=> Pending(t)
             /\ Exact(i_nlink, Before(t)) => Exact(i_nlink, Before(t))'
             /\ CountInv(t) => CountInv(t)'
  <2>1. Pending(t)' <=> Pending(t)
    BY <1>1, Zenon DEF Pending
  <2>2. Before(t)' = Before(t)
    BY <1>1, Zenon DEF Before, Inode
  <2>3. CountInv(t) => CountInv(t)'
    BY <1>1, <2>1, Zenon DEF CountInv, Nlink, Linked
  <2> QED
    BY <1>1, <2>1, <2>2, <2>3, Zenon
<1> QED
  BY <1>2, <1>3, Zenon DEF LinkInv

\* With one task, every step keeps the invariant.
LEMMA NextLinks == OneTask /\ Shape /\ LinkInv /\ [Next]_vars => LinkInv'
<1> SUFFICES ASSUME OneTask, Shape, LinkInv, [Next]_vars PROVE LinkInv'
  BY Zenon
<1>1. ASSUME NEW t \in Tasks, Step(t) PROVE LinkInv'
  BY <1>1, LookupLinks, StatLinks, RequestLinks, FinishLinks, Zenon DEF Step
<1>2. ASSUME NEW t \in Tasks, \E o \in Ops : Call(t, o) PROVE LinkInv'
  BY <1>2, StatLinks, Zenon
<1> QED
  BY <1>1, <1>2, RemoteLinks, StutterLinks, Zenon DEF Next

(* With one task at a time, the link counts of all inodes and directories  *)
(* are at every moment those of the server before the change in progress,  *)
(* or after it: uvfs_mkdir, uvfs_unlink, uvfs_rmdir and uvfs_rename adjust *)
(* them for exactly what the server has done, the directory that a rename  *)
(* replaces and the two parents included, and a refresh changes nothing.   *)
THEOREM LinksAreCounted == ASSUME OneTask PROVE Spec => []LinkInv
<1>1. Shape /\ LinkInv /\ [Next]_vars => LinkInv'
  BY NextLinks, Zenon
<1> QED
  BY <1>1, InitLinks, ShapeInvariant, PTL DEF Spec

(* Between operations of one task, the link counts in core are what the    *)
(* server would say, of every directory and every inode with a dentry, as  *)
(* long as only this machine changes the directories and nothing fails:    *)
(* for any number of directories, names and inodes, and any operations.    *)
THEOREM LinkCountsAreExact == ASSUME OneTask PROVE Spec => [](calm => NlinkExact)
<1>1. LinkInv => (calm => NlinkExact)
  <2> SUFFICES ASSUME LinkInv, calm, \A t \in Tasks : pc[t] = "idle"
               PROVE  /\ \A d \in Dirs : i_nlink[d] = DirNlink(d)
                      /\ \A i \in Inos : i_nlink[i] = Nlink(i)
    BY Zenon DEF NlinkExact
  <2>1. Exact(i_nlink, ns)
    BY Zenon DEF LinkInv, Pending
  <2> QED
    BY <2>1, ServerCounts, Zenon DEF Exact
<1> QED
  BY <1>1, LinksAreCounted, PTL

=============================================================================
