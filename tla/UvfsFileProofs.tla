--------------------------- MODULE UvfsFileProofs ---------------------------
(***************************************************************************)
(* Proofs about UvfsFile, part one: the types, the locks, and what each    *)
(* task may be doing where (file.c, dir.c).                                *)
(*                                                                         *)
(* The induction is on Shape: TypeOK, LocksExact, the facts about the      *)
(* server, and the place and the reply of every task. One lemma per group  *)
(* of actions shows that they keep it, one step per action. On top of it   *)
(* comes JunkInv: when tasks write whole pages, no read returns the memory *)
(* of a page just allocated.                                               *)
(***************************************************************************)
EXTENDS UvfsFileInv, TLAPS

\* The blocks of a page lie within the file's; multiplication is met only
\* here.
LEMMA PageBounds ==
    ASSUME NEW p \in Pages
    PROVE  /\ p \in Nat /\ PageSize \in Nat \ {0}
           /\ p * PageSize \in Nat /\ NPages * PageSize \in Nat
           /\ (p + 1) * PageSize = p * PageSize + PageSize
           /\ (p + 1) * PageSize <= NPages * PageSize
<1>1. p \in Int /\ p >= 0 /\ p + 1 <= NPages /\ NPages \in Nat /\ PageSize \in Nat \ {0}
  BY FileConstants DEF Pages
<1>2. (p + 1) * PageSize <= NPages * PageSize /\ p * PageSize >= 0
  BY <1>1
<1>3. (p + 1) * PageSize = p * PageSize + PageSize
  BY <1>1
<1> QED
  BY <1>1, <1>2, <1>3

\* A page has blocks of the file.
LEMMA BlocksInFile ==
    ASSUME NEW p \in Pages
    PROVE  BlocksOf(p) \subseteq Blocks
  BY PageBounds DEF BlocksOf, Blocks

\* Two pages have no block in common.
LEMMA BlocksApart ==
    ASSUME NEW p \in Pages, NEW q \in Pages, p # q, NEW b \in BlocksOf(p)
    PROVE  b \notin BlocksOf(q)
<1>1. p \in Int /\ q \in Int /\ PageSize \in Nat \ {0}
  BY FileConstants DEF Pages
<1>2. p + 1 <= q \/ q + 1 <= p
  BY <1>1
<1>3. (p + 1) * PageSize <= q * PageSize \/ (q + 1) * PageSize <= p * PageSize
  BY <1>1, <1>2
<1> QED
  BY <1>1, <1>3 DEF BlocksOf

\* What a call carries, by its kind.
LEMMA OpFields ==
    ASSUME NEW o \in Ops
    PROVE  /\ o # NULL
           /\ o.kind \in {"read", "fault", "writepage", "write"} => o.page \in Pages
           /\ o.kind = "write" =>
                 /\ o.from \in 0..PageSize /\ o.to \in 0..PageSize
                 /\ o.copied \in 0..PageSize /\ o.val \in Values
                 /\ o.from + o.copied <= o.to
                 /\ o.copied = 0 => 0 \in ShortCopies
           /\ o.kind = "truncate" => o.size \in FileSizes
  BY NullIsNothing, Zenon DEF Ops

\* What a change writes is a value.
LEMMA ChangeValue ==
    ASSUME NEW k \in 0..MaxChanges
    PROVE  Change(k) \in Values
<1>1. k + 1 \in 0..(MaxChanges + 1)
  BY FileConstants
<1> QED
  BY <1>1, Zenon DEF Change, Values

\* A write stays within its page and ends within the file.
LEMMA EndInFile ==
    ASSUME NEW o \in Ops, o.kind = "write"
    PROVE  /\ EndOf(o) \in FileSizes
           /\ \A b \in Int : InRange(o, b, o.copied) => b \in BlocksOf(o.page) /\ b < EndOf(o)
           /\ \A b \in Int : InRange(o, b, o.to - o.from) => b \in BlocksOf(o.page)
<1>1. o.page \in Pages
  BY OpFields, Zenon
<1>2. /\ (o.page + 1) * PageSize <= NPages * PageSize
      /\ (o.page + 1) * PageSize = o.page * PageSize + PageSize
      /\ o.page * PageSize \in Nat /\ NPages * PageSize \in Nat
      /\ PageSize \in Nat
  BY <1>1, PageBounds, Zenon
<1>3. /\ o.from \in Nat /\ o.copied \in Nat /\ o.from + o.copied <= PageSize
      /\ o.to \in Nat /\ o.to <= PageSize
  <2>1. /\ o.from \in 0..PageSize /\ o.to \in 0..PageSize
        /\ o.copied \in 0..PageSize /\ o.from + o.copied <= o.to
    BY OpFields, Zenon
  <2> QED
    BY <1>2, <2>1
<1> QED
  BY <1>2, <1>3 DEF EndOf, FileSizes, InRange, BlocksOf

\* What a read can return.
LEMMA ReadsLemma ==
    /\ <<>> \in Reads
    /\ \A S \in SUBSET Blocks : [S -> Values] \subseteq Reads
<1>1. <<>> \in [{} -> Values]
  OBVIOUS
<1>2. \A S \in SUBSET Blocks : [S -> Values] \subseteq Reads
  BY Zenon DEF Reads
<1> QED
  BY <1>1, <1>2, Zenon

\* What a write or a truncation puts ahead of the server are values.
LEMMA AheadValues ==
    ASSUME PageTypes, NEW v \in Tasks, op[v] \in Ops,
           op[v].kind \in {"write", "truncate"}
    PROVE  Ahead(v) \subseteq Values
<1>1. ZERO \in Values
  BY FileConstants DEF ZERO, Values, Change
<1>2. CASE op[v].kind = "truncate"
  BY <1>1, <1>2, Zenon DEF Ahead
<1>3. CASE op[v].kind = "write"
  <2>1. op[v].val \in Values /\ BlocksOf(op[v].page) \subseteq Blocks
    BY <1>3, OpFields, BlocksInFile, Zenon
  <2> QED
    BY <1>1, <1>3, <2>1, Zenon DEF Ahead, PageTypes
<1> QED
  BY <1>2, <1>3, Zenon

\* The inductive invariant of this module.
Shape ==
    /\ TypeOK /\ LocksExact /\ ServerInv
    /\ \A t \in Tasks : TaskInv(t)

\* The step is task t's: the other tasks stay where they are.
Others(t) ==
    \A u \in Tasks \ {t} :
       /\ pc'[u] = pc[u] /\ op'[u] = op[u] /\ rep'[u] = rep[u]
       /\ next'[u] = next[u] /\ since'[u] = since[u]

\* What Shape says about one task, for the steps of that task.
LEMMA Known ==
    ASSUME Shape, NEW t \in Tasks
    PROVE  /\ TypeOK /\ ServerTypes /\ PageTypes /\ InodeTypes /\ TaskTypes
           /\ srv.mtime \in Nat /\ i_mtime <= srv.mtime
           /\ got \in [Tasks -> Reads] /\ beside \in [Tasks -> SUBSET Values]
           /\ TaskInv(t) /\ PlaceInv(t) /\ ReplyInv(t) /\ since[t] <= srv.mtime
<1>1. TypeOK /\ ServerTypes /\ PageTypes /\ InodeTypes /\ TaskTypes
  BY Zenon DEF Shape, TypeOK
<1>2. TaskInv(t) /\ PlaceInv(t) /\ ReplyInv(t) /\ since[t] <= srv.mtime
  BY Zenon DEF Shape, TaskInv, ReplyInv
<1>3. srv.mtime \in Nat
  BY <1>1, Zenon DEF ServerTypes
<1> QED
  BY <1>1, <1>2, <1>3, Zenon DEF Shape, ServerInv, TaskTypes

\* A step that leaves the page cache alone keeps its types.
LEMMA SamePages ==
    ASSUME PageTypes,
           UNCHANGED <<cached, uptodate, dirty, lost, content, locker>>
    PROVE  PageTypes'
  BY Zenon DEF PageTypes

\* A page whose lock a task holds is cached, and no other task holds it.
LEMMA HeldPage ==
    ASSUME Shape, NEW t \in Tasks, PageHeld(t)
    PROVE  /\ op[t].page \in Pages /\ op[t].page \in cached
           /\ locker[op[t].page] = t /\ t # NULL
           /\ \A u \in Tasks \ {t} : PageHeld(u) => op[u].page # op[t].page
<1>1. op[t] \in Ops /\ op[t].kind \in {"read", "fault", "write", "writepage"}
  BY Known, Zenon DEF PageHeld, PlaceInv, Writing
<1>2. op[t].page \in Pages /\ t # NULL
  BY <1>1, OpFields, FileConstants, Zenon
<1>3. locker[op[t].page] = t
  BY <1>2, Zenon DEF Shape, LocksExact
<1>4. \A u \in Tasks \ {t} : PageHeld(u) => op[u].page # op[t].page
  BY <1>2, <1>3 DEF Shape, LocksExact
<1> QED
  BY <1>2, <1>3, <1>4, Known, Zenon DEF PageTypes

\* Letting go of a page keeps the types of the locks.
LEMMA Unlocks ==
    ASSUME Shape, NEW t \in Tasks, PageHeld(t), NEW x \in {NULL, NOBODY},
           locker' = [locker EXCEPT ![op[t].page] = x]
    PROVE  /\ locker' \in [Pages -> Tasks \cup {NULL, NOBODY}]
           /\ \A p \in Pages : locker'[p] # NULL => p \in cached
<1>1. /\ locker \in [Pages -> Tasks \cup {NULL, NOBODY}]
      /\ \A p \in Pages : locker[p] # NULL => p \in cached
      /\ op[t].page \in cached
  BY Known, HeldPage, Zenon DEF PageTypes
<1> QED
  BY <1>1, Zenon

\* A change at the server moves its mtime on by one and adds to its history.
LEMMA CommitTypes ==
    ASSUME Shape, NEW data \in [Blocks -> Values], NEW size \in FileSizes,
           Commit(data, size), issued' \in 0..MaxChanges,
           UNCHANGED <<i_mtime, lost, uptodate>>
    PROVE  /\ ServerTypes' /\ ServerInv'
           /\ srv'.mtime \in Nat /\ srv'.mtime = srv.mtime + 1
           /\ \A k \in 1..Len(past) : past'[k] = past[k]
<1> DEFINE d == [b \in Blocks |-> IF b < size THEN data[b] ELSE ZERO]
<1>1. srv.mtime \in Nat /\ past \in Seq([Blocks -> Values]) /\ Len(past) = srv.mtime + 1
  BY Zenon DEF Shape, TypeOK, ServerTypes
<1>2. d \in [Blocks -> Values]
  BY FileConstants DEF Values, ZERO, Change
<1>3. \A b \in Blocks : b >= size => d[b] = ZERO
  BY FileConstants DEF FileSizes, Blocks
<1>4. srv' = [data |-> d, size |-> size, mtime |-> srv.mtime + 1] /\ past' = Append(past, d)
  BY Zenon DEF Commit
<1> HIDE DEF d
<1>5. /\ Len(past') = srv.mtime + 2 /\ past'[srv.mtime + 2] = d
      /\ past' \in Seq([Blocks -> Values])
      /\ \A k \in 1..Len(past) : past'[k] = past[k]
  BY <1>1, <1>2, <1>4
<1>6. srv'.mtime = srv.mtime + 1 /\ srv'.data = d /\ srv'.size = size
  BY <1>4, Zenon
<1>7. ServerTypes'
  BY <1>1, <1>2, <1>4, <1>5, <1>6 DEF ServerTypes
<1>8. ServerInv'
  <2>1. srv'.data = past'[srv'.mtime + 1] /\ i_mtime' <= srv'.mtime
    BY <1>1, <1>5, <1>6 DEF Shape, ServerInv, TypeOK, InodeTypes
  <2> QED
    BY <1>3, <1>6, <2>1, Zenon DEF Shape, ServerInv
<1> QED
  BY <1>1, <1>5, <1>6, <1>7, <1>8

\* What a task relies on survives the steps of the others: the history only
\* grows, and nobody makes the page uptodate that it is filling.
LEMMA OtherTask ==
    ASSUME TypeOK, NEW u \in Tasks, TaskInv(u),
           pc'[u] = pc[u], op'[u] = op[u], rep'[u] = rep[u],
           next'[u] = next[u], since'[u] = since[u],
           srv'.mtime \in Nat, srv.mtime <= srv'.mtime,
           \A k \in 1..Len(past) : past'[k] = past[k],
           pc[u] \in {"readpage", "fill"} /\ op[u].page \notin uptodate
               => op[u].page \notin uptodate'
    PROVE  TaskInv(u)'
<1>1. since[u] \in Nat /\ srv.mtime \in Nat /\ Len(past) = srv.mtime + 1
  BY Zenon DEF TypeOK, TaskTypes, ServerTypes
<1>2. rep[u] \in Replies => rep[u].mtime \in Nat
  BY Zenon DEF Replies
<1>3. PlaceInv(u)'
  BY Zenon DEF TaskInv, PlaceInv
<1>4. rep[u] \in Replies /\ rep[u].mtime <= srv.mtime =>
         /\ rep[u].mtime <= srv'.mtime
         /\ past'[rep[u].mtime + 1] = past[rep[u].mtime + 1]
  <2> SUFFICES ASSUME rep[u] \in Replies, rep[u].mtime <= srv.mtime
               PROVE  /\ rep[u].mtime <= srv'.mtime
                      /\ past'[rep[u].mtime + 1] = past[rep[u].mtime + 1]
    OBVIOUS
  <2>1. rep[u].mtime + 1 \in 1..Len(past) /\ rep[u].mtime <= srv'.mtime
    BY <1>1, <1>2
  <2> QED
    BY <2>1, Zenon
<1>5. since[u] <= srv'.mtime
  BY <1>1 DEF TaskInv, ReplyInv
<1>6. ReplyInv(u)'
  BY <1>4, <1>5, Zenon DEF TaskInv, ReplyInv
<1> QED
  BY <1>3, <1>6, Zenon DEF TaskInv

\* A step of task t keeps Shape when it keeps the parts it can disturb.
LEMMA ShapeStep ==
    ASSUME Shape, NEW t \in Tasks, TypeOK', LocksExact', ServerInv', Others(t),
           TaskInv(t)', srv.mtime <= srv'.mtime,
           \A k \in 1..Len(past) : past'[k] = past[k],
           \A u \in Tasks \ {t} : 
              pc[u] \in {"readpage", "fill"} /\ op[u].page \notin uptodate
               => op[u].page \notin uptodate'
    PROVE  Shape'
<1>1. srv'.mtime \in Nat
  BY Zenon DEF TypeOK, ServerTypes
<1>2. ASSUME NEW u \in Tasks, u # t PROVE TaskInv(u)'
  BY <1>1, <1>2, OtherTask, Zenon DEF Shape, Others
<1> QED
  BY <1>2, Zenon DEF Shape

\* A step that goes on within the call.
LEMMA Moves ==
    ASSUME Shape, NEW t \in Tasks, NEW l \in PCs, Goto(t, l),
           op' = op, since' = since, got' = got,
           beside' = beside \/ beside' \in [Tasks -> SUBSET Values],
           \/ rep' = rep
           \/ \E r \in Replies \cup {NULL} : rep' = [rep EXCEPT ![t] = r],
           \/ next' = next
           \/ \E n \in 0..NPages : next' = [next EXCEPT ![t] = n]
    PROVE  TaskTypes' /\ Others(t) /\ pc'[t] = l
  BY Zenon DEF Shape, TypeOK, TaskTypes, Goto, Others

\* A step that ends the call.
LEMMA Returns ==
    ASSUME Shape, NEW t \in Tasks, Return(t), since' = since,
           got' \in [Tasks -> Reads], beside' \in [Tasks -> SUBSET Values],
           srv'.mtime \in Nat, srv.mtime <= srv'.mtime
    PROVE  TaskTypes' /\ Others(t) /\ TaskInv(t)' /\ pc'[t] = "idle"
<1>0. TaskTypes /\ NPages \in Nat
  BY FileConstants, Zenon DEF Shape, TypeOK
<1>1. Others(t) /\ pc'[t] = "idle" /\ op'[t] = NULL /\ next'[t] = 0
  BY <1>0, Zenon DEF TaskTypes, Return, Goto, Others
<1>5. TaskTypes'
  <2>1. pc' \in [Tasks -> PCs] /\ op' \in [Tasks -> Ops \cup {NULL}]
    BY <1>0, Zenon DEF TaskTypes, Return, Goto, PCs
  <2>2. rep' \in [Tasks -> Replies \cup {NULL}] /\ next' \in [Tasks -> 0..NPages]
    BY <1>0 DEF TaskTypes, Return
  <2> QED
    BY <1>0, <2>1, <2>2, Zenon DEF TaskTypes
<1>2. PlaceInv(t)'
  BY <1>1, Zenon DEF PlaceInv, Refreshing, Writing, Truncating
<1>3. since'[t] <= srv'.mtime
  BY DEF Shape, TypeOK, TaskTypes, ServerTypes, TaskInv, ReplyInv
<1>4. ReplyInv(t)'
  BY <1>1, <1>3, Zenon DEF ReplyInv, Refreshing
<1> QED
  BY <1>1, <1>2, <1>4, <1>5, Zenon DEF TaskInv

\* A step that takes or drops a lock does it where PageHeld or MutexHeld
\* changes.
LEMMA LocksStep ==
    ASSUME Shape, NEW t \in Tasks, Others(t),
           \/ locker' = locker /\ (PageHeld(t) <=> PageHeld(t)')
                /\ (PageHeld(t) => op'[t].page = op[t].page)
           \/ /\ ~PageHeld(t) /\ PageHeld(t)' /\ op'[t].page \in Pages
              /\ locker[op'[t].page] = NULL
              /\ locker' = [locker EXCEPT ![op'[t].page] = t]
           \/ /\ PageHeld(t) /\ ~PageHeld(t)'
              /\ \E x \in {NULL, NOBODY} : locker' = [locker EXCEPT ![op[t].page] = x],
           \/ i_mutex' = i_mutex /\ (MutexHeld(t) <=> MutexHeld(t)')
           \/ i_mutex = NULL /\ i_mutex' = t /\ MutexHeld(t)'
           \/ MutexHeld(t) /\ ~MutexHeld(t)' /\ i_mutex' = NULL
    PROVE  LocksExact'
<1>1. locker \in [Pages -> Tasks \cup {NULL, NOBODY}] /\ NULL \notin Tasks /\ NOBODY \notin Tasks
  BY FileConstants, Zenon DEF Shape, TypeOK, PageTypes
<1>2. \A u \in Tasks \ {t} : /\ PageHeld(u)' <=> PageHeld(u)
                             /\ MutexHeld(u)' <=> MutexHeld(u)
                             /\ op'[u] = op[u]
  BY Zenon DEF Others, PageHeld, MutexHeld
<1>3. \A p \in Pages, u \in Tasks :
          locker'[p] = u <=> PageHeld(u)' /\ op'[u].page = p
  BY <1>1, <1>2 DEF Shape, LocksExact
<1>4. \A u \in Tasks : i_mutex' = u <=> MutexHeld(u)'
  BY <1>1, <1>2 DEF Shape, LocksExact
<1> QED
  BY <1>3, <1>4, Zenon DEF LocksExact

\* A step without a change at the server, of uptodate or of lost.
LEMMA QuietStep ==
    ASSUME Shape, NEW t \in Tasks, TaskTypes', PageTypes', InodeTypes',
           Others(t), TaskInv(t)', LocksExact',
           UNCHANGED <<srv, past, issued, uptodate, lost>>, i_mtime' <= srv.mtime
    PROVE  Shape'
<1>1. ServerInv'
  BY Zenon DEF Shape, ServerInv
<1>2. TypeOK' /\ srv.mtime <= srv'.mtime
  BY DEF Shape, TypeOK, ServerTypes
<1> QED
  BY <1>1, <1>2, ShapeStep, Zenon

\* The calls: stat, read, write, fault, truncate and write-back.
LEMMA BeginSteps ==
    ASSUME Shape, NEW t \in Tasks
    PROVE  Begin(t) => Shape'
<1>1. ASSUME NEW o \in Ops, NEW l \in PCs,
             Call(t, o), Goto(t, l), issued' \in 0..MaxChanges,
             \/ l = "getattr" /\ o.kind \in {"stat", "read", "write"}
             \/ l = "find_page" /\ o.kind = "fault"
             \/ l = "lock_setattr" /\ o.kind = "truncate"
      PROVE  Shape'
  <2> USE <1>1
  <2>1. /\ Others(t) /\ pc[t] = "idle" /\ pc'[t] = l /\ op'[t] = o
        /\ next'[t] = next[t] /\ since'[t] = srv.mtime
        /\ UNCHANGED <<srv, past, cached, uptodate, dirty, lost, content, locker>>
        /\ UNCHANGED <<i_size, i_mtime, i_mutex>>
    BY Zenon DEF Call, Goto, Shape, TypeOK, TaskTypes, Others, pageVars, storeVars,
        inodeVars
  <2>2. beside' \in [Tasks -> SUBSET Values]
    <3>1. ASSUME NEW v \in Tasks, pc[v] \in {"write", "vmtruncate", "setattr"}
          PROVE  Ahead(v) \subseteq Values
      BY <3>1, AheadValues, Zenon DEF Shape, TypeOK, TaskInv, PlaceInv, Writing, Truncating
    <3> QED
      BY <3>1 DEF Shape, TypeOK, TaskTypes, Call
  <2>3. TaskTypes'
    <3>1. got' \in [Tasks -> Reads]
      BY ReadsLemma, Zenon DEF Shape, TypeOK, TaskTypes, Call
    <3>2. /\ pc' \in [Tasks -> PCs] /\ op' \in [Tasks -> Ops \cup {NULL}]
          /\ since' \in [Tasks -> Nat] /\ rep' = rep /\ next' = next
      BY Zenon DEF Shape, TypeOK, TaskTypes, ServerTypes, Call, Goto
    <3> QED
      BY <2>2, <3>1, <3>2, Zenon DEF Shape, TypeOK, TaskTypes
  <2>4. TaskInv(t)'
    <3>1. PlaceInv(t)'
      BY <2>1, Zenon DEF Shape, TaskInv, PlaceInv, Refreshing, Writing, Truncating
    <3>2. ReplyInv(t)'
      BY <2>1 DEF Shape, TypeOK, ServerTypes, ReplyInv, Refreshing
    <3> QED
      BY <2>1, <3>1, <3>2, Zenon DEF TaskInv
  <2>5. LocksExact'
    BY <2>1, LocksStep, Zenon DEF PageHeld, MutexHeld
  <2>6. TypeOK' /\ ServerInv' /\ srv.mtime <= srv'.mtime
    <3>1. ServerTypes' /\ ServerInv' /\ srv.mtime <= srv'.mtime
      BY <2>1 DEF Shape, TypeOK, ServerTypes, ServerInv
    <3>2. PageTypes' /\ InodeTypes'
      BY <2>1, Zenon DEF Shape, TypeOK, PageTypes, InodeTypes
    <3> QED
      BY <2>3, <3>1, <3>2, Zenon DEF TypeOK
  <2> QED
    BY <2>1, <2>4, <2>5, <2>6, ShapeStep, Zenon
<1>2. ASSUME \/ uvfs_getattr(t) \/ uvfs_file_mmap(t)
             \/ \E p \in Pages : uvfs_file_read(t, p) \/ fault(t, p)
             \/ \E p \in Pages, r \in Ranges, n \in 0..PageSize : uvfs_file_write(t, p, r, n)
             \/ \E n \in Sizes : uvfs_setattr(t, n)
      PROVE  Shape'
  <2> USE <1>2
  <2>0. issued \in 0..MaxChanges /\ MaxChanges \in Nat
    BY FileConstants, Zenon DEF Shape, TypeOK, ServerTypes
  <2>1. CASE uvfs_getattr(t) \/ uvfs_file_mmap(t)
    <3>1. [kind |-> "stat"] \in Ops
      BY Zenon DEF Ops
    <3> QED
      BY <2>0, <2>1, <3>1, <1>1, Zenon DEF uvfs_getattr, uvfs_file_mmap, PCs
  <2>2. ASSUME NEW p \in Pages, uvfs_file_read(t, p) PROVE Shape'
    <3>1. [kind |-> "read", page |-> p] \in Ops
      BY Zenon DEF Ops
    <3> QED
      BY <2>0, <2>2, <3>1, <1>1, Zenon DEF uvfs_file_read, PCs
  <2>3. ASSUME NEW p \in Pages, fault(t, p) PROVE Shape'
    <3>1. [kind |-> "fault", page |-> p] \in Ops
      BY Zenon DEF Ops
    <3> QED
      BY <2>0, <2>3, <3>1, <1>1, Zenon DEF fault, PCs
  <2>4. ASSUME NEW p \in Pages, NEW r \in Ranges, NEW n \in 0..PageSize,
               uvfs_file_write(t, p, r, n)
        PROVE  Shape'
    <3> DEFINE o == [kind |-> "write", page |-> p, from |-> r[1], to |-> r[2],
                     copied |-> n, val |-> Change(issued')]
    <3>1. issued' \in 0..MaxChanges
      BY <2>0, <2>4 DEF uvfs_file_write
    <3>2. /\ r[1] \in 0..PageSize /\ r[2] \in 0..PageSize
          /\ r[1] + n <= r[2] /\ (n = 0 => 0 \in ShortCopies)
      BY <2>4, FileConstants DEF uvfs_file_write
    <3>3. Change(issued') \in Values
      BY <3>1, ChangeValue, Zenon
    <3>4. o \in Ops
      BY <3>2, <3>3, Zenon DEF Ops
    <3>5. Call(t, o) /\ Goto(t, "getattr") /\ o.kind = "write"
      BY <2>4, Zenon DEF uvfs_file_write
    <3> HIDE DEF o
    <3> QED
      BY <3>1, <3>4, <3>5, <1>1, Zenon DEF PCs
  <2>5. ASSUME NEW n \in Sizes, uvfs_setattr(t, n) PROVE Shape'
    <3>1. [kind |-> "truncate", size |-> n] \in Ops
      BY FileConstants, Zenon DEF Ops, FileSizes
    <3>2. issued' \in 0..MaxChanges
      BY <2>0, <2>5 DEF uvfs_setattr
    <3> QED
      BY <2>5, <3>1, <3>2, <1>1, Zenon DEF uvfs_setattr, PCs
  <2> QED
    BY <2>1, <2>2, <2>3, <2>4, <2>5, Zenon
<1>3. ASSUME NEW p \in Pages
      PROVE  PageEnd(p) \in FileSizes
  <2> USE <1>3
  <2>1. i_size \in 0..(NPages * PageSize)
    BY Zenon DEF Shape, TypeOK, InodeTypes, FileSizes
  <2> QED
    BY <2>1, PageBounds DEF PageEnd, FileSizes
<1>4. ASSUME NEW p \in Pages, uvfs_writepage(t, p)
      PROVE  Shape'
  <2> USE <1>4
  <2>1. /\ UNCHANGED <<srv, past, issued, cached, uptodate, content>>
        /\ UNCHANGED <<i_size, i_mtime, i_mutex, next, since, beside>>
        /\ pc[t] = "idle" /\ p \in dirty /\ locker[p] = NULL
        /\ dirty' = dirty \ {p} /\ lost' \subseteq lost \cup {p}
    BY Zenon DEF uvfs_writepage, srvVars, inodeVars, histVars
  <2>2. p \in uptodate /\ p \in cached /\ next[t] = 0
    BY <2>1, Known, Zenon DEF PageTypes, PlaceInv
  <2>3. ServerInv' /\ ServerTypes' /\ InodeTypes'
    BY <2>1, <2>2, Known, Zenon DEF Shape, ServerInv, ServerTypes, InodeTypes
  <2>4. srv.mtime <= srv'.mtime /\ \A k \in 1..Len(past) : past'[k] = past[k]
    BY <2>1, Known
  <2>5. \A u \in Tasks \ {t} : pc[u] \in {"readpage", "fill"} /\ op[u].page \notin uptodate
           => op[u].page \notin uptodate'
    BY <2>1, Zenon
  <2>6. /\ dirty' \subseteq uptodate /\ lost' \subseteq cached
    BY <2>1, <2>2, Known, Zenon DEF PageTypes
  <2>7. CASE UNCHANGED <<locker, pc, op, rep, got>>
    <3>1. TaskTypes' /\ Others(t) /\ PageTypes' /\ LocksExact'
      BY <2>1, <2>6, <2>7, Known, Zenon DEF Shape, TaskTypes, Others, PageTypes, LocksExact,
          PageHeld, MutexHeld
    <3>2. TaskInv(t)'
      BY <2>1, <2>7, Known, Zenon DEF TaskInv, PlaceInv, ReplyInv
    <3>3. TypeOK'
      BY <2>3, <3>1, Zenon DEF TypeOK
    <3> QED
      BY <2>3, <2>4, <2>5, <3>1, <3>2, <3>3, ShapeStep, Zenon
  <2>8. CASE /\ locker' = [locker EXCEPT ![p] = t]
             /\ op' = [op EXCEPT ![t] = [kind |-> "writepage", page |-> p]]
             /\ rep' = [rep EXCEPT ![t] =
                           [data |-> content, size |-> PageEnd(p), mtime |-> 0]]
             /\ got' = [got EXCEPT ![t] = <<>>]
             /\ Goto(t, "writepage")
    <3> DEFINE o == [kind |-> "writepage", page |-> p]
               r == [data |-> content, size |-> PageEnd(p), mtime |-> 0]
    <3>1. o \in Ops /\ o.kind = "writepage" /\ o.page = p
      BY Zenon DEF Ops
    <3>2. r \in Replies /\ r.data \in [Blocks -> Values]
      BY <1>3, Known, Zenon DEF Replies, PageTypes
    <3> HIDE DEF o, r
    <3>3. /\ pc' \in [Tasks -> PCs] /\ op' \in [Tasks -> Ops \cup {NULL}]
          /\ rep' \in [Tasks -> Replies \cup {NULL}] /\ got' \in [Tasks -> Reads]
      BY <2>8, <3>1, <3>2, ReadsLemma, Known, Zenon DEF TaskTypes, Goto, PCs, o, r
    <3>4. TaskTypes'
      BY <2>1, <3>3, Known, Zenon DEF TaskTypes
    <3>5. Others(t) /\ pc'[t] = "writepage" /\ op'[t] = o /\ rep'[t] = r
      BY <2>1, <2>8, Known, Zenon DEF TaskTypes, Goto, Others, o, r
    <3>6. PlaceInv(t)'
      BY <2>1, <2>2, <3>1, <3>5, Zenon DEF PlaceInv, Refreshing, Writing, Truncating
    <3>7. ReplyInv(t)'
      BY <2>1, <3>2, <3>5, Known, Zenon DEF ReplyInv, Refreshing
    <3>8. TaskInv(t)'
      BY <3>5, <3>6, <3>7, Zenon DEF TaskInv
    <3>9. LocksExact'
      <4>1. ~PageHeld(t) /\ PageHeld(t)' /\ ~MutexHeld(t) /\ ~MutexHeld(t)' /\ op'[t].page = p
        BY <2>1, <3>1, <3>5, Zenon DEF PageHeld, MutexHeld
      <4> QED
        BY <2>1, <2>8, <3>5, <4>1, LocksStep, Zenon
    <3>10. PageTypes'
      <4>1. /\ locker' \in [Pages -> Tasks \cup {NULL, NOBODY}]
            /\ \A q \in Pages : locker'[q] # NULL => q \in cached
        BY <2>2, <2>8, Known, Zenon DEF PageTypes
      <4> QED
        BY <2>1, <2>6, <4>1, Known, Zenon DEF PageTypes
    <3>11. TypeOK'
      BY <2>3, <3>4, <3>10, Zenon DEF TypeOK
    <3> QED
      BY <2>3, <2>4, <2>5, <3>5, <3>8, <3>9, <3>11, ShapeStep, Zenon
  <2> QED
    BY <2>7, <2>8, Zenon DEF uvfs_writepage
<1> QED
  BY <1>2, <1>4, Zenon DEF Begin

\* uvfs_revalidate_inode and uvfs_refresh_inode, and the page-cache part of a
\* truncation.
LEMMA RefreshSteps ==
    ASSUME Shape, NEW t \in Tasks
    PROVE  \/ revalidate_request(t) \/ refresh_compare(t) \/ refresh_size(t)
           \/ refresh_mtime(t) \/ refresh_invalidate(t) \/ setattr_vmtruncate(t)
           => Shape'
<1>1. ASSUME revalidate_request(t)
      PROVE  Shape'
  <2> USE <1>1
  <2>0. /\ UNCHANGED <<srv, past, issued, cached, uptodate, dirty, lost, content>>
        /\ UNCHANGED <<locker, i_size, i_mtime, i_mutex, got, since, beside>>
    BY Zenon DEF revalidate_request, srvVars, pageVars, storeVars, inodeVars, histVars
  <2>1. /\ UNCHANGED <<srv, past, issued, uptodate, lost, locker, i_mutex>>
        /\ UNCHANGED <<got, since, beside>>
        /\ PageTypes' /\ InodeTypes' /\ i_mtime' <= srv.mtime
    BY <2>0, SamePages, Known, Zenon DEF InodeTypes
  <2>2. /\ pc[t] = "getattr" /\ op[t] \in Ops /\ next[t] = 0
        /\ op[t].kind \in {"stat", "read", "write"}
    BY Known, Zenon DEF revalidate_request, PlaceInv
  <2>3. CASE Return(t)
    <3>1. TaskTypes' /\ Others(t) /\ TaskInv(t)' /\ pc'[t] = "idle"
      BY <2>1, <2>3, Known, Returns
    <3>2. LocksExact'
      BY <2>1, <2>2, <3>1, LocksStep, Zenon DEF PageHeld, MutexHeld
    <3> QED
      BY <2>1, <3>1, <3>2, QuietStep, Zenon
  <2>4. CASE /\ rep' = [rep EXCEPT ![t] = [srv EXCEPT !.data = <<>>]]
             /\ Goto(t, "refresh") /\ UNCHANGED <<op, next>>
    <3> DEFINE r == [srv EXCEPT !.data = <<>>]
    <3>1. r \in Replies /\ r.mtime = srv.mtime
      BY Zenon DEF Shape, TypeOK, ServerTypes, Replies
    <3> HIDE DEF r
    <3>2. TaskTypes' /\ Others(t) /\ pc'[t] = "refresh"
      BY <2>1, <2>4, <3>1, Moves, Zenon DEF PCs, r
    <3>3. rep'[t] = r
      BY <2>4, Zenon DEF Shape, TypeOK, TaskTypes, r
    <3>4. PlaceInv(t)'
      BY <2>2, <2>4, <3>2, Zenon DEF PlaceInv, Refreshing, Writing, Truncating
    <3>5. ReplyInv(t)'
      BY <2>1, <3>1, <3>2, <3>3, Known DEF ReplyInv, Refreshing
    <3>6. TaskInv(t)'
      BY <3>2, <3>4, <3>5, Zenon DEF TaskInv
    <3>7. LocksExact'
      BY <2>1, <2>2, <3>2, LocksStep, Zenon DEF PageHeld, MutexHeld
    <3> QED
      BY <2>1, <3>2, <3>6, <3>7, QuietStep, Zenon
  <2> QED
    BY <2>3, <2>4, Zenon DEF revalidate_request
<1>2. ASSUME refresh_compare(t) \/ refresh_size(t)
      PROVE  Shape'
  <2> USE <1>2
  <2>1. PICK l \in {"invalidate", "set_size", "set_mtime"} :
           /\ Goto(t, l) /\ pc[t] \in {"refresh", "set_size"}
           /\ i_size' = i_size \/ i_size' = rep[t].size
    BY Zenon DEF refresh_compare, refresh_size, inodeVars
  <2>2. /\ UNCHANGED <<srv, past, issued, cached, uptodate, dirty, lost, content>>
        /\ UNCHANGED <<locker, i_mtime, i_mutex, op, rep, next, got, since, beside>>
    BY Zenon DEF refresh_compare, refresh_size, srvVars, pageVars, storeVars, inodeVars,
        histVars
  <2>3. /\ op[t] \in Ops /\ next[t] = 0 /\ rep[t] \in Replies
        /\ op[t].kind \in {"stat", "read", "write"}
    BY <2>1, Known, Zenon DEF PlaceInv, ReplyInv, Refreshing
  <2>4. TaskTypes' /\ Others(t) /\ pc'[t] = l
    BY <2>1, <2>2, Moves, Zenon DEF PCs
  <2>5. PlaceInv(t)' /\ ReplyInv(t)'
    <3>1. PlaceInv(t)'
      BY <2>1, <2>2, <2>3, <2>4, Zenon DEF PlaceInv, Refreshing, Writing, Truncating
    <3>2. ReplyInv(t)'
      BY <2>1, <2>2, <2>4, Known, Zenon DEF ReplyInv, Refreshing
    <3> QED
      BY <3>1, <3>2, Zenon
  <2>6. TaskInv(t)'
    BY <2>4, <2>5, Zenon DEF TaskInv
  <2>7. LocksExact'
    BY <2>1, <2>2, <2>4, LocksStep, Zenon DEF PageHeld, MutexHeld
  <2>8. InodeTypes'
    BY <2>1, <2>2, <2>3, Known, Zenon DEF InodeTypes, Replies
  <2>9. PageTypes' /\ i_mtime' <= srv.mtime
    BY <2>2, Known, Zenon DEF PageTypes
  <2> QED
    BY <2>2, <2>4, <2>6, <2>7, <2>8, <2>9, QuietStep, Zenon
<1>3. ASSUME refresh_mtime(t)
      PROVE  Shape'
  <2> USE <1>3
  <2>1. /\ UNCHANGED <<srv, past, issued, cached, uptodate, dirty, lost, content>>
        /\ UNCHANGED <<locker, i_size, i_mutex, got, since, beside>>
        /\ i_mtime' = rep[t].mtime /\ pc[t] = "set_mtime"
    BY Zenon DEF refresh_mtime, srvVars, pageVars, storeVars, histVars
  <2>2. /\ op[t] \in Ops /\ next[t] = 0 /\ rep[t].mtime \in Nat
        /\ op[t].kind \in {"stat", "read", "write"} /\ i_mtime' <= srv.mtime
    BY <2>1, Known, Zenon DEF PlaceInv, ReplyInv, Refreshing, Replies
  <2>3. PageTypes' /\ InodeTypes'
    BY <2>1, <2>2, Known, SamePages, Zenon DEF InodeTypes
  <2>4. CASE Return(t)
    <3>1. TaskTypes' /\ Others(t) /\ TaskInv(t)' /\ pc'[t] = "idle"
      BY <2>1, <2>4, Known, Returns
    <3>2. LocksExact'
      BY <2>1, <3>1, LocksStep, Zenon DEF PageHeld, MutexHeld
    <3> QED
      BY <2>1, <2>2, <2>3, <3>1, <3>2, QuietStep, Zenon
  <2>5. CASE /\ \/ op[t].kind = "read" /\ Goto(t, "find_page")
                \/ op[t].kind = "write" /\ Goto(t, "lock_inode")
             /\ rep' = [rep EXCEPT ![t] = NULL] /\ UNCHANGED <<op, next>>
    <3>1. PICK l \in {"find_page", "lock_inode"} :
             /\ Goto(t, l)
             /\ op[t].kind = (IF l = "find_page" THEN "read" ELSE "write")
      BY <2>5, Zenon
    <3>2. TaskTypes' /\ Others(t) /\ pc'[t] = l
      <4>1. l \in PCs /\ \E r \in Replies \cup {NULL} : rep' = [rep EXCEPT ![t] = r]
        BY <2>5, <3>1, Zenon DEF PCs
      <4> QED
        BY <2>1, <2>5, <3>1, <4>1, Moves, Zenon
    <3>3. PlaceInv(t)'
      BY <2>2, <2>5, <3>1, <3>2, Zenon DEF PlaceInv, Refreshing, Writing, Truncating
    <3>4. ReplyInv(t)'
      BY <2>1, <3>2, Known, Zenon DEF ReplyInv, Refreshing
    <3>5. TaskInv(t)'
      BY <3>2, <3>3, <3>4, Zenon DEF TaskInv
    <3>6. LocksExact'
      BY <2>1, <3>2, LocksStep, Zenon DEF PageHeld, MutexHeld
    <3> QED
      BY <2>1, <2>2, <2>3, <3>2, <3>5, <3>6, QuietStep, Zenon
  <2> QED
    BY <2>4, <2>5, Zenon DEF refresh_mtime
<1>4. ASSUME PageTypes, NEW p \in Pages, locker[p] = NULL, Drop(p), locker' = locker
      PROVE  /\ PageTypes' /\ uptodate' \subseteq uptodate
             /\ lost \subseteq uptodate => lost' \subseteq uptodate'
  <2> USE <1>4
  <2>1. content' \in [Blocks -> Values]
    BY FileConstants, Zenon DEF PageTypes, Drop, Values
  <2>2. /\ dirty' \subseteq uptodate' /\ uptodate' \subseteq cached'
        /\ cached' \subseteq Pages /\ lost' \subseteq cached'
        /\ \A q \in Pages : locker'[q] # NULL => q \in cached'
    BY Zenon DEF PageTypes, Drop
  <2> QED
    BY <2>1, <2>2, Zenon DEF PageTypes, Drop
<1>5. ASSUME refresh_invalidate(t) \/ setattr_vmtruncate(t),
             UNCHANGED pc
      PROVE  Shape'
  <2> USE <1>5
  <2> DEFINE p == next[t]
  <2>1. /\ UNCHANGED <<srv, past, issued, locker, i_size, i_mtime, i_mutex>>
        /\ UNCHANGED <<pc, op, rep, got, since, beside>>
        /\ pc[t] \in {"invalidate", "vmtruncate"}
    BY Zenon DEF refresh_invalidate, setattr_vmtruncate, srvVars, inodeVars, histVars
  <2>2. /\ p \in Pages /\ locker[p] = NULL /\ next' = [next EXCEPT ![t] = p + 1]
        /\ \/ Drop(p)
           \/ /\ UNCHANGED <<cached, uptodate, dirty, lost>>
              /\ \/ content' = content
                 \/ content' = [b \in Blocks |->
                                   IF b \in BlocksOf(p) /\ b >= op[t].size /\ p \in cached
                                   THEN ZERO ELSE content[b]]
    <3>1. pc'[t] \in {"invalidate", "vmtruncate"}
      BY <2>1, Zenon
    <3>2. \A l \in PCs : Goto(t, l) => pc'[t] = l
      BY Known, Zenon DEF Goto, TaskTypes
    <3> QED
      BY <2>1, <3>1, <3>2, Zenon DEF refresh_invalidate, setattr_vmtruncate, storeVars, PCs
  <2>3. p + 1 \in 0..NPages /\ Goto(t, pc[t]) /\ pc[t] \in PCs
    BY <2>1, <2>2, FileConstants, Known DEF Pages, Goto, TaskTypes
  <2>4. TaskTypes' /\ Others(t)
    BY <2>1, <2>2, <2>3, Moves, Zenon
  <2>5. TaskInv(t)'
    <3>1. PlaceInv(t)'
      BY <2>1, Known, Zenon DEF PlaceInv
    <3>2. ReplyInv(t)'
      BY <2>1, Known, Zenon DEF ReplyInv
    <3> QED
      BY <2>1, <3>1, <3>2, Zenon DEF TaskInv
  <2>6. LocksExact'
    BY <2>1, Zenon DEF Shape, LocksExact, PageHeld, MutexHeld
  <2>7. PageTypes' /\ uptodate' \subseteq uptodate /\ lost' \subseteq uptodate'
    <3>1. PageTypes /\ lost \subseteq uptodate
      BY Known, Zenon DEF Shape, ServerInv
    <3>2. CASE Drop(p)
      BY <2>1, <2>2, <3>1, <3>2, <1>4, Zenon
    <3>3. CASE ~Drop(p)
      <4>1. content' \in [Blocks -> Values]
        BY <2>2, <3>1, <3>3, FileConstants DEF PageTypes, Values, ZERO, Change
      <4> QED
        BY <2>1, <2>2, <3>1, <3>3, <4>1, Zenon DEF PageTypes
    <3> QED
      BY <3>2, <3>3, Zenon
  <2>8. ServerInv' /\ ServerTypes' /\ InodeTypes'
    BY <2>1, <2>7, Known, Zenon DEF Shape, ServerInv, ServerTypes, InodeTypes
  <2>9. TypeOK' /\ srv.mtime <= srv'.mtime /\ \A k \in 1..Len(past) : past'[k] = past[k]
    BY <2>1, <2>4, <2>7, <2>8, Known DEF TypeOK
  <2> QED
    BY <2>4, <2>5, <2>6, <2>7, <2>8, <2>9, ShapeStep, Zenon
<1>6. ASSUME refresh_invalidate(t) \/ setattr_vmtruncate(t),
             pc' # pc
      PROVE  Shape'
  <2> USE <1>6
  <2>1. /\ UNCHANGED <<srv, past, issued, locker, i_size, i_mtime, i_mutex>>
        /\ UNCHANGED <<cached, uptodate, dirty, lost, content>>
        /\ UNCHANGED <<op, rep, got, since, beside>>
    BY Zenon DEF refresh_invalidate, setattr_vmtruncate, srvVars, inodeVars, histVars, storeVars
  <2>2. \/ /\ pc[t] = "invalidate" /\ Goto(t, "set_size")
           /\ next' = [next EXCEPT ![t] = 0]
        \/ pc[t] = "vmtruncate" /\ Goto(t, "setattr") /\ next' = next
    BY Zenon DEF refresh_invalidate, setattr_vmtruncate
  <2>3. PICK l \in {"set_size", "setattr"} :
           /\ Goto(t, l)
           /\ IF l = "set_size" THEN pc[t] = "invalidate" /\ next' = [next EXCEPT ![t] = 0]
                                ELSE pc[t] = "vmtruncate" /\ next' = next
    BY <2>2, Zenon
  <2>4. TaskTypes' /\ Others(t) /\ pc'[t] = l
    <3>1. 0 \in 0..NPages /\ l \in PCs
      BY FileConstants DEF PCs
    <3> QED
      BY <2>1, <2>3, <3>1, Moves, Zenon
  <2>5. PlaceInv(t)'
    <3>1. l = "set_size" => next'[t] = 0
      BY <2>3, Known, Zenon DEF TaskTypes
    <3> QED
      BY <2>1, <2>3, <2>4, <3>1, Known, Zenon DEF PlaceInv, Refreshing, Writing, Truncating
  <2>6. ReplyInv(t)'
    BY <2>1, <2>3, <2>4, Known, Zenon DEF ReplyInv, Refreshing
  <2>7. TaskInv(t)'
    BY <2>4, <2>5, <2>6, Zenon DEF TaskInv
  <2>8. LocksExact'
    BY <2>1, <2>3, <2>4, LocksStep, Zenon DEF PageHeld, MutexHeld
  <2>9. PageTypes' /\ InodeTypes' /\ i_mtime' <= srv.mtime
    BY <2>1, Known, SamePages, Zenon DEF InodeTypes
  <2> QED
    BY <2>1, <2>4, <2>7, <2>8, <2>9, QuietStep, Zenon
<1> QED
  BY <1>1, <1>2, <1>3, <1>5, <1>6, Zenon

\* The reading side: the page found in the cache or locked, uvfs_readpage.
LEMMA ReadSteps ==
    ASSUME Shape, NEW t \in Tasks
    PROVE  \/ read_cached(t) \/ read_lock_page(t) \/ uvfs_write_begin(t)
           \/ readpage_request(t) \/ readpage_nomem(t) \/ writepage_end(t)
           \/ readpage_fill(t)
           => Shape'
<1>1. ASSUME op[t] \in Ops, op[t].kind \in {"read", "fault"},
             NEW c \in [Blocks -> Values]
      PROVE  Given(t, c) \in Reads
  <2> USE <1>1
  <2>1. op[t].page \in Pages
    BY OpFields, Zenon
  <2>2. CASE op[t].kind = "read"
    <3> DEFINE S == {x \in BlocksOf(op[t].page) : x < i_size}
    <3>1. S \in SUBSET Blocks
      BY <2>1, BlocksInFile, Zenon
    <3>2. Given(t, c) = [b \in S |-> c[b]]
      BY <2>2, Zenon DEF Given, Visible
    <3>3. Given(t, c) \in [S -> Values]
      BY <3>1, <3>2, Zenon
    <3> QED
      BY <3>1, <3>3, ReadsLemma, Zenon
  <2>3. CASE op[t].kind # "read"
    BY <2>3, ReadsLemma, Zenon DEF Given
  <2> QED
    BY <2>2, <2>3, Zenon
<1>2. ASSUME read_cached(t)
      PROVE  Shape'
  <2> USE <1>2
  <2>1. /\ UNCHANGED <<srv, past, issued, cached, uptodate, dirty, lost, content>>
        /\ UNCHANGED <<locker, i_size, i_mtime, i_mutex, since>>
        /\ pc[t] = "find_page" /\ Return(t)
        /\ got' = [got EXCEPT ![t] = Given(t, content)]
        /\ beside' = [beside EXCEPT ![t] =
                         IF Unsaved(op[t].page) /\ op[t].kind = "read"
                         THEN Values ELSE @]
    BY Zenon DEF read_cached, srvVars, pageVars, storeVars, inodeVars
  <2>2. op[t] \in Ops /\ op[t].kind \in {"read", "fault"}
    BY <2>1, Known, Zenon DEF PlaceInv
  <2>3. got' \in [Tasks -> Reads]
    BY <2>1, <2>2, <1>1, Known, Zenon DEF PageTypes
  <2>4. beside' \in [Tasks -> SUBSET Values]
    BY <2>1, Known, Zenon
  <2>5. TaskTypes' /\ Others(t) /\ TaskInv(t)' /\ pc'[t] = "idle"
    BY <2>1, <2>3, <2>4, Known, Returns
  <2>6. LocksExact'
    BY <2>1, <2>5, LocksStep, Zenon DEF PageHeld, MutexHeld
  <2>7. PageTypes' /\ InodeTypes' /\ i_mtime' <= srv.mtime
    BY <2>1, Known, SamePages, Zenon DEF InodeTypes
  <2> QED
    BY <2>1, <2>5, <2>6, <2>7, QuietStep, Zenon
<1>3. ASSUME read_lock_page(t) \/ uvfs_write_begin(t)
      PROVE  Shape'
  <2> USE <1>3
  <2>1. PICK l \in {"readpage", "write_copy"} :
           /\ Goto(t, l)
           /\ pc[t] = (IF l = "readpage" THEN "find_page" ELSE "write_begin")
           /\ l = "readpage" => op[t].page \notin uptodate
           /\ locker[op[t].page] = NULL
           /\ locker' = [locker EXCEPT ![op[t].page] = t]
           /\ cached' = cached \cup {op[t].page}
    BY Zenon DEF read_lock_page, uvfs_write_begin
  <2>2. /\ UNCHANGED <<srv, past, issued, uptodate, dirty, lost, content>>
        /\ UNCHANGED <<i_size, i_mtime, i_mutex, op, rep, next, got, since, beside>>
    BY Zenon DEF read_lock_page, uvfs_write_begin, srvVars, storeVars, inodeVars, histVars
  <2>3. /\ op[t] \in Ops /\ next[t] = 0
        /\ IF l = "readpage" THEN op[t].kind \in {"read", "fault"}
                             ELSE op[t].kind = "write"
    BY <2>1, Known, Zenon DEF PlaceInv, Writing
  <2>4. op[t].page \in Pages
    BY <2>3, OpFields, Zenon
  <2>5. TaskTypes' /\ Others(t) /\ pc'[t] = l
    BY <2>1, <2>2, Moves, Zenon DEF PCs
  <2>6. PlaceInv(t)'
    BY <2>2, <2>3, <2>5, Zenon DEF PlaceInv, Refreshing, Writing, Truncating
  <2>7. ReplyInv(t)'
    BY <2>2, <2>5, Known, Zenon DEF ReplyInv, Refreshing
  <2>8. TaskInv(t)'
    BY <2>1, <2>2, <2>5, <2>6, <2>7, Zenon DEF TaskInv
  <2>9. LocksExact'
    <3>1. ~PageHeld(t) /\ PageHeld(t)' /\ (MutexHeld(t) <=> MutexHeld(t)')
      BY <2>1, <2>5, Zenon DEF PageHeld, MutexHeld
    <3> QED
      BY <2>1, <2>2, <2>4, <2>5, <3>1, LocksStep, Zenon
  <2>10. PageTypes'
    BY <2>1, <2>2, <2>4, Known, Zenon DEF PageTypes
  <2>11. InodeTypes' /\ i_mtime' <= srv.mtime
    BY <2>2, Known, Zenon DEF InodeTypes
  <2> QED
    BY <2>2, <2>5, <2>8, <2>9, <2>10, <2>11, QuietStep, Zenon
<1>4. ASSUME Return(t), PageHeld(t), ~MutexHeld(t),
             \E x \in {NULL, NOBODY} : locker' = [locker EXCEPT ![op[t].page] = x],
             UNCHANGED <<srv, past, issued, cached, uptodate, dirty, lost, content>>,
             UNCHANGED <<i_size, i_mtime, i_mutex, got, since, beside>>
      PROVE  Shape'
  <2> USE <1>4
  <2>1. TaskTypes' /\ Others(t) /\ TaskInv(t)' /\ pc'[t] = "idle"
    BY Known, Returns
  <2>2. ~PageHeld(t)' /\ ~MutexHeld(t)'
    BY <2>1, Zenon DEF PageHeld, MutexHeld
  <2>3. LocksExact'
    BY <2>1, <2>2, LocksStep, Zenon
  <2>4. /\ locker' \in [Pages -> Tasks \cup {NULL, NOBODY}]
        /\ \A p \in Pages : locker'[p] # NULL => p \in cached
    BY Unlocks, Zenon
  <2>5. PageTypes'
    BY <2>4, Known, Zenon DEF PageTypes
  <2>6. InodeTypes' /\ i_mtime' <= srv.mtime
    BY Known, Zenon DEF InodeTypes
  <2> QED
    BY <2>1, <2>3, <2>5, <2>6, QuietStep, Zenon
<1>5. ASSUME readpage_request(t)
      PROVE  Shape'
  <2> USE <1>5
  <2>1. /\ UNCHANGED <<srv, past, issued, cached, uptodate, dirty, lost, content>>
        /\ UNCHANGED <<i_size, i_mtime, i_mutex, got, since, beside>>
        /\ pc[t] = "readpage"
    BY Zenon DEF readpage_request, srvVars, storeVars, inodeVars, histVars
  <2>2. CASE unlock_page(op[t].page) /\ Return(t)
    <3>1. PageHeld(t) /\ ~MutexHeld(t)
      BY <2>1, Zenon DEF PageHeld, MutexHeld
    <3> QED
      BY <2>1, <2>2, <3>1, <1>4, Zenon DEF unlock_page
  <2>3. CASE /\ rep' = [rep EXCEPT ![t] = srv]
             /\ Goto(t, "fill") /\ UNCHANGED <<locker, op, next>>
    <3>1. op[t] \in Ops /\ next[t] = 0 /\ op[t].kind \in {"read", "fault"}
      BY <2>1, Known, Zenon DEF PlaceInv
    <3>2. srv \in Replies
      BY Known, Zenon DEF ServerTypes, Replies
    <3>3. TaskTypes' /\ Others(t) /\ pc'[t] = "fill" /\ rep'[t] = srv
      <4>1. "fill" \in PCs /\ \E r \in Replies \cup {NULL} : rep' = [rep EXCEPT ![t] = r]
        BY <2>3, <3>2, Zenon DEF PCs
      <4>2. rep'[t] = srv
        BY <2>3, Known, Zenon DEF TaskTypes
      <4> QED
        BY <2>1, <2>3, <4>1, <4>2, Moves, Zenon
    <3>4. PlaceInv(t)'
      BY <2>3, <3>1, <3>3, Zenon DEF PlaceInv, Refreshing, Writing, Truncating
    <3>5. ReplyInv(t)'
      <4>1. /\ srv.data = past[srv.mtime + 1] /\ since'[t] <= srv.mtime
            /\ \A b \in Blocks : b >= srv.size => srv.data[b] = ZERO
        BY <2>1, Known, Zenon DEF Shape, ServerInv
      <4> QED
        BY <2>1, <3>2, <3>3, <4>1, Known DEF ReplyInv, Refreshing
    <3>6. TaskInv(t)'
      BY <2>1, <2>3, <3>4, <3>5, Known, Zenon DEF TaskInv
    <3>7. LocksExact'
      BY <2>1, <2>3, <3>3, LocksStep, Zenon DEF PageHeld, MutexHeld
    <3>8. PageTypes' /\ InodeTypes' /\ i_mtime' <= srv.mtime
      BY <2>1, <2>3, Known, SamePages, Zenon DEF InodeTypes
    <3> QED
      BY <2>1, <3>3, <3>6, <3>7, <3>8, QuietStep, Zenon
  <2> QED
    BY <2>2, <2>3, Zenon DEF readpage_request
<1>6. ASSUME readpage_nomem(t) \/ writepage_end(t)
      PROVE  Shape'
  <2> USE <1>6
  <2>1. /\ UNCHANGED <<srv, past, issued, cached, uptodate, dirty, lost, content>>
        /\ UNCHANGED <<i_size, i_mtime, i_mutex, got, since, beside>>
        /\ pc[t] \in {"readpage", "writepage_end"} /\ Return(t)
    BY Zenon DEF readpage_nomem, writepage_end, srvVars, storeVars, inodeVars, histVars
  <2>2. \E x \in {NULL, NOBODY} : locker' = [locker EXCEPT ![op[t].page] = x]
    BY Zenon DEF readpage_nomem, writepage_end, unlock_page
  <2>3. PageHeld(t) /\ ~MutexHeld(t)
    BY <2>1, Zenon DEF PageHeld, MutexHeld
  <2> QED
    BY <2>1, <2>2, <2>3, <1>4, Zenon
<1>7. ASSUME readpage_fill(t)
      PROVE  Shape'
  <2> USE <1>7
  <2> DEFINE p == op[t].page
  <2>1. /\ UNCHANGED <<srv, past, issued, cached, dirty, lost>>
        /\ UNCHANGED <<i_size, i_mtime, i_mutex, since, beside>>
        /\ pc[t] = "fill" /\ Return(t)
        /\ got' = [got EXCEPT ![t] = Given(t, content')]
        /\ uptodate' = uptodate \cup {p} /\ content' = Filled(rep[t], p)
        /\ locker' = [locker EXCEPT ![p] = NULL]
    BY Zenon DEF readpage_fill, srvVars, storeVars, inodeVars, histVars, unlock_page
  <2>2. op[t] \in Ops /\ op[t].kind \in {"read", "fault"} /\ p \in Pages
    BY <2>1, Known, OpFields, Zenon DEF PlaceInv
  <2>3. content' \in [Blocks -> Values]
    <3>1. rep[t].data = past[rep[t].mtime + 1] /\ rep[t].mtime + 1 \in 1..Len(past)
      BY <2>1, Known DEF ReplyInv, ServerTypes, Replies
    <3>2. rep[t].data \in [Blocks -> Values]
      BY <3>1, Known DEF ServerTypes
    <3>3. ZERO \in Values
      BY FileConstants DEF ZERO, Values, Change
    <3>4. content \in [Blocks -> Values]
      BY Known, Zenon DEF PageTypes
    <3> QED
      BY <2>1, <3>2, <3>3, <3>4, Zenon DEF Filled
  <2>4. got' \in [Tasks -> Reads]
    <3>1. Given(t, content') \in Reads
      BY <2>2, <2>3, <1>1, Zenon
    <3> QED
      BY <2>1, <3>1, Known, Zenon
  <2>5. TaskTypes' /\ Others(t) /\ TaskInv(t)' /\ pc'[t] = "idle"
    <3>1. beside' \in [Tasks -> SUBSET Values] /\ srv'.mtime \in Nat /\ srv.mtime <= srv'.mtime
      BY <2>1, Known
    <3> QED
      BY <2>1, <2>4, <3>1, Returns, Zenon
  <2>6. LocksExact'
    <3>1. PageHeld(t) /\ ~PageHeld(t)' /\ ~MutexHeld(t) /\ ~MutexHeld(t)'
      BY <2>1, <2>5, Zenon DEF PageHeld, MutexHeld
    <3> QED
      BY <2>1, <2>5, <3>1, LocksStep, Zenon
  <2>7. p \in cached /\ \A u \in Tasks \ {t} : PageHeld(u) => op[u].page # p
    BY <2>1, HeldPage, Zenon DEF PageHeld
  <2>8. PageTypes'
    BY <2>1, <2>2, <2>3, <2>7, Known, Zenon DEF PageTypes
  <2>9. ServerInv' /\ ServerTypes' /\ InodeTypes'
    BY <2>1, Known, Zenon DEF Shape, ServerInv, ServerTypes, InodeTypes
  <2>10. TypeOK' /\ srv.mtime <= srv'.mtime /\ \A k \in 1..Len(past) : past'[k] = past[k]
    BY <2>1, <2>5, <2>8, <2>9, Known DEF TypeOK
  <2>11. \A u \in Tasks \ {t} :
            pc[u] \in {"readpage", "fill"} /\ op[u].page \notin uptodate
             => op[u].page \notin uptodate'
    <3>1. \A u \in Tasks \ {t} : pc[u] \in {"readpage", "fill"} => op[u].page # p
      BY <2>7, Zenon DEF PageHeld
    <3> QED
      BY <2>1, <3>1, Zenon
  <2> QED
    BY <2>5, <2>6, <2>9, <2>10, <2>11, ShapeStep, Zenon
<1> QED
  BY <1>2, <1>3, <1>5, <1>6, <1>7, Zenon

\* The writing side: i_mutex, uvfs_write_begin, the copy, uvfs_write_end.
LEMMA WriteSteps ==
    ASSUME Shape, NEW t \in Tasks
    PROVE  \/ write_lock_inode(t) \/ setattr_size(t) \/ write_begin_nomem(t)
           \/ setattr_end(t) \/ write_copy(t) \/ uvfs_write_end(t)
           => Shape'
<1>1. ASSUME pc[t] \in {"write_copy", "lock_setattr"}, Beside(t)
      PROVE  beside' \in [Tasks -> SUBSET Values]
  <2> USE <1>1
  <2>1. Ahead(t) \subseteq Values
    BY AheadValues, Known, Zenon DEF PlaceInv, Writing, Truncating
  <2> QED
    BY <2>1, Known, Zenon DEF Beside
<1>2. ASSUME write_lock_inode(t) \/ setattr_size(t)
      PROVE  Shape'
  <2> USE <1>2
  <2>1. /\ UNCHANGED <<srv, past, issued, cached, uptodate, dirty, lost, content>>
        /\ UNCHANGED <<locker, i_mtime, op, rep, next, got, since>>
        /\ i_mutex = NULL /\ i_mutex' = t
    BY Zenon DEF write_lock_inode, setattr_size, srvVars, pageVars, storeVars, histVars
  <2>2. PICK l \in {"write_begin", "vmtruncate"} :
           /\ Goto(t, l)
           /\ pc[t] = (IF l = "write_begin" THEN "lock_inode" ELSE "lock_setattr")
           /\ IF l = "write_begin" THEN beside' = beside /\ i_size' = i_size
                                   ELSE Beside(t) /\ i_size' = op[t].size
    BY Zenon DEF write_lock_inode, setattr_size, histVars
  <2>3. /\ op[t] \in Ops /\ next[t] = 0
        /\ op[t].kind = (IF l = "write_begin" THEN "write" ELSE "truncate")
    BY <2>2, Known, Zenon DEF PlaceInv, Writing, Truncating
  <2>4. beside' = beside \/ beside' \in [Tasks -> SUBSET Values]
    BY <2>2, <1>1, Zenon
  <2>5. TaskTypes' /\ Others(t) /\ pc'[t] = l
    <3>1. l \in PCs
      BY Zenon DEF PCs
    <3> QED
      BY <2>1, <2>2, <2>4, <3>1, Moves, Zenon
  <2>6. PlaceInv(t)'
    BY <2>1, <2>3, <2>5, Zenon DEF PlaceInv, Refreshing, Writing, Truncating
  <2>7. ReplyInv(t)'
    BY <2>1, <2>5, Known, Zenon DEF ReplyInv, Refreshing
  <2>8. TaskInv(t)'
    BY <2>5, <2>6, <2>7, Zenon DEF TaskInv
  <2>9. LocksExact'
    <3>1. ~PageHeld(t) /\ ~PageHeld(t)' /\ MutexHeld(t)'
      BY <2>2, <2>5, Zenon DEF PageHeld, MutexHeld
    <3> QED
      BY <2>1, <2>5, <3>1, LocksStep, Zenon
  <2>10. i_size' \in FileSizes
    BY <2>2, <2>3, OpFields, Known, Zenon DEF InodeTypes
  <2>11. PageTypes' /\ InodeTypes' /\ i_mtime' <= srv.mtime
    BY <2>1, <2>10, Known, SamePages, Zenon DEF InodeTypes
  <2> QED
    BY <2>1, <2>5, <2>8, <2>9, <2>11, QuietStep, Zenon
<1>3. ASSUME write_begin_nomem(t) \/ setattr_end(t)
      PROVE  Shape'
  <2> USE <1>3
  <2>1. /\ UNCHANGED <<srv, past, issued, cached, uptodate, dirty, lost, content>>
        /\ UNCHANGED <<locker, i_size, i_mtime, got, since, beside>>
        /\ i_mutex' = NULL /\ Return(t) /\ pc[t] \in {"write_begin", "setattr_end"}
    BY Zenon DEF write_begin_nomem, setattr_end, srvVars, pageVars, storeVars, histVars
  <2>2. TaskTypes' /\ Others(t) /\ TaskInv(t)' /\ pc'[t] = "idle"
    BY <2>1, Known, Returns
  <2>3. LocksExact'
    <3>1. ~PageHeld(t) /\ ~PageHeld(t)' /\ MutexHeld(t) /\ ~MutexHeld(t)'
      BY <2>1, <2>2, Zenon DEF PageHeld, MutexHeld
    <3> QED
      BY <2>1, <2>2, <3>1, LocksStep, Zenon
  <2>4. PageTypes' /\ InodeTypes' /\ i_mtime' <= srv.mtime
    BY <2>1, Known, SamePages, Zenon DEF InodeTypes
  <2> QED
    BY <2>1, <2>2, <2>3, <2>4, QuietStep, Zenon
<1>4. ASSUME write_copy(t)
      PROVE  Shape'
  <2> USE <1>4
  <2>1. /\ UNCHANGED <<srv, past, issued, cached, uptodate, dirty, lost, locker>>
        /\ UNCHANGED <<i_size, i_mtime, i_mutex, op, rep, next, got, since>>
        /\ pc[t] = "write_copy" /\ Goto(t, "write") /\ Beside(t)
    BY Zenon DEF write_copy, srvVars, storeVars, inodeVars
  <2>2. op[t] \in Ops /\ next[t] = 0 /\ op[t].kind = "write" /\ op[t].val \in Values
    BY <2>1, OpFields, Known, Zenon DEF PlaceInv, Writing
  <2>3. TaskTypes' /\ Others(t) /\ pc'[t] = "write"
    BY <2>1, <1>1, Moves, Zenon DEF PCs
  <2>4. PlaceInv(t)'
    BY <2>1, <2>2, <2>3, Zenon DEF PlaceInv, Refreshing, Writing, Truncating
  <2>5. ReplyInv(t)'
    BY <2>1, <2>3, Known, Zenon DEF ReplyInv, Refreshing
  <2>6. TaskInv(t)'
    BY <2>3, <2>4, <2>5, Zenon DEF TaskInv
  <2>7. LocksExact'
    BY <2>1, <2>3, LocksStep, Zenon DEF PageHeld, MutexHeld
  <2>8. content' \in [Blocks -> Values]
    <3>1. ZERO \in Values /\ content \in [Blocks -> Values]
      BY FileConstants, Known DEF ZERO, Values, Change, PageTypes
    <3> QED
      BY <2>2, <3>1, Zenon DEF write_copy
  <2>9. PageTypes' /\ InodeTypes' /\ i_mtime' <= srv.mtime
    BY <2>1, <2>8, Known, Zenon DEF PageTypes, InodeTypes
  <2> QED
    BY <2>1, <2>3, <2>6, <2>7, <2>9, QuietStep, Zenon
<1>5. ASSUME uvfs_write_end(t)
      PROVE  Shape'
  <2> USE <1>5
  <2> DEFINE o == op[t]
  <2>1. /\ UNCHANGED <<srv, past, issued, cached, dirty, lost, content>>
        /\ UNCHANGED <<i_mtime, got, since, beside>>
        /\ pc[t] = "write_end" /\ Return(t) /\ i_mutex' = NULL
        /\ uptodate' = uptodate \cup {o.page}
        /\ locker' = [locker EXCEPT ![o.page] = NULL]
        /\ i_size' = IF EndOf(o) > i_size THEN EndOf(o) ELSE i_size
    BY Zenon DEF uvfs_write_end, srvVars, storeVars, histVars, unlock_page, MtimeAfterWrite
  <2>2. o \in Ops /\ o.kind = "write"
    BY <2>1, Known, Zenon DEF PlaceInv, Writing
  <2>3. TaskTypes' /\ Others(t) /\ TaskInv(t)' /\ pc'[t] = "idle"
    BY <2>1, Known, Returns
  <2>4. PageHeld(t) /\ ~PageHeld(t)' /\ MutexHeld(t) /\ ~MutexHeld(t)'
    BY <2>1, <2>3, Zenon DEF PageHeld, MutexHeld
  <2>5. LocksExact'
    BY <2>1, <2>3, <2>4, LocksStep, Zenon
  <2>6. o.page \in cached /\ \A u \in Tasks \ {t} : PageHeld(u) => op[u].page # o.page
    BY <2>4, HeldPage, Zenon
  <2>7. PageTypes'
    <3>1. /\ locker' \in [Pages -> Tasks \cup {NULL, NOBODY}]
          /\ \A q \in Pages : locker'[q] # NULL => q \in cached
      BY <2>1, <2>4, Unlocks, Zenon
    <3>2. dirty \subseteq uptodate' /\ uptodate' \subseteq cached
      BY <2>1, <2>6, Known, Zenon DEF PageTypes
    <3> QED
      BY <2>1, <3>1, <3>2, Known, Zenon DEF PageTypes
  <2>8. InodeTypes'
    BY <2>1, <2>2, EndInFile, Known, Zenon DEF InodeTypes
  <2>9. ServerInv' /\ ServerTypes' /\ srv.mtime <= srv'.mtime
        /\ \A k \in 1..Len(past) : past'[k] = past[k]
    BY <2>1, Known DEF Shape, ServerInv, ServerTypes
  <2>10. \A u \in Tasks \ {t} :
            pc[u] \in {"readpage", "fill"} /\ op[u].page \notin uptodate
               => op[u].page \notin uptodate'
    BY <2>1, <2>6, Zenon DEF PageHeld
  <2>11. TypeOK'
    BY <2>3, <2>7, <2>8, <2>9, Zenon DEF TypeOK
  <2> QED
    BY <2>3, <2>5, <2>9, <2>10, <2>11, ShapeStep, Zenon
<1> QED
  BY <1>2, <1>3, <1>4, <1>5, Zenon

\* The requests that change the server: uvfs_write, setattr and writepage.
LEMMA RequestSteps ==
    ASSUME Shape, NEW t \in Tasks
    PROVE  \/ uvfs_write(t) \/ setattr_request(t) \/ writepage_request(t)
           => Shape'
<1>1. ASSUME uvfs_write(t)
      PROVE  \/ UNCHANGED <<srv, past>>
             \/ \E data \in [Blocks -> Values], size \in FileSizes : Commit(data, size)
  <2> USE <1>1
  <2> DEFINE data == [b \in Blocks |-> IF InRange(op[t], b, op[t].copied)
                                       THEN content[b] ELSE srv.data[b]]
             size == IF EndOf(op[t]) > srv.size THEN EndOf(op[t]) ELSE srv.size
  <2>1. op[t] \in Ops /\ op[t].kind = "write"
    BY Known, Zenon DEF uvfs_write, PlaceInv, Writing
  <2>2. size \in FileSizes /\ data \in [Blocks -> Values]
    BY <2>1, EndInFile, Known, Zenon DEF ServerTypes, PageTypes
  <2> HIDE DEF data, size
  <2> QED
    BY <2>2, Zenon DEF uvfs_write, data, size
<1>2. ASSUME setattr_request(t)
      PROVE  \/ UNCHANGED <<srv, past>>
             \/ \E data \in [Blocks -> Values], size \in FileSizes : Commit(data, size)
  <2> USE <1>2
  <2>1. op[t].size \in FileSizes
    BY Known, OpFields, Zenon DEF setattr_request, PlaceInv, Truncating
  <2>2. srv.data \in [Blocks -> Values]
    BY Known, Zenon DEF ServerTypes
  <2> QED
    BY <2>1, <2>2, Zenon DEF setattr_request
<1>3. ASSUME writepage_request(t)
      PROVE  \/ UNCHANGED <<srv, past>>
             \/ \E data \in [Blocks -> Values], size \in FileSizes : Commit(data, size)
  <2> USE <1>3
  <2> DEFINE end == rep[t].size
             data == [b \in Blocks |-> IF b \in BlocksOf(op[t].page) /\ b < end
                                       THEN rep[t].data[b] ELSE srv.data[b]]
             size == IF end > srv.size THEN end ELSE srv.size
  <2>1. rep[t] \in Replies /\ rep[t].data \in [Blocks -> Values]
    BY Known, Zenon DEF writepage_request, ReplyInv
  <2>2. size \in FileSizes /\ data \in [Blocks -> Values]
    BY <2>1, Known, Zenon DEF ServerTypes, Replies
  <2> HIDE DEF data, size
  <2> QED
    BY <2>2, Zenon DEF writepage_request, data, size
<1>4. ASSUME uvfs_write(t) \/ setattr_request(t) \/ writepage_request(t)
      PROVE  Shape'
  <2> USE <1>4
  <2>1. /\ UNCHANGED <<issued, cached, uptodate, dirty, lost, content, locker>>
        /\ UNCHANGED <<i_size, i_mtime, i_mutex, op, rep, next, got, since, beside>>
    BY Zenon DEF uvfs_write, setattr_request, writepage_request, pageVars, storeVars,
        inodeVars, histVars
  <2>2. PICK l \in {"write_end", "setattr_end", "writepage_end"} :
           /\ Goto(t, l)
           /\ l = "write_end" => pc[t] = "write"
           /\ l = "setattr_end" => pc[t] = "setattr"
           /\ l = "writepage_end" => pc[t] = "writepage"
    BY Zenon DEF uvfs_write, setattr_request, writepage_request
  <2>3. TaskTypes' /\ Others(t) /\ pc'[t] = l
    BY <2>1, <2>2, Moves, Zenon DEF PCs
  <2>4. /\ ServerTypes' /\ ServerInv' /\ srv'.mtime \in Nat /\ srv.mtime <= srv'.mtime
        /\ srv.mtime \in Nat /\ (UNCHANGED <<srv, past>> \/ srv'.mtime = srv.mtime + 1)
        /\ \A k \in 1..Len(past) : past'[k] = past[k]
    <3>1. \/ UNCHANGED <<srv, past>>
          \/ \E data \in [Blocks -> Values], size \in FileSizes : Commit(data, size)
      BY <1>1, <1>2, <1>3, Zenon
    <3>2. CASE UNCHANGED <<srv, past>>
      <4>1. ServerTypes' /\ ServerInv'
        BY <2>1, <3>2, Known, Zenon DEF Shape, ServerTypes, ServerInv
      <4> QED
        BY <3>2, <4>1, Known
    <3>3. CASE \E data \in [Blocks -> Values], size \in FileSizes : Commit(data, size)
      <4>0. PICK data \in [Blocks -> Values], size \in FileSizes : Commit(data, size)
        BY <3>3, Zenon
      <4>1. issued' \in 0..MaxChanges
        BY <2>1, Known, Zenon DEF ServerTypes
      <4>2. ServerTypes' /\ ServerInv' /\ srv'.mtime \in Nat /\ srv'.mtime = srv.mtime + 1
            /\ \A k \in 1..Len(past) : past'[k] = past[k]
        BY <2>1, <4>0, <4>1, CommitTypes, Zenon
      <4> QED
        BY <4>2, Known
    <3> QED
      BY <3>1, <3>2, <3>3, Zenon
  <2>5. TaskInv(t)'
    <3>1. PlaceInv(t)'
      BY <2>1, <2>2, <2>3, Known, Zenon DEF PlaceInv, Refreshing, Writing, Truncating
    <3>2. since'[t] <= srv'.mtime
      BY <2>1, <2>4, Known DEF TaskTypes
    <3>3. ReplyInv(t)'
      BY <2>3, <3>2, Zenon DEF ReplyInv, Refreshing
    <3> QED
      BY <2>3, <3>1, <3>3, Zenon DEF TaskInv
  <2>6. LocksExact'
    BY <2>1, <2>2, <2>3, LocksStep, Zenon DEF PageHeld, MutexHeld
  <2>7. TypeOK'
    <3>1. PageTypes' /\ InodeTypes'
      BY <2>1, Known, SamePages, Zenon DEF InodeTypes
    <3> QED
      BY <2>3, <2>4, <3>1, Zenon DEF TypeOK
  <2>8. \A u \in Tasks \ {t} : pc[u] \in {"readpage", "fill"} /\ op[u].page \notin uptodate
           => op[u].page \notin uptodate'
    BY <2>1, Zenon
  <2> QED
    BY <2>3, <2>4, <2>5, <2>6, <2>7, <2>8, ShapeStep, Zenon
<1> QED
  BY <1>4, Zenon

\* What happens without a call: a change by somebody else at the server, a
\* store into a mapped page.
LEMMA ServerSteps ==
    ASSUME Shape
    PROVE  \/ \E b \in Blocks : RemoteWrite(b)
           \/ \E p \in Pages : \E b \in BlocksOf(p) : Store(p, b)
           \/ UNCHANGED vars
           => Shape'
<1>1. ASSUME UNCHANGED taskVars, UNCHANGED <<uptodate, locker, i_mutex>>,
             ServerTypes', PageTypes', InodeTypes', ServerInv',
             srv.mtime <= srv'.mtime, \A k \in 1..Len(past) : past'[k] = past[k]
      PROVE  Shape'
  <2> USE <1>1
  <2>1. UNCHANGED <<pc, op, rep, next, got, since, beside>>
    BY Zenon DEF taskVars, histVars
  <2>2. TypeOK'
    BY <2>1, Zenon DEF Shape, TypeOK, TaskTypes
  <2>3. LocksExact'
    <3>1. \A t \in Tasks : (PageHeld(t)' <=> PageHeld(t)) /\ (MutexHeld(t)' <=> MutexHeld(t))
      BY <2>1, Zenon DEF PageHeld, MutexHeld
    <3> QED
      BY <2>1, <3>1, Zenon DEF Shape, LocksExact
  <2>4. srv'.mtime \in Nat
    BY Zenon DEF ServerTypes
  <2>5. ASSUME NEW u \in Tasks PROVE TaskInv(u)'
    BY <2>1, <2>4, OtherTask, Zenon DEF Shape
  <2> QED
    BY <2>2, <2>3, <2>5, Zenon DEF Shape
<1>2. ASSUME NEW b \in Blocks, RemoteWrite(b)
      PROVE  Shape'
  <2> USE <1>2
  <2> DEFINE d == [srv.data EXCEPT ![b] = Change(issued')]
  <2>1. /\ UNCHANGED taskVars /\ UNCHANGED <<i_size, i_mtime, i_mutex>>
        /\ UNCHANGED <<cached, uptodate, dirty, lost, content, locker>>
        /\ issued < MaxChanges /\ issued' = issued + 1
    BY Zenon DEF RemoteWrite, pageVars, storeVars, inodeVars
  <2>2. issued' \in 0..MaxChanges
    BY <2>1, FileConstants DEF Shape, TypeOK, ServerTypes
  <2>3. d \in [Blocks -> Values] /\ srv.size \in FileSizes
    BY <2>2, ChangeValue, Zenon DEF Shape, TypeOK, ServerTypes
  <2> HIDE DEF d
  <2>4. /\ ServerTypes' /\ ServerInv' /\ srv'.mtime = srv.mtime + 1
        /\ \A k \in 1..Len(past) : past'[k] = past[k]
    BY <2>1, <2>2, <2>3, CommitTypes, Zenon DEF RemoteWrite, d
  <2>5. PageTypes' /\ InodeTypes'
    BY <2>1, SamePages, Zenon DEF Shape, TypeOK, InodeTypes
  <2>6. srv.mtime \in Nat /\ srv.mtime <= srv'.mtime
    BY <2>4 DEF Shape, TypeOK, ServerTypes
  <2> QED
    BY <2>1, <2>4, <2>5, <2>6, <1>1, Zenon
<1>3. ASSUME NEW p \in Pages, NEW b \in BlocksOf(p), Store(p, b)
      PROVE  Shape'
  <2> USE <1>3
  <2>1. /\ UNCHANGED taskVars /\ UNCHANGED <<i_size, i_mtime, i_mutex>>
        /\ UNCHANGED <<srv, past, cached, uptodate, lost, locker>>
        /\ issued < MaxChanges /\ issued' = issued + 1 /\ p \in uptodate
        /\ dirty' = dirty \cup {p}
        /\ content' = [content EXCEPT ![b] = Change(issued')]
    BY Zenon DEF Store, inodeVars
  <2>2. issued' \in 0..MaxChanges
    BY <2>1, FileConstants DEF Shape, TypeOK, ServerTypes
  <2>3. b \in Blocks /\ content' \in [Blocks -> Values]
    BY <2>1, <2>2, BlocksInFile, ChangeValue, Zenon DEF Shape, TypeOK, PageTypes
  <2>4. ServerTypes' /\ ServerInv' /\ InodeTypes'
    BY <2>1, <2>2, Zenon DEF Shape, TypeOK, ServerTypes, ServerInv, InodeTypes
  <2>5. PageTypes'
    BY <2>1, <2>3, Zenon DEF Shape, TypeOK, PageTypes
  <2>6. srv.mtime <= srv'.mtime /\ \A k \in 1..Len(past) : past'[k] = past[k]
    BY <2>1 DEF Shape, TypeOK, ServerTypes
  <2> QED
    BY <2>1, <2>4, <2>5, <2>6, <1>1, Zenon
<1>4. ASSUME UNCHANGED vars
      PROVE  Shape'
  <2> USE <1>4
  <2>1. /\ UNCHANGED taskVars /\ UNCHANGED <<srv, past, issued, i_size, i_mtime, i_mutex>>
        /\ UNCHANGED <<cached, uptodate, dirty, lost, content, locker>>
    BY Zenon DEF vars, srvVars, pageVars, storeVars, inodeVars
  <2>2. ServerTypes' /\ PageTypes' /\ InodeTypes' /\ ServerInv'
    BY <2>1, SamePages, Zenon DEF Shape, TypeOK, ServerTypes, InodeTypes, ServerInv
  <2>3. srv.mtime <= srv'.mtime /\ \A k \in 1..Len(past) : past'[k] = past[k]
    BY <2>1 DEF Shape, TypeOK, ServerTypes
  <2> QED
    BY <2>1, <2>2, <2>3, <1>1, Zenon
<1> QED
  BY <1>2, <1>3, <1>4, Zenon

\* The file as it is first opened.
LEMMA InitShape == Init => Shape
<1> SUFFICES ASSUME Init PROVE Shape
  OBVIOUS
<1>1. ServerTypes /\ InodeTypes /\ ServerInv
  <2>1. srv.data \in [Blocks -> Values] /\ InitSize \in FileSizes
    BY FileConstants DEF Init, Values, FIRST, ZERO, Change, FileSizes
  <2>2. past = <<srv.data>> /\ srv.mtime = 0 /\ srv.size = InitSize
    BY Zenon DEF Init
  <2>3. past \in Seq([Blocks -> Values]) /\ Len(past) = srv.mtime + 1
        /\ past[srv.mtime + 1] = srv.data
    BY <2>1, <2>2
  <2>4. \A b \in Blocks : b >= srv.size => srv.data[b] = ZERO
    BY FileConstants DEF Init, Blocks
  <2>5. ServerTypes
    BY <2>1, <2>3, FileConstants DEF Init, ServerTypes
  <2> QED
    BY <2>1, <2>2, <2>3, <2>4, <2>5 DEF Init, InodeTypes, ServerInv
<1>2. PageTypes
  BY FileConstants, Zenon DEF Init, PageTypes, Values
<1>3. TaskTypes
  BY FileConstants, ReadsLemma DEF Init, TaskTypes, PCs
<1>4. LocksExact
  BY FileConstants, Zenon DEF Init, LocksExact, PageHeld, MutexHeld
<1>5. ASSUME NEW t \in Tasks PROVE TaskInv(t)
  BY <1>5 DEF Init, TaskInv, PlaceInv, ReplyInv, Refreshing, Writing, Truncating
<1> QED
  BY <1>1, <1>2, <1>3, <1>4, <1>5, Zenon DEF Shape, TypeOK

\* The induction step.
LEMMA NextShape == Shape /\ [Next]_vars => Shape'
<1> SUFFICES ASSUME Shape, [Next]_vars PROVE Shape'
  OBVIOUS
<1>1. ASSUME NEW t \in Tasks, Begin(t) \/ Step(t) PROVE Shape'
  BY <1>1, BeginSteps, RefreshSteps, ReadSteps, WriteSteps, RequestSteps, Zenon DEF Step
<1> QED
  BY <1>1, ServerSteps, Zenon DEF Next

\* Shape is an invariant of UvfsFile.
LEMMA ShapeInvariant == Spec => []Shape
  BY InitShape, NextShape, PTL DEF Spec

(* Whatever the file's size, the number of tasks and the requests that     *)
(* fail, the page cache, the inode and what every task has in hand keep    *)
(* their types; in particular no page is locked, uptodate or dirty that is *)
(* not cached (uvfs_readpage, uvfs_write_begin, uvfs_writepage, the        *)
(* refresh of uvfs_refresh_inode).                                         *)
THEOREM FileTypes == Spec => []TypeOK
<1>1. Shape => TypeOK
  BY Zenon DEF Shape
<1> QED
  BY <1>1, ShapeInvariant, PTL

(* For any number of tasks and pages a task holds a page's lock exactly    *)
(* while its code is between lock_page and unlock_page, and i_mutex        *)
(* likewise: two tasks never fill or write a page at once, and every path, *)
(* the failing ones included, lets go of what it took (uvfs_readpage,      *)
(* uvfs_writepage, uvfs_write_begin, uvfs_write_end, uvfs_setattr).        *)
THEOREM LocksAreExact == Spec => []LocksExact
<1>1. Shape => LocksExact
  BY Zenon DEF Shape
<1> QED
  BY <1>1, ShapeInvariant, PTL

-----------------------------------------------------------------------------
(* Writes of whole pages: no read returns the memory of a page just        *)
(* allocated.                                                              *)

\* Data is not junk.
LEMMA DataIsNotJunk ==
    /\ ZERO # JUNK /\ FIRST # JUNK
    /\ \A k \in Nat : Change(k + 1) # JUNK
  BY DEF ZERO, FIRST, JUNK, Change

\* What the server has is clean when what was sent is.
LEMMA CommitClean ==
    ASSUME NEW data, NEW size, Commit(data, size), \A b \in Blocks : data[b] # JUNK
    PROVE  \A b \in Blocks : srv'.data[b] # JUNK
<1>1. srv'.data = [b \in Blocks |-> IF b < size THEN data[b] ELSE ZERO]
  BY Zenon DEF Commit
<1> QED
  BY <1>1, DataIsNotJunk, Zenon

\* A page stays clean when its blocks are left alone or get data.
LEMMA CleanKept ==
    ASSUME NEW p \in Pages, Clean(p, content),
           \A b \in Blocks : b \in BlocksOf(p) =>
               content'[b] = content[b] \/ content'[b] # JUNK
    PROVE  Clean(p, content')
  BY BlocksInFile, Zenon DEF Clean

\* A step of task t keeps JunkInv when it keeps the parts it can disturb.
LEMMA JunkStep ==
    ASSUME JunkInv, NEW t \in Tasks, Others(t),
           \A p \in uptodate' : Clean(p, content'),
           \A b \in Blocks : srv'.data[b] # JUNK,
           CleanTask(t)',
           \A u \in Tasks \ {t} : pc[u] \in {"write", "write_end"}
               => Clean(op[u].page, content'),
           \A u \in Tasks \ {t} : got'[u] = got[u],
           \A b \in DOMAIN got'[t] : got'[t][b] # JUNK
    PROVE  JunkInv'
<1>1. ASSUME NEW u \in Tasks \ {t} PROVE CleanTask(u)'
  <2>1. CleanTask(u) /\ pc'[u] = pc[u] /\ op'[u] = op[u] /\ rep'[u] = rep[u]
    BY Zenon DEF JunkInv, Others
  <2>2. pc[u] \in {"write", "write_end"} => Clean(op[u].page, content')
    OBVIOUS
  <2> QED
    BY <2>1, <2>2, Zenon DEF CleanTask
<1>2. NoJunkRead'
  BY Zenon DEF JunkInv, NoJunkRead
<1> QED
  BY <1>1, <1>2, Zenon DEF JunkInv

\* A step that touches neither the pages nor the server.
LEMMA JunkQuiet ==
    ASSUME JunkInv, NEW t \in Tasks, Others(t), got' = got,
           UNCHANGED <<srv, uptodate, content>>, CleanTask(t)'
    PROVE  JunkInv'
<1>1. /\ \A p \in uptodate' : Clean(p, content')
      /\ \A b \in Blocks : srv'.data[b] # JUNK
      /\ \A u \in Tasks \ {t} : pc[u] \in {"write", "write_end"}
               => Clean(op[u].page, content')
      /\ \A b \in DOMAIN got'[t] : got'[t][b] # JUNK
  BY Zenon DEF JunkInv, CleanTask, NoJunkRead
<1> QED
  BY <1>1, JunkStep, Zenon

\* A task that goes on to a place where it holds nothing that could be junk.
LEMMA CleanPlace ==
    ASSUME JunkInv, NEW t \in Tasks, op'[t] = op[t] \/ op'[t] = NULL,
           pc'[t] \notin {"write", "write_end", "fill", "writepage"}
    PROVE  CleanTask(t)'
  BY Zenon DEF JunkInv, CleanTask
\* The steps that move no data.
Quiet(t) ==
    /\ Others(t) /\ got' = got
    /\ UNCHANGED <<srv, past, issued, uptodate, content>>
    /\ op'[t] = op[t] \/ op'[t] = NULL
    /\ pc'[t] \notin {"write", "write_end", "fill", "writepage"}

LEMMA QuietSteps ==
    ASSUME Shape, NEW t \in Tasks,
           \/ revalidate_request(t) \/ refresh_compare(t) \/ refresh_size(t)
           \/ refresh_mtime(t) \/ read_lock_page(t) \/ readpage_nomem(t)
           \/ write_lock_inode(t) \/ uvfs_write_begin(t) \/ write_begin_nomem(t)
           \/ setattr_size(t) \/ setattr_end(t) \/ writepage_end(t)
    PROVE  Quiet(t)
<1>0. TaskTypes
  BY Known, Zenon
<1>1. CASE revalidate_request(t)
  BY <1>0, <1>1, Zenon DEF Quiet, revalidate_request, Return, Goto, Others, TaskTypes, srvVars, pageVars, histVars
<1>2. CASE refresh_compare(t)
  BY <1>0, <1>2, Zenon DEF Quiet, refresh_compare, Goto, Others, TaskTypes, srvVars, pageVars, histVars
<1>3. CASE refresh_size(t)
  BY <1>0, <1>3, Zenon DEF Quiet, refresh_size, Goto, Others, TaskTypes, srvVars, pageVars, histVars
<1>4. CASE refresh_mtime(t)
  BY <1>0, <1>4, Zenon DEF Quiet, refresh_mtime, Return, Goto, Others, TaskTypes, srvVars, pageVars, histVars
<1>5. CASE read_lock_page(t)
  BY <1>0, <1>5, Zenon DEF Quiet, read_lock_page, Goto, Others, TaskTypes, srvVars, histVars
<1>6. CASE readpage_nomem(t)
  BY <1>0, <1>6, Zenon DEF Quiet, readpage_nomem, Return, Goto, Others, TaskTypes, srvVars, histVars
<1>7. CASE write_lock_inode(t)
  BY <1>0, <1>7, Zenon DEF Quiet, write_lock_inode, Goto, Others, TaskTypes, srvVars, pageVars, histVars
<1>8. CASE uvfs_write_begin(t)
  BY <1>0, <1>8, Zenon DEF Quiet, uvfs_write_begin, Goto, Others, TaskTypes, srvVars, histVars
<1>9. CASE write_begin_nomem(t)
  BY <1>0, <1>9, Zenon DEF Quiet, write_begin_nomem, Return, Goto, Others, TaskTypes, srvVars, pageVars, histVars
<1>10. CASE setattr_size(t)
  BY <1>0, <1>10, Zenon DEF Quiet, setattr_size, Goto, Others, TaskTypes, srvVars, pageVars
<1>11. CASE setattr_end(t)
  BY <1>0, <1>11, Zenon DEF Quiet, setattr_end, Return, Goto, Others, TaskTypes, srvVars, pageVars, histVars
<1>12. CASE writepage_end(t)
  BY <1>0, <1>12, Zenon DEF Quiet, writepage_end, Return, Goto, Others, TaskTypes, srvVars, histVars
<1> QED
  BY <1>1, <1>2, <1>3, <1>4, <1>5, <1>6, <1>7, <1>8, <1>9, <1>10, <1>11, <1>12, Zenon

LEMMA QuietJunk ==
    ASSUME JunkInv, NEW t \in Tasks, Quiet(t)
    PROVE  JunkInv'
  BY CleanPlace, JunkQuiet, Zenon DEF Quiet

\* The calls begin with nothing in hand but what they mean to write.
LEMMA BeginJunk ==
    ASSUME Shape, JunkInv, WholePages, NEW t \in Tasks, Begin(t)
    PROVE  JunkInv'
<1>0. /\ TaskTypes /\ PageTypes /\ issued \in Nat
      /\ \A p \in uptodate : Clean(p, content)
      /\ \A u \in Tasks : CleanTask(u)
      /\ \A b \in Blocks : srv.data[b] # JUNK
  <2>1. issued \in Nat
    BY FileConstants DEF Shape, TypeOK, ServerTypes
  <2> QED
    BY <2>1, Known, Zenon DEF JunkInv
<1>1. ASSUME NEW o, Call(t, o), NEW l \in PCs, Goto(t, l),
             l \notin {"write", "write_end", "fill", "writepage"},
             o.kind = "write" => o.val # JUNK /\ o.from = 0 /\ o.to = PageSize
      PROVE  JunkInv'
  <2>1. /\ pc'[t] = l /\ op'[t] = o /\ Others(t)
        /\ got' = [got EXCEPT ![t] = <<>>] /\ UNCHANGED <<srv, uptodate, content>>
    BY <1>0, <1>1, Zenon DEF Call, Goto, Others, TaskTypes, pageVars
  <2>2. CleanTask(t)'
    BY <1>1, <2>1, Zenon DEF CleanTask
  <2>3. /\ \A b \in DOMAIN got'[t] : got'[t][b] # JUNK
        /\ \A u \in Tasks \ {t} : got'[u] = got[u]
    BY <1>0, <2>1 DEF TaskTypes
  <2>4. /\ \A p \in uptodate' : Clean(p, content')
        /\ \A b \in Blocks : srv'.data[b] # JUNK
        /\ \A u \in Tasks \ {t} : pc[u] \in {"write", "write_end"}
               => Clean(op[u].page, content')
    BY <1>0, <2>1, Zenon DEF CleanTask
  <2> QED
    BY <2>1, <2>2, <2>3, <2>4, JunkStep, Zenon
<1>2. CASE uvfs_getattr(t) \/ uvfs_file_mmap(t)
  <2>1. Call(t, [kind |-> "stat"]) /\ Goto(t, "getattr")
    BY <1>2, Zenon DEF uvfs_getattr, uvfs_file_mmap
  <2> QED
    BY <1>1, <2>1 DEF PCs
<1>3. ASSUME NEW p \in Pages, uvfs_file_read(t, p) PROVE JunkInv'
  <2>1. Call(t, [kind |-> "read", page |-> p]) /\ Goto(t, "getattr")
    BY <1>3, Zenon DEF uvfs_file_read
  <2> QED
    BY <1>1, <2>1 DEF PCs
<1>4. ASSUME NEW p \in Pages, fault(t, p) PROVE JunkInv'
  <2>1. Call(t, [kind |-> "fault", page |-> p]) /\ Goto(t, "find_page")
    BY <1>4, Zenon DEF fault
  <2> QED
    BY <1>1, <2>1 DEF PCs
<1>5. ASSUME NEW p \in Pages, uvfs_writepage(t, p) PROVE JunkInv'
  <2>1. /\ got' = got \/ got' = [got EXCEPT ![t] = <<>>]
        /\ UNCHANGED <<srv, uptodate, content>> /\ Others(t) /\ p \in uptodate
    BY <1>0, <1>5, Zenon DEF uvfs_writepage, Goto, Others, TaskTypes, PageTypes, srvVars, histVars
  <2>2. CleanTask(t)'
    <3>1. CASE pc' = pc /\ op' = op /\ rep' = rep
      BY <1>0, <2>1, <3>1, Zenon DEF CleanTask
    <3>2. CASE ~(pc' = pc /\ op' = op /\ rep' = rep)
      <4>1. /\ pc'[t] = "writepage" /\ op'[t] = [kind |-> "writepage", page |-> p]
            /\ rep'[t] = [data |-> content, size |-> PageEnd(p), mtime |-> 0]
        BY <1>0, <1>5, <3>2, Zenon DEF uvfs_writepage, Goto, TaskTypes
      <4>2. op'[t].kind = "writepage" /\ op'[t].page = p /\ rep'[t].data = content
        BY <4>1
      <4> QED
        BY <1>0, <2>1, <4>1, <4>2, Zenon DEF CleanTask
    <3> QED
      BY <3>1, <3>2, Zenon
  <2>3. /\ \A b \in DOMAIN got'[t] : got'[t][b] # JUNK
        /\ \A u \in Tasks \ {t} : got'[u] = got[u]
    BY <1>0, <2>1 DEF TaskTypes, JunkInv, NoJunkRead
  <2>4. /\ \A q \in uptodate' : Clean(q, content')
        /\ \A b \in Blocks : srv'.data[b] # JUNK
        /\ \A u \in Tasks \ {t} : pc[u] \in {"write", "write_end"}
               => Clean(op[u].page, content')
    BY <1>0, <2>1, Zenon DEF CleanTask
  <2> QED
    BY <2>1, <2>2, <2>3, <2>4, JunkStep, Zenon
<1>6. ASSUME NEW p \in Pages, NEW r \in Ranges, NEW n \in 0..PageSize,
             uvfs_file_write(t, p, r, n)
      PROVE  JunkInv'
  <2> DEFINE o == [kind |-> "write", page |-> p, from |-> r[1], to |-> r[2],
                   copied |-> n, val |-> Change(issued')]
  <2>1. Call(t, o) /\ Goto(t, "getattr") /\ issued' = issued + 1
    BY <1>6, Zenon DEF uvfs_file_write
  <2>2. o.val = Change(issued + 1) /\ o.from = r[1] /\ o.to = r[2]
    BY <2>1, Zenon
  <2>3. r[1] = 0 /\ r[2] = PageSize
    BY DEF WholePages
  <2>4. Change(issued + 1) # JUNK
    BY <1>0, DataIsNotJunk, Zenon
  <2> HIDE DEF o
  <2> QED
    BY <1>1, <2>1, <2>2, <2>3, <2>4, Zenon DEF PCs
<1>7. ASSUME NEW n \in Sizes, uvfs_setattr(t, n) PROVE JunkInv'
  <2>1. Call(t, [kind |-> "truncate", size |-> n]) /\ Goto(t, "lock_setattr")
    BY <1>7, Zenon DEF uvfs_setattr
  <2> QED
    BY <1>1, <2>1 DEF PCs
<1> QED
  BY <1>2, <1>3, <1>4, <1>5, <1>6, <1>7, Zenon DEF Begin
\* A page that nobody has locked is dropped, or zeroed behind the new end:
\* the pages that are being written are others.
LEMMA UnlockedJunk ==
    ASSUME Shape, JunkInv, NEW t \in Tasks, Others(t), NEW p \in Pages,
           locker[p] = NULL, got' = got, srv' = srv,
           \/ uptodate' = uptodate \ {p}
           \/ uptodate' = uptodate /\ \A b \in BlocksOf(p) :
                 content'[b] = content[b] \/ content'[b] # JUNK,
           \A b \in Blocks : b \notin BlocksOf(p) => content'[b] = content[b],
           pc' = pc, op' = op, rep' = rep, pc[t] \in {"invalidate", "vmtruncate"}
    PROVE  JunkInv'
<1>1. ASSUME NEW q \in Pages, q # p, Clean(q, content) PROVE Clean(q, content')
  BY <1>1, CleanKept, BlocksApart, Zenon
<1>2. ASSUME NEW q \in uptodate' PROVE Clean(q, content')
  <2>1. q \in uptodate /\ q \in Pages /\ Clean(q, content)
    BY <1>2, Known, Zenon DEF JunkInv, PageTypes
  <2>2. CASE q # p
    BY <1>1, <2>1, <2>2, Zenon
  <2>3. CASE q = p
    BY <1>2, <2>1, <2>3, CleanKept, Zenon
  <2> QED
    BY <2>2, <2>3, Zenon
<1>3. ASSUME NEW u \in Tasks \ {t}, pc[u] \in {"write", "write_end"}
      PROVE  Clean(op[u].page, content')
  <2>1. PageHeld(u)
    BY <1>3, Zenon DEF PageHeld
  <2>2. op[u].page \in Pages /\ op[u].page # p
    BY <2>1, HeldPage, Zenon
  <2> QED
    BY <1>1, <1>3, <2>2, Zenon DEF JunkInv, CleanTask
<1>4. CleanTask(t)' /\ (\A b \in DOMAIN got'[t] : got'[t][b] # JUNK)
  BY CleanPlace, Zenon DEF JunkInv, NoJunkRead
<1>5. \A b \in Blocks : srv'.data[b] # JUNK
  BY Zenon DEF JunkInv
<1> QED
  BY <1>2, <1>3, <1>4, <1>5, JunkStep, Zenon

\* The walks over the page cache: invalidate_inode_pages2 and vmtruncate.
LEMMA WalkJunk ==
    ASSUME Shape, JunkInv, NEW t \in Tasks,
           refresh_invalidate(t) \/ setattr_vmtruncate(t)
    PROVE  JunkInv'
<1>0. TaskTypes /\ PageTypes
  BY Known, Zenon
<1>1. /\ Others(t) /\ got' = got /\ srv' = srv /\ op' = op /\ rep' = rep
      /\ pc[t] \in {"invalidate", "vmtruncate"}
      /\ pc' = pc \/ pc'[t] \in {"set_size", "setattr"}
  BY <1>0, Zenon DEF refresh_invalidate, setattr_vmtruncate, Goto, Others, TaskTypes,
                     srvVars, histVars
<1>2. ASSUME NEW p \in Pages, Drop(p)
      PROVE  /\ uptodate' = uptodate \ {p}
             /\ \A b \in Blocks : b \notin BlocksOf(p) => content'[b] = content[b]
  BY <1>2, Zenon DEF Drop
<1>3. CASE UNCHANGED <<uptodate, content>>
  BY <1>1, <1>3, CleanPlace, JunkQuiet, Zenon
<1>4. CASE refresh_invalidate(t)
  <2>1. CASE next[t] \in Pages /\ locker[next[t]] = NULL /\ Drop(next[t]) /\ pc' = pc
    BY <1>1, <1>2, <2>1, UnlockedJunk, Zenon
  <2> QED
    BY <1>3, <1>4, <2>1, Zenon DEF refresh_invalidate, storeVars
<1>5. CASE setattr_vmtruncate(t)
  <2>1. CASE next[t] \in Pages /\ locker[next[t]] = NULL /\ Drop(next[t]) /\ pc' = pc
    BY <1>1, <1>2, <2>1, UnlockedJunk, Zenon
  <2>2. CASE /\ next[t] \in Pages /\ locker[next[t]] = NULL /\ pc' = pc
             /\ content' = [b \in Blocks |->
                              IF b \in BlocksOf(next[t]) /\ b >= op[t].size /\ next[t] \in cached
                              THEN ZERO ELSE content[b]]
             /\ uptodate' = uptodate
    <3>1. \A b \in BlocksOf(next[t]) : content'[b] = content[b] \/ content'[b] # JUNK
      BY <2>2, BlocksInFile, DataIsNotJunk, Zenon
    <3>2. \A b \in Blocks : b \notin BlocksOf(next[t]) => content'[b] = content[b]
      BY <2>2, Zenon
    <3> QED
      BY <1>1, <2>2, <3>1, <3>2, UnlockedJunk, Zenon
  <2> QED
    BY <1>3, <1>5, <2>1, <2>2, Zenon DEF setattr_vmtruncate
<1> QED
  BY <1>4, <1>5, Zenon

\* The read loop and uvfs_readpage.
LEMMA ReadJunk ==
    ASSUME Shape, JunkInv, NEW t \in Tasks,
           read_cached(t) \/ readpage_request(t) \/ readpage_fill(t)
    PROVE  JunkInv'
<1>0. /\ TaskTypes /\ PageTypes /\ CleanTask(t)
      /\ \A q \in uptodate : q \in Pages /\ Clean(q, content)
      /\ \A u \in Tasks : CleanTask(u)
      /\ \A b \in Blocks : srv.data[b] # JUNK
  BY Known, Zenon DEF JunkInv, PageTypes
<1>p. op[t].page \in Pages
  <2>1. op[t] \in Ops /\ op[t].kind \in {"read", "fault"}
    BY Known, Zenon DEF PlaceInv, read_cached, readpage_request, readpage_fill
  <2> QED
    BY <2>1, OpFields, Zenon
<1>1. ASSUME NEW c, Clean(op[t].page, c)
      PROVE  \A b \in DOMAIN Given(t, c) : Given(t, c)[b] # JUNK
  <2>1. CASE op[t].kind = "read"
    BY <1>1, <2>1, Zenon DEF Given, Visible, Clean
  <2>2. CASE op[t].kind # "read"
    BY <2>2 DEF Given
  <2> QED
    BY <2>1, <2>2, Zenon
<1>2. CASE read_cached(t)
  <2>1. /\ Others(t) /\ pc'[t] = "idle" /\ op'[t] = NULL
        /\ UNCHANGED <<srv, uptodate, content>> /\ op[t].page \in uptodate
        /\ got'[t] = Given(t, content) /\ \A u \in Tasks \ {t} : got'[u] = got[u]
    BY <1>0, <1>2, Zenon DEF read_cached, Return, Goto, Others, TaskTypes, srvVars, pageVars
  <2>2. CleanTask(t)'
    BY <2>1, CleanPlace, Zenon
  <2>3. \A b \in DOMAIN got'[t] : got'[t][b] # JUNK
    BY <1>0, <1>1, <2>1, Zenon
  <2>4. /\ \A p \in uptodate' : Clean(p, content')
        /\ \A b \in Blocks : srv'.data[b] # JUNK
        /\ \A u \in Tasks \ {t} : pc[u] \in {"write", "write_end"}
               => Clean(op[u].page, content')
    BY <1>0, <2>1, Zenon DEF CleanTask
  <2> QED
    BY <2>1, <2>2, <2>3, <2>4, JunkStep, Zenon
<1>3. CASE readpage_request(t)
  <2>1. /\ Others(t) /\ got' = got /\ UNCHANGED <<srv, uptodate, content>>
        /\ \/ pc'[t] = "idle" /\ op'[t] = NULL
           \/ pc'[t] = "fill" /\ op'[t] = op[t] /\ rep'[t] = srv
    BY <1>0, <1>3, Zenon DEF readpage_request, Return, Goto, Others, TaskTypes, srvVars, histVars
  <2>2. Clean(op[t].page, srv.data)
    BY <1>0, <1>p, BlocksInFile, Zenon DEF Clean
  <2>3. CleanTask(t)'
    BY <1>0, <2>1, <2>2, Zenon DEF CleanTask
  <2> QED
    BY <2>1, <2>3, JunkQuiet, Zenon
<1>4. CASE readpage_fill(t)
  <2>1. /\ Others(t) /\ pc'[t] = "idle" /\ op'[t] = NULL /\ srv' = srv
        /\ uptodate' = uptodate \cup {op[t].page} /\ pc[t] = "fill"
        /\ content' = Filled(rep[t], op[t].page)
        /\ got'[t] = Given(t, content') /\ \A u \in Tasks \ {t} : got'[u] = got[u]
    BY <1>0, <1>4, Zenon DEF readpage_fill, Return, Goto, Others, TaskTypes, srvVars, histVars
  <2>2. Clean(op[t].page, content')
    <3>1. Clean(op[t].page, rep[t].data)
      BY <1>0, <2>1, Zenon DEF CleanTask
    <3> QED
      BY <1>p, <2>1, <3>1, BlocksInFile, DataIsNotJunk, Zenon DEF Clean, Filled
  <2>3. ASSUME NEW q \in Pages, q # op[t].page, Clean(q, content) PROVE Clean(q, content')
    <3>1. \A b \in Blocks : b \in BlocksOf(q) => content'[b] = content[b]
      BY <1>p, <2>1, <2>3, BlocksApart, Zenon DEF Filled
    <3> QED
      BY <2>3, <3>1, CleanKept, Zenon
  <2>4. \A q \in uptodate' : Clean(q, content')
    BY <1>0, <2>1, <2>2, <2>3, Zenon
  <2>5. ASSUME NEW u \in Tasks \ {t}, pc[u] \in {"write", "write_end"}
        PROVE  Clean(op[u].page, content')
    <3>1. PageHeld(u)
      BY <2>5, Zenon DEF PageHeld
    <3> QED
      BY <1>0, <2>2, <2>3, <2>5, <3>1, HeldPage, Zenon DEF CleanTask
  <2>6. CleanTask(t)'
    BY <2>1, CleanPlace, Zenon
  <2>7. \A b \in DOMAIN got'[t] : got'[t][b] # JUNK
    BY <1>1, <2>1, <2>2, Zenon DEF Given
  <2>8. \A b \in Blocks : srv'.data[b] # JUNK
    BY <1>0, <2>1, Zenon
  <2> QED
    BY <2>1, <2>4, <2>5, <2>6, <2>7, <2>8, JunkStep, Zenon
<1> QED
  BY <1>2, <1>3, <1>4, Zenon
\* A write of a whole page leaves nothing of what the page held before.
LEMMA CopyFills ==
    ASSUME Shape, NEW t \in Tasks, CleanTask(t), write_copy(t)
    PROVE  /\ Clean(op[t].page, content')
           /\ \A b \in Blocks : b \notin BlocksOf(op[t].page) => content'[b] = content[b]
<1> DEFINE o == op[t]
<1>1. /\ o \in Ops /\ o.kind = "write" /\ o # NULL /\ o.page \in Pages
  BY Known, OpFields, Zenon DEF PlaceInv, Writing, write_copy
<1>2. o.val # JUNK /\ o.from = 0 /\ o.to = PageSize
  BY <1>1, Zenon DEF CleanTask
<1>3. content' = [b \in Blocks |->
                     CASE InRange(o, b, o.copied) -> o.val
                       [] InRange(o, b, o.to - o.from)
                            /\ ~InRange(o, b, o.copied) -> ZERO
                       [] OTHER -> content[b]]
  BY Zenon DEF write_copy
<1> HIDE DEF o
<1>4. \A b \in BlocksOf(o.page) : InRange(o, b, o.to - o.from)
  BY <1>1, <1>2, PageBounds DEF BlocksOf, InRange
<1>5. \A b \in Blocks : InRange(o, b, o.copied) \/ InRange(o, b, o.to - o.from)
                           => b \in BlocksOf(o.page)
  BY <1>1, EndInFile DEF Blocks
<1>6. Clean(o.page, content')
  BY <1>1, <1>2, <1>3, <1>4, BlocksInFile, DataIsNotJunk, Zenon DEF Clean
<1>7. \A b \in Blocks : b \notin BlocksOf(o.page) => content'[b] = content[b]
  BY <1>3, <1>5, Zenon
<1> QED
  BY <1>6, <1>7, Zenon DEF o

\* The write loop: uvfs_write_begin to uvfs_write_end.
LEMMA WriteJunk ==
    ASSUME Shape, JunkInv, NEW t \in Tasks,
           write_copy(t) \/ uvfs_write(t) \/ uvfs_write_end(t)
    PROVE  JunkInv'
<1>0. /\ TaskTypes /\ CleanTask(t)
      /\ \A q \in uptodate : q \in Pages /\ Clean(q, content)
      /\ \A u \in Tasks : CleanTask(u)
      /\ \A b \in Blocks : srv.data[b] # JUNK
      /\ \A b \in DOMAIN got[t] : got[t][b] # JUNK
  BY Known, Zenon DEF JunkInv, PageTypes, NoJunkRead
<1>p. op[t].page \in Pages /\ PageHeld(t)
  <2>1. PageHeld(t)
    BY Zenon DEF PageHeld, write_copy, uvfs_write, uvfs_write_end
  <2> QED
    BY <2>1, HeldPage, Zenon
<1>1. CASE write_copy(t)
  <2>1. /\ Others(t) /\ pc'[t] = "write" /\ op' = op /\ got' = got
        /\ UNCHANGED <<srv, uptodate>>
    BY <1>0, <1>1, Zenon DEF write_copy, Goto, Others, TaskTypes, srvVars
  <2>2. /\ Clean(op[t].page, content')
        /\ \A b \in Blocks : b \notin BlocksOf(op[t].page) => content'[b] = content[b]
    BY <1>0, <1>1, CopyFills, Zenon
  <2>3. ASSUME NEW q \in Pages, Clean(q, content) PROVE Clean(q, content')
    <3>1. CASE q # op[t].page
      <4>1. \A b \in Blocks : b \in BlocksOf(q) => content'[b] = content[b]
        BY <1>p, <2>2, <3>1, BlocksApart, Zenon
      <4> QED
        BY <2>3, <4>1, CleanKept, Zenon
    <3> QED
      BY <2>2, <3>1, Zenon
  <2>4. ASSUME NEW u \in Tasks \ {t}, pc[u] \in {"write", "write_end"}
        PROVE  Clean(op[u].page, content')
    <3>1. PageHeld(u)
      BY <2>4, Zenon DEF PageHeld
    <3> QED
      BY <1>0, <2>3, <2>4, <3>1, HeldPage, Zenon DEF CleanTask
  <2>5. CleanTask(t)'
    BY <1>0, <2>1, <2>2, Zenon DEF CleanTask
  <2>6. /\ \A q \in uptodate' : Clean(q, content')
        /\ \A b \in Blocks : srv'.data[b] # JUNK
        /\ \A b \in DOMAIN got'[t] : got'[t][b] # JUNK
        /\ \A u \in Tasks \ {t} : got'[u] = got[u]
    BY <1>0, <2>1, <2>3, Zenon
  <2> QED
    BY <2>1, <2>4, <2>5, <2>6, JunkStep, Zenon
<1>2. CASE uvfs_write(t)
  <2>1. /\ Others(t) /\ pc'[t] = "write_end" /\ pc[t] = "write" /\ op' = op /\ got' = got
        /\ UNCHANGED <<uptodate, content>>
    BY <1>0, <1>2, Zenon DEF uvfs_write, Goto, Others, TaskTypes, pageVars, histVars
  <2>2. Clean(op[t].page, content)
    BY <1>0, <2>1, Zenon DEF CleanTask
  <2>3. \A b \in Blocks : srv'.data[b] # JUNK
    <3>1. CASE srv' = srv
      BY <1>0, <3>1, Zenon
    <3>2. CASE srv' # srv
      <4> DEFINE d == [b \in Blocks |-> IF InRange(op[t], b, op[t].copied)
                                        THEN content[b] ELSE srv.data[b]]
      <4>1. PICK size : Commit(d, size)
        BY <1>2, <3>2, Zenon DEF uvfs_write
      <4>2. op[t] \in Ops /\ op[t].kind = "write"
        BY <2>1, Known, Zenon DEF PlaceInv, Writing
      <4>3. \A b \in Blocks : InRange(op[t], b, op[t].copied) => b \in BlocksOf(op[t].page)
        BY <4>2, EndInFile DEF Blocks
      <4>4. \A b \in Blocks : d[b] # JUNK
        BY <1>0, <2>2, <4>3, Zenon DEF Clean
      <4> HIDE DEF d
      <4> QED
        BY <4>1, <4>4, CommitClean, Zenon
    <3> QED
      BY <3>1, <3>2, Zenon
  <2>4. CleanTask(t)'
    BY <1>0, <2>1, <2>2, Zenon DEF CleanTask
  <2>5. /\ \A q \in uptodate' : Clean(q, content')
        /\ \A b \in DOMAIN got'[t] : got'[t][b] # JUNK
        /\ \A u \in Tasks \ {t} : got'[u] = got[u]
        /\ \A u \in Tasks \ {t} : pc[u] \in {"write", "write_end"}
               => Clean(op[u].page, content')
    BY <1>0, <2>1, Zenon DEF CleanTask
  <2> QED
    BY <2>1, <2>3, <2>4, <2>5, JunkStep, Zenon
<1>3. CASE uvfs_write_end(t)
  <2>1. /\ Others(t) /\ pc'[t] = "idle" /\ pc[t] = "write_end" /\ op'[t] = NULL
        /\ uptodate' = uptodate \cup {op[t].page}
        /\ UNCHANGED <<srv, content, got>>
    BY <1>0, <1>3, Zenon DEF uvfs_write_end, Return, Goto, Others, TaskTypes, srvVars, histVars
  <2>2. /\ \A q \in uptodate' : Clean(q, content')
        /\ \A b \in Blocks : srv'.data[b] # JUNK
        /\ \A b \in DOMAIN got'[t] : got'[t][b] # JUNK
        /\ \A u \in Tasks \ {t} : got'[u] = got[u]
        /\ \A u \in Tasks \ {t} : pc[u] \in {"write", "write_end"}
               => Clean(op[u].page, content')
    BY <1>0, <2>1, Zenon DEF CleanTask
  <2>3. CleanTask(t)'
    BY <2>1, CleanPlace, Zenon
  <2> QED
    BY <2>1, <2>2, <2>3, JunkStep, Zenon
<1> QED
  BY <1>1, <1>2, <1>3, Zenon

\* The requests that change the file at the server from elsewhere than the
\* write loop.
LEMMA RequestJunk ==
    ASSUME Shape, JunkInv, NEW t \in Tasks,
           setattr_request(t) \/ writepage_request(t)
    PROVE  JunkInv'
<1>0. /\ TaskTypes /\ CleanTask(t)
      /\ \A q \in uptodate : Clean(q, content)
      /\ \A u \in Tasks : CleanTask(u)
      /\ \A b \in Blocks : srv.data[b] # JUNK
      /\ \A b \in DOMAIN got[t] : got[t][b] # JUNK
  BY Known, Zenon DEF JunkInv, NoJunkRead
<1>1. /\ Others(t) /\ pc'[t] \in {"setattr_end", "writepage_end"} /\ op' = op /\ got' = got
      /\ UNCHANGED <<uptodate, content>>
  BY <1>0, Zenon DEF setattr_request, writepage_request, Goto, Others, TaskTypes,
                     pageVars, histVars
<1>2. CleanTask(t)'
  BY <1>1, CleanPlace, Zenon
<1>3. \A b \in Blocks : srv'.data[b] # JUNK
  <2>1. CASE srv' = srv
    BY <1>0, <2>1, Zenon
  <2>2. CASE setattr_request(t) /\ srv' # srv
    <3>1. Commit(srv.data, op[t].size)
      BY <2>2, Zenon DEF setattr_request
    <3> QED
      BY <1>0, <3>1, CommitClean, Zenon
  <2>3. CASE writepage_request(t) /\ srv' # srv
    <3> DEFINE d == [b \in Blocks |-> IF b \in BlocksOf(op[t].page) /\ b < rep[t].size
                                      THEN rep[t].data[b] ELSE srv.data[b]]
    <3>1. PICK size : Commit(d, size)
      BY <2>3, Zenon DEF writepage_request
    <3>2. Clean(op[t].page, rep[t].data)
      BY <1>0, <2>3, Zenon DEF CleanTask, writepage_request
    <3>3. \A b \in Blocks : d[b] # JUNK
      BY <1>0, <3>2, Zenon DEF Clean
    <3> HIDE DEF d
    <3> QED
      BY <3>1, <3>3, CommitClean, Zenon
  <2> QED
    BY <2>1, <2>2, <2>3, Zenon
<1>4. /\ \A q \in uptodate' : Clean(q, content')
      /\ \A b \in DOMAIN got'[t] : got'[t][b] # JUNK
      /\ \A u \in Tasks \ {t} : got'[u] = got[u]
      /\ \A u \in Tasks \ {t} : pc[u] \in {"write", "write_end"}
             => Clean(op[u].page, content')
  BY <1>0, <1>1, Zenon DEF CleanTask
<1> QED
  BY <1>1, <1>2, <1>3, <1>4, JunkStep, Zenon
\* A change at the server itself, and a store to a mapped page.
LEMMA ServerJunk ==
    ASSUME Shape, JunkInv,
           \/ \E b \in Blocks : RemoteWrite(b)
           \/ \E p \in Pages : \E b \in BlocksOf(p) : Store(p, b)
    PROVE  JunkInv'
<1>0. /\ PageTypes /\ ServerTypes /\ issued \in Nat
      /\ \A q \in uptodate : q \in Pages /\ Clean(q, content)
      /\ \A u \in Tasks : CleanTask(u)
      /\ \A b \in Blocks : srv.data[b] # JUNK
  <2>1. PageTypes /\ ServerTypes
    BY Zenon DEF Shape, TypeOK
  <2>2. issued \in Nat
    BY <2>1, FileConstants DEF ServerTypes
  <2> QED
    BY <2>1, <2>2, Zenon DEF JunkInv, PageTypes
<1>1. Change(issued + 1) # JUNK
  BY <1>0, DataIsNotJunk, Zenon
<1>2. CASE \E b \in Blocks : RemoteWrite(b)
  <2>1. PICK b \in Blocks : RemoteWrite(b)
    BY <1>2, Zenon
  <2> DEFINE d == [srv.data EXCEPT ![b] = Change(issued + 1)]
  <2>2. /\ Commit(d, srv.size)
        /\ UNCHANGED <<uptodate, content, pc, op, rep, got>>
    BY <2>1, Zenon DEF RemoteWrite, pageVars, taskVars
  <2>3. \A x \in Blocks : d[x] # JUNK
    BY <1>0, <1>1, Zenon DEF ServerTypes
  <2> HIDE DEF d
  <2>4. \A x \in Blocks : srv'.data[x] # JUNK
    BY <2>2, <2>3, CommitClean, Zenon
  <2> QED
    BY <2>2, <2>4, Zenon DEF JunkInv, CleanTask, NoJunkRead
<1>3. CASE \E p \in Pages : \E b \in BlocksOf(p) : Store(p, b)
  <2>1. PICK p \in Pages : \E b \in BlocksOf(p) : Store(p, b)
    BY <1>3, Zenon
  <2>b. PICK b \in BlocksOf(p) : Store(p, b)
    BY <2>1, Zenon
  <2>2. /\ content' = [content EXCEPT ![b] = Change(issued + 1)]
        /\ UNCHANGED <<srv, uptodate, pc, op, rep, got>>
    BY <2>b, Zenon DEF Store, taskVars
  <2>3. ASSUME NEW q \in Pages, Clean(q, content) PROVE Clean(q, content')
    <3>1. \A x \in Blocks : content'[x] = content[x] \/ content'[x] # JUNK
      BY <1>0, <1>1, <2>2, Zenon DEF PageTypes
    <3> QED
      BY <2>3, <3>1, CleanKept, Zenon
  <2>4. ASSUME NEW u \in Tasks PROVE CleanTask(u)'
    <3>1. ASSUME pc[u] \in {"write", "write_end"} PROVE Clean(op[u].page, content')
      <4>1. PageHeld(u)
        BY <3>1, Zenon DEF PageHeld
      <4> QED
        BY <1>0, <2>3, <3>1, <4>1, HeldPage, Zenon DEF CleanTask
    <3> QED
      BY <1>0, <2>2, <3>1, Zenon DEF CleanTask
  <2>5. \A q \in uptodate' : Clean(q, content')
    BY <1>0, <2>2, <2>3, Zenon
  <2>6. NoJunkRead' /\ \A x \in Blocks : srv'.data[x] # JUNK
    BY <2>2, Zenon DEF JunkInv, NoJunkRead
  <2> QED
    BY <2>4, <2>5, <2>6, Zenon DEF JunkInv
<1> QED
  BY <1>2, <1>3, Zenon

\* The file as it is first opened: no page is cached.
LEMMA InitJunk == Init => JunkInv
<1> SUFFICES ASSUME Init PROVE JunkInv
  OBVIOUS
<1>1. \A b \in Blocks : srv.data[b] # JUNK
  BY DataIsNotJunk, Zenon DEF Init
<1>2. NoJunkRead
  BY DEF Init, NoJunkRead
<1>3. ASSUME NEW t \in Tasks PROVE CleanTask(t)
  BY <1>3, Zenon DEF Init, CleanTask
<1> QED
  BY <1>1, <1>2, <1>3, Zenon DEF Init, JunkInv

\* The induction step.
LEMMA NextJunk ==
    ASSUME WholePages PROVE Shape /\ JunkInv /\ [Next]_vars => JunkInv'
<1> SUFFICES ASSUME Shape, JunkInv, [Next]_vars PROVE JunkInv'
  OBVIOUS
<1>1. ASSUME NEW t \in Tasks, Begin(t) PROVE JunkInv'
  BY <1>1, BeginJunk, Zenon
<1>2. ASSUME NEW t \in Tasks, Step(t) PROVE JunkInv'
  BY <1>2, QuietSteps, QuietJunk, WalkJunk, ReadJunk, WriteJunk, RequestJunk, Zenon DEF Step
<1>3. CASE UNCHANGED vars
  BY <1>3, Zenon DEF vars, srvVars, pageVars, taskVars, JunkInv, CleanTask, NoJunkRead
<1> QED
  BY <1>1, <1>2, <1>3, ServerJunk, Zenon DEF Next

(* When tasks write whole pages, every page that is uptodate or about to   *)
(* become so has been filled, and the server never gets or has the memory  *)
(* of a page just allocated: for any number of tasks and pages, whichever  *)
(* requests fail, however short the copies from the user's buffer, with    *)
(* truncations, changes at the server and stores to a mapping besides      *)
(* (uvfs_readpage, uvfs_write_begin, uvfs_commit_write, uvfs_writepage).   *)
THEOREM PagesAreFilled == ASSUME WholePages PROVE Spec => []JunkInv
<1>1. Shape /\ JunkInv /\ [Next]_vars => JunkInv'
  BY NextJunk
<1> QED
  BY <1>1, InitJunk, ShapeInvariant, PTL DEF Spec

(* So no read returns that memory: that uvfs_prepare_write does not read a *)
(* page it is asked to prepare matters to writes of part of a page only    *)
(* (do_sync_read, uvfs_readpage, uvfs_prepare_write).                      *)
THEOREM WholePageReads == ASSUME WholePages PROVE Spec => []NoJunkRead
<1>1. JunkInv => NoJunkRead
  BY Zenon DEF JunkInv
<1> QED
  BY <1>1, PagesAreFilled, PTL

=============================================================================
