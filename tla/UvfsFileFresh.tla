---------------------------- MODULE UvfsFileFresh ----------------------------
(***************************************************************************)
(* Proofs about UvfsFile, part two: the page cache holds what the server   *)
(* has, a read returns what the server had since it began, and a write     *)
(* that ends has been at the server.                                       *)
(*                                                                         *)
(* On top of Shape the induction is on PageInv, about the pages that a     *)
(* refresh has been at, WritebackInv, about the requests of                *)
(* uvfs_writepage, ReaderInv, about the page of a reader, and ReadFresh    *)
(* itself. It needs WritesReach: a write or a truncation that fails after  *)
(* the page was changed leaves the page ahead of the server for good, and  *)
(* a write that copies nothing makes a page uptodate that was never        *)
(* filled. For the writes it is on ThroughInv, about the page between the  *)
(* copy and the request, and needs no such thing.                          *)
(***************************************************************************)
EXTENDS UvfsFileProofs

\* FreshSince(p, m) of the next state, m being a value of this one.
FreshNext(p, m) ==
    \/ i_mtime' >= m
    \/ \E r \in Tasks : PassedBy(r, p)' /\ rep'[r].mtime >= m

\* A step makes a page fresher only by moving the refresh past it.
LEMMA FreshBack ==
    ASSUME Shape, NEW t \in Tasks, Others(t), NEW p \in Pages, NEW m \in Nat,
           \/ i_mtime' = i_mtime
           \/ PassedBy(t, p) /\ i_mtime' = rep[t].mtime,
           \/ ~PassedBy(t, p)'
           \/ /\ rep[t] \in Replies /\ rep'[t] = rep[t]
              /\ PassedBy(t, p) \/ i_mtime >= rep[t].mtime,
           FreshNext(p, m)
    PROVE  FreshSince(p, m)
<1>1. \A r \in Tasks : PassedBy(r, p) => rep[r].mtime \in Nat
  BY Zenon DEF Shape, TaskInv, ReplyInv, Replies, Refreshing, PassedBy
<1>2. CASE i_mtime' >= m
  BY <1>2, Zenon DEF FreshSince
<1>3. ASSUME NEW r \in Tasks, PassedBy(r, p)', rep'[r].mtime >= m, r # t
      PROVE  FreshSince(p, m)
  <2>1. PassedBy(r, p) /\ rep'[r] = rep[r]
    BY <1>3, Zenon DEF Others, PassedBy
  <2> QED
    BY <1>3, <2>1, Zenon DEF FreshSince
<1>4. CASE PassedBy(t, p)' /\ rep'[t].mtime >= m
  <2>1. CASE PassedBy(t, p)
    BY <1>4, <2>1, Zenon DEF FreshSince
  <2>2. CASE /\ i_mtime >= rep[t].mtime /\ rep[t] \in Replies /\ rep'[t] = rep[t]
             /\ ~PassedBy(t, p)
    <3>1. rep[t].mtime \in Nat /\ i_mtime \in Nat
      BY <2>2, Known, Zenon DEF InodeTypes, Replies
    <3> QED
      BY <1>4, <2>2, <3>1 DEF FreshSince
  <2> QED
    BY <1>4, <2>1, <2>2, Zenon
<1> QED
  BY <1>2, <1>3, <1>4, Zenon DEF FreshNext

\* Task u does not move, or leaves nothing that was ahead of the server to
\* be without its task, and gets no data but the server's own.
\* Task u is not at the end of a request that changed the server.
Calm(u) ==
    \/ pc'[u] = pc[u] /\ op'[u] = op[u] /\ rep'[u] = rep[u]
    \/ /\ pc[u] \in {"vmtruncate", "setattr"} => pc'[u] \in {"vmtruncate", "setattr"}
       /\ pc[u] \notin {"write", "writepage"}
       /\ pc'[u] \notin {"write_end", "writepage_end"}
       /\ pc'[u] = "fill" => rep'[u].mtime = srv.mtime

\* Such steps do not save a page.
LEMMA UnsavedKept ==
    ASSUME \A u \in Tasks : Calm(u), NEW p \in Pages, Unsaved(p),
           p \in dirty \cup lost => p \in dirty' \cup lost'
    PROVE  Unsaved(p)'
  BY Zenon DEF Unsaved, Calm

\* Nor do they take back what is ahead of the server.
LEMMA AheadKept ==
    ASSUME \A u \in Tasks : Calm(u), NEW p \in uptodate, p \in uptodate',
           NEW v, AheadIn(p, v)
    PROVE  \/ v = ZERO /\ \E t \in Tasks : pc'[t] \in {"vmtruncate", "setattr"}
           \/ \E t \in Tasks : WorksOn(t, p, {"write"})' /\ v \in Ahead(t)'
<1>1. CASE v = ZERO /\ \E t \in Tasks : pc[t] \in {"vmtruncate", "setattr"}
  BY <1>1, Zenon DEF Calm
<1>2. ASSUME NEW t \in Tasks, WorksOn(t, p, {"write"}), v \in Ahead(t)
      PROVE  WorksOn(t, p, {"write"})' /\ v \in Ahead(t)'
  <2>1. pc[t] = "write" /\ op[t].page = p /\ pc'[t] = "write" /\ op'[t] = op[t]
    BY <1>2, Zenon DEF Calm, WorksOn
  <2> QED
    BY <1>2, <2>1, Zenon DEF Ahead, WorksOn
<1> QED
  BY <1>1, <1>2, Zenon DEF AheadIn

\* A step without a change at the server keeps PageInv of a page when each
\* block is the server's, ahead of it, or as it was.
LEMMA PageStep ==
    ASSUME Shape, \A u \in Tasks : Calm(u), srv' = srv,
           NEW p \in Pages, PageInv(p),
           FreshNext(p, srv.mtime) => FreshSince(p, srv.mtime),
           FreshSince(p, srv.mtime) /\ p \in uptodate' /\ ~Unsaved(p)' =>
              \A b \in BlocksOf(p) :
                 \/ content'[b] = srv.data[b]
                 \/ p \in uptodate /\ ~Unsaved(p) /\ content'[b] = content[b]
                 \/ AheadIn(p, content[b])'
    PROVE  PageInv(p)'
<1> SUFFICES ASSUME FreshSince(p, srv.mtime)'
             PROVE  /\ \A t \in Tasks : ~WorksOn(t, p, {"write_end", "writepage_end"})'
                    /\ \A t \in Tasks : WorksOn(t, p, {"fill"})' => rep'[t].mtime = srv'.mtime
                    /\ p \in uptodate' /\ ~Unsaved(p)' =>
                          \A b \in BlocksOf(p) :
                             content'[b] = srv'.data[b] \/ AheadIn(p, content[b])'
  BY Zenon DEF PageInv
<1>1. FreshSince(p, srv.mtime)
  BY Zenon DEF FreshSince, FreshNext
<1>2. \A t \in Tasks : ~WorksOn(t, p, {"write_end", "writepage_end"})'
  BY <1>1, Zenon DEF PageInv, Calm, WorksOn
<1>3. \A t \in Tasks : WorksOn(t, p, {"fill"})' => rep'[t].mtime = srv'.mtime
  BY <1>1, Zenon DEF PageInv, Calm, WorksOn
<1>4. ASSUME p \in uptodate', ~Unsaved(p)', NEW b \in BlocksOf(p),
             p \in uptodate, ~Unsaved(p), content'[b] = content[b]
      PROVE  content'[b] = srv'.data[b] \/ AheadIn(p, content[b])'
  <2>1. content[b] = srv.data[b] \/ AheadIn(p, content[b])
    BY <1>1, <1>4, Zenon DEF PageInv
  <2>2. CASE AheadIn(p, content[b])
    <3>1. \/ content[b] = ZERO /\ \E t \in Tasks : pc'[t] \in {"vmtruncate", "setattr"}
          \/ \E t \in Tasks : WorksOn(t, p, {"write"})' /\ content[b] \in Ahead(t)'
      BY <1>4, <2>2, AheadKept, Zenon
    <3> QED
      BY <1>4, <3>1, Zenon DEF AheadIn
  <2> QED
    BY <1>4, <2>1, <2>2, Zenon
<1> QED
  BY <1>1, <1>2, <1>3, <1>4, Zenon

\* Sound(t, b, v) of the next state, v being a value of this one or the next.
\* Sound(t, b, v) of the next state, v being a value of this one.
SoundNext(t, b, v) ==
    v \in beside'[t] \/ \E k \in since'[t]..srv'.mtime : v = past'[k + 1][b]

\* A value that a read may return stays one: the server's history only grows.
LEMMA SoundKept ==
    ASSUME Shape, NEW t \in Tasks, since'[t] = since[t], beside[t] \subseteq beside'[t],
           srv'.mtime \in Nat, srv.mtime <= srv'.mtime,
           \A k \in 1..Len(past) : past'[k] = past[k],
           NEW b, NEW v, Sound(t, b, v)
    PROVE  SoundNext(t, b, v)
<1>1. CASE v \in beside[t]
  BY <1>1, Zenon DEF SoundNext
<1>2. ASSUME NEW k \in since[t]..srv.mtime, v = past[k + 1][b] PROVE SoundNext(t, b, v)
  <2>1. since[t] \in Nat /\ srv.mtime \in Nat /\ Len(past) = srv.mtime + 1
    BY Known, Zenon DEF TaskTypes, ServerTypes
  <2>2. k \in since'[t]..srv'.mtime /\ k + 1 \in 1..Len(past)
    BY <2>1
  <2> QED
    BY <1>2, <2>2, Zenon DEF SoundNext
<1> QED
  BY <1>1, <1>2, Zenon DEF Sound

\* A step keeps ReaderInv of a reader when what it puts into the page is sound
\* for that reader.
LEMMA ReaderStep ==
    ASSUME Shape, NEW t \in Tasks, ReaderInv(t),
           op'[t] = op[t], since'[t] = since[t], beside[t] \subseteq beside'[t],
           srv'.mtime \in Nat, srv.mtime <= srv'.mtime,
           \A k \in 1..Len(past) : past'[k] = past[k],
           NEW p, p = op[t].page,
           pc'[t] = "find_page" \/ FreshNext(p, since[t]) =>
              pc[t] = "find_page" \/ FreshSince(p, since[t]),
           Reading(t) => \A v \in Tasks : pc'[v] \in {"vmtruncate", "setattr"} =>
              pc[v] \in {"vmtruncate", "setattr"} \/ ZERO \in beside'[t],
           \A v \in Tasks : WorksOn(v, p, {"fill"})' =>
              \/ WorksOn(v, p, {"fill"}) /\ rep'[v] = rep[v]
              \/ rep'[v].mtime >= since[t],
           Reading(t) /\ Live(p)' /\ ~Unsaved(p)' =>
              \A b \in BlocksOf(p) :
                 \/ pc[t] = "find_page" \/ FreshSince(p, since[t])
                       => SoundNext(t, b, content'[b])
                 \/ Live(p) /\ ~Unsaved(p) /\ content'[b] = content[b]
    PROVE  ReaderInv(t)'
<1> SUFFICES
      ASSUME Reading(t)
      PROVE  /\ \A v \in Tasks : pc'[v] \in {"vmtruncate", "setattr"} => ZERO \in beside'[t]
             /\ pc'[t] = "find_page" \/ FreshSince(p, since[t])' =>
                  /\ \A v \in Tasks : WorksOn(v, p, {"fill"})' => rep'[v].mtime >= since'[t]
                  /\ Live(p)' /\ ~Unsaved(p)' =>
                        \A b \in BlocksOf(p) : SoundNext(t, b, content'[b])
  BY Zenon DEF ReaderInv, Reading, Sound, SoundNext, FreshSince, FreshNext
<1>1. \A v \in Tasks : pc'[v] \in {"vmtruncate", "setattr"} => ZERO \in beside'[t]
  BY Zenon DEF ReaderInv
<1>2. ASSUME pc'[t] = "find_page" \/ FreshSince(p, since[t])'
      PROVE  pc[t] = "find_page" \/ FreshSince(p, since[t])
  BY <1>2, Zenon DEF FreshSince, FreshNext
<1>3. ASSUME pc[t] = "find_page" \/ FreshSince(p, since[t])
      PROVE  \A v \in Tasks : WorksOn(v, p, {"fill"})' => rep'[v].mtime >= since'[t]
  BY <1>3, Zenon DEF ReaderInv
<1>4. ASSUME pc[t] = "find_page" \/ FreshSince(p, since[t]),
             Live(p)', ~Unsaved(p)', NEW b \in BlocksOf(p)
      PROVE  SoundNext(t, b, content'[b])
  <2>1. CASE Live(p) /\ ~Unsaved(p) /\ content'[b] = content[b]
    <3>1. Sound(t, b, content[b])
      BY <1>4, <2>1, Zenon DEF ReaderInv
    <3> QED
      BY <2>1, <3>1, SoundKept, Zenon
  <2> QED
    BY <1>4, <2>1, Zenon
<1> QED
  BY <1>1, <1>2, <1>3, <1>4, Zenon

\* PageInv and ReaderInv of them all.
PagesInv   == \A p \in Pages : PageInv(p)

ReadersInv == \A t \in Tasks : WritebackInv(t) /\ ReaderInv(t)

\* No step of this kind makes a page fresher than it was.
NoFresher == \A p \in Pages, m \in Nat : FreshNext(p, m) => FreshSince(p, m)

\* A reader, and a step that leaves the pages alone.
LEMMA QuietReader ==
    ASSUME Shape, NEW t \in Tasks, ReaderInv(t), \A u \in Tasks : Calm(u),
           UNCHANGED <<srv, past, uptodate, dirty, lost, content>>, NoFresher,
           op'[t] = op[t], since'[t] = since[t], beside[t] \subseteq beside'[t],
           pc'[t] = "find_page" /\ Reading(t) =>
              pc[t] = "find_page" \/ FreshSince(op[t].page, since[t]),
           Reading(t) => \A v \in Tasks : pc'[v] \in {"vmtruncate", "setattr"} =>
              pc[v] \in {"vmtruncate", "setattr"} \/ ZERO \in beside'[t],
           \A v \in Tasks : pc'[v] \in {"write", "write_end"} =>
              pc'[v] = pc[v] /\ op'[v] = op[v]
    PROVE  ReaderInv(t)'
<1>1. CASE ~Reading(t)
  BY <1>1, Zenon DEF ReaderInv, Reading
<1>2. CASE Reading(t)
  <2>1. PICK p \in Pages : p = op[t].page
    BY <1>2, OpFields, Known, Zenon DEF Reading, TaskTypes
  <2>2. since[t] \in Nat /\ srv.mtime \in Nat /\ since[t] <= srv.mtime
    BY Known, Zenon DEF TaskTypes
  <2>3. srv'.mtime \in Nat /\ srv.mtime <= srv'.mtime
        /\ \A k \in 1..Len(past) : past'[k] = past[k]
    BY <2>2
  <2>4. pc'[t] = "find_page" \/ FreshNext(p, since[t]) =>
           pc[t] = "find_page" \/ FreshSince(p, since[t])
    BY <1>2, <2>1, <2>2, Zenon DEF NoFresher
  <2>5. \A v \in Tasks : WorksOn(v, p, {"fill"})' =>
           \/ WorksOn(v, p, {"fill"}) /\ rep'[v] = rep[v]
           \/ rep'[v].mtime >= since[t]
    BY <2>2, Zenon DEF Calm, WorksOn
  <2>6. Live(p)' => Live(p)
    BY Zenon DEF Live, WorksOn
  <2>7. Unsaved(p) => Unsaved(p)'
    BY UnsavedKept, Zenon
  <2> QED
    BY <2>1, <2>3, <2>4, <2>5, <2>6, <2>7, ReaderStep, Zenon
<1> QED
  BY <1>1, <1>2, Zenon

\* All pages and readers, and a step of task t that leaves the pages alone.
LEMMA QuietFresh ==
    ASSUME Shape, PagesInv, ReadersInv, ReadFresh, NEW t \in Tasks, Others(t),
           UNCHANGED <<srv, past, uptodate, dirty, lost, content>>, Calm(t), NoFresher,
           pc'[t] \notin {"writepage", "write", "write_end"},
           \A u \in Tasks \ {t} : beside[u] \subseteq beside'[u] /\ got'[u] = got[u],
           pc'[t] \in {"vmtruncate", "setattr"} =>
              \/ pc[t] \in {"vmtruncate", "setattr"}
              \/ \A u \in Tasks \ {t} : Reading(u) => ZERO \in beside'[u],
           ReaderInv(t)', \A b \in DOMAIN got'[t] : SoundNext(t, b, got'[t][b])
    PROVE  PagesInv' /\ ReadersInv' /\ ReadFresh'
<1>1. \A u \in Tasks : Calm(u)
  BY Zenon DEF Others, Calm
<1>2. ASSUME NEW p \in Pages PROVE PageInv(p)'
  <2>1. Unsaved(p) => Unsaved(p)'
    BY <1>1, UnsavedKept, Zenon
  <2>2. srv.mtime \in Nat
    BY Known, Zenon
  <2>3. FreshNext(p, srv.mtime) => FreshSince(p, srv.mtime)
    BY <2>2, Zenon DEF NoFresher
  <2> QED
    BY <1>1, <2>1, <2>3, PageStep, Zenon DEF PagesInv
<1>3. ASSUME NEW u \in Tasks PROVE ReaderInv(u)'
  <2>1. CASE u # t
    <3>1. /\ op'[u] = op[u] /\ since'[u] = since[u] /\ pc'[u] = pc[u]
          /\ beside[u] \subseteq beside'[u]
      BY <2>1, Zenon DEF Others
    <3>2. Reading(u) => \A v \in Tasks : pc'[v] \in {"vmtruncate", "setattr"} =>
             pc[v] \in {"vmtruncate", "setattr"} \/ ZERO \in beside'[u]
      BY <2>1, Zenon DEF Others
    <3>3. \A v \in Tasks : pc'[v] \in {"write", "write_end"} =>
             pc'[v] = pc[v] /\ op'[v] = op[v]
      BY Zenon DEF Others
    <3> QED
      BY <1>1, <3>1, <3>2, <3>3, QuietReader, Zenon DEF ReadersInv
  <2> QED
    BY <2>1, Zenon
<1>4. ASSUME NEW u \in Tasks PROVE WritebackInv(u)'
  <2>1. CASE u # t
    <3>1. pc'[u] = pc[u] /\ op'[u] = op[u] /\ rep'[u] = rep[u] /\ WritebackInv(u)
      BY <2>1, Zenon DEF Others, ReadersInv
    <3> QED
      BY <3>1, Zenon DEF WritebackInv
  <2>2. CASE u = t
    BY <2>2, Zenon DEF WritebackInv
  <2> QED
    BY <2>1, <2>2, Zenon
<1>5. ASSUME NEW u \in Tasks, NEW b \in DOMAIN got'[u] PROVE SoundNext(u, b, got'[u][b])
  <2>1. CASE u # t
    <3>1. /\ since'[u] = since[u] /\ got'[u] = got[u] /\ beside[u] \subseteq beside'[u]
          /\ Sound(u, b, got[u][b])
      BY <2>1, Zenon DEF Others, ReadFresh, Sound
    <3>2. srv'.mtime \in Nat /\ srv.mtime <= srv'.mtime
          /\ \A k \in 1..Len(past) : past'[k] = past[k]
      BY Known
    <3> QED
      BY <3>1, <3>2, SoundKept, Zenon
  <2> QED
    BY <2>1, Zenon
<1> QED
  BY <1>2, <1>3, <1>4, <1>5, Zenon DEF PagesInv, ReadersInv, ReadFresh, SoundNext

\* Only a refresh makes a page fresher.
LEMMA StillFresh ==
    ASSUME Shape, NEW t \in Tasks, Others(t), i_mtime' = i_mtime,
           pc'[t] \notin {"invalidate", "set_size", "set_mtime"}
    PROVE  NoFresher
<1>1. \A p \in Pages : ~PassedBy(t, p)'
  BY Zenon DEF PassedBy
<1> QED
  BY <1>1, FreshBack, Zenon DEF NoFresher

\* What a task has read stays fresh.
LEMMA GotKept ==
    ASSUME Shape, ReadFresh, NEW t \in Tasks, got'[t] = got[t], since'[t] = since[t],
           beside[t] \subseteq beside'[t], UNCHANGED <<srv, past>>
    PROVE  \A b \in DOMAIN got'[t] : SoundNext(t, b, got'[t][b])
<1>1. srv'.mtime \in Nat /\ srv.mtime <= srv'.mtime
      /\ \A k \in 1..Len(past) : past'[k] = past[k]
  BY Known
<1>2. \A b \in DOMAIN got[t] : Sound(t, b, got[t][b])
  BY Zenon DEF ReadFresh, Sound
<1> QED
  BY <1>1, <1>2, SoundKept, Zenon

\* A step within the call that leaves the pages alone.
LEMMA MoveFresh ==
    ASSUME Shape, PagesInv, ReadersInv, ReadFresh, NEW t \in Tasks, Others(t),
           UNCHANGED <<srv, past, uptodate, dirty, lost, content, since, got>>,
           op'[t] = op[t], Calm(t), NoFresher,
           pc'[t] \notin {"writepage", "write", "write_end"},
           \A u \in Tasks : beside[u] \subseteq beside'[u],
           pc'[t] \in {"vmtruncate", "setattr"} =>
              \/ pc[t] \in {"vmtruncate", "setattr"}
              \/ \A u \in Tasks : Reading(u) => ZERO \in beside'[u],
           pc'[t] = "find_page" /\ Reading(t) => FreshSince(op[t].page, since[t])
    PROVE  PagesInv' /\ ReadersInv' /\ ReadFresh'
<1>1. ReaderInv(t)'
  <2>1. \A u \in Tasks : Calm(u)
    BY Zenon DEF Others, Calm
  <2>2. Reading(t) => \A v \in Tasks : pc'[v] \in {"vmtruncate", "setattr"} =>
           pc[v] \in {"vmtruncate", "setattr"} \/ ZERO \in beside'[t]
    BY Zenon DEF Others
  <2>3. \A v \in Tasks : pc'[v] \in {"write", "write_end"} =>
           pc'[v] = pc[v] /\ op'[v] = op[v]
    BY Zenon DEF Others
  <2> QED
    BY <2>1, <2>2, <2>3, QuietReader, Zenon DEF ReadersInv
<1>2. \A b \in DOMAIN got'[t] : SoundNext(t, b, got'[t][b])
  BY GotKept, Zenon
<1>3. pc'[t] \in {"vmtruncate", "setattr"} =>
              \/ pc[t] \in {"vmtruncate", "setattr"}
              \/ \A u \in Tasks \ {t} : Reading(u) => ZERO \in beside'[u]
  BY Zenon
<1>4. \A u \in Tasks \ {t} : beside[u] \subseteq beside'[u] /\ got'[u] = got[u]
  BY Zenon
<1> QED
  BY <1>1, <1>2, <1>3, <1>4, QuietFresh, Zenon

\* A step that ends the call and leaves the pages alone.
LEMMA ReturnFresh ==
    ASSUME Shape, PagesInv, ReadersInv, ReadFresh, NEW t \in Tasks, Return(t),
           UNCHANGED <<srv, past, uptodate, dirty, lost, content, since>>,
           \/ i_mtime' = i_mtime
           \/ pc[t] = "set_mtime" /\ i_mtime' = rep[t].mtime,
           pc[t] \notin {"write", "writepage", "vmtruncate", "setattr"},
           \A u \in Tasks \ {t} : beside'[u] = beside[u] /\ got'[u] = got[u],
           \A b \in DOMAIN got'[t] : SoundNext(t, b, got'[t][b])
    PROVE  PagesInv' /\ ReadersInv' /\ ReadFresh'
<1>1. Others(t) /\ pc'[t] = "idle" /\ op'[t] = NULL
  BY Known, Zenon DEF TaskTypes, Return, Goto, Others
<1>2. ReaderInv(t)'
  BY <1>1, Zenon DEF ReaderInv, Reading
<1>3. NoFresher
  <2>1. ASSUME NEW p \in Pages
        PROVE  ~PassedBy(t, p)' /\ (pc[t] = "set_mtime" => PassedBy(t, p))
    BY <1>1, Zenon DEF PassedBy
  <2> QED
    BY <1>1, <2>1, FreshBack, Zenon DEF NoFresher
<1>4. Calm(t) /\ pc'[t] \notin {"writepage", "write", "write_end", "vmtruncate", "setattr"}
  BY <1>1, Zenon DEF Calm
<1>5. \A u \in Tasks \ {t} : beside[u] \subseteq beside'[u] /\ got'[u] = got[u]
  BY Zenon
<1> QED
  BY <1>1, <1>2, <1>3, <1>4, <1>5, QuietFresh, Zenon

\* Page p is left as it is.
\* The step leaves page p as it is.
SamePage(p) ==
    /\ p \in uptodate' <=> p \in uptodate
    /\ p \in dirty \cup lost => p \in dirty' \cup lost'
    /\ \A b \in BlocksOf(p) : content'[b] = content[b]
    /\ \A m \in Nat : FreshNext(p, m) => FreshSince(p, m)

\* A step that changes page q only.
LEMMA OnePage ==
    ASSUME Shape, PagesInv, ReadersInv, ReadFresh, UNCHANGED <<srv, past, since>>,
           \A u \in Tasks : Calm(u) /\ beside[u] \subseteq beside'[u],
           NEW q \in Pages, \A p \in Pages \ {q} : SamePage(p), PageInv(q)',
           \A u \in Tasks : pc'[u] \in {"vmtruncate", "setattr"} =>
              pc[u] \in {"vmtruncate", "setattr"},
           \A u \in Tasks : pc'[u] \in {"write", "write_end"} =>
              op'[u] = op[u] /\ (pc[u] \in {"write", "write_end"} \/ op[u].page = q),
           \A u \in Tasks : pc'[u] = "writepage" =>
              \/ pc[u] = "writepage" /\ op'[u] = op[u] /\ rep'[u] = rep[u] /\ op[u].page # q
              \/ WritebackInv(u)',
           \A u \in Tasks : Reading(u)' =>
              /\ op'[u] = op[u]
              /\ pc'[u] = "find_page" => pc[u] = "find_page"
              /\ op[u].page = q => ReaderInv(u)',
           \A u \in Tasks : got'[u] # got[u] =>
              \A b \in DOMAIN got'[u] : SoundNext(u, b, got'[u][b])
    PROVE  PagesInv' /\ ReadersInv' /\ ReadFresh'
<1>1. /\ Tasks # {} => srv.mtime \in Nat /\ srv'.mtime \in Nat /\ srv.mtime <= srv'.mtime
      /\ \A k \in 1..Len(past) : past'[k] = past[k]
  BY Known
<1>2. ASSUME NEW p \in Pages, p # q PROVE PageInv(p)'
  <2>1. SamePage(p) /\ PageInv(p)
    BY <1>2, Zenon DEF PagesInv
  <2>2. Unsaved(p) => Unsaved(p)'
    BY <2>1, UnsavedKept, Zenon DEF SamePage
  <2>3. srv.mtime \in Nat
    BY Zenon DEF Shape, TypeOK, ServerTypes
  <2>4. FreshNext(p, srv.mtime) => FreshSince(p, srv.mtime)
    BY <2>1, <2>3, Zenon DEF SamePage
  <2>5. \A u \in Tasks : Calm(u)
    BY Zenon
  <2> QED
    BY <2>1, <2>2, <2>4, <2>5, PageStep, Zenon DEF SamePage
<1>3. ASSUME NEW u \in Tasks, Reading(u)', op[u].page # q PROVE ReaderInv(u)'
  <2>1. /\ op'[u] = op[u] /\ since'[u] = since[u] /\ Reading(u)
        /\ pc'[u] = "find_page" => pc[u] = "find_page"
    BY <1>3, Zenon DEF Reading
  <2>2. PICK p \in Pages : p = op[u].page
    BY <2>1, OpFields, Known, Zenon DEF Reading, TaskTypes
  <2>3. SamePage(p)
    BY <1>3, <2>2, Zenon
  <2>4. since[u] \in Nat /\ srv.mtime \in Nat /\ since[u] <= srv.mtime
    BY Known, Zenon DEF TaskTypes
  <2>5. pc'[u] = "find_page" \/ FreshNext(p, since[u]) =>
           pc[u] = "find_page" \/ FreshSince(p, since[u])
    BY <2>1, <2>3, <2>4, Zenon DEF SamePage
  <2>6. \A v \in Tasks : WorksOn(v, p, {"fill"})' =>
           \/ WorksOn(v, p, {"fill"}) /\ rep'[v] = rep[v]
           \/ rep'[v].mtime >= since[u]
    BY <2>4, Zenon DEF Calm, WorksOn
  <2>7. Live(p)' => Live(p)
    <3>1. \A v \in Tasks : WorksOn(v, p, {"write", "write_end"})' =>
             WorksOn(v, p, {"write", "write_end"})
      BY <1>3, <2>2, Zenon DEF WorksOn
    <3> QED
      BY <2>3, <3>1, Zenon DEF Live, SamePage
  <2>8. Unsaved(p) => Unsaved(p)'
    BY <2>3, UnsavedKept, Zenon DEF SamePage
  <2>9. beside[u] \subseteq beside'[u] /\ ReaderInv(u)
    BY Zenon DEF ReadersInv
  <2>10. Reading(u) => \A v \in Tasks : pc'[v] \in {"vmtruncate", "setattr"} =>
            pc[v] \in {"vmtruncate", "setattr"} \/ ZERO \in beside'[u]
    BY Zenon
  <2>11. srv'.mtime \in Nat /\ srv.mtime <= srv'.mtime
    BY <1>1, Zenon
  <2> QED
    BY <1>1, <2>1, <2>2, <2>3, <2>5, <2>6, <2>7, <2>8, <2>9, <2>10, <2>11, ReaderStep,
       Zenon DEF SamePage
<1>4. ASSUME NEW u \in Tasks PROVE ReaderInv(u)'
  BY <1>3, Zenon DEF ReaderInv
<1>5. ASSUME NEW u \in Tasks PROVE WritebackInv(u)'
  <2>1. CASE /\ pc'[u] = "writepage" /\ pc[u] = "writepage" /\ op'[u] = op[u]
             /\ rep'[u] = rep[u] /\ op[u].page # q
    <3>1. op[u].page \in Pages
      BY <2>1, OpFields, Known, Zenon DEF PlaceInv
    <3>2. SamePage(op[u].page) /\ WritebackInv(u)
      BY <2>1, <3>1, Zenon DEF ReadersInv
    <3> QED
      BY <2>1, <3>1, <3>2, Zenon DEF WritebackInv, SamePage
  <2> QED
    BY <2>1, Zenon DEF WritebackInv
<1>6. ASSUME NEW u \in Tasks, NEW b \in DOMAIN got'[u] PROVE SoundNext(u, b, got'[u][b])
  BY GotKept, Zenon
<1>7. PagesInv' /\ ReadersInv'
  BY <1>2, <1>4, <1>5, Zenon DEF PagesInv, ReadersInv
<1> QED
  BY <1>6, <1>7, Zenon DEF ReadFresh, SoundNext

\* Nobody works on a page that is not locked.
LEMMA UnlockedPage ==
    ASSUME Shape, NEW p \in Pages, locker[p] = NULL, NEW t \in Tasks
    PROVE  /\ \A l : WorksOn(t, p, l) => ~PageHeld(t)
           /\ ~WorksOn(t, p, {"fill"}) /\ ~WorksOn(t, p, {"write", "write_end"})
           /\ ~WorksOn(t, p, {"write_end", "writepage_end"})
           /\ ~WorksOn(t, p, {"writepage"})
<1>1. t # NULL /\ ~(PageHeld(t) /\ op[t].page = p)
  BY FileConstants DEF Shape, LocksExact
<1> QED
  BY <1>1, Zenon DEF WorksOn, PageHeld

\* A reader of page q, and a step that leaves q's blocks alone.
LEMMA SameReader ==
    ASSUME Shape, ReadersInv, UNCHANGED <<srv, past, since>>, NoFresher,
           NEW u \in Tasks, Reading(u), NEW q \in Pages, q = op[u].page,
           op'[u] = op[u], pc'[u] = pc[u], beside'[u] = beside[u],
           \A v \in Tasks : /\ WorksOn(v, q, {"fill"})' =>
                                 WorksOn(v, q, {"fill"}) /\ rep'[v] = rep[v]
                            /\ pc'[v] \in {"vmtruncate", "setattr"} =>
                                 pc[v] \in {"vmtruncate", "setattr"},
           Live(q)' /\ ~Unsaved(q)' =>
              /\ Live(q) /\ ~Unsaved(q)
              /\ \A b \in BlocksOf(q) : content'[b] = content[b]
    PROVE  ReaderInv(u)'
<1>1. /\ since[u] \in Nat /\ since'[u] = since[u] /\ beside[u] \subseteq beside'[u]
      /\ ReaderInv(u)
  BY Known, Zenon DEF TaskTypes, ReadersInv
<1>2. pc'[u] = "find_page" \/ FreshNext(q, since[u]) =>
         pc[u] = "find_page" \/ FreshSince(q, since[u])
  BY <1>1, Zenon DEF NoFresher
<1>3. srv'.mtime \in Nat /\ srv.mtime <= srv'.mtime
      /\ \A k \in 1..Len(past) : past'[k] = past[k]
  BY Known
<1> QED
  BY <1>1, <1>2, <1>3, ReaderStep, Zenon

\* The calls.
LEMMA BeginFresh ==
    ASSUME Shape, PagesInv, ReadersInv, ReadFresh, NEW t \in Tasks
    PROVE  Begin(t)
           => PagesInv' /\ ReadersInv' /\ ReadFresh'
<1>1. ASSUME NEW o \in Ops,
             NEW l \in {"getattr", "find_page", "lock_setattr"}, Call(t, o), Goto(t, l),
             o.kind = "read" => l = "getattr"
      PROVE  PagesInv' /\ ReadersInv' /\ ReadFresh'
  <2> USE <1>1
  <2>1. /\ Others(t) /\ pc[t] = "idle" /\ pc'[t] = l /\ op'[t] = o
        /\ since'[t] = srv.mtime /\ got'[t] = <<>>
        /\ \A u \in Tasks \ {t} : got'[u] = got[u] /\ beside'[u] = beside[u]
        /\ UNCHANGED <<srv, past, uptodate, dirty, lost, content, i_mtime>>
    BY Known, Zenon DEF Call, Goto, TaskTypes, Others, pageVars, storeVars, inodeVars
  <2>2. Calm(t) /\ pc'[t] \notin {"writepage", "write", "write_end"}
        /\ pc'[t] \notin {"vmtruncate", "setattr"}
        /\ pc'[t] \notin {"invalidate", "set_size", "set_mtime"}
    BY <2>1, Zenon DEF Calm
  <2>3. NoFresher
    BY <2>1, <2>2, StillFresh, Zenon
  <2>4. o.kind = "read" => \A v \in Tasks : pc[v] \in {"write", "vmtruncate", "setattr"} =>
           Ahead(v) \subseteq beside'[t]
    BY Known, Zenon DEF Call, TaskTypes
  <2>5. ASSUME o.kind = "read" PROVE ReaderInv(t)'
    <3>1. PICK p \in Pages : p = o.page
      BY <2>5, OpFields, Zenon
    <3>2. srv.mtime \in Nat /\ srv.data = past[srv.mtime + 1]
      BY Known, Zenon DEF Shape, ServerInv
    <3>3. ASSUME NEW v \in Tasks, pc[v] \in {"vmtruncate", "setattr"}
          PROVE  ZERO \in beside'[t]
      <4>1. op[v].kind = "truncate"
        BY <3>3, Known, Zenon DEF PlaceInv, Truncating
      <4>2. ZERO \in Ahead(v)
        BY <4>1, Zenon DEF Ahead
      <4> QED
        BY <2>4, <2>5, <3>3, <4>2, Zenon
    <3>4. \A v \in Tasks : pc'[v] \in {"vmtruncate", "setattr"} => ZERO \in beside'[t]
      BY <2>1, <2>2, <3>3, Zenon DEF Others
    <3>5. ASSUME FreshSince(p, srv.mtime), NEW v \in Tasks, WorksOn(v, p, {"fill"})'
          PROVE  rep'[v].mtime >= since'[t]
      <4>1. v # t
        BY <2>1, <3>5, Zenon DEF WorksOn
      <4>2. WorksOn(v, p, {"fill"}) /\ rep'[v] = rep[v]
        BY <2>1, <3>5, <4>1, Zenon DEF WorksOn, Others
      <4>3. rep[v].mtime = srv.mtime
        BY <3>5, <4>2, Zenon DEF PagesInv, PageInv
      <4> QED
        BY <2>1, <3>2, <4>2, <4>3
    <3>6. ASSUME FreshSince(p, srv.mtime), Live(p)', ~Unsaved(p)', NEW b \in BlocksOf(p)
          PROVE  SoundNext(t, b, content'[b])
      <4>1. ~Unsaved(p) /\ PageInv(p)
        <5>1. \A u \in Tasks : Calm(u)
          BY <2>1, <2>2, Zenon DEF Others, Calm
        <5> QED
          BY <2>1, <3>6, <5>1, UnsavedKept, Zenon DEF PagesInv
      <4>2. ASSUME NEW v, v = srv.data[b] PROVE SoundNext(t, b, v)
        <5>1. srv'.mtime \in since'[t]..srv'.mtime /\ past'[srv'.mtime + 1] = srv.data
          BY <2>1, <3>2
        <5> QED
          BY <4>2, <5>1, Zenon DEF SoundNext
      <4>3. ASSUME NEW v \in Tasks, pc[v] = "write", content[b] \in Ahead(v)
            PROVE  SoundNext(t, b, content'[b])
        BY <2>1, <2>4, <2>5, <4>3, Zenon DEF SoundNext
      <4>4. CASE p \in uptodate
        <5>1. content[b] = srv.data[b] \/ AheadIn(p, content[b])
          BY <3>6, <4>1, <4>4, Zenon DEF PageInv
        <5>2. CASE AheadIn(p, content[b])
          <6>1. CASE content[b] = ZERO /\ \E u \in Tasks : pc[u] \in {"vmtruncate", "setattr"}
            BY <2>1, <3>3, <6>1, Zenon DEF SoundNext
          <6>2. CASE \E u \in Tasks : WorksOn(u, p, {"write"}) /\ content[b] \in Ahead(u)
            BY <4>3, <6>2, Zenon DEF WorksOn
          <6> QED
            BY <5>2, <6>1, <6>2, Zenon DEF AheadIn
        <5> QED
          BY <2>1, <4>2, <5>1, <5>2, Zenon
      <4>5. CASE p \notin uptodate
        <5>1. PICK v \in Tasks : WorksOn(v, p, {"write", "write_end"})'
          BY <2>1, <3>6, <4>5, Zenon DEF Live
        <5>2. pc[v] \in {"write", "write_end"} /\ op[v].page = p
          BY <2>1, <2>2, <5>1, Zenon DEF WorksOn, Others
        <5>3. pc[v] = "write"
          BY <3>6, <4>1, <5>2, Zenon DEF PageInv, WorksOn
        <5>4. op[v].kind = "write"
          BY <5>3, Known, Zenon DEF PlaceInv, Writing
        <5>5. content[b] \in Ahead(v)
          BY <3>6, <4>5, <5>2, <5>4, Zenon DEF Ahead
        <5> QED
          BY <4>3, <5>3, <5>5, Zenon
      <4> QED
        BY <4>4, <4>5, Zenon
    <3>7. FreshSince(p, srv.mtime)' => FreshSince(p, srv.mtime)
      BY <2>1, <2>3, <3>2, Zenon DEF NoFresher, FreshNext, FreshSince
    <3>8. FreshSince(p, since[t])' => FreshSince(p, srv.mtime)
      BY <2>1, <3>7, Zenon DEF FreshSince
    <3>9. pc'[t] # "find_page" /\ op'[t].page = p
      BY <2>1, <2>5, <3>1, Zenon
    <3> QED
      BY <3>4, <3>5, <3>6, <3>8, <3>9, Zenon DEF ReaderInv, Sound, SoundNext
  <2>6. ReaderInv(t)'
    BY <2>1, <2>5, Zenon DEF ReaderInv, Reading
  <2>7. \A b \in DOMAIN got'[t] : SoundNext(t, b, got'[t][b])
    BY <2>1
  <2>8. \A u \in Tasks \ {t} : beside[u] \subseteq beside'[u] /\ got'[u] = got[u]
    BY <2>1, Zenon
  <2> QED
    BY <2>1, <2>2, <2>3, <2>6, <2>7, <2>8, QuietFresh, Zenon
<1>2. ASSUME NEW q \in Pages,
             uvfs_writepage(t, q)
      PROVE  PagesInv' /\ ReadersInv' /\ ReadFresh'
  <2> USE <1>2
  <2>1. /\ UNCHANGED <<srv, past, uptodate, content, i_mtime, next, since, beside>>
        /\ pc[t] = "idle" /\ locker[q] = NULL /\ dirty' = dirty \ {q}
        /\ lost' = lost \cup (IF PageEnd(q) < (q + 1) * PageSize THEN {q} ELSE {})
    BY Zenon DEF uvfs_writepage, srvVars, inodeVars, histVars
  <2>2. \/ UNCHANGED <<pc, op, rep, got>> /\ q * PageSize >= i_size
        \/ /\ op' = [op EXCEPT ![t] = [kind |-> "writepage", page |-> q]]
           /\ rep' = [rep EXCEPT ![t] = [data |-> content, size |-> PageEnd(q), mtime |-> 0]]
           /\ got' = [got EXCEPT ![t] = <<>>] /\ Goto(t, "writepage")
    BY Zenon DEF uvfs_writepage
  <2>3. /\ Others(t) /\ (\A u \in Tasks \ {t} : got'[u] = got[u])
        /\ \/ UNCHANGED <<pc, op, rep, got>> /\ q * PageSize >= i_size
           \/ /\ pc'[t] = "writepage" /\ op'[t] = [kind |-> "writepage", page |-> q]
              /\ rep'[t] = [data |-> content, size |-> PageEnd(q), mtime |-> 0]
              /\ got'[t] = <<>>
    BY <2>1, <2>2, Known, Zenon DEF TaskTypes, Goto, Others
  <2>4. \A u \in Tasks : Calm(u) /\ beside[u] \subseteq beside'[u]
    BY <2>1, <2>3, Zenon DEF Others, Calm
  <2>5. NoFresher
    <3>1. pc'[t] \notin {"invalidate", "set_size", "set_mtime"}
      BY <2>1, <2>3, Zenon
    <3> QED
      BY <2>1, <2>3, <3>1, StillFresh, Zenon
  <2>6. ASSUME NEW p \in Pages, p # q PROVE SamePage(p)
    BY <2>1, <2>5, <2>6, Zenon DEF SamePage, NoFresher
  <2>7. i_size \in Int /\ q * PageSize \in Int /\ (q + 1) * PageSize > q * PageSize
        /\ (q + 1) * PageSize \in Int
    BY PageBounds, Known DEF InodeTypes, FileSizes
  <2>8. Unsaved(q)'
    <3>1. CASE q * PageSize >= i_size
      BY <2>1, <2>7, <3>1 DEF Unsaved, PageEnd
    <3>2. CASE pc'[t] = "writepage" /\ op'[t] = [kind |-> "writepage", page |-> q]
      BY <3>2 DEF Unsaved
    <3> QED
      BY <2>3, <3>1, <3>2, Zenon
  <2>9. PageInv(q)'
    <3>1. srv.mtime \in Nat /\ \A u \in Tasks : Calm(u)
      BY <2>4, Known, Zenon
    <3> QED
      BY <2>1, <2>5, <2>8, <3>1, PageStep, Zenon DEF PagesInv, NoFresher
  <2>10. ASSUME NEW u \in Tasks, Reading(u)'
         PROVE  u # t /\ op'[u] = op[u] /\ pc'[u] = pc[u] /\ (op[u].page = q => ReaderInv(u)')
    <3>1. u # t
      BY <2>1, <2>3, <2>10, Known DEF Reading, PlaceInv
    <3>2. op'[u] = op[u] /\ pc'[u] = pc[u] /\ beside'[u] = beside[u] /\ Reading(u)
      BY <2>1, <2>3, <2>10, <3>1, Zenon DEF Others, Reading
    <3>3. \A v \in Tasks : /\ WorksOn(v, q, {"fill"})' =>
                                WorksOn(v, q, {"fill"}) /\ rep'[v] = rep[v]
                           /\ pc'[v] \in {"vmtruncate", "setattr"} =>
                                pc[v] \in {"vmtruncate", "setattr"}
      BY <2>1, <2>3, Zenon DEF WorksOn, Others
    <3> QED
      BY <2>1, <2>5, <2>8, <3>1, <3>2, <3>3, SameReader, Zenon
  <2>11. ASSUME NEW u \in Tasks, pc'[u] = "writepage"
         PROVE  \/ pc[u] = "writepage" /\ op'[u] = op[u] /\ rep'[u] = rep[u] /\ op[u].page # q
                \/ WritebackInv(u)'
    <3>1. CASE u # t
      <4>1. pc[u] = "writepage" /\ op'[u] = op[u] /\ rep'[u] = rep[u]
        BY <2>3, <2>11, <3>1, Zenon DEF Others
      <4> QED
        BY <2>1, <4>1, UnlockedPage, Zenon DEF WorksOn
    <3>2. CASE u = t
      <4>1. op'[t].page = q /\ rep'[t].data = content /\ rep'[t].size = PageEnd(q)
        BY <2>1, <2>3, <2>11, <3>2
      <4>2. q \notin lost' => PageEnd(q) = (q + 1) * PageSize
        BY <2>1, <2>7, Zenon DEF PageEnd
      <4> QED
        BY <2>1, <3>2, <4>1, <4>2, Zenon DEF WritebackInv
    <3> QED
      BY <3>1, <3>2, Zenon
  <2>12. \A u \in Tasks : /\ pc'[u] \in {"write", "write_end"} =>
                               op'[u] = op[u] /\ pc[u] \in {"write", "write_end"}
                          /\ pc'[u] \in {"vmtruncate", "setattr"} =>
                               pc[u] \in {"vmtruncate", "setattr"}
    BY <2>1, <2>3, Zenon DEF Others
  <2>13. \A u \in Tasks : got'[u] # got[u] =>
                \A b \in DOMAIN got'[u] : SoundNext(u, b, got'[u][b])
    BY <2>3
  <2> QED
    BY <2>1, <2>4, <2>6, <2>9, <2>10, <2>11, <2>12, <2>13, OnePage, Zenon
<1>3. ASSUME Begin(t)
      PROVE  PagesInv' /\ ReadersInv' /\ ReadFresh'
  <2> USE <1>3
  <2>1. CASE uvfs_getattr(t) \/ uvfs_file_mmap(t)
    <3>1. [kind |-> "stat"] \in Ops
      BY Zenon DEF Ops
    <3> QED
      BY <2>1, <3>1, <1>1, Zenon DEF uvfs_getattr, uvfs_file_mmap
  <2>2. ASSUME NEW p \in Pages, uvfs_file_read(t, p)
        PROVE  PagesInv' /\ ReadersInv' /\ ReadFresh'
    <3>1. [kind |-> "read", page |-> p] \in Ops
      BY Zenon DEF Ops
    <3> QED
      BY <2>2, <3>1, <1>1, Zenon DEF uvfs_file_read
  <2>3. ASSUME NEW p \in Pages, fault(t, p)
        PROVE  PagesInv' /\ ReadersInv' /\ ReadFresh'
    <3>1. [kind |-> "fault", page |-> p] \in Ops
      BY Zenon DEF Ops
    <3> QED
      BY <2>3, <3>1, <1>1, Zenon DEF fault
  <2>4. ASSUME NEW p \in Pages, NEW r \in Ranges, NEW n \in 0..PageSize,
               uvfs_file_write(t, p, r, n)
        PROVE  PagesInv' /\ ReadersInv' /\ ReadFresh'
    <3> DEFINE o == [kind |-> "write", page |-> p, from |-> r[1], to |-> r[2],
                     copied |-> n, val |-> Change(issued')]
    <3>1. Call(t, o) /\ Goto(t, "getattr")
      BY <2>4, Zenon DEF uvfs_file_write
    <3>2. issued' \in 0..MaxChanges
      BY <2>4, FileConstants, Known DEF uvfs_file_write, ServerTypes
    <3>3. /\ r[1] \in 0..PageSize /\ r[2] \in 0..PageSize
          /\ r[1] + n <= r[2] /\ (n = 0 => 0 \in ShortCopies)
      BY <2>4, FileConstants DEF uvfs_file_write
    <3>4. Change(issued') \in Values
      BY <3>2, ChangeValue, Zenon
    <3>5. o \in Ops
      BY <3>3, <3>4, Zenon DEF Ops
    <3> HIDE DEF o
    <3> QED
      BY <3>1, <3>5, <1>1, Zenon
  <2>5. ASSUME NEW n \in Sizes, uvfs_setattr(t, n)
        PROVE  PagesInv' /\ ReadersInv' /\ ReadFresh'
    <3>1. [kind |-> "truncate", size |-> n] \in Ops
      BY FileConstants, Zenon DEF Ops, FileSizes
    <3> QED
      BY <2>5, <3>1, <1>1, Zenon DEF uvfs_setattr
  <2> QED
    BY <2>1, <2>2, <2>3, <2>4, <2>5, <1>2, Zenon DEF Begin
<1> QED
  BY <1>3, Zenon

\* uvfs_revalidate_inode, uvfs_refresh_inode and the page-cache part of a
\* truncation: here a page becomes fresher, and it is dropped before it does.
LEMMA RefreshFresh ==
    ASSUME Shape, PagesInv, ReadersInv, ReadFresh, NEW t \in Tasks
    PROVE  \/ revalidate_request(t) \/ refresh_compare(t) \/ refresh_size(t)
           \/ refresh_mtime(t) \/ refresh_invalidate(t) \/ setattr_vmtruncate(t)
           => PagesInv' /\ ReadersInv' /\ ReadFresh'
<1>1. ASSUME revalidate_request(t)
      PROVE  PagesInv' /\ ReadersInv' /\ ReadFresh'
  <2> USE <1>1
  <2>1. /\ UNCHANGED <<srv, past, uptodate, dirty, lost, content, i_mtime, since>>
        /\ UNCHANGED <<got, beside>> /\ pc[t] = "getattr"
    BY Zenon DEF revalidate_request, srvVars, pageVars, storeVars, inodeVars, histVars
  <2>2. CASE Return(t)
    BY <2>1, <2>2, GotKept, ReturnFresh, Zenon
  <2>3. CASE /\ rep' = [rep EXCEPT ![t] = [srv EXCEPT !.data = <<>>]]
             /\ Goto(t, "refresh") /\ UNCHANGED <<op, next>>
    <3>1. Others(t) /\ pc'[t] = "refresh"
      BY <2>1, <2>3, Known, Zenon DEF TaskTypes, Goto, Others
    <3>2. NoFresher
      BY <2>1, <3>1, StillFresh, Zenon
    <3>3. Calm(t)
      BY <2>1, <3>1, Zenon DEF Calm
    <3> QED
      BY <2>1, <2>3, <3>1, <3>2, <3>3, MoveFresh, Zenon
  <2> QED
    BY <2>2, <2>3, Zenon DEF revalidate_request
<1>2. ASSUME refresh_compare(t) \/ refresh_size(t)
      PROVE  PagesInv' /\ ReadersInv' /\ ReadFresh'
  <2> USE <1>2
  <2>1. /\ UNCHANGED <<srv, past, uptodate, dirty, lost, content, i_mtime, since>>
        /\ UNCHANGED <<op, rep, next, got, beside>>
    BY Zenon DEF refresh_compare, refresh_size, srvVars, pageVars, storeVars, inodeVars, histVars
  <2>2. PICK l \in {"invalidate", "set_size", "set_mtime"} :
           /\ Goto(t, l)
           /\ l = "invalidate" => pc[t] = "refresh"
           /\ l = "set_size" => pc[t] = "refresh" /\ i_mtime = rep[t].mtime
           /\ l = "set_mtime" => pc[t] = "set_size"
    BY Zenon DEF refresh_compare, refresh_size, Differs
  <2>3. Others(t) /\ pc'[t] = l
    BY <2>1, <2>2, Known, Zenon DEF TaskTypes, Goto, Others
  <2>4. rep[t] \in Replies /\ rep[t].mtime \in Nat /\ next[t] = 0
    BY <2>2, Known, Zenon DEF ReplyInv, PlaceInv, Refreshing, Replies
  <2>5. NoFresher
    <3>1. ASSUME NEW p \in Pages
          PROVE  \/ ~PassedBy(t, p)'
                 \/ PassedBy(t, p) \/ i_mtime >= rep[t].mtime
      BY <2>1, <2>2, <2>3, <2>4, FileConstants DEF PassedBy, Pages
    <3> QED
      BY <2>1, <2>3, <2>4, <3>1, FreshBack, Zenon DEF NoFresher
  <2>6. Calm(t)
    BY <2>2, <2>3, Zenon DEF Calm
  <2> QED
    BY <2>1, <2>2, <2>3, <2>5, <2>6, MoveFresh, Zenon
<1>3. ASSUME refresh_mtime(t)
      PROVE  PagesInv' /\ ReadersInv' /\ ReadFresh'
  <2> USE <1>3
  <2>1. /\ UNCHANGED <<srv, past, uptodate, dirty, lost, content, since, got, beside>>
        /\ i_mtime' = rep[t].mtime /\ pc[t] = "set_mtime"
    BY Zenon DEF refresh_mtime, srvVars, pageVars, storeVars, histVars
  <2>2. CASE Return(t)
    BY <2>1, <2>2, GotKept, ReturnFresh, Zenon
  <2>3. CASE /\ Goto(t, "find_page") \/ Goto(t, "lock_inode")
             /\ rep' = [rep EXCEPT ![t] = NULL] /\ UNCHANGED <<op, next>>
    <3>1. Others(t) /\ pc'[t] \in {"find_page", "lock_inode"}
      BY <2>1, <2>3, Known, Zenon DEF TaskTypes, Goto, Others
    <3>2. NoFresher
      <4>1. ASSUME NEW p \in Pages PROVE PassedBy(t, p) /\ ~PassedBy(t, p)'
        BY <2>1, <3>1, Zenon DEF PassedBy
      <4> QED
        BY <2>1, <3>1, <4>1, FreshBack, Zenon DEF NoFresher
    <3>3. Calm(t)
      BY <2>1, <3>1, Zenon DEF Calm
    <3>4. FreshSince(op[t].page, since[t])
      <4>1. PassedBy(t, op[t].page)
        BY <2>1, Zenon DEF PassedBy
      <4>2. rep[t].mtime >= since[t]
        BY <2>1, Known, Zenon DEF ReplyInv, Refreshing, Replies, TaskTypes
      <4> QED
        BY <4>1, <4>2, Zenon DEF FreshSince
    <3> QED
      BY <2>1, <2>3, <3>1, <3>2, <3>3, <3>4, MoveFresh, Zenon
  <2> QED
    BY <2>2, <2>3, Zenon DEF refresh_mtime
<1>4. ASSUME refresh_invalidate(t) \/ setattr_vmtruncate(t), pc' # pc
      PROVE  PagesInv' /\ ReadersInv' /\ ReadFresh'
  <2> USE <1>4
  <2>1. /\ UNCHANGED <<srv, past, uptodate, dirty, lost, content, i_mtime, since>>
        /\ UNCHANGED <<op, rep, got, beside>>
    BY Zenon DEF refresh_invalidate, setattr_vmtruncate, srvVars, storeVars, inodeVars, histVars
  <2>2. PICK l \in {"set_size", "setattr"} :
           /\ Goto(t, l) /\ (next' = [next EXCEPT ![t] = 0] \/ next' = next)
           /\ pc[t] = (IF l = "set_size" THEN "invalidate" ELSE "vmtruncate")
           /\ next[t] = NPages
    BY Zenon DEF refresh_invalidate, setattr_vmtruncate
  <2>3. Others(t) /\ pc'[t] = l
    BY <2>1, <2>2, Known, Zenon DEF TaskTypes, Goto, Others
  <2>4. NoFresher
    <3>1. l = "set_size" => rep[t] \in Replies
      BY <2>2, Known, Zenon DEF ReplyInv, Refreshing
    <3>2. ASSUME NEW p \in Pages
          PROVE  ~PassedBy(t, p)' \/ (l = "set_size" /\ PassedBy(t, p))
      BY <2>2, <2>3, FileConstants DEF PassedBy, Pages
    <3> QED
      BY <2>1, <2>3, <3>1, <3>2, FreshBack, Zenon DEF NoFresher
  <2>5. Calm(t)
    BY <2>2, <2>3, Zenon DEF Calm
  <2> QED
    BY <2>1, <2>2, <2>3, <2>4, <2>5, MoveFresh, Zenon
<1>5. ASSUME refresh_invalidate(t) \/ setattr_vmtruncate(t), UNCHANGED pc
      PROVE  PagesInv' /\ ReadersInv' /\ ReadFresh'
  <2> USE <1>5
  <2>1. /\ UNCHANGED <<srv, past, issued, locker, i_size, i_mtime, i_mutex>>
        /\ UNCHANGED <<pc, op, rep, got, since, beside>>
        /\ pc[t] \in {"invalidate", "vmtruncate"}
    BY Zenon DEF refresh_invalidate, setattr_vmtruncate, srvVars, inodeVars, histVars
  <2>2. PICK q \in Pages :
        /\ q = next[t] /\ locker[q] = NULL /\ next' = [next EXCEPT ![t] = q + 1]
        /\ \/ Drop(q)
           \/ /\ UNCHANGED <<cached, uptodate, dirty, lost>>
              /\ \/ pc[t] = "invalidate" /\ q \in dirty /\ content' = content
                 \/ /\ pc[t] = "vmtruncate"
                    /\ content' = [b \in Blocks |->
                                     IF b \in BlocksOf(q) /\ b >= op[t].size /\ q \in cached
                                     THEN ZERO ELSE content[b]]
    <3>1. pc'[t] \in {"invalidate", "vmtruncate"}
      BY <2>1, Zenon
    <3>2. \A l \in PCs : Goto(t, l) => pc'[t] = l
      BY Known, Zenon DEF Goto, TaskTypes
    <3> QED
      BY <2>1, <3>1, <3>2, Zenon DEF refresh_invalidate, setattr_vmtruncate, storeVars, PCs
  <2>3. Others(t) /\ next'[t] = q + 1
    BY <2>1, <2>2, Known, Zenon DEF TaskTypes, Others
  <2>4. \A u \in Tasks : /\ Calm(u) /\ beside[u] \subseteq beside'[u]
                         /\ pc'[u] = pc[u] /\ op'[u] = op[u] /\ rep'[u] = rep[u]
                         /\ got'[u] = got[u]
    BY <2>1, Zenon DEF Calm
  <2>5. ASSUME NEW p \in Pages, p # q \/ pc[t] = "vmtruncate", NEW m \in Nat, FreshNext(p, m)
        PROVE  FreshSince(p, m)
    <3>1. ~PassedBy(t, p)' \/ (PassedBy(t, p) /\ pc[t] = "invalidate")
      BY <2>1, <2>2, <2>3, <2>5, FileConstants DEF PassedBy, Pages
    <3>2. pc[t] = "invalidate" => rep[t] \in Replies
      BY Known, Zenon DEF ReplyInv, Refreshing
    <3> QED
      BY <2>1, <2>3, <2>5, <3>1, <3>2, FreshBack, Zenon
  <2>6. ASSUME NEW p \in Pages, p # q PROVE SamePage(p)
    <3>1. \A b \in BlocksOf(p) : b \in Blocks /\ b \notin BlocksOf(q)
      BY <2>6, BlocksInFile, BlocksApart, Zenon
    <3>2. \A b \in BlocksOf(p) : content'[b] = content[b]
      BY <2>2, <3>1, Zenon DEF Drop
    <3>3. p \in uptodate' <=> p \in uptodate
      BY <2>2, <2>6, Zenon DEF Drop
    <3>4. p \in dirty \cup lost => p \in dirty' \cup lost'
      BY <2>2, <2>6, Zenon DEF Drop
    <3> QED
      BY <2>5, <2>6, <3>2, <3>3, <3>4, Zenon DEF SamePage
  <2>7. \A u \in Tasks : /\ ~WorksOn(u, q, {"fill"})' /\ ~WorksOn(u, q, {"write", "write_end"})'
                         /\ ~WorksOn(u, q, {"write_end", "writepage_end"})'
                         /\ ~WorksOn(u, q, {"writepage"})
    BY <2>1, <2>2, UnlockedPage, Zenon DEF WorksOn
  <2>8. q \in uptodate' /\ ~Unsaved(q)' =>
           /\ pc[t] = "vmtruncate" /\ q \in uptodate /\ ~Unsaved(q)
           /\ \A b \in BlocksOf(q) : content'[b] = content[b] \/ content'[b] = ZERO
    <3>1. CASE Drop(q)
      BY <3>1, Zenon DEF Drop
    <3>2. CASE UNCHANGED <<cached, uptodate, dirty, lost>> /\ ~Drop(q)
      <4>1. Unsaved(q) => Unsaved(q)'
        BY <2>4, <3>2, UnsavedKept, Zenon
      <4>2. q \in dirty => Unsaved(q)'
        BY <3>2, Zenon DEF Unsaved
      <4>3. \A b \in BlocksOf(q) : b \in Blocks
        BY BlocksInFile, Zenon
      <4> QED
        BY <2>2, <3>2, <4>1, <4>2, <4>3, Zenon
    <3> QED
      BY <2>2, <3>1, <3>2, Zenon
  <2>9. PageInv(q)'
    <3>1. CASE q \in uptodate' /\ ~Unsaved(q)'
      <4>1. ASSUME NEW b \in BlocksOf(q)
            PROVE  \/ q \in uptodate /\ ~Unsaved(q) /\ content'[b] = content[b]
                   \/ AheadIn(q, content[b])'
        BY <2>1, <2>8, <3>1, Zenon DEF AheadIn
      <4>2. srv.mtime \in Nat
        BY Known, Zenon
      <4> QED
        BY <2>1, <2>4, <2>5, <2>8, <3>1, <4>1, <4>2, PageStep, Zenon DEF PagesInv
    <3> QED
      BY <2>7, <3>1, Zenon DEF PageInv
  <2>10. ASSUME NEW u \in Tasks, Reading(u), op[u].page = q PROVE ReaderInv(u)'
    <3>1. ZERO \in beside'[u] \/ pc[t] # "vmtruncate"
      BY <2>1, <2>10, Zenon DEF ReadersInv, ReaderInv
    <3>2. CASE pc[t] = "vmtruncate"
      <4>1. Live(q)' /\ ~Unsaved(q)' =>
               \A b \in BlocksOf(q) :
                  \/ SoundNext(u, b, content'[b])
                  \/ Live(q) /\ ~Unsaved(q) /\ content'[b] = content[b]
        BY <2>7, <2>8, <3>1, <3>2, Zenon DEF Live, SoundNext
      <4>2. since[u] \in Nat
        BY Known, Zenon DEF TaskTypes
      <4>3. pc'[u] = "find_page" \/ FreshNext(q, since[u]) =>
               pc[u] = "find_page" \/ FreshSince(q, since[u])
        BY <2>4, <2>5, <3>2, <4>2, Zenon
      <4>4. srv'.mtime \in Nat /\ srv.mtime <= srv'.mtime
            /\ \A k \in 1..Len(past) : past'[k] = past[k]
        BY <2>1, Known
      <4> QED
        BY <2>1, <2>4, <2>7, <2>10, <4>1, <4>3, <4>4, ReaderStep, Zenon DEF ReadersInv
    <3>3. CASE pc[t] # "vmtruncate"
      <4>1. ~(Live(q)' /\ ~Unsaved(q)')
        BY <2>7, <2>8, <3>3, Zenon DEF Live
      <4>2. \A v \in Tasks : pc'[v] \in {"vmtruncate", "setattr"} => ZERO \in beside'[u]
        BY <2>1, <2>10, Zenon DEF ReadersInv, ReaderInv
      <4> QED
        BY <2>1, <2>7, <2>10, <4>1, <4>2, Zenon DEF ReaderInv
    <3> QED
      BY <3>2, <3>3, Zenon
  <2>11. \A u \in Tasks : pc'[u] = "writepage" =>
            pc[u] = "writepage" /\ op'[u] = op[u] /\ rep'[u] = rep[u] /\ op[u].page # q
    BY <2>4, <2>7, Zenon DEF WorksOn
  <2>12. \A u \in Tasks : Reading(u)' =>
                /\ op'[u] = op[u]
                /\ pc'[u] = "find_page" => pc[u] = "find_page"
                /\ op[u].page = q => ReaderInv(u)'
    BY <2>1, <2>10, Zenon DEF Reading
  <2>13. \A u \in Tasks : pc'[u] \in {"write", "write_end"} =>
                op'[u] = op[u] /\ (pc[u] \in {"write", "write_end"} \/ op[u].page = q)
    BY <2>1, Zenon
  <2> QED
    BY <2>1, <2>4, <2>6, <2>9, <2>11, <2>12, <2>13, OnePage, Zenon
<1> QED
  BY <1>1, <1>2, <1>3, <1>4, <1>5, Zenon

\* The reading side, and the steps of a write that leave its page alone.
LEMMA ReaderFresh ==
    ASSUME Shape, PagesInv, ReadersInv, ReadFresh, NEW t \in Tasks
    PROVE  \/ read_cached(t) \/ read_lock_page(t) \/ uvfs_write_begin(t)
           \/ write_lock_inode(t) \/ readpage_request(t) \/ readpage_nomem(t)
           \/ writepage_end(t) \/ write_begin_nomem(t) \/ setattr_end(t) \/ readpage_fill(t)
           => PagesInv' /\ ReadersInv' /\ ReadFresh'
<1>1. ASSUME read_cached(t)
      PROVE  PagesInv' /\ ReadersInv' /\ ReadFresh'
  <2> USE <1>1
  <2> DEFINE p == op[t].page
  <2>1. /\ UNCHANGED <<srv, past, uptodate, dirty, lost, content, i_mtime, since>>
        /\ pc[t] = "find_page" /\ Return(t) /\ p \in uptodate
        /\ got' = [got EXCEPT ![t] = Given(t, content)]
        /\ beside' = [beside EXCEPT ![t] =
                         IF Unsaved(p) /\ op[t].kind = "read" THEN Values ELSE @]
    BY Zenon DEF read_cached, srvVars, pageVars, storeVars, inodeVars
  <2>2. /\ got'[t] = Given(t, content)
        /\ beside'[t] = IF Unsaved(p) /\ op[t].kind = "read" THEN Values ELSE beside[t]
        /\ \A u \in Tasks \ {t} : beside'[u] = beside[u] /\ got'[u] = got[u]
    BY <2>1, Known, Zenon
  <2>3. op[t] \in Ops /\ op[t].kind \in {"read", "fault"} /\ p \in Pages
    BY <2>1, Known, OpFields, Zenon DEF PlaceInv
  <2>4. ASSUME NEW b \in DOMAIN got'[t] PROVE SoundNext(t, b, got'[t][b])
    <3>1. op[t].kind = "read" /\ b \in BlocksOf(p) /\ got'[t][b] = content[b]
      BY <2>2, <2>4 DEF Given, Visible
    <3>2. CASE Unsaved(p)
      <4>1. content[b] \in Values
        BY <2>3, <3>1, BlocksInFile, Known, Zenon DEF PageTypes
      <4> QED
        BY <2>2, <3>1, <3>2, <4>1 DEF SoundNext
    <3>3. CASE ~Unsaved(p)
      <4>1. Sound(t, b, content[b])
        <5>1. Reading(t) /\ Live(p)
          BY <2>1, <2>3, <3>1, OpFields, Zenon DEF Reading, Live
        <5> QED
          BY <2>1, <3>1, <3>3, <5>1, Zenon DEF ReadersInv, ReaderInv
      <4>2. srv'.mtime \in Nat /\ srv.mtime <= srv'.mtime
            /\ \A k \in 1..Len(past) : past'[k] = past[k]
        BY <2>1, Known
      <4>3. since'[t] = since[t] /\ beside[t] \subseteq beside'[t]
        BY <2>1, <2>2, <3>3, Zenon
      <4> QED
        BY <3>1, <4>1, <4>2, <4>3, SoundKept, Zenon
    <3> QED
      BY <3>2, <3>3, Zenon
  <2> QED
    BY <2>1, <2>2, <2>4, ReturnFresh, Zenon
<1>2. ASSUME read_lock_page(t) \/ uvfs_write_begin(t) \/ write_lock_inode(t)
      PROVE  PagesInv' /\ ReadersInv' /\ ReadFresh'
  <2> USE <1>2
  <2>1. /\ UNCHANGED <<srv, past, uptodate, dirty, lost, content, i_mtime, since>>
        /\ UNCHANGED <<op, rep, next, got, beside>>
        /\ pc[t] \in {"find_page", "write_begin", "lock_inode"}
    BY Zenon DEF read_lock_page, uvfs_write_begin, write_lock_inode, srvVars, pageVars, storeVars,
        inodeVars, histVars
  <2>2. PICK l \in {"readpage", "write_copy", "write_begin"} : Goto(t, l)
    BY Zenon DEF read_lock_page, uvfs_write_begin, write_lock_inode
  <2>3. Others(t) /\ pc'[t] = l
    BY <2>1, <2>2, Known, Zenon DEF TaskTypes, Goto, Others
  <2>4. NoFresher
    BY <2>1, <2>3, StillFresh, Zenon
  <2>5. Calm(t)
    BY <2>1, <2>3, Zenon DEF Calm
  <2> QED
    BY <2>1, <2>3, <2>4, <2>5, MoveFresh, Zenon
<1>3. ASSUME readpage_request(t)
      PROVE  PagesInv' /\ ReadersInv' /\ ReadFresh'
  <2> USE <1>3
  <2>1. /\ UNCHANGED <<srv, past, uptodate, dirty, lost, content, i_mtime, since>>
        /\ UNCHANGED <<got, beside>> /\ pc[t] = "readpage"
    BY Zenon DEF readpage_request, srvVars, storeVars, inodeVars, histVars
  <2>2. CASE Return(t)
    BY <2>1, <2>2, GotKept, ReturnFresh, Zenon
  <2>3. CASE /\ rep' = [rep EXCEPT ![t] = srv]
             /\ Goto(t, "fill") /\ UNCHANGED <<op, next>>
    <3>1. Others(t) /\ pc'[t] = "fill" /\ rep'[t] = srv
      BY <2>1, <2>3, Known, Zenon DEF TaskTypes, Goto, Others
    <3>2. NoFresher
      BY <2>1, <3>1, StillFresh, Zenon
    <3>3. Calm(t)
      BY <2>1, <3>1, Zenon DEF Calm
    <3> QED
      BY <2>1, <2>3, <3>1, <3>2, <3>3, MoveFresh, Zenon
  <2> QED
    BY <2>2, <2>3, Zenon DEF readpage_request
<1>4. ASSUME \/ readpage_nomem(t) \/ writepage_end(t)
             \/ write_begin_nomem(t) \/ setattr_end(t)
      PROVE  PagesInv' /\ ReadersInv' /\ ReadFresh'
  <2> USE <1>4
  <2>1. /\ UNCHANGED <<srv, past, uptodate, dirty, lost, content, i_mtime, since>>
        /\ UNCHANGED <<got, beside>> /\ Return(t)
        /\ pc[t] \in {"readpage", "writepage_end", "write_begin", "setattr_end"}
    BY Zenon DEF readpage_nomem, writepage_end, write_begin_nomem, setattr_end, srvVars,
        pageVars, storeVars, inodeVars, histVars
  <2>2. pc[t] \notin {"write", "writepage", "vmtruncate", "setattr"}
    BY <2>1, Zenon
  <2> QED
    BY <2>1, <2>2, GotKept, ReturnFresh, Zenon
<1>5. ASSUME readpage_fill(t)
      PROVE  PagesInv' /\ ReadersInv' /\ ReadFresh'
  <2> USE <1>5
  <2>1. /\ UNCHANGED <<srv, past, cached, dirty, lost, i_size, i_mtime, since, beside>>
        /\ pc[t] = "fill" /\ Return(t)
        /\ got' = [got EXCEPT ![t] = Given(t, content')]
        /\ uptodate' = uptodate \cup {op[t].page} /\ content' = Filled(rep[t], op[t].page)
    BY Zenon DEF readpage_fill, srvVars, storeVars, inodeVars, histVars
  <2>2. PICK q \in Pages : q = op[t].page
    BY <2>1, Known, OpFields, Zenon DEF PlaceInv
  <2>3. Others(t) /\ pc'[t] = "idle" /\ op'[t] = NULL
    BY <2>1, Known, Zenon DEF TaskTypes, Return, Goto, Others
  <2>4. /\ \A u \in Tasks : Calm(u) /\ beside[u] \subseteq beside'[u]
        /\ \A u \in Tasks \ {t} : got'[u] = got[u]
        /\ got'[t] = Given(t, content')
    <3>1. \A u \in Tasks : Calm(u)
      BY <2>1, <2>3, Zenon DEF Others, Calm
    <3> QED
      BY <2>1, <3>1, Known, Zenon
  <2>5. NoFresher
    BY <2>1, <2>3, StillFresh, Zenon
  <2>6. /\ rep[t].mtime \in Nat /\ since[t] <= rep[t].mtime /\ rep[t].mtime <= srv.mtime
        /\ srv.mtime \in Nat /\ srv.data = past[srv.mtime + 1]
    BY <2>1, Known, Zenon DEF ReplyInv, Refreshing, Replies, Shape, ServerInv
  <2>7. ASSUME NEW b \in BlocksOf(q) PROVE content'[b] = past[rep[t].mtime + 1][b]
    <3>1. b \in Blocks /\ b \in BlocksOf(op[t].page)
      BY <2>2, <2>7, BlocksInFile, Zenon
    <3>2. /\ rep[t].data = past[rep[t].mtime + 1] /\ rep[t].size \in Int /\ b \in Int
          /\ b >= rep[t].size => rep[t].data[b] = ZERO
      BY <2>1, <3>1, FileConstants, Known DEF ReplyInv, Replies, Blocks, FileSizes, Refreshing
    <3> QED
      BY <2>1, <3>1, <3>2 DEF Filled
  <2>8. ASSUME NEW p \in Pages, p # q PROVE SamePage(p)
    <3>1. \A b \in BlocksOf(p) : b \in Blocks /\ b \notin BlocksOf(q)
      BY <2>8, BlocksInFile, BlocksApart, Zenon
    <3>2. \A b \in BlocksOf(p) : content'[b] = content[b]
      BY <2>1, <2>2, <3>1, Zenon DEF Filled
    <3> QED
      BY <2>1, <2>2, <2>5, <2>8, <3>2, Zenon DEF SamePage, NoFresher
  <2>9. \A u \in Tasks \ {t} : PageHeld(u) => op[u].page # q
    BY <2>1, <2>2, HeldPage, Zenon DEF PageHeld
  <2>10. PageInv(q)'
    <3>1. ASSUME FreshSince(q, srv.mtime), NEW b \in BlocksOf(q)
          PROVE  content'[b] = srv.data[b]
      <4>1. rep[t].mtime = srv.mtime
        BY <2>1, <2>2, <3>1, Zenon DEF PagesInv, PageInv, WorksOn
      <4> QED
        BY <2>6, <2>7, <4>1, Zenon
    <3>2. \A u \in Tasks : Calm(u)
      BY <2>4, Zenon
    <3> QED
      BY <2>1, <2>5, <2>6, <3>1, <3>2, PageStep, Zenon DEF PagesInv, NoFresher
  <2>11. ASSUME NEW u \in Tasks \ {t}, Reading(u), op[u].page = q PROVE ReaderInv(u)'
    <3>1. /\ since[u] \in Nat /\ op'[u] = op[u] /\ pc'[u] = pc[u] /\ since'[u] = since[u]
          /\ beside[u] \subseteq beside'[u] /\ ReaderInv(u)
      BY <2>3, <2>4, Known, Zenon DEF TaskTypes, Others, ReadersInv
    <3>2. pc'[u] = "find_page" \/ FreshNext(q, since[u]) =>
             pc[u] = "find_page" \/ FreshSince(q, since[u])
      BY <2>5, <3>1, Zenon DEF NoFresher
    <3>3. \A v \in Tasks : ~WorksOn(v, q, {"fill"})'
      BY <2>3, <2>9, Zenon DEF WorksOn, Others, PageHeld
    <3>4. ASSUME pc[u] = "find_page" \/ FreshSince(q, since[u]), NEW b \in BlocksOf(q)
          PROVE  SoundNext(u, b, content'[b])
      <4>1. rep[t].mtime >= since[u]
        BY <2>1, <2>2, <2>11, <3>1, <3>4, Zenon DEF ReaderInv, WorksOn
      <4>2. rep[t].mtime \in since'[u]..srv'.mtime
        BY <2>1, <2>6, <3>1, <4>1
      <4> QED
        BY <2>1, <2>7, <4>2, Zenon DEF SoundNext
    <3>5. srv'.mtime \in Nat /\ srv.mtime <= srv'.mtime
          /\ \A k \in 1..Len(past) : past'[k] = past[k]
      BY <2>1, <2>6
    <3>6. \A v \in Tasks : pc'[v] \in {"vmtruncate", "setattr"} =>
             pc[v] \in {"vmtruncate", "setattr"}
      BY <2>3, Zenon DEF Others
    <3> QED
      BY <2>11, <3>1, <3>2, <3>3, <3>4, <3>5, <3>6, ReaderStep, Zenon
  <2>12. ASSUME NEW b \in DOMAIN got'[t] PROVE SoundNext(t, b, got'[t][b])
    <3>1. b \in BlocksOf(q) /\ got'[t][b] = content'[b]
      BY <2>2, <2>4, <2>12 DEF Given, Visible
    <3>2. rep[t].mtime \in since'[t]..srv'.mtime
      BY <2>1, <2>6, Known DEF TaskTypes
    <3> QED
      BY <2>1, <2>7, <3>1, <3>2, Zenon DEF SoundNext
  <2>13. \A u \in Tasks : pc'[u] = "writepage" =>
            pc[u] = "writepage" /\ op'[u] = op[u] /\ rep'[u] = rep[u] /\ op[u].page # q
    BY <2>3, <2>9, Zenon DEF PageHeld, Others
  <2>14. \A u \in Tasks : Reading(u)' =>
                /\ op'[u] = op[u]
                /\ pc'[u] = "find_page" => pc[u] = "find_page"
                /\ op[u].page = q => ReaderInv(u)'
    BY <2>3, <2>11, Zenon DEF Reading, Others
  <2>15. \A u \in Tasks : /\ pc'[u] \in {"write", "write_end"} =>
                               op'[u] = op[u] /\ pc[u] \in {"write", "write_end"}
                          /\ pc'[u] \in {"vmtruncate", "setattr"} =>
                               pc[u] \in {"vmtruncate", "setattr"}
    BY <2>3, Zenon DEF Others
  <2>16. \A u \in Tasks : got'[u] # got[u] =>
                \A b \in DOMAIN got'[u] : SoundNext(u, b, got'[u][b])
    BY <2>4, <2>12, Zenon
  <2> QED
    BY <2>1, <2>4, <2>8, <2>10, <2>13, <2>14, <2>15, <2>16, OnePage, Zenon
<1> QED
  BY <1>1, <1>2, <1>3, <1>4, <1>5, Zenon

\* The steps that change a page, or start to change the size.
LEMMA WriterFresh ==
    ASSUME Shape, PagesInv, ReadersInv, ReadFresh, NEW t \in Tasks
    PROVE  \/ setattr_size(t) \/ write_copy(t) \/ uvfs_write_end(t)
           => PagesInv' /\ ReadersInv' /\ ReadFresh'
<1>1. ASSUME setattr_size(t)
      PROVE  PagesInv' /\ ReadersInv' /\ ReadFresh'
  <2> USE <1>1
  <2>1. /\ UNCHANGED <<srv, past, uptodate, dirty, lost, content, i_mtime, since>>
        /\ UNCHANGED <<op, rep, next, got>> /\ Beside(t)
        /\ pc[t] = "lock_setattr" /\ Goto(t, "vmtruncate")
    BY Zenon DEF setattr_size, srvVars, pageVars, storeVars
  <2>2. Others(t) /\ pc'[t] = "vmtruncate"
    BY <2>1, Known, Zenon DEF TaskTypes, Goto, Others
  <2>3. Ahead(t) = {ZERO}
    BY <2>1, Known, Zenon DEF PlaceInv, Truncating, Ahead
  <2>4. /\ \A u \in Tasks : beside[u] \subseteq beside'[u]
        /\ \A u \in Tasks : Reading(u) => ZERO \in beside'[u]
    BY <2>1, <2>3, Zenon DEF Beside, Reading
  <2>5. NoFresher
    BY <2>1, <2>2, StillFresh, Zenon
  <2>6. Calm(t)
    BY <2>1, <2>2, Zenon DEF Calm
  <2> QED
    BY <2>1, <2>2, <2>4, <2>5, <2>6, MoveFresh, Zenon
<1>2. ASSUME write_copy(t)
      PROVE  PagesInv' /\ ReadersInv' /\ ReadFresh'
  <2> USE <1>2
  <2> DEFINE o == op[t]
  <2>1. /\ UNCHANGED <<srv, past, cached, uptodate, dirty, lost, i_size, i_mtime, since>>
        /\ UNCHANGED <<op, rep, next, got>>
        /\ pc[t] = "write_copy" /\ Goto(t, "write") /\ Beside(t)
        /\ content' = [b \in Blocks |->
                          CASE InRange(o, b, o.copied) -> o.val
                            [] InRange(o, b, o.to - o.from)
                                 /\ ~InRange(o, b, o.copied) -> ZERO
                            [] OTHER -> content[b]]
    BY Zenon DEF write_copy, srvVars, storeVars, inodeVars
  <2>2. o \in Ops /\ o.kind = "write" /\ o.page \in Pages
    BY <2>1, Known, OpFields, Zenon DEF PlaceInv, Writing
  <2>3. PICK q \in Pages : q = op[t].page
    BY <2>2, Zenon
  <2>4. Others(t) /\ pc'[t] = "write"
    BY <2>1, Known, Zenon DEF TaskTypes, Goto, Others
  <2>5. /\ \A u \in Tasks : Calm(u) /\ beside[u] \subseteq beside'[u]
        /\ \A u \in Tasks : Reading(u) => Ahead(t) \subseteq beside'[u]
    <3>1. \A u \in Tasks : Calm(u)
      BY <2>1, <2>4, Zenon DEF Others, Calm
    <3>2. \A u \in Tasks : beside[u] \subseteq beside'[u]
      BY <2>1, Zenon DEF Beside
    <3>3. \A u \in Tasks : Reading(u) => Ahead(t) \subseteq beside'[u]
      BY <2>1, Zenon DEF Beside, Reading
    <3> QED
      BY <3>1, <3>2, <3>3, Zenon
  <2>6. NoFresher
    BY <2>1, <2>4, StillFresh, Zenon
  <2>7. ASSUME NEW b \in Blocks
        PROVE  \/ content'[b] = content[b]
               \/ b \in BlocksOf(q) /\ content'[b] = o.val
               \/ b \in BlocksOf(q) /\ content'[b] = ZERO /\ o.copied < o.to - o.from
    <3>1. b \in Int /\ o.from \in Int /\ o.to \in Int /\ o.copied \in Int
      BY <2>2, OpFields, FileConstants DEF Blocks
    <3>2. InRange(o, b, o.to - o.from) /\ ~InRange(o, b, o.copied) => o.copied < o.to - o.from
      BY <2>2, <3>1, PageBounds DEF InRange
    <3>3. /\ InRange(o, b, o.copied) => b \in BlocksOf(q)
          /\ InRange(o, b, o.to - o.from) => b \in BlocksOf(q)
      BY <2>2, <2>3, <3>1, EndInFile, Zenon
    <3> HIDE DEF o
    <3> QED
      BY <2>1, <2>7, <3>2, <3>3, Zenon
  <2>8. ASSUME NEW p \in Pages, p # q PROVE SamePage(p)
    <3>1. \A b \in BlocksOf(p) : b \in Blocks /\ b \notin BlocksOf(q)
      BY <2>8, BlocksInFile, BlocksApart, Zenon
    <3>2. \A b \in BlocksOf(p) : content'[b] = content[b]
      BY <2>7, <3>1, Zenon
    <3> QED
      BY <2>1, <2>6, <2>8, <3>2, Zenon DEF SamePage, NoFresher
  <2>9. \A b \in BlocksOf(q) : content'[b] = content[b] \/ content'[b] \in Ahead(t) \cap Ahead(t)'
    BY <2>1, <2>2, <2>7, BlocksInFile, Zenon DEF Ahead
  <2>10. Unsaved(q) => Unsaved(q)'
    BY <2>1, <2>5, UnsavedKept, Zenon
  <2>11. PageInv(q)'
    <3>1. \A b \in BlocksOf(q) : content'[b] = content[b] \/ AheadIn(q, content[b])'
      BY <2>1, <2>3, <2>4, <2>9, Zenon DEF AheadIn, WorksOn
    <3>2. srv.mtime \in Nat /\ \A u \in Tasks : Calm(u)
      BY <2>5, Known, Zenon
    <3> QED
      BY <2>1, <2>6, <2>10, <3>1, <3>2, PageStep, Zenon DEF PagesInv, NoFresher
  <2>12. ASSUME NEW u \in Tasks, Reading(u), op[u].page = q PROVE ReaderInv(u)'
    <3>0. u # t
      BY <2>2, <2>12, Zenon DEF Reading
    <3>1. /\ since[u] \in Nat /\ op'[u] = op[u] /\ pc'[u] = pc[u] /\ since'[u] = since[u]
          /\ beside[u] \subseteq beside'[u] /\ ReaderInv(u)
      BY <2>4, <2>5, <3>0, Known, Zenon DEF TaskTypes, Others, ReadersInv
    <3>2. pc'[u] = "find_page" \/ FreshNext(q, since[u]) =>
             pc[u] = "find_page" \/ FreshSince(q, since[u])
      BY <2>6, <3>1, Zenon DEF NoFresher
    <3>3. \A v \in Tasks : /\ WorksOn(v, q, {"fill"})' => WorksOn(v, q, {"fill"}) /\ rep'[v] = rep[v]
                           /\ pc'[v] \in {"vmtruncate", "setattr"} =>
                                 pc[v] \in {"vmtruncate", "setattr"}
      BY <2>1, <2>4, Zenon DEF WorksOn, Others
    <3>4. ASSUME ~Unsaved(q)', NEW b \in BlocksOf(q)
          PROVE  \/ SoundNext(u, b, content'[b])
                 \/ Live(q) /\ ~Unsaved(q) /\ content'[b] = content[b]
      <4>1. CASE content'[b] \in Ahead(t)
        BY <2>5, <2>12, <4>1, Zenon DEF SoundNext
      <4>2. CASE content'[b] = content[b] /\ q \in uptodate
        BY <2>10, <3>4, <4>2, Zenon DEF Live
      <4>3. CASE content'[b] = content[b] /\ q \notin uptodate
        <5>1. content[b] \in Ahead(t)
          BY <2>2, <2>3, <4>3, Zenon DEF Ahead
        <5> QED
          BY <2>5, <2>12, <4>3, <5>1, Zenon DEF SoundNext
      <4> QED
        BY <2>9, <4>1, <4>2, <4>3, Zenon
    <3>5. srv'.mtime \in Nat /\ srv.mtime <= srv'.mtime
          /\ \A k \in 1..Len(past) : past'[k] = past[k]
      BY <2>1, Known
    <3> QED
      BY <2>12, <3>1, <3>2, <3>3, <3>4, <3>5, ReaderStep, Zenon
  <2>13. \A u \in Tasks : pc'[u] = "writepage" =>
            pc[u] = "writepage" /\ op'[u] = op[u] /\ rep'[u] = rep[u] /\ op[u].page # q
    <3>1. \A u \in Tasks \ {t} : PageHeld(u) => op[u].page # q
      BY <2>1, <2>3, HeldPage, Zenon DEF PageHeld
    <3> QED
      BY <2>4, <3>1, Zenon DEF PageHeld, Others
  <2>14. \A u \in Tasks : Reading(u)' =>
                /\ op'[u] = op[u]
                /\ pc'[u] = "find_page" => pc[u] = "find_page"
                /\ op[u].page = q => ReaderInv(u)'
    <3>1. \A u \in Tasks : pc'[u] = "find_page" => pc[u] = "find_page"
      BY <2>4, Zenon DEF Others
    <3> QED
      BY <2>1, <2>12, <3>1, Zenon DEF Reading
  <2>15. \A u \in Tasks : /\ pc'[u] \in {"write", "write_end"} =>
                               /\ op'[u] = op[u]
                               /\ pc[u] \in {"write", "write_end"} \/ op[u].page = q
                          /\ pc'[u] \in {"vmtruncate", "setattr"} =>
                               pc[u] \in {"vmtruncate", "setattr"}
                          /\ got'[u] = got[u]
    BY <2>1, <2>3, <2>4, Zenon DEF Others
  <2> QED
    BY <2>1, <2>5, <2>8, <2>11, <2>13, <2>14, <2>15, OnePage, Zenon
<1>3. ASSUME uvfs_write_end(t)
      PROVE  PagesInv' /\ ReadersInv' /\ ReadFresh'
  <2> USE <1>3
  <2>1. /\ UNCHANGED <<srv, past, cached, dirty, lost, content, i_mtime, since, beside, got>>
        /\ pc[t] = "write_end" /\ Return(t) /\ uptodate' = uptodate \cup {op[t].page}
    BY Zenon DEF uvfs_write_end, srvVars, storeVars, histVars, MtimeAfterWrite
  <2>2. PICK q \in Pages : q = op[t].page
    BY <2>1, Known, OpFields, Zenon DEF PlaceInv, Writing
  <2>3. Others(t) /\ pc'[t] = "idle" /\ op'[t] = NULL
    BY <2>1, Known, Zenon DEF TaskTypes, Return, Goto, Others
  <2>4. \A u \in Tasks : Calm(u) /\ beside[u] \subseteq beside'[u] /\ got'[u] = got[u]
    BY <2>1, <2>3, Zenon DEF Others, Calm
  <2>5. NoFresher
    BY <2>1, <2>3, StillFresh, Zenon
  <2>6. ASSUME NEW p \in Pages, p # q PROVE SamePage(p)
    BY <2>1, <2>2, <2>5, <2>6, Zenon DEF SamePage, NoFresher
  <2>7. PageInv(q)'
    <3>1. ~FreshSince(q, srv.mtime)
      BY <2>1, <2>2, Zenon DEF PagesInv, PageInv, WorksOn
    <3>2. srv.mtime \in Nat
      BY Known, Zenon
    <3>3. ~FreshSince(q, srv.mtime)'
      BY <2>1, <2>5, <3>1, <3>2, Zenon DEF FreshSince, FreshNext, NoFresher
    <3> QED
      BY <3>3, Zenon DEF PageInv
  <2>8. \A u \in Tasks \ {t} : PageHeld(u) => op[u].page # q
    BY <2>1, <2>2, HeldPage, Zenon DEF PageHeld
  <2>9. ASSUME NEW u \in Tasks \ {t}, Reading(u), op[u].page = q PROVE ReaderInv(u)'
    <3>1. op'[u] = op[u] /\ pc'[u] = pc[u] /\ beside'[u] = beside[u]
      BY <2>1, <2>3, <2>9, Zenon DEF Others
    <3>2. \A v \in Tasks : /\ WorksOn(v, q, {"fill"})' =>
                                WorksOn(v, q, {"fill"}) /\ rep'[v] = rep[v]
                           /\ pc'[v] \in {"vmtruncate", "setattr"} =>
                                pc[v] \in {"vmtruncate", "setattr"}
      BY <2>3, Zenon DEF WorksOn, Others
    <3>3. Live(q) /\ (Unsaved(q) => Unsaved(q)')
      <4>1. Unsaved(q) => Unsaved(q)'
        BY <2>1, <2>4, UnsavedKept, Zenon
      <4> QED
        BY <2>1, <2>2, <4>1, Zenon DEF Live, WorksOn
    <3> QED
      BY <2>1, <2>5, <2>9, <3>1, <3>2, <3>3, SameReader, Zenon
  <2>10. \A u \in Tasks : pc'[u] = "writepage" =>
            pc[u] = "writepage" /\ op'[u] = op[u] /\ rep'[u] = rep[u] /\ op[u].page # q
    BY <2>3, <2>8, Zenon DEF PageHeld, Others
  <2>11. \A u \in Tasks : Reading(u)' =>
                /\ op'[u] = op[u]
                /\ pc'[u] = "find_page" => pc[u] = "find_page"
                /\ op[u].page = q => ReaderInv(u)'
    BY <2>3, <2>9, Zenon DEF Reading, Others
  <2>12. \A u \in Tasks : /\ pc'[u] \in {"write", "write_end"} =>
                               op'[u] = op[u] /\ pc[u] \in {"write", "write_end"}
                          /\ pc'[u] \in {"vmtruncate", "setattr"} =>
                               pc[u] \in {"vmtruncate", "setattr"}
    BY <2>3, Zenon DEF Others
  <2> QED
    BY <2>1, <2>4, <2>6, <2>7, <2>10, <2>11, <2>12, OnePage, Zenon
<1> QED
  BY <1>1, <1>2, <1>3, Zenon

\* A change at the server: no page has been refreshed since, so PageInv asks
\* nothing, and who may read the old data may still do so.
LEMMA CommitFresh ==
    ASSUME Shape, PagesInv, ReadersInv, ReadFresh, ServerInv',
           srv'.mtime = srv.mtime + 1, \A k \in 1..Len(past) : past'[k] = past[k],
           UNCHANGED <<uptodate, dirty, lost, content, i_mtime>>,
           UNCHANGED <<op, rep, next, got, since, beside>>,
           \A u \in Tasks : \/ pc'[u] = pc[u]
                            \/ pc[u] = "write" /\ pc'[u] = "write_end"
                            \/ pc[u] = "setattr" /\ pc'[u] = "setattr_end"
                            \/ pc[u] = "writepage" /\ pc'[u] = "writepage_end",
           \A p \in Pages : Unsaved(p) /\ ~Unsaved(p)' =>
              \A b \in BlocksOf(p) : content[b] = srv'.data[b]
    PROVE  PagesInv' /\ ReadersInv' /\ ReadFresh'
<1>1. srv.mtime \in Nat /\ i_mtime \in Nat /\ i_mtime <= srv.mtime
  BY Zenon DEF Shape, TypeOK, ServerTypes, InodeTypes, ServerInv
<1>2. \A r \in Tasks, p \in Pages : PassedBy(r, p)' =>
         /\ PassedBy(r, p) /\ rep'[r] = rep[r] 
         /\ rep[r].mtime \in Nat /\ rep[r].mtime <= srv.mtime
  <2>1. ASSUME NEW r \in Tasks, NEW p \in Pages, PassedBy(r, p)'
        PROVE  PassedBy(r, p) /\ rep'[r] = rep[r] /\ pc[r] \in Refreshing
    BY <2>1, Zenon DEF PassedBy, Refreshing
  <2>2. ASSUME NEW r \in Tasks, pc[r] \in Refreshing
        PROVE  rep[r].mtime \in Nat /\ rep[r].mtime <= srv.mtime
    BY <2>2, Known, Zenon DEF ReplyInv, Replies
  <2> QED
    BY <2>1, <2>2, Zenon
<1>3. ASSUME NEW p \in Pages PROVE PageInv(p)'
  <2>1. ~FreshSince(p, srv.mtime)'
    BY <1>1, <1>2 DEF FreshSince
  <2> QED
    BY <2>1, Zenon DEF PageInv
<1>4. NoFresher
  BY <1>2, Zenon DEF NoFresher, FreshNext, FreshSince
<1>5. ASSUME NEW u \in Tasks PROVE WritebackInv(u)'
  <2>1. pc'[u] = "writepage" => pc[u] = "writepage"
    BY <1>5, Zenon
  <2> QED
    BY <2>1, Zenon DEF ReadersInv, WritebackInv
<1>6. srv'.mtime \in Nat /\ srv.mtime <= srv'.mtime
  BY <1>1
<1>7. ASSUME NEW u \in Tasks, NEW b \in DOMAIN got'[u] PROVE SoundNext(u, b, got'[u][b])
  <2>1. Sound(u, b, got[u][b])
    BY <1>7, Zenon DEF ReadFresh, Sound
  <2> QED
    BY <1>6, <2>1, SoundKept, Zenon
<1>8. ASSUME NEW u \in Tasks, Reading(u) PROVE ReaderInv(u)'
  <2>1. PICK p \in Pages : p = op[u].page
    BY <1>8, OpFields, Known, Zenon DEF Reading, TaskTypes
  <2>2. since[u] \in Nat /\ since[u] <= srv.mtime /\ ReaderInv(u)
    BY Known, Zenon DEF TaskTypes, ReadersInv
  <2>3. pc'[u] = "find_page" \/ FreshNext(p, since[u]) =>
           pc[u] = "find_page" \/ FreshSince(p, since[u])
    <3>1. pc'[u] = "find_page" => pc[u] = "find_page"
      BY <1>8, Zenon
    <3> QED
      BY <1>4, <2>2, <3>1, Zenon DEF NoFresher
  <2>4. \A v \in Tasks : /\ WorksOn(v, p, {"fill"})' =>
                              WorksOn(v, p, {"fill"}) /\ rep'[v] = rep[v]
                         /\ pc'[v] \in {"vmtruncate", "setattr"} =>
                              pc[v] \in {"vmtruncate", "setattr"}
    BY Zenon DEF WorksOn
  <2>5. Live(p)' => Live(p)
    BY Zenon DEF Live, WorksOn
  <2>6. Unsaved(p) /\ ~Unsaved(p)' =>
           \A b \in BlocksOf(p) : SoundNext(u, b, content'[b])
    <3>1. srv'.data = past'[srv'.mtime + 1] /\ srv'.mtime \in since'[u]..srv'.mtime
      BY <1>1, <1>6, <2>2 DEF ServerInv
    <3> QED
      BY <3>1, Zenon DEF SoundNext
  <2> QED
    BY <1>6, <2>1, <2>2, <2>3, <2>4, <2>5, <2>6, ReaderStep, Zenon
<1>9. ASSUME NEW u \in Tasks PROVE ReaderInv(u)'
  BY <1>8, Zenon DEF ReaderInv, Reading
<1> QED
  BY <1>3, <1>5, <1>7, <1>9, Zenon DEF PagesInv, ReadersInv, ReadFresh, SoundNext

\* uvfs_write, setattr and writepage, which get through.
LEMMA RequestFresh ==
    ASSUME Shape, PagesInv, ReadersInv, ReadFresh, WritesReach, NEW t \in Tasks,
           uvfs_write(t) \/ setattr_request(t) \/ writepage_request(t)
    PROVE  PagesInv' /\ ReadersInv' /\ ReadFresh'
<1>1. /\ UNCHANGED <<uptodate, dirty, lost, content, i_mtime>>
      /\ UNCHANGED <<op, rep, next, got, since, beside>>
  BY Zenon DEF uvfs_write, setattr_request, writepage_request, pageVars, storeVars,
      inodeVars, histVars
<1>2. PICK l \in {"write_end", "setattr_end", "writepage_end"} :
         /\ Goto(t, l)
         /\ l = "write_end" => pc[t] = "write"
         /\ l = "setattr_end" => pc[t] = "setattr"
         /\ l = "writepage_end" => pc[t] = "writepage" /\ writepage_request(t)
  BY Zenon DEF uvfs_write, setattr_request, writepage_request
<1>3. pc'[t] = l /\ \A u \in Tasks \ {t} : pc'[u] = pc[u]
  BY <1>2, Known, Zenon DEF TaskTypes, Goto
<1>4. \E data, size : Commit(data, size)
  <2>1. pc[t] = "write" => op[t].copied \in Nat /\ op[t].copied # 0
    BY OpFields, Known DEF PlaceInv, Writing, WritesReach
  <2> QED
    BY <2>1, Zenon DEF uvfs_write, setattr_request, writepage_request, WritesReach
<1>5. srv'.mtime = srv.mtime + 1 /\ \A k \in 1..Len(past) : past'[k] = past[k]
  BY <1>4, Known DEF Commit, ServerTypes
<1>6. ServerInv'
  BY RequestSteps, Zenon DEF Shape
<1>7. \A u \in Tasks : \/ pc'[u] = pc[u]
                       \/ pc[u] = "write" /\ pc'[u] = "write_end"
                       \/ pc[u] = "setattr" /\ pc'[u] = "setattr_end"
                       \/ pc[u] = "writepage" /\ pc'[u] = "writepage_end"
  BY <1>2, <1>3, Zenon
<1>8. ASSUME NEW p \in Pages, Unsaved(p), ~Unsaved(p)', NEW b \in BlocksOf(p)
      PROVE  content[b] = srv'.data[b]
  <2>1. p \notin dirty \cup lost /\ pc[t] = "writepage" /\ op[t].page = p
    BY <1>1, <1>3, <1>8, Zenon DEF Unsaved
  <2>2. writepage_request(t)
    BY <1>2, <2>1, Zenon
  <2>3. rep[t].size = (p + 1) * PageSize /\ rep[t].data[b] = content[b]
    BY <1>8, <2>1, Zenon DEF ReadersInv, WritebackInv
  <2>4. b \in Blocks /\ b < (p + 1) * PageSize /\ b \in Int
    <3>1. (p + 1) * PageSize \in Int /\ b \in Blocks
      BY <1>8, PageBounds, BlocksInFile
    <3> QED
      BY <1>8, <3>1 DEF BlocksOf
  <2>5. PICK size : /\ size = IF rep[t].size > srv.size THEN rep[t].size ELSE srv.size
                    /\ Commit([c \in Blocks |->
                                 IF c \in BlocksOf(op[t].page) /\ c < rep[t].size
                                 THEN rep[t].data[c] ELSE srv.data[c]], size)
    BY <2>2, Zenon DEF writepage_request, WritesReach
  <2>6. b < size
    BY <2>3, <2>4, <2>5, PageBounds, Known DEF ServerTypes, FileSizes
  <2> QED
    BY <1>8, <2>1, <2>3, <2>4, <2>5, <2>6, Zenon DEF Commit
<1> QED
  BY <1>1, <1>5, <1>6, <1>7, <1>8, CommitFresh, Zenon

\* A change by somebody else at the server, a store into a mapped page.
LEMMA ServerFresh ==
    ASSUME Shape, PagesInv, ReadersInv, ReadFresh
    PROVE  \/ \E b \in Blocks : RemoteWrite(b)
           \/ \E p \in Pages : \E b \in BlocksOf(p) : Store(p, b)
           \/ UNCHANGED vars
           => PagesInv' /\ ReadersInv' /\ ReadFresh'
<1>1. ASSUME NEW b \in Blocks, RemoteWrite(b)
      PROVE  PagesInv' /\ ReadersInv' /\ ReadFresh'
  <2> USE <1>1
  <2>1. /\ UNCHANGED <<uptodate, dirty, lost, content, i_mtime>>
        /\ UNCHANGED <<pc, op, rep, next, got, since, beside>>
    BY Zenon DEF RemoteWrite, pageVars, storeVars, inodeVars, taskVars, histVars
  <2>2. srv'.mtime = srv.mtime + 1 /\ \A k \in 1..Len(past) : past'[k] = past[k]
    BY DEF RemoteWrite, Commit, Shape, TypeOK, ServerTypes
  <2>3. ServerInv'
    BY ServerSteps, Zenon DEF Shape
  <2>4. \A p \in Pages : Unsaved(p) => Unsaved(p)'
    BY <2>1, Zenon DEF Unsaved
  <2> QED
    BY <2>1, <2>2, <2>3, <2>4, CommitFresh, Zenon
<1>2. ASSUME NEW q \in Pages, NEW c \in BlocksOf(q), Store(q, c)
      PROVE  PagesInv' /\ ReadersInv' /\ ReadFresh'
  <2> USE <1>2
  <2>1. /\ UNCHANGED <<srv, past, uptodate, lost, i_mtime, pc, op, rep, next, got>>
        /\ UNCHANGED <<since, beside>> /\ dirty' = dirty \cup {q}
        /\ content' = [content EXCEPT ![c] = Change(issued')]
    BY Zenon DEF Store, inodeVars, taskVars, histVars
  <2>2. \A u \in Tasks : Calm(u) /\ beside[u] \subseteq beside'[u] /\ got'[u] = got[u]
    BY <2>1, Zenon DEF Calm
  <2>3. NoFresher
    BY <2>1, Zenon DEF NoFresher, FreshNext, FreshSince, PassedBy
  <2>4. ASSUME NEW p \in Pages, p # q PROVE SamePage(p)
    <3>1. \A b \in BlocksOf(p) : b \in Blocks /\ b # c
      BY <2>4, BlocksInFile, BlocksApart, Zenon
    <3>2. content \in [Blocks -> Values]
      BY Zenon DEF Shape, TypeOK, PageTypes
    <3>3. \A b \in BlocksOf(p) : content'[b] = content[b]
      BY <2>1, <3>1, <3>2, Zenon
    <3> QED
      BY <2>1, <2>3, <3>3, Zenon DEF SamePage, NoFresher
  <2>5. Unsaved(q)'
    BY <2>1, Zenon DEF Unsaved
  <2>6. PageInv(q)'
    <3>1. srv.mtime \in Nat
      BY Zenon DEF Shape, TypeOK, ServerTypes
    <3> QED
      BY <2>1, <2>2, <2>3, <2>5, <3>1, PageStep, Zenon DEF PagesInv, NoFresher
  <2>7. ASSUME NEW u \in Tasks, Reading(u), op[u].page = q PROVE ReaderInv(u)'
    BY <2>1, <2>3, <2>5, <2>7, SameReader, Zenon DEF WorksOn
  <2>8. \A u \in Tasks : pc'[u] = "writepage" =>
            \/ pc[u] = "writepage" /\ op'[u] = op[u] /\ rep'[u] = rep[u] /\ op[u].page # q
            \/ WritebackInv(u)'
    BY <2>1, Zenon DEF WritebackInv
  <2>9. \A u \in Tasks : Reading(u)' =>
                /\ op'[u] = op[u]
                /\ pc'[u] = "find_page" => pc[u] = "find_page"
                /\ op[u].page = q => ReaderInv(u)'
    BY <2>1, <2>7, Zenon DEF Reading
  <2> QED
    BY <2>1, <2>2, <2>4, <2>6, <2>8, <2>9, OnePage, Zenon
<1>3. ASSUME UNCHANGED vars
      PROVE  PagesInv' /\ ReadersInv' /\ ReadFresh'
  <2> USE <1>3
  <2>1. /\ UNCHANGED <<srv, past, uptodate, dirty, lost, content, i_mtime>>
        /\ UNCHANGED <<pc, op, rep, next, got, since, beside>>
    BY Zenon DEF vars, srvVars, pageVars, storeVars, inodeVars, taskVars, histVars
  <2>2. NoFresher /\ \A u \in Tasks : Calm(u)
    BY <2>1, Zenon DEF NoFresher, FreshNext, FreshSince, PassedBy, Calm
  <2>3. ASSUME NEW p \in Pages PROVE PageInv(p)'
    <3>1. Unsaved(p) => Unsaved(p)'
      BY <2>1, Zenon DEF Unsaved
    <3>2. FreshNext(p, srv.mtime) => FreshSince(p, srv.mtime)
      BY <2>1, Zenon DEF FreshNext, FreshSince, PassedBy
    <3> QED
      BY <2>1, <2>2, <3>1, <3>2, PageStep, Zenon DEF PagesInv
  <2>4. ReadersInv'
    <3>1. ASSUME NEW u \in Tasks PROVE WritebackInv(u)'
      BY <2>1, Zenon DEF ReadersInv, WritebackInv
    <3>2. ASSUME NEW u \in Tasks PROVE ReaderInv(u)'
      BY <2>1, <2>2, QuietReader, Zenon DEF ReadersInv
    <3> QED
      BY <3>1, <3>2, Zenon DEF ReadersInv
  <2>5. ReadFresh'
    BY <2>1, Zenon DEF ReadFresh
  <2> QED
    BY <2>3, <2>4, <2>5, Zenon DEF PagesInv
<1> QED
  BY <1>1, <1>2, <1>3, Zenon

\* The file as it is first opened: nothing is cached.
LEMMA InitFresh == Init => PagesInv /\ ReadersInv /\ ReadFresh
<1> SUFFICES ASSUME Init PROVE PagesInv /\ ReadersInv /\ ReadFresh
  OBVIOUS
<1>1. /\ \A t \in Tasks : pc[t] = "idle" /\ op[t] = NULL /\ got[t] = <<>>
      /\ uptodate = {}
  BY Zenon DEF Init
<1>2. PagesInv
  BY <1>1, Zenon DEF PagesInv, PageInv, WorksOn
<1>3. ReadersInv
  BY <1>1, Zenon DEF ReadersInv, ReaderInv, Reading, WritebackInv
<1> QED
  BY <1>1, <1>2, <1>3 DEF ReadFresh

\* The induction step.
LEMMA NextFresh ==
    ASSUME WritesReach, Shape, PagesInv, ReadersInv, ReadFresh, [Next]_vars
    PROVE  PagesInv' /\ ReadersInv' /\ ReadFresh'
<1>1. ASSUME NEW t \in Tasks, Begin(t) \/ Step(t)
      PROVE  PagesInv' /\ ReadersInv' /\ ReadFresh'
  BY <1>1, BeginFresh, RefreshFresh, ReaderFresh, WriterFresh, RequestFresh, Zenon DEF Step
<1> QED
  BY <1>1, ServerFresh, Zenon DEF Next

\* The induction.
LEMMA FreshInvariant ==
    ASSUME WritesReach
    PROVE  Spec => [](Shape /\ PagesInv /\ ReadersInv /\ ReadFresh)
<1>1. ASSUME Shape /\ PagesInv /\ ReadersInv /\ ReadFresh, [Next]_vars
      PROVE  (Shape /\ PagesInv /\ ReadersInv /\ ReadFresh)'
  BY <1>1, NextShape, NextFresh, Zenon
<1> QED
  BY <1>1, InitShape, InitFresh, PTL DEF Spec

(* The inductive invariant of file.c and of the refresh in super.c: a page *)
(* that a refresh with the server's mtime has been at holds the server's   *)
(* data, but for what a write or a truncation puts there ahead of it.      *)
THEOREM FileInvariant ==
    ASSUME WritesReach
    PROVE  Spec => []FileInv
<1>1. Shape /\ PagesInv /\ ReadersInv => FileInv
  BY Zenon DEF Shape, PagesInv, ReadersInv, FileInv
<1> QED
  BY <1>1, FreshInvariant, PTL

(* For any number of tasks, pages and changes, if every write and every    *)
(* truncation gets through to the server, each block a read returns is one *)
(* the server had since the read began, or one that an overlapping write   *)
(* or truncation of this machine put into the page ahead of the server     *)
(* (uvfs_file_read, which revalidates first; uvfs_refresh_inode,           *)
(* uvfs_readpage).                                                         *)
THEOREM ReadsAreFresh ==
    ASSUME WritesReach
    PROVE  Spec => []ReadFresh
  BY FreshInvariant, PTL

(* Under the same condition the attributes tell the truth about the page   *)
(* cache: while the inode carries the server's size and mtime, so that the *)
(* next refresh keeps the pages, every uptodate page that nobody works on, *)
(* with no stores that the server has not got, holds the server's data     *)
(* (uvfs_refresh_inode, uvfs_commit_write, uvfs_setattr).                  *)
THEOREM CacheIsCoherent ==
    ASSUME WritesReach
    PROVE  Spec => []Coherent
<1>1. ASSUME Shape, PagesInv PROVE Coherent
  <2> SUFFICES
        ASSUME i_mtime = srv.mtime, \A t \in Tasks : pc[t] \notin {"vmtruncate", "setattr"},
               NEW p \in uptodate \ (dirty \cup lost), locker[p] = NULL,
               NEW b \in BlocksOf(p)
        PROVE  content[b] = srv.data[b]
    BY Zenon DEF Coherent
  <2>1. p \in Pages
    BY <1>1, Zenon DEF Shape, TypeOK, PageTypes
  <2>2. ASSUME NEW t \in Tasks
        PROVE  ~WorksOn(t, p, {"write"}) /\ ~WorksOn(t, p, {"writepage"})
    <3>1. ~WorksOn(t, p, {"write", "write_end"}) /\ ~WorksOn(t, p, {"writepage"})
      BY <1>1, <2>1, <2>2, UnlockedPage, Zenon
    <3> QED
      BY <3>1, Zenon DEF WorksOn
  <2>3. ~Unsaved(p)
    BY <2>2, Zenon DEF Unsaved, WorksOn
  <2>4. FreshSince(p, srv.mtime)
    BY <1>1 DEF FreshSince, Shape, TypeOK, ServerTypes
  <2>5. content[b] = srv.data[b] \/ AheadIn(p, content[b])
    BY <1>1, <2>1, <2>3, <2>4, Zenon DEF PagesInv, PageInv
  <2> QED
    BY <2>2, <2>5, Zenon DEF AheadIn
<1> QED
  BY <1>1, FreshInvariant, PTL

-----------------------------------------------------------------------------
(* Writes get through.                                                     *)

\* The server's history goes on from what it was.
Grows ==
    /\ srv'.mtime \in Nat /\ srv.mtime <= srv'.mtime
    /\ \A k \in 1..Len(past) : past'[k] = past[k]

LEMMA SameHistory ==
    ASSUME Shape, UNCHANGED <<srv, past>>
    PROVE  Grows
<1>1. srv.mtime \in Nat
  BY Zenon DEF Shape, TypeOK, ServerTypes
<1> QED
  BY <1>1 DEF Grows

LEMMA CommitGrows ==
    ASSUME Shape, NEW data, NEW size, Commit(data, size)
    PROVE  /\ Grows /\ srv'.mtime = srv.mtime + 1
           /\ past'[srv'.mtime + 1] = srv'.data
           /\ \A b \in Blocks : b < size => srv'.data[b] = data[b]
<1>1. srv.mtime \in Nat /\ past \in Seq([Blocks -> Values]) /\ Len(past) = srv.mtime + 1
  BY Zenon DEF Shape, TypeOK, ServerTypes
<1>2. srv'.mtime = srv.mtime + 1 /\ past' = Append(past, srv'.data)
  BY Zenon DEF Commit
<1>3. \A b \in Blocks : b < size => srv'.data[b] = data[b]
  BY Zenon DEF Commit
<1>4. /\ \A k \in 1..Len(past) : past'[k] = past[k]
      /\ past'[srv.mtime + 2] = srv'.data
  BY <1>1, <1>2
<1> QED
  BY <1>1, <1>2, <1>3, <1>4 DEF Grows

\* What the server had since the call of task u began, it still had.
LEMMA OldMoments ==
    ASSUME Shape, Grows, NEW u \in Tasks, NEW k \in since[u]..srv.mtime
    PROVE  k \in since[u]..srv'.mtime /\ past'[k + 1] = past[k + 1]
<1>1. since[u] \in Nat /\ srv.mtime \in Nat /\ Len(past) = srv.mtime + 1
  BY Zenon DEF Shape, TypeOK, ServerTypes, TaskTypes
<1>2. k + 1 \in 1..Len(past) /\ k \in since[u]..srv'.mtime
  BY <1>1 DEF Grows
<1> QED
  BY <1>2, Zenon DEF Grows

\* A change asked for later has a larger number.
LEMMA LaterChange ==
    ASSUME Shape, NEW u \in Tasks, op[u] # NULL, op[u].kind = "write",
           op[u].val <= Change(issued), issued' \in Nat, issued <= issued'
    PROVE  op[u].val <= Change(issued')
<1>1. op[u] \in Ops /\ issued \in 0..MaxChanges
  BY Zenon DEF Shape, TypeOK, TaskTypes, ServerTypes
<1>2. op[u].val \in Values
  BY <1>1, OpFields, Zenon
<1> QED
  BY <1>1, <1>2, FileConstants DEF Values, Change, JUNK

\* What a task has written stays where it is in the steps of the others.
LEMMA OtherThrough ==
    ASSUME Shape, Grows, NEW u \in Tasks, ThroughTask(u),
           pc'[u] = pc[u], op'[u] = op[u], since'[u] = since[u],
           issued' \in Nat, issued <= issued',
           pc[u] = "write" => \A b \in Blocks : Written(u, b, content')
    PROVE  ThroughTask(u)'
<1>1. op'[u] # NULL /\ op'[u].kind = "write" => op'[u].val <= Change(issued')
  BY LaterChange, Zenon DEF ThroughTask
<1>2. pc'[u] = "write" => \A b \in Blocks : Written(u, b, content)'
  BY Zenon DEF Written
<1>3. ASSUME "write" \notin Errors, pc'[u] = "write_end"
      PROVE  \E k \in since'[u]..srv'.mtime : \A b \in Blocks : Written(u, b, past[k + 1])'
  <2>1. PICK k \in since[u]..srv.mtime : \A b \in Blocks : Written(u, b, past[k + 1])
    BY <1>3, Zenon DEF ThroughTask
  <2>2. k \in since[u]..srv'.mtime /\ past'[k + 1] = past[k + 1]
    BY <2>1, OldMoments, Zenon
  <2> QED
    BY <2>1, <2>2, Zenon DEF Written
<1> QED
  BY <1>1, <1>2, <1>3, Zenon DEF ThroughTask

\* A step of task t that leaves what the others are writing alone.
LEMMA ThroughStep ==
    ASSUME Shape, ThroughInv, Grows, NEW t \in Tasks, Others(t),
           issued' \in Nat, issued <= issued', ThroughTask(t)',
           \A u \in Tasks \ {t} : pc[u] = "write"
               => \A b \in Blocks : Written(u, b, content')
    PROVE  ThroughInv'
<1>1. ASSUME NEW u \in Tasks \ {t} PROVE ThroughTask(u)'
  <2>1. ThroughTask(u) /\ pc'[u] = pc[u] /\ op'[u] = op[u] /\ since'[u] = since[u]
    BY Zenon DEF ThroughInv, Others
  <2> QED
    BY <2>1, OtherThrough, Zenon
<1> QED
  BY <1>1, Zenon DEF ThroughInv

\* Task t is not where it has written something.
LEMMA PlaceThrough ==
    ASSUME Shape, ThroughInv, NEW t \in Tasks, op'[t] = op[t] \/ op'[t] = NULL,
           issued' \in Nat, issued <= issued', pc'[t] \notin {"write", "write_end"}
    PROVE  ThroughTask(t)'
<1>1. op'[t] # NULL /\ op'[t].kind = "write" => op'[t].val <= Change(issued')
  BY LaterChange, Zenon DEF ThroughInv, ThroughTask
<1> QED
  BY <1>1, Zenon DEF ThroughTask

\* The page that task t changes is locked by it or by nobody: what the
\* others are writing is elsewhere.
LEMMA OtherPages ==
    ASSUME Shape, ThroughInv, NEW t \in Tasks, NEW p \in Pages,
           locker[p] = NULL \/ (PageHeld(t) /\ op[t].page = p),
           \A b \in Blocks : b \notin BlocksOf(p) => content'[b] = content[b],
           NEW u \in Tasks \ {t}, pc[u] = "write"
    PROVE  \A b \in Blocks : Written(u, b, content')
<1>1. PageHeld(u)
  BY Zenon DEF PageHeld
<1>2. op[u].page \in Pages /\ op[u].page # p
  <2>1. op[u].page \in Pages /\ locker[op[u].page] = u /\ u # NULL
    BY <1>1, HeldPage, Zenon
  <2>2. ASSUME PageHeld(t), op[t].page = p PROVE op[u].page # p
    <3>1. \A v \in Tasks \ {t} : PageHeld(v) => op[v].page # op[t].page
      BY <2>2, HeldPage, Zenon
    <3> QED
      BY <1>1, <2>2, <3>1, Zenon
  <2> QED
    BY <2>1, <2>2, Zenon
<1>3. op[u] \in Ops /\ op[u].kind = "write"
  BY Known, Zenon DEF PlaceInv, Writing
<1>4. \A b \in Blocks : InRange(op[u], b, op[u].copied) => b \in BlocksOf(op[u].page)
  BY <1>3, EndInFile DEF Blocks
<1>5. \A b \in Blocks : InRange(op[u], b, op[u].copied) => content'[b] = content[b]
  BY <1>2, <1>4, BlocksApart, Zenon
<1>6. \A b \in Blocks : Written(u, b, content)
  BY Zenon DEF ThroughInv, ThroughTask
<1> QED
  BY <1>5, <1>6, Zenon DEF Written
\* The steps that move no data, and the calls and requests that leave the
\* pages and the server alone.
LEMMA StillThrough ==
    ASSUME Shape, ThroughInv, NEW t \in Tasks, Others(t),
           UNCHANGED <<srv, past, content>>, issued' \in Nat, issued <= issued',
           ThroughTask(t)'
    PROVE  ThroughInv'
<1>1. Grows
  BY SameHistory, Zenon
<1>2. \A u \in Tasks \ {t} : pc[u] = "write"
         => \A b \in Blocks : Written(u, b, content')
  BY Zenon DEF ThroughInv, ThroughTask
<1> QED
  BY <1>1, <1>2, ThroughStep, Zenon

LEMMA IssuedStays ==
    ASSUME Shape
    PROVE  issued \in Nat /\ issued <= issued
<1>1. issued \in 0..MaxChanges
  BY Zenon DEF Shape, TypeOK, ServerTypes
<1> QED
  BY <1>1, FileConstants

LEMMA QuietThrough ==
    ASSUME Shape, ThroughInv, NEW t \in Tasks, Others(t),
           UNCHANGED <<srv, past, issued, content>>,
           op'[t] = op[t] \/ op'[t] = NULL, pc'[t] \notin {"write", "write_end"}
    PROVE  ThroughInv'
<1>1. issued' \in Nat /\ issued <= issued'
  BY IssuedStays, Zenon
<1> QED
  BY <1>1, PlaceThrough, StillThrough, Zenon

\* A call begins.
LEMMA BeginThrough ==
    ASSUME Shape, ThroughInv, NEW t \in Tasks, Begin(t)
    PROVE  ThroughInv'
<1>0. TaskTypes /\ issued \in Nat /\ issued <= issued + 1
  BY Known, IssuedStays
<1>1. ASSUME NEW o, Call(t, o), NEW l \in PCs, Goto(t, l),
             l \notin {"write", "write_end"}, issued' \in Nat, issued <= issued',
             o.kind = "write" => o.val <= Change(issued')
      PROVE  ThroughInv'
  <2>1. /\ pc'[t] = l /\ op'[t] = o /\ UNCHANGED <<srv, past, content>>
    BY <1>0, <1>1, Zenon DEF Call, Goto, TaskTypes, pageVars
  <2>2. ThroughTask(t)'
    BY <1>1, <2>1, Zenon DEF ThroughTask
  <2>3. \A u \in Tasks \ {t} : pc[u] = "write"
           => \A b \in Blocks : Written(u, b, content')
    BY <2>1, Zenon DEF ThroughInv, ThroughTask
  <2>4. Grows
    BY <2>1, SameHistory, Zenon
  <2>5. ASSUME NEW u \in Tasks \ {t} PROVE ThroughTask(u)'
    <3>1. ThroughTask(u) /\ pc'[u] = pc[u] /\ op'[u] = op[u] /\ since'[u] = since[u]
      BY <1>0, <1>1, Zenon DEF ThroughInv, Call, Goto, TaskTypes
    <3> QED
      BY <1>1, <2>3, <2>4, <3>1, OtherThrough, Zenon
  <2> QED
    BY <2>2, <2>5, Zenon DEF ThroughInv
<1>2. CASE uvfs_getattr(t) \/ uvfs_file_mmap(t)
  <2>1. Call(t, [kind |-> "stat"]) /\ Goto(t, "getattr") /\ issued' = issued
    BY <1>2, Zenon DEF uvfs_getattr, uvfs_file_mmap
  <2> QED
    BY <1>0, <1>1, <2>1 DEF PCs
<1>3. ASSUME NEW p \in Pages, uvfs_file_read(t, p) PROVE ThroughInv'
  <2>1. Call(t, [kind |-> "read", page |-> p]) /\ Goto(t, "getattr") /\ issued' = issued
    BY <1>3, Zenon DEF uvfs_file_read
  <2> QED
    BY <1>0, <1>1, <2>1 DEF PCs
<1>4. ASSUME NEW p \in Pages, fault(t, p) PROVE ThroughInv'
  <2>1. Call(t, [kind |-> "fault", page |-> p]) /\ Goto(t, "find_page") /\ issued' = issued
    BY <1>4, Zenon DEF fault
  <2> QED
    BY <1>0, <1>1, <2>1 DEF PCs
<1>5. ASSUME NEW p \in Pages, uvfs_writepage(t, p) PROVE ThroughInv'
  <2>1. /\ UNCHANGED <<srv, past, issued, content>> /\ Others(t) /\ pc[t] = "idle"
        /\ \/ pc' = pc /\ op' = op
           \/ pc'[t] = "writepage" /\ op'[t] = [kind |-> "writepage", page |-> p]
    BY <1>0, <1>5, Zenon DEF uvfs_writepage, Goto, Others, TaskTypes, srvVars, histVars
  <2>2. CASE pc' = pc /\ op' = op
    BY <2>1, <2>2, QuietThrough
  <2>3. CASE pc'[t] = "writepage" /\ op'[t] = [kind |-> "writepage", page |-> p]
    <3>1. op'[t].kind # "write"
      BY <2>3
    <3>2. ThroughTask(t)' /\ issued' \in Nat /\ issued <= issued'
      BY <2>1, <2>3, <3>1, IssuedStays, Zenon DEF ThroughTask
    <3> QED
      BY <2>1, <3>2, StillThrough, Zenon
  <2> QED
    BY <2>1, <2>2, <2>3, Zenon
<1>6. ASSUME NEW p \in Pages, NEW r \in Ranges, NEW n \in 0..PageSize,
             uvfs_file_write(t, p, r, n)
      PROVE  ThroughInv'
  <2> DEFINE o == [kind |-> "write", page |-> p, from |-> r[1], to |-> r[2],
                   copied |-> n, val |-> Change(issued')]
  <2>1. Call(t, o) /\ Goto(t, "getattr") /\ issued' = issued + 1
    BY <1>6, Zenon DEF uvfs_file_write
  <2>2. o.val = Change(issued')
    BY Zenon
  <2> HIDE DEF o
  <2>3. o.val <= Change(issued') /\ issued' \in Nat /\ issued <= issued'
    BY <1>0, <2>1, <2>2 DEF Change
  <2> QED
    BY <1>1, <2>1, <2>3, Zenon DEF PCs
<1>7. ASSUME NEW n \in Sizes, uvfs_setattr(t, n) PROVE ThroughInv'
  <2>1. Call(t, [kind |-> "truncate", size |-> n]) /\ Goto(t, "lock_setattr")
        /\ issued' = issued + 1
    BY <1>7, Zenon DEF uvfs_setattr
  <2> QED
    BY <1>0, <1>1, <2>1 DEF PCs
<1> QED
  BY <1>2, <1>3, <1>4, <1>5, <1>6, <1>7, Zenon DEF Begin

\* The steps that change a page: a walk over the page cache, the end of
\* uvfs_readpage and the copy of a write.
LEMMA PageThrough ==
    ASSUME Shape, ThroughInv, NEW t \in Tasks,
           \/ refresh_invalidate(t) \/ setattr_vmtruncate(t)
           \/ readpage_fill(t) \/ write_copy(t)
    PROVE  ThroughInv'
<1>0. TaskTypes /\ issued \in Nat /\ issued <= issued
  BY Known, IssuedStays, Zenon
<1>1. ASSUME NEW p \in Pages, locker[p] = NULL \/ (PageHeld(t) /\ op[t].page = p),
             \A b \in Blocks : b \notin BlocksOf(p) => content'[b] = content[b],
             Others(t), UNCHANGED <<srv, past, issued>>, ThroughTask(t)'
      PROVE  ThroughInv'
  <2>1. \A u \in Tasks \ {t} : pc[u] = "write"
           => \A b \in Blocks : Written(u, b, content')
    BY <1>1, OtherPages, Zenon
  <2>2. Grows /\ issued' \in Nat /\ issued <= issued'
    BY <1>0, <1>1, SameHistory, Zenon
  <2> QED
    BY <1>1, <2>1, <2>2, ThroughStep, Zenon
<1>2. CASE refresh_invalidate(t) \/ setattr_vmtruncate(t)
  <2>1. /\ Others(t) /\ UNCHANGED <<srv, past, issued>> /\ op' = op
        /\ pc'[t] \notin {"write", "write_end"}
    BY <1>0, <1>2, Zenon DEF refresh_invalidate, setattr_vmtruncate, Goto, Others, TaskTypes,
                             srvVars, histVars
  <2>2. ThroughTask(t)'
    BY <1>0, <2>1, PlaceThrough, Zenon
  <2>3. CASE content' = content
    BY <2>1, <2>3, QuietThrough, Zenon
  <2>4. CASE content' # content
    <3>1. /\ next[t] \in Pages /\ locker[next[t]] = NULL
          /\ \A b \in Blocks : b \notin BlocksOf(next[t]) => content'[b] = content[b]
      <4>1. CASE refresh_invalidate(t)
        BY <2>4, <4>1, Zenon DEF refresh_invalidate, Drop
      <4>2. CASE setattr_vmtruncate(t)
        BY <2>4, <4>2, Zenon DEF setattr_vmtruncate, Drop
      <4> QED
        BY <1>2, <4>1, <4>2, Zenon
    <3> QED
      BY <1>1, <2>1, <2>2, <3>1, Zenon
  <2> QED
    BY <2>3, <2>4, Zenon
<1>3. CASE readpage_fill(t)
  <2>1. /\ Others(t) /\ UNCHANGED <<srv, past, issued>> /\ op'[t] = NULL /\ pc'[t] = "idle"
        /\ content' = Filled(rep[t], op[t].page) /\ PageHeld(t)
    BY <1>0, <1>3, Zenon DEF readpage_fill, Return, Goto, Others, TaskTypes, srvVars,
                             histVars, PageHeld
  <2>2. ThroughTask(t)'
    BY <1>0, <2>1, PlaceThrough, Zenon
  <2>3. op[t].page \in Pages
    BY <2>1, HeldPage, Zenon
  <2>4. \A b \in Blocks : b \notin BlocksOf(op[t].page) => content'[b] = content[b]
    BY <2>1, Zenon DEF Filled
  <2> QED
    BY <1>1, <2>1, <2>2, <2>3, <2>4, Zenon
<1>4. CASE write_copy(t)
  <2> DEFINE o == op[t]
  <2>1. /\ Others(t) /\ UNCHANGED <<srv, past, issued>> /\ op' = op /\ pc'[t] = "write"
        /\ PageHeld(t) /\ pc[t] = "write_copy"
    BY <1>0, <1>4, Zenon DEF write_copy, Goto, Others, TaskTypes, srvVars, PageHeld
  <2>2. o \in Ops /\ o.kind = "write" /\ o.page \in Pages /\ o.val \in Values
    BY <2>1, Known, OpFields, Zenon DEF PlaceInv, Writing
  <2>3. content' = [b \in Blocks |->
                       CASE InRange(o, b, o.copied) -> o.val
                         [] InRange(o, b, o.to - o.from)
                              /\ ~InRange(o, b, o.copied) -> ZERO
                         [] OTHER -> content[b]]
    BY <1>4, Zenon DEF write_copy
  <2>4. \A b \in Blocks : InRange(o, b, o.copied) \/ InRange(o, b, o.to - o.from)
                             => b \in BlocksOf(o.page)
    BY <2>2, EndInFile DEF Blocks
  <2>5. \A b \in Blocks : b \notin BlocksOf(o.page) => content'[b] = content[b]
    BY <2>3, <2>4, Zenon
  <2>6. o.val >= o.val
    BY <2>2, FileConstants DEF Values, Change, JUNK
  <2>7. \A b \in Blocks : InRange(o, b, o.copied) => content'[b] = o.val
    BY <2>3, Zenon
  <2>8. \A b \in Blocks : Written(t, b, content)'
    BY <2>1, <2>6, <2>7, Zenon DEF Written
  <2>9. ThroughTask(t)'
    BY <2>1, <2>8, Zenon DEF ThroughInv, ThroughTask
  <2> QED
    BY <1>1, <2>1, <2>2, <2>5, <2>9, Zenon
<1> QED
  BY <1>2, <1>3, <1>4, Zenon
\* A step of task t at the server leaves the pages alone.
LEMMA RequestThrough ==
    ASSUME Shape, ThroughInv, NEW t \in Tasks, Others(t), Grows,
           UNCHANGED <<issued, content>>, ThroughTask(t)'
    PROVE  ThroughInv'
<1>1. \A u \in Tasks \ {t} : pc[u] = "write"
         => \A b \in Blocks : Written(u, b, content')
  BY Zenon DEF ThroughInv, ThroughTask
<1>2. issued' \in Nat /\ issued <= issued'
  BY IssuedStays, Zenon
<1> QED
  BY <1>1, <1>2, ThroughStep, Zenon

\* uvfs_write: the server gets what the page holds.
LEMMA WriteThrough ==
    ASSUME Shape, ThroughInv, NEW t \in Tasks, uvfs_write(t)
    PROVE  ThroughInv'
<1> DEFINE o == op[t]
           size == IF EndOf(o) > srv.size THEN EndOf(o) ELSE srv.size
           d == [b \in Blocks |-> IF InRange(o, b, o.copied)
                                  THEN content[b] ELSE srv.data[b]]
<1>0. TaskTypes /\ ServerTypes /\ since[t] \in Nat /\ since[t] <= srv.mtime
      /\ srv.mtime \in Nat
  BY Known, Zenon DEF TaskTypes
<1>1. /\ Others(t) /\ pc[t] = "write" /\ pc'[t] = "write_end" /\ op' = op
      /\ UNCHANGED <<issued, content, since>>
  BY <1>0, Zenon DEF uvfs_write, Goto, Others, TaskTypes, pageVars, histVars
<1>2. /\ o \in Ops /\ o.kind = "write" /\ o # NULL /\ o.val <= Change(issued)
      /\ \A b \in Blocks : Written(t, b, content)
  BY <1>1, Known, OpFields, Zenon DEF PlaceInv, Writing, ThroughInv, ThroughTask
<1>3. \/ Commit(d, size)
      \/ UNCHANGED <<srv, past>> /\ (o.copied = 0 \/ "write" \in Errors)
  BY Zenon DEF uvfs_write
<1> HIDE DEF o, d
<1>4. CASE Commit(d, size)
  <2>1. /\ Grows /\ srv'.mtime = srv.mtime + 1
        /\ past'[srv'.mtime + 1] = srv'.data
        /\ \A b \in Blocks : b < size => srv'.data[b] = d[b]
    BY <1>4, CommitGrows, Zenon
  <2>2. \A b \in Blocks : InRange(o, b, o.copied) => b < size
    <3>1. \A b \in Blocks : InRange(o, b, o.copied) => b < EndOf(o)
      BY <1>2, EndInFile DEF Blocks
    <3>2. EndOf(o) \in Nat /\ srv.size \in Nat
      BY <1>0, <1>2, EndInFile, FileConstants DEF FileSizes, ServerTypes
    <3> QED
      BY <3>1, <3>2 DEF Blocks
  <2>3. \A b \in Blocks : InRange(o, b, o.copied) => d[b] = content[b]
    BY Zenon DEF d
  <2>4. \A b \in Blocks : InRange(o, b, o.copied) => past'[srv'.mtime + 1][b] = content[b]
    BY <2>1, <2>2, <2>3, Zenon
  <2>5. \A b \in Blocks : Written(t, b, past'[srv'.mtime + 1])
    BY <1>2, <2>4, Zenon DEF Written, o
  <2>6. srv'.mtime \in since[t]..srv'.mtime
    BY <1>0, <2>1
  <2>7. \E k \in since'[t]..srv'.mtime : \A b \in Blocks : Written(t, b, past[k + 1])'
    BY <1>1, <2>5, <2>6, Zenon DEF Written
  <2>8. ThroughTask(t)'
    BY <1>1, <1>2, <2>7, Zenon DEF ThroughTask, o
  <2> QED
    BY <1>1, <2>1, <2>8, RequestThrough, Zenon
<1>5. CASE UNCHANGED <<srv, past>> /\ (o.copied = 0 \/ "write" \in Errors)
  <2>1. Grows
    BY <1>5, SameHistory, Zenon
  <2>2. ASSUME o.copied = 0, NEW b \in Blocks PROVE ~InRange(o, b, o.copied)
    <3>1. /\ o.page * PageSize \in Nat /\ o.from \in Nat
      BY <1>2, OpFields, PageBounds DEF Pages
    <3> QED
      BY <2>2, <3>1 DEF InRange, Blocks
  <2>3. srv.mtime \in since[t]..srv.mtime
    BY <1>0
  <2>4. o.copied = 0 =>
          \E k \in since'[t]..srv'.mtime : \A b \in Blocks : Written(t, b, past[k + 1])'
    BY <1>1, <1>5, <2>2, <2>3, Zenon DEF Written, o
  <2>5. ThroughTask(t)'
    BY <1>1, <1>2, <1>5, <2>4, Zenon DEF ThroughTask, o
  <2> QED
    BY <1>1, <2>1, <2>5, RequestThrough, Zenon
<1> QED
  BY <1>3, <1>4, <1>5, Zenon

\* The other steps of a task.
LEMMA OtherSteps ==
    ASSUME Shape, ThroughInv, NEW t \in Tasks,
           \/ read_cached(t) \/ readpage_request(t) \/ uvfs_write_end(t)
           \/ setattr_request(t) \/ writepage_request(t)
    PROVE  ThroughInv'
<1>0. TaskTypes
  BY Known, Zenon
<1>1. CASE read_cached(t)
  <2>1. /\ Others(t) /\ UNCHANGED <<srv, past, issued, content>>
        /\ op'[t] = NULL /\ pc'[t] = "idle"
    BY <1>0, <1>1, Zenon DEF read_cached, Return, Goto, Others, TaskTypes, srvVars, pageVars
  <2> QED
    BY <2>1, QuietThrough
<1>2. CASE readpage_request(t)
  <2>1. /\ Others(t) /\ UNCHANGED <<srv, past, issued, content>>
        /\ op'[t] = NULL \/ op'[t] = op[t]
        /\ pc'[t] \in {"idle", "fill"}
    BY <1>0, <1>2, Zenon DEF readpage_request, Return, Goto, Others, TaskTypes, srvVars, histVars
  <2> QED
    BY <2>1, QuietThrough
<1>3. CASE uvfs_write_end(t)
  <2>1. /\ Others(t) /\ UNCHANGED <<srv, past, issued, content>>
        /\ op'[t] = NULL /\ pc'[t] = "idle"
    BY <1>0, <1>3, Zenon DEF uvfs_write_end, Return, Goto, Others, TaskTypes, srvVars, histVars
  <2> QED
    BY <2>1, QuietThrough
<1>4. CASE setattr_request(t) \/ writepage_request(t)
  <2>1. /\ Others(t) /\ UNCHANGED <<issued, content>> /\ op' = op
        /\ pc'[t] \in {"setattr_end", "writepage_end"}
    BY <1>0, <1>4, Zenon DEF setattr_request, writepage_request, Goto, Others, TaskTypes,
                             pageVars, histVars
  <2>2. Grows
    <3>1. UNCHANGED <<srv, past>> \/ \E data, size : Commit(data, size)
      BY <1>4, Zenon DEF setattr_request, writepage_request
    <3> QED
      BY <3>1, SameHistory, CommitGrows, Zenon
  <2>3. ThroughTask(t)'
    BY <2>1, PlaceThrough, IssuedStays, Zenon
  <2> QED
    BY <2>1, <2>2, <2>3, RequestThrough, Zenon
<1> QED
  BY <1>1, <1>2, <1>3, <1>4, Zenon

\* A change at the server itself, and a store to a mapped page, which is of
\* a later change than all that is being written.
LEMMA ServerThrough ==
    ASSUME Shape, ThroughInv,
           \/ \E b \in Blocks : RemoteWrite(b)
           \/ \E p \in Pages : \E b \in BlocksOf(p) : Store(p, b)
    PROVE  ThroughInv'
<1>0. issued \in Nat /\ PageTypes
  BY IssuedStays, Zenon DEF Shape, TypeOK
<1>1. ASSUME NEW u \in Tasks, pc[u] = "write"
      PROVE  /\ \A b \in Blocks : Written(u, b, content)
             /\ op[u].val <= Change(issued + 1)
  <2>1. op[u] \in Ops /\ op[u].kind = "write"
    BY <1>1, Known, Zenon DEF PlaceInv, Writing
  <2>2. op[u].val \in Values /\ op[u] # NULL
    BY <2>1, OpFields, Zenon
  <2>3. op[u].val <= Change(issued)
    BY <2>1, <2>2, Zenon DEF ThroughInv, ThroughTask
  <2>4. op[u].val <= Change(issued + 1)
    BY <1>0, <2>2, <2>3, FileConstants DEF Values, Change, JUNK
  <2> QED
    BY <1>1, <2>4, Zenon DEF ThroughInv, ThroughTask
<1>2. ASSUME Grows, issued' = issued + 1, UNCHANGED <<pc, op, since>>,
             \A u \in Tasks : pc[u] = "write" => \A b \in Blocks : Written(u, b, content')
      PROVE  ThroughInv'
  <2>1. issued' \in Nat /\ issued <= issued'
    BY <1>0, <1>2
  <2> QED
    BY <1>2, <2>1, OtherThrough, Zenon DEF ThroughInv
<1>3. CASE \E b \in Blocks : RemoteWrite(b)
  <2>1. /\ issued' = issued + 1 /\ UNCHANGED <<pc, op, since, content>>
        /\ \E data, size : Commit(data, size)
    BY <1>3, Zenon DEF RemoteWrite, pageVars, taskVars, histVars
  <2>2. Grows
    BY <2>1, CommitGrows, Zenon
  <2> QED
    BY <1>1, <1>2, <2>1, <2>2, Zenon
<1>4. CASE \E p \in Pages : \E b \in BlocksOf(p) : Store(p, b)
  <2>1. PICK p \in Pages : \E b \in BlocksOf(p) : Store(p, b)
    BY <1>4, Zenon
  <2>2. PICK b \in BlocksOf(p) : Store(p, b)
    BY <2>1, Zenon
  <2>3. /\ content' = [content EXCEPT ![b] = Change(issued + 1)]
        /\ issued' = issued + 1 /\ UNCHANGED <<srv, past, pc, op, since>>
    BY <2>2, Zenon DEF Store, taskVars, histVars
  <2>4. Grows
    BY <2>3, SameHistory, Zenon
  <2>5. \A x \in Blocks : content'[x] = content[x] \/ content'[x] = Change(issued + 1)
    BY <1>0, <2>3, Zenon DEF PageTypes
  <2>6. ASSUME NEW u \in Tasks, pc[u] = "write", NEW x \in Blocks PROVE Written(u, x, content')
    <3>1. Written(u, x, content) /\ Change(issued + 1) >= op[u].val
      BY <1>1, <2>6
    <3> QED
      BY <2>5, <3>1, Zenon DEF Written
  <2> QED
    BY <1>2, <2>3, <2>4, <2>6, Zenon
<1> QED
  BY <1>3, <1>4, Zenon

\* The induction.
LEMMA InitThrough == Init => ThroughInv
<1> SUFFICES ASSUME Init, NEW t \in Tasks PROVE ThroughTask(t)
  BY Zenon DEF ThroughInv
<1>1. pc[t] = "idle" /\ op[t] = NULL
  BY Zenon DEF Init
<1> QED
  BY <1>1, Zenon DEF ThroughTask

LEMMA NextThrough == Shape /\ ThroughInv /\ [Next]_vars => ThroughInv'
<1> SUFFICES ASSUME Shape, ThroughInv, [Next]_vars PROVE ThroughInv'
  OBVIOUS
<1>1. ASSUME NEW t \in Tasks, Begin(t) PROVE ThroughInv'
  BY <1>1, BeginThrough, Zenon
<1>2. ASSUME NEW t \in Tasks, Step(t) PROVE ThroughInv'
  <2>1. CASE Quiet(t)
    BY <2>1, QuietThrough, Zenon DEF Quiet
  <2> QED
    BY <1>2, <2>1, QuietSteps, PageThrough, WriteThrough, OtherSteps, Zenon DEF Step
<1>3. CASE UNCHANGED vars
  BY <1>3, Zenon DEF vars, srvVars, pageVars, taskVars, histVars, ThroughInv,
                     ThroughTask, Written
<1> QED
  BY <1>1, <1>2, <1>3, ServerThrough, Zenon DEF Next

(* What a write has copied into its page stays there until the server has  *)
(* it, and is of a change asked for (write_copy to uvfs_write).            *)
THEOREM WritesAreKept == Spec => []ThroughInv
  BY InitThrough, NextThrough, ShapeInvariant, PTL DEF Spec

(* When requests to write do not fail, every write that ends has been at   *)
(* the server, all of it at once, since the call began: for any number of  *)
(* tasks and pages, whatever is read, truncated, refreshed, stored or      *)
(* written back beside it (uvfs_write_begin, uvfs_commit_write,            *)
(* uvfs_write_end).                                                        *)
THEOREM WritesGetThrough == Spec => []WrittenThrough
<1>1. ThroughInv => WrittenThrough
  BY Zenon DEF ThroughInv, ThroughTask, WrittenThrough, Written
<1> QED
  BY <1>1, WritesAreKept, PTL

=============================================================================
