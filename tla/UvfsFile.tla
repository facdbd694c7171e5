------------------------------ MODULE UvfsFile ------------------------------
(***************************************************************************)
(* file.c and the attribute refresh of super.c: one regular file, its      *)
(* pages in the page cache, its inode, and the file as the server has it.  *)
(*                                                                         *)
(* Every read, write and stat first asks the server for the attributes     *)
(* (uvfs_revalidate_inode); uvfs_refresh_inode drops the cached pages when *)
(* size or mtime changed and then overwrites the inode's attributes, with  *)
(* no lock held.  A write goes through the page to the server and leaves   *)
(* i_mtime alone, so that the next refresh drops what it left behind.      *)
(* Processes that map the file store to its pages, which uvfs_writepage    *)
(* writes back later.                                                      *)
(*                                                                         *)
(* A request is a step in which the server carries it out and a later step *)
(* in which the task goes on with the reply.  The page cache and the VFS   *)
(* (page locks, i_mutex, the generic read and write loops) are external.   *)
(* The unit of data is a block, PageSize blocks to the page; data is told  *)
(* apart by the change that wrote it.                                      *)
(***************************************************************************)
EXTENDS Integers, FiniteSets, Sequences

CONSTANTS
    Tasks,          \* tasks that use the file
    NPages,         \* bound: pages of the file
    PageSize,       \* blocks in a page
    InitSize,       \* size of the file at first, in blocks
    Ranges,         \* the block ranges <<from, to>> within a page tasks write
    Sizes,          \* the sizes tasks truncate the file to
    ShortCopies,    \* where the copy from the user's buffer may stop short
    Errors,         \* the kinds of request that may fail, and "nomem": memory
                    \* may run out in uvfs_readpage and uvfs_write_begin
    Mapped,         \* do processes map the file, and store to it?
    MaxChanges,     \* bound: changes to the file
    NULL,           \* no task, no operation, no reply
    NOBODY          \* holds the lock of a page that nobody will unlock

ASSUME FileConstants ==
    /\ NPages \in Nat \ {0} /\ PageSize \in Nat \ {0}
    /\ InitSize \in 0..(NPages * PageSize)
    /\ Ranges \subseteq {r \in (0..PageSize) \X (0..PageSize) : r[1] < r[2]}
    /\ Sizes \subseteq 0..(NPages * PageSize)
    /\ ShortCopies \subseteq 0..(PageSize - 1)
    /\ Errors \subseteq {"getattr", "read", "write", "setattr", "nomem"}
    /\ Mapped \in BOOLEAN
    /\ MaxChanges \in Nat
    /\ NULL \notin Tasks /\ NOBODY \notin Tasks /\ NULL # NOBODY

Pages  == 0..(NPages - 1)
Blocks == 0..(NPages * PageSize - 1)
BlocksOf(p) == (p * PageSize)..((p + 1) * PageSize - 1)

\* Zero, the first contents, and the k-th change.  JUNK is what a page just
\* allocated holds.
ZERO == 0
FIRST == 1
Change(k) == k + 1
JUNK == -1
Values == {JUNK} \cup (0..Change(MaxChanges))

VARIABLES
    srv,        \* the file at the server: data, size and mtime
    cached,     \* pages in the page cache
    uptodate,   \* of these, the ones with PG_uptodate
    dirty,      \* of these, the ones with PG_dirty: stored to, not written
    content,    \* what the cached pages hold
    locker,     \* the task that holds the lock of a page
    i_size, i_mtime,
    i_mutex,    \* the task that holds the inode's mutex
    pc,
    op,         \* the operation of a task and its arguments
    rep,        \* the reply a task is working with: size and mtime, or data
    next,       \* the page a walk over the page cache is at
    issued,     \* changes asked for so far
    got,        \* the blocks the last read of a task returned
    \* History variables: they record what happened and guard nothing.
    past,       \* the data the server has had, by mtime
    since,      \* the server's mtime when the last call of a task began
    lost,       \* pages of which uvfs_writepage let go of a part behind the
                \* end of the file
    beside      \* what others put into the page cache during it, ahead of
                \* the server

srvVars   == <<srv, issued, past>>
histVars  == <<since, beside>>
storeVars == <<dirty, lost>>
pageVars  == <<cached, uptodate, storeVars, content, locker>>
inodeVars == <<i_size, i_mtime, i_mutex>>
taskVars  == <<pc, op, rep, next, got, histVars>>
vars == <<srvVars, pageVars, inodeVars, taskVars>>

FileSizes == 0..(NPages * PageSize)

Ops == [kind : {"stat"}]
         \cup [kind : {"read", "fault", "writepage"}, page : Pages]
         \cup {o \in [kind : {"write"}, page : Pages, from : 0..PageSize,
                      to : 0..PageSize, copied : 0..PageSize, val : Values] :
                  o.from + o.copied <= o.to /\ (o.copied = 0 => 0 \in ShortCopies)}
         \cup [kind : {"truncate"}, size : FileSizes]

Replies == [data : [Blocks -> Values] \cup {<<>>}, size : FileSizes,
            mtime : Nat]

\* What a read returns: some blocks of the file, or nothing.
Reads == UNION {[S -> Values] : S \in SUBSET Blocks}

ASSUME NullIsNothing == NULL \notin Ops

PCs == {"idle", "getattr", "refresh", "invalidate", "set_size", "set_mtime",
        "find_page", "readpage", "fill", "lock_inode", "write_begin",
        "write_copy", "write", "write_end", "lock_setattr", "vmtruncate",
        "setattr", "setattr_end", "writepage", "writepage_end"}

ServerTypes ==
    /\ srv \in [data : [Blocks -> Values], size : FileSizes, mtime : Nat]
    /\ issued \in 0..MaxChanges
    /\ past \in Seq([Blocks -> Values]) /\ Len(past) = srv.mtime + 1

PageTypes ==
    /\ dirty \subseteq uptodate /\ uptodate \subseteq cached
    /\ cached \subseteq Pages /\ lost \subseteq cached
    /\ content \in [Blocks -> Values]
    /\ locker \in [Pages -> Tasks \cup {NULL, NOBODY}]
    /\ \A p \in Pages : locker[p] # NULL => p \in cached

InodeTypes ==
    /\ i_size \in FileSizes /\ i_mtime \in Nat
    /\ i_mutex \in Tasks \cup {NULL}

TaskTypes ==
    /\ pc \in [Tasks -> PCs]
    /\ op \in [Tasks -> Ops \cup {NULL}]
    /\ rep \in [Tasks -> Replies \cup {NULL}]
    /\ next \in [Tasks -> 0..NPages]
    /\ got \in [Tasks -> Reads]
    /\ since \in [Tasks -> Nat]
    /\ beside \in [Tasks -> SUBSET Values]

TypeOK == ServerTypes /\ PageTypes /\ InodeTypes /\ TaskTypes

Init ==
    /\ srv = [data |-> [b \in Blocks |-> IF b < InitSize THEN FIRST ELSE ZERO],
              size |-> InitSize, mtime |-> 0]
    /\ cached = {} /\ uptodate = {} /\ dirty = {} /\ lost = {}
    /\ content = [b \in Blocks |-> JUNK]
    /\ locker = [p \in Pages |-> NULL]
    /\ i_size = InitSize /\ i_mtime = 0 /\ i_mutex = NULL
    /\ pc = [t \in Tasks |-> "idle"]
    /\ op = [t \in Tasks |-> NULL]
    /\ rep = [t \in Tasks |-> NULL]
    /\ next = [t \in Tasks |-> 0]
    /\ issued = 0
    /\ got = [t \in Tasks |-> <<>>]
    /\ past = <<srv.data>>
    /\ since = [t \in Tasks |-> 0]
    /\ beside = [t \in Tasks |-> {}]

Goto(t, l) == pc' = [pc EXCEPT ![t] = l]

\* Mutant: the page stays locked.
unlock_page_missing(p) == UNCHANGED locker

unlock_page(p) == locker' = [locker EXCEPT ![p] = NULL]

Return(t) ==
    /\ Goto(t, "idle")
    /\ op' = [op EXCEPT ![t] = NULL]
    /\ rep' = [rep EXCEPT ![t] = NULL]
    /\ next' = [next EXCEPT ![t] = 0]

-----------------------------------------------------------------------------
(* The server.  A request may fail, having been carried out or not.        *)

\* A modifying request leaves a new mtime behind.
Commit(data, size) ==
    /\ srv' = [data |-> [b \in Blocks |-> IF b < size THEN data[b] ELSE ZERO],
               size |-> size, mtime |-> srv.mtime + 1]
    /\ past' = Append(past, srv'.data)

\* The file is changed at the server itself.
RemoteWrite(b) ==
    /\ issued < MaxChanges
    /\ b < srv.size
    /\ issued' = issued + 1
    /\ Commit([srv.data EXCEPT ![b] = Change(issued')], srv.size)
    /\ UNCHANGED <<pageVars, inodeVars, taskVars>>

-----------------------------------------------------------------------------
(* uvfs_file_read, uvfs_file_write and uvfs_getattr begin with             *)
(* uvfs_revalidate_inode.                                                  *)

\* Ahead(v) is what the write or truncation of task v puts into its page
\* before the server has it: the data, the zeroes behind a short copy or a
\* new end, and the memory of a page that was not read.
Ahead(v) ==
    IF op[v].kind = "truncate" THEN {ZERO}
    ELSE {op[v].val}
         \cup (IF op[v].copied < op[v].to - op[v].from THEN {ZERO} ELSE {})
         \cup {content[b] : b \in {c \in BlocksOf(op[v].page) :
                                       op[v].page \notin uptodate}}

\* The page cache is ahead of the server by what v did.
Beside(v) ==
    beside' = [t \in Tasks |-> IF op[t] # NULL /\ op[t].kind = "read"
                               THEN beside[t] \cup Ahead(v) ELSE beside[t]]

Call(t, o) ==
    /\ pc[t] = "idle"
    /\ op' = [op EXCEPT ![t] = o]
    /\ got' = [got EXCEPT ![t] = <<>>]
    /\ since' = [since EXCEPT ![t] = srv.mtime]
    /\ beside' = [beside EXCEPT ![t] =
                     IF o.kind = "read"
                     THEN UNION {Ahead(v) : v \in {w \in Tasks :
                             pc[w] \in {"write", "vmtruncate", "setattr"}}}
                     ELSE {}]
    /\ UNCHANGED <<srv, past, pageVars, inodeVars, rep, next>>

uvfs_getattr(t) ==
    /\ Call(t, [kind |-> "stat"])
    /\ Goto(t, "getattr")
    /\ UNCHANGED issued

uvfs_file_read(t, p) ==
    /\ Call(t, [kind |-> "read", page |-> p])
    /\ Goto(t, "getattr")
    /\ UNCHANGED issued

\* Mapping the file only revalidates; the mapping itself is the VM's.
uvfs_file_mmap(t) ==
    /\ Mapped
    /\ Call(t, [kind |-> "stat"])
    /\ Goto(t, "getattr")
    /\ UNCHANGED issued

uvfs_file_write(t, p, r, n) ==
    /\ issued < MaxChanges
    /\ n = r[2] - r[1] \/ (n \in ShortCopies /\ n < r[2] - r[1])
    /\ issued' = issued + 1
    /\ Call(t, [kind |-> "write", page |-> p, from |-> r[1], to |-> r[2],
                copied |-> n, val |-> Change(issued')])
    /\ Goto(t, "getattr")

\* uvfs_revalidate_inode: the server answers UVFS_GETATTR.
revalidate_request(t) ==
    /\ pc[t] = "getattr"
    /\ \/ /\ rep' = [rep EXCEPT ![t] = [srv EXCEPT !.data = <<>>]]
          /\ Goto(t, "refresh")
          /\ UNCHANGED <<op, next>>
       \/ /\ "getattr" \in Errors
          /\ Return(t)
    /\ UNCHANGED <<srvVars, pageVars, inodeVars, got, histVars>>

\* Mutant: only a change of size drops the pages.
Differs_size(a) == i_size # a.size

\* uvfs_refresh_inode compares size and mtime.
Differs(a) == i_size # a.size \/ i_mtime # a.mtime

refresh_compare(t) ==
    /\ pc[t] = "refresh"
    /\ Goto(t, IF Differs(rep[t]) THEN "invalidate" ELSE "set_size")
    /\ UNCHANGED <<srvVars, pageVars, inodeVars, op, rep, next, got, histVars>>

\* invalidate_inode_pages2 takes the pages in order and waits for the lock
\* of each.  It keeps a dirty page and says so, which nobody looks at.
Drop(p) ==
    /\ cached' = cached \ {p}
    /\ uptodate' = uptodate \ {p}
    /\ dirty' = dirty \ {p}
    /\ lost' = lost \ {p}
    /\ content' = [b \in Blocks |-> IF b \in BlocksOf(p) THEN JUNK
                                                          ELSE content[b]]

refresh_invalidate(t) ==
    /\ pc[t] = "invalidate"
    /\ \/ /\ next[t] \in Pages
          /\ locker[next[t]] = NULL
          /\ \/ next[t] \notin dirty /\ Drop(next[t])
             \/ /\ next[t] \in dirty
                /\ UNCHANGED <<cached, uptodate, storeVars, content>>
          /\ next' = [next EXCEPT ![t] = @ + 1]
          /\ UNCHANGED pc
       \/ /\ next[t] = NPages
          /\ Goto(t, "set_size")
          /\ next' = [next EXCEPT ![t] = 0]
          /\ UNCHANGED <<cached, uptodate, storeVars, content>>
    /\ UNCHANGED <<srvVars, locker, inodeVars, op, rep, got, histVars>>

refresh_size(t) ==
    /\ pc[t] = "set_size"
    /\ i_size' = rep[t].size
    /\ Goto(t, "set_mtime")
    /\ UNCHANGED <<srvVars, pageVars, i_mtime, i_mutex, op, rep, next, got,
                   histVars>>

\* The last assignment; the operation goes on.
refresh_mtime(t) ==
    /\ pc[t] = "set_mtime"
    /\ i_mtime' = rep[t].mtime
    /\ \/ /\ op[t].kind = "stat"
          /\ Return(t)
       \/ /\ op[t].kind = "read"
          /\ Goto(t, "find_page")
          /\ rep' = [rep EXCEPT ![t] = NULL]
          /\ UNCHANGED <<op, next>>
       \/ /\ op[t].kind = "write"
          /\ Goto(t, "lock_inode")
          /\ rep' = [rep EXCEPT ![t] = NULL]
          /\ UNCHANGED <<op, next>>
    /\ UNCHANGED <<srvVars, pageVars, i_size, i_mutex, got, histVars>>

-----------------------------------------------------------------------------
(* do_sync_read: the generic read loop with uvfs_readpage.                 *)

\* What a read gives the user of the page: the blocks up to i_size.
Visible(p, c) == [b \in {x \in BlocksOf(p) : x < i_size} |-> c[b]]
Given(t, c) == IF op[t].kind = "read" THEN Visible(op[t].page, c) ELSE <<>>

\* Page p holds stores that the server has not got.
Unsaved(p) ==
    \/ p \in dirty \cup lost
    \/ \E t \in Tasks : pc[t] = "writepage" /\ op[t].page = p

\* An uptodate page is copied out whether or not it is locked.
read_cached(t) ==
    LET p == op[t].page
    IN  /\ pc[t] = "find_page"
        /\ p \in uptodate
        /\ got' = [got EXCEPT ![t] = Given(t, content)]
        /\ beside' = [beside EXCEPT ![t] =
                         IF Unsaved(p) /\ op[t].kind = "read"
                         THEN Values ELSE @]
        /\ Return(t)
        /\ UNCHANGED <<srvVars, pageVars, inodeVars, since>>

\* A page that is absent or not uptodate is locked, added if need be.
read_lock_page(t) ==
    LET p == op[t].page
    IN  /\ pc[t] = "find_page"
        /\ p \notin uptodate
        /\ locker[p] = NULL
        /\ locker' = [locker EXCEPT ![p] = t]
        /\ cached' = cached \cup {p}
        /\ Goto(t, "readpage")
        /\ UNCHANGED <<srvVars, uptodate, storeVars, content, inodeVars, op, rep,
                       next, got, histVars>>

\* uvfs_readpage: the server answers UVFS_READ.
readpage_request(t) ==
    LET p == op[t].page
    IN  /\ pc[t] = "readpage"
        /\ \/ /\ rep' = [rep EXCEPT ![t] = srv]
              /\ Goto(t, "fill")
              /\ UNCHANGED <<locker, op, next>>
           \/ /\ "read" \in Errors
              /\ unlock_page(p)
              /\ Return(t)
        /\ UNCHANGED <<srvVars, cached, uptodate, storeVars, content, inodeVars,
                       got, histVars>>

\* uvfs_new_transaction fails in uvfs_readpage: the one way out of it that
\* does not unlock the page.
readpage_nomem(t) ==
    /\ pc[t] = "readpage"
    /\ "nomem" \in Errors
    /\ locker' = [locker EXCEPT ![op[t].page] = NOBODY]
    /\ Return(t)
    /\ UNCHANGED <<srvVars, cached, uptodate, storeVars, content, inodeVars, got,
                   histVars>>

\* Mutant: what lies behind the bytes read is left as it was.
Filled_unread(r, p) ==
    [b \in Blocks |-> IF b \in BlocksOf(p) /\ b < r.size THEN r.data[b]
                                                        ELSE content[b]]

\* The bytes read, then zeroes.
Filled(r, p) ==
    [b \in Blocks |-> CASE b \notin BlocksOf(p) -> content[b]
                        [] b \in BlocksOf(p) /\ b < r.size -> r.data[b]
                        [] OTHER -> ZERO]

readpage_fill(t) ==
    LET p == op[t].page
    IN  /\ pc[t] = "fill"
        /\ content' = Filled(rep[t], p)
        /\ uptodate' = uptodate \cup {p}
        /\ unlock_page(p)
        /\ got' = [got EXCEPT ![t] = Given(t, content')]
        /\ Return(t)
        /\ UNCHANGED <<srvVars, cached, storeVars, inodeVars, histVars>>

-----------------------------------------------------------------------------
(* do_sync_write: the generic write loop with uvfs_write_begin and         *)
(* uvfs_write_end.  It holds i_mutex; one range lies within one page.      *)

write_lock_inode(t) ==
    /\ pc[t] = "lock_inode"
    /\ i_mutex = NULL
    /\ i_mutex' = t
    /\ Goto(t, "write_begin")
    /\ UNCHANGED <<srvVars, pageVars, i_size, i_mtime, op, rep, next, got,
                   histVars>>

\* The page is found or added, and locked.  uvfs_prepare_write does nothing:
\* a page that is not uptodate is not read.
uvfs_write_begin(t) ==
    LET p == op[t].page
    IN  /\ pc[t] = "write_begin"
        /\ locker[p] = NULL
        /\ locker' = [locker EXCEPT ![p] = t]
        /\ cached' = cached \cup {p}
        /\ Goto(t, "write_copy")
        /\ UNCHANGED <<srvVars, uptodate, storeVars, content, inodeVars, op, rep,
                       next, got, histVars>>

\* No page can be had: the write loop gives up.
write_begin_nomem(t) ==
    /\ pc[t] = "write_begin"
    /\ "nomem" \in Errors
    /\ i_mutex' = NULL
    /\ Return(t)
    /\ UNCHANGED <<srvVars, pageVars, i_size, i_mtime, got, histVars>>

InRange(o, b, n) ==
    b \in (o.page * PageSize + o.from)..(o.page * PageSize + o.from + n - 1)

\* The user's data is copied into the page; the part a short copy leaves out
\* is zeroed.
write_copy(t) ==
    LET o == op[t]
    IN  /\ pc[t] = "write_copy"
        /\ content' = [b \in Blocks |->
                          CASE InRange(o, b, o.copied) -> o.val
                            [] InRange(o, b, o.to - o.from)
                                 /\ ~InRange(o, b, o.copied) -> ZERO
                            [] OTHER -> content[b]]
        /\ Goto(t, "write")
        /\ Beside(t)
        /\ UNCHANGED <<srvVars, cached, uptodate, storeVars, locker, inodeVars,
                       op, rep, next, got, since>>

\* Mutant: the offset is counted twice.
EndOf_twice(o) == o.page * PageSize + o.from + o.from + o.copied

\* Mutant: the offset in the page is left out.
EndOf_page(o) == o.page * PageSize + o.copied

\* Where the part that was copied ends.
EndOf(o) == o.page * PageSize + o.from + o.copied

\* uvfs_write: the server carries out UVFS_WRITE.  Writing nothing changes
\* nothing.
uvfs_write(t) ==
    LET o == op[t]
        size == IF EndOf(o) > srv.size THEN EndOf(o) ELSE srv.size
    IN  /\ pc[t] = "write"
        /\ \/ /\ o.copied > 0
              /\ Commit([b \in Blocks |->
                            IF InRange(o, b, o.copied)
                            THEN content[b] ELSE srv.data[b]], size)
           \/ /\ o.copied = 0 \/ "write" \in Errors
              /\ UNCHANGED <<srv, past>>
        /\ Goto(t, "write_end")
        /\ UNCHANGED <<issued, pageVars, inodeVars, op, rep, next, got,
                       histVars>>

\* Mutant: i_mtime is brought up to date after a write.
MtimeAfterWrite_server == srv.mtime

\* i_mtime after a write: S_NOCMTIME leaves it alone.
MtimeAfterWrite == i_mtime

\* The rest of uvfs_commit_write and of uvfs_write_end, whatever the error.
uvfs_write_end(t) ==
    LET o == op[t]
    IN  /\ pc[t] = "write_end"
        /\ i_size' = IF EndOf(o) > i_size THEN EndOf(o) ELSE i_size
        /\ i_mtime' = MtimeAfterWrite
        /\ uptodate' = uptodate \cup {o.page}
        /\ unlock_page(o.page)
        /\ i_mutex' = NULL
        /\ Return(t)
        /\ UNCHANGED <<srvVars, cached, storeVars, content, got, histVars>>

-----------------------------------------------------------------------------
(* uvfs_setattr with ATTR_SIZE, called with i_mutex held.                  *)

uvfs_setattr(t, n) ==
    /\ issued < MaxChanges
    /\ issued' = issued + 1
    /\ Call(t, [kind |-> "truncate", size |-> n])
    /\ Goto(t, "lock_setattr")

\* inode_setattr: i_size is set first.
setattr_size(t) ==
    /\ pc[t] = "lock_setattr"
    /\ i_mutex = NULL
    /\ i_mutex' = t
    /\ i_size' = op[t].size
    /\ Goto(t, "vmtruncate")
    /\ Beside(t)
    /\ UNCHANGED <<srvVars, pageVars, i_mtime, op, rep, next, got, since>>

\* vmtruncate, page by page: pages behind the new end go, and the tail of
\* the page that holds it is zeroed.
setattr_vmtruncate(t) ==
    LET p == next[t]
        n == op[t].size
    IN  /\ pc[t] = "vmtruncate"
        /\ \/ /\ p \in Pages
              /\ locker[p] = NULL
              /\ \/ /\ p * PageSize >= n
                    /\ Drop(p)
                 \/ /\ p * PageSize < n
                    /\ content' = [b \in Blocks |->
                                     IF b \in BlocksOf(p) /\ b >= n /\ p \in cached
                                     THEN ZERO ELSE content[b]]
                    /\ UNCHANGED <<cached, uptodate, storeVars>>
              /\ next' = [next EXCEPT ![t] = @ + 1]
              /\ UNCHANGED pc
           \/ /\ p = NPages
              /\ Goto(t, "setattr")
              /\ UNCHANGED <<cached, uptodate, storeVars, content, next>>
        /\ UNCHANGED <<srvVars, locker, inodeVars, op, rep, got, histVars>>

\* The server carries out UVFS_SETATTR; on an error the inode keeps the new
\* size.
setattr_request(t) ==
    /\ pc[t] = "setattr"
    /\ \/ Commit(srv.data, op[t].size)
       \/ "setattr" \in Errors /\ UNCHANGED <<srv, past>>
    /\ Goto(t, "setattr_end")
    /\ UNCHANGED <<issued, pageVars, inodeVars, op, rep, next, got, histVars>>

setattr_end(t) ==
    /\ pc[t] = "setattr_end"
    /\ i_mutex' = NULL
    /\ Return(t)
    /\ UNCHANGED <<srvVars, pageVars, i_size, i_mtime, got, histVars>>

-----------------------------------------------------------------------------
(* A mapped file: faults read pages with uvfs_readpage, and do not         *)
(* revalidate; the VM writes dirty pages back with uvfs_writepage.         *)

fault(t, p) ==
    /\ Mapped
    /\ p * PageSize < i_size
    /\ Call(t, [kind |-> "fault", page |-> p])
    /\ Goto(t, "find_page")
    /\ UNCHANGED issued

\* A process stores to a page that is mapped, locked or not.
Store(p, b) ==
    /\ Mapped
    /\ issued < MaxChanges
    /\ b < i_size /\ p \in uptodate
    /\ issued' = issued + 1
    /\ content' = [content EXCEPT ![b] = Change(issued')]
    /\ dirty' = dirty \cup {p}
    /\ UNCHANGED <<srv, past, cached, uptodate, lost, locker, inodeVars,
                   taskVars>>

\* Where the file ends, in page p or with it.
PageEnd(p) ==
    IF i_size < (p + 1) * PageSize THEN i_size ELSE (p + 1) * PageSize

\* The page is locked and no longer dirty when uvfs_writepage is called.  A
\* page behind the end of the file is not written; otherwise the request is
\* built from the page up to the end of the file.
uvfs_writepage(t, p) ==
    /\ pc[t] = "idle"
    /\ p \in dirty
    /\ locker[p] = NULL
    /\ dirty' = dirty \ {p}
    /\ lost' = lost \cup (IF PageEnd(p) < (p + 1) * PageSize THEN {p} ELSE {})
    /\ \/ /\ p * PageSize >= i_size
          /\ UNCHANGED <<locker, pc, op, rep, got>>
       \/ /\ p * PageSize < i_size
          /\ locker' = [locker EXCEPT ![p] = t]
          /\ op' = [op EXCEPT ![t] = [kind |-> "writepage", page |-> p]]
          /\ rep' = [rep EXCEPT ![t] =
                        [data |-> content, size |-> PageEnd(p), mtime |-> 0]]
          /\ got' = [got EXCEPT ![t] = <<>>]
          /\ Goto(t, "writepage")
    /\ UNCHANGED <<srvVars, cached, uptodate, content, inodeVars, next,
                   histVars>>

\* The server carries out UVFS_WRITE.
writepage_request(t) ==
    LET end == rep[t].size
    IN  /\ pc[t] = "writepage"
        /\ \/ Commit([b \in Blocks |->
                         IF b \in BlocksOf(op[t].page) /\ b < end
                         THEN rep[t].data[b] ELSE srv.data[b]],
                      IF end > srv.size THEN end ELSE srv.size)
           \/ "write" \in Errors /\ UNCHANGED <<srv, past>>
        /\ Goto(t, "writepage_end")
        /\ UNCHANGED <<issued, pageVars, inodeVars, op, rep, next, got,
                       histVars>>

writepage_end(t) ==
    /\ pc[t] = "writepage_end"
    /\ unlock_page(op[t].page)
    /\ Return(t)
    /\ UNCHANGED <<srvVars, cached, uptodate, storeVars, content, inodeVars, got,
                   histVars>>

-----------------------------------------------------------------------------

Begin(t) ==
    \/ uvfs_getattr(t) \/ uvfs_file_mmap(t)
    \/ \E p \in Pages :
          \/ uvfs_file_read(t, p) \/ fault(t, p) \/ uvfs_writepage(t, p)
          \/ \E r \in Ranges : \E n \in 0..PageSize : uvfs_file_write(t, p, r, n)
    \/ \E n \in Sizes : uvfs_setattr(t, n)

Step(t) ==
    \/ revalidate_request(t) \/ refresh_compare(t) \/ refresh_invalidate(t)
    \/ refresh_size(t) \/ refresh_mtime(t)
    \/ read_cached(t) \/ read_lock_page(t) \/ readpage_request(t)
    \/ readpage_nomem(t) \/ readpage_fill(t)
    \/ write_lock_inode(t) \/ uvfs_write_begin(t) \/ write_begin_nomem(t)
    \/ write_copy(t) \/ uvfs_write(t) \/ uvfs_write_end(t)
    \/ setattr_size(t) \/ setattr_vmtruncate(t) \/ setattr_request(t)
    \/ setattr_end(t) \/ writepage_request(t) \/ writepage_end(t)

Next ==
    \/ \E t \in Tasks : Begin(t) \/ Step(t)
    \/ \E b \in Blocks : RemoteWrite(b)
    \/ \E p \in Pages : \E b \in BlocksOf(p) : Store(p, b)

Spec == Init /\ [][Next]_vars

\* A task inside a call goes on; page locks and i_mutex are granted to their
\* waiters in turn, so a waiter that sees the lock free again and again gets
\* it.
FairSpec == Spec /\ \A t \in Tasks : SF_vars(Step(t))

-----------------------------------------------------------------------------
(* What must hold.                                                         *)

(* The page cache is what the attributes say it is: when the inode carries *)
(* the server's own size and mtime, so that the next refresh would keep    *)
(* the cached pages, every uptodate page that nobody is working on holds   *)
(* the server's data, and zeroes behind the end of the file                *)
(* (uvfs_refresh_inode, uvfs_readpage, uvfs_commit_write, uvfs_setattr).   *)
(* Left out are a truncation that has not reached the server yet, pages    *)
(* with stores that uvfs_writepage has not written yet, and pages with     *)
(* stores behind the end of the file, which it will never write.           *)
Coherent ==
    /\ i_mtime = srv.mtime /\ i_size = srv.size
    /\ \A t \in Tasks : pc[t] \notin {"vmtruncate", "setattr"}
    => \A p \in uptodate \ (dirty \cup lost) : locker[p] = NULL =>
         \A b \in BlocksOf(p) : content[b] = srv.data[b]

(* No read returns the uninitialized memory of a page just allocated.      *)
NoJunkRead ==
    \A t \in Tasks : \A b \in DOMAIN got[t] : got[t][b] # JUNK

(* A read is fresh: each block it returns is one the server had at some    *)
(* moment since the read began, or one that a write or a truncation that   *)
(* overlaps the read has put into the page ahead of the server.  So what   *)
(* was written before a read is seen by it, whatever refreshes, writes and *)
(* changes at the server come between (uvfs_file_read revalidates before   *)
(* it looks at the page cache).  Left out are reads of a page with stores  *)
(* that the server has not got: the refresh keeps such a page, whatever    *)
(* changed at the server (uvfs_refresh_inode ignores the result of         *)
(* invalidate_inode_pages2).                                               *)
ReadFresh ==
    \A t \in Tasks : \A b \in DOMAIN got[t] :
        \/ \E k \in since[t]..srv.mtime : got[t][b] = past[k + 1][b]
        \/ got[t][b] \in beside[t]

(* A write is through when it ends: what was copied from the user has been *)
(* in the file at the server, all of it at once, at some moment since the  *)
(* call began, but for what a process stored to the page meanwhile through *)
(* a mapping (the value of a later change).  No refresh, truncation, fill  *)
(* or write-back gets at the page between the copy and the request         *)
(* (uvfs_write_begin, uvfs_commit_write, uvfs_write).  A request that      *)
(* fails is left out: uvfs_write_end does not look at the error.           *)
WrittenThrough ==
    "write" \notin Errors =>
      \A t \in Tasks : pc[t] = "write_end" =>
        \E k \in since[t]..srv.mtime : \A b \in Blocks :
           InRange(op[t], b, op[t].copied) => past[k + 1][b] >= op[t].val

\* Where the code holds the lock of the operation's page, and i_mutex.
PageHeld(t) ==
    pc[t] \in {"readpage", "fill", "write_copy", "write", "write_end",
               "writepage", "writepage_end"}

MutexHeld(t) ==
    pc[t] \in {"write_begin", "write_copy", "write", "write_end", "vmtruncate",
               "setattr", "setattr_end"}

(* A task holds the lock of a page exactly while it is between taking and  *)
(* dropping it in the code, and likewise i_mutex.  So no two tasks fill or *)
(* write one page at once, no two change the file at once, and every path, *)
(* errors included, lets go of what it took (uvfs_readpage,                *)
(* uvfs_writepage, uvfs_write_begin, uvfs_write_end, uvfs_setattr).  The   *)
(* page that uvfs_readpage leaves locked for want of memory is nobody's.   *)
LocksExact ==
    /\ \A p \in Pages, t \in Tasks :
          locker[p] = t <=> PageHeld(t) /\ op[t].page = p
    /\ \A t \in Tasks : i_mutex = t <=> MutexHeld(t)

(* Every call returns: no task waits forever for a page, for i_mutex or in *)
(* the walk of invalidate_inode_pages2, whoever else uses the file and     *)
(* whichever requests fail, unless memory ran out in uvfs_readpage, which  *)
(* leaves its page locked.                                                 *)
CallsReturn ==
    \A t \in Tasks : pc[t] # "idle" ~>
                        (pc[t] = "idle" \/ \E p \in Pages : locker[p] = NOBODY)

=============================================================================
