---------------------------- MODULE UvfsFileInv ----------------------------
(***************************************************************************)
(* The inductive invariant of UvfsFile: where a task is in which           *)
(* operation, and how old the pages of the page cache may be.              *)
(***************************************************************************)
EXTENDS UvfsFile

\* Every write and every truncation gets through to the server, and copies
\* something.
WritesReach ==
    "write" \notin Errors /\ "setattr" \notin Errors /\ 0 \notin ShortCopies

Refreshing == {"refresh", "invalidate", "set_size", "set_mtime"}
Writing    == {"lock_inode", "write_begin", "write_copy", "write", "write_end"}
Truncating == {"lock_setattr", "vmtruncate", "setattr", "setattr_end"}

\* The program counter tells the operation, and whether a walk over the page
\* cache is under way.
PlaceInv(t) ==
    /\ IF pc[t] = "idle" THEN op[t] = NULL ELSE op[t] \in Ops
    /\ pc[t] \in Refreshing \cup {"getattr"} =>
          op[t].kind \in {"stat", "read", "write"}
    /\ pc[t] \in {"find_page", "readpage", "fill"} =>
          op[t].kind \in {"read", "fault"}
    /\ pc[t] \in Writing => op[t].kind = "write"
    /\ pc[t] \in Truncating => op[t].kind = "truncate"
    /\ pc[t] \in {"writepage", "writepage_end"} => op[t].kind = "writepage"
    /\ pc[t] \notin {"invalidate", "vmtruncate", "setattr", "setattr_end"} =>
          next[t] = 0

\* The reply a task works with: the attributes, or the data, that the server
\* had since the call began; or the page to be written back.
ReplyInv(t) ==
    /\ since[t] <= srv.mtime
    /\ pc[t] \in Refreshing \cup {"fill"} =>
          /\ rep[t] \in Replies
          /\ since[t] <= rep[t].mtime /\ rep[t].mtime <= srv.mtime
    /\ pc[t] = "fill" =>
          /\ rep[t].data = past[rep[t].mtime + 1]
          /\ \A b \in Blocks : b >= rep[t].size => rep[t].data[b] = ZERO
    /\ pc[t] = "writepage" =>
          rep[t] \in Replies /\ rep[t].data \in [Blocks -> Values]

TaskInv(t) ==
    /\ PlaceInv(t) /\ ReplyInv(t)
    /\ pc[t] \in {"readpage", "fill"} => op[t].page \notin uptodate

\* A page that was written back whole, and not stored to again, is what the
\* request holds.
WritebackInv(t) ==
    /\ pc[t] = "writepage"
    /\ op[t].page \notin dirty \cup lost
    => /\ rep[t].size = (op[t].page + 1) * PageSize
       /\ \A b \in BlocksOf(op[t].page) : rep[t].data[b] = content[b]

ServerInv ==
    /\ srv.data = past[srv.mtime + 1]
    /\ \A b \in Blocks : b >= srv.size => srv.data[b] = ZERO
    /\ i_mtime <= srv.mtime
    /\ lost \subseteq uptodate

\* The refresh of task r has been at page p, or found no reason to.
PassedBy(r, p) ==
    \/ pc[r] \in {"set_size", "set_mtime"}
    \/ pc[r] = "invalidate" /\ p < next[r]

\* A refresh with attributes of mtime m or later has been at page p.
FreshSince(p, m) ==
    \/ i_mtime >= m
    \/ \E r \in Tasks : PassedBy(r, p) /\ rep[r].mtime >= m

\* Task t works on page p, which it has locked, and is at one of the places
\* of l.
WorksOn(t, p, l) == pc[t] \in l /\ op[t].page = p

\* What a truncation or a write puts into page p ahead of the server.
AheadIn(p, v) ==
    \/ v = ZERO /\ \E t \in Tasks : pc[t] \in {"vmtruncate", "setattr"}
    \/ \E t \in Tasks : WorksOn(t, p, {"write"}) /\ v \in Ahead(t)

\* A page that a refresh with the server's present mtime has been at: nobody
\* is left who changed it before, who fills it got the server's data, and it
\* holds the server's data but for what is ahead of the server.
PageInv(p) ==
    FreshSince(p, srv.mtime) =>
      /\ \A t \in Tasks : ~WorksOn(t, p, {"write_end", "writepage_end"})
      /\ \A t \in Tasks : WorksOn(t, p, {"fill"}) => rep[t].mtime = srv.mtime
      /\ p \in uptodate /\ ~Unsaved(p) =>
            \A b \in BlocksOf(p) :
               content[b] = srv.data[b] \/ AheadIn(p, content[b])

\* What ReadFresh asks of a block.
Sound(t, b, v) ==
    v \in beside[t] \/ \E k \in since[t]..srv.mtime : v = past[k + 1][b]

Reading(t) == op[t] # NULL /\ op[t].kind = "read"

\* Page p is uptodate, or will be when the write that is at it ends.
Live(p) ==
    p \in uptodate \/ \E t \in Tasks : WorksOn(t, p, {"write", "write_end"})

\* The page of a reader t, once a refresh no older than the read has been at
\* it: who fills it got data of the time of the read, and it holds such data.
ReaderInv(t) ==
    Reading(t) =>
      LET p == op[t].page
      IN  /\ \A v \in Tasks : pc[v] \in {"vmtruncate", "setattr"} => ZERO \in beside[t]
          /\ pc[t] = "find_page" \/ FreshSince(p, since[t]) =>
               /\ \A v \in Tasks : WorksOn(v, p, {"fill"}) => rep[v].mtime >= since[t]
               /\ Live(p) /\ ~Unsaved(p) => \A b \in BlocksOf(p) : Sound(t, b, content[b])

FileInv ==
    /\ LocksExact
    /\ ServerInv
    /\ \A t \in Tasks : TaskInv(t) /\ WritebackInv(t) /\ ReaderInv(t)
    /\ \A p \in Pages : PageInv(p)

-----------------------------------------------------------------------------
(* Writes of whole pages, and the memory of a page just allocated.         *)

WholePages == \A r \in Ranges : r = <<0, PageSize>>

Clean(p, c) == \A b \in BlocksOf(p) : c[b] # JUNK

\* What task t writes is a whole page of data; the page it is writing, the
\* reply it fills a page from and the page it writes back hold no junk.
CleanTask(t) ==
    /\ op[t] # NULL /\ op[t].kind = "write" =>
          op[t].val # JUNK /\ op[t].from = 0 /\ op[t].to = PageSize
    /\ pc[t] \in {"write", "write_end"} => Clean(op[t].page, content)
    /\ pc[t] \in {"fill", "writepage"} => Clean(op[t].page, rep[t].data)

(* When whole pages are written (WholePages): a page that is uptodate, or  *)
(* will be when the write that is at it ends, has been filled, and so has  *)
(* what the server has and what is on its way to or from it                *)
(* (uvfs_readpage, uvfs_commit_write, uvfs_writepage).                     *)
JunkInv ==
    /\ \A p \in uptodate : Clean(p, content)
    /\ \A b \in Blocks : srv.data[b] # JUNK
    /\ \A t \in Tasks : CleanTask(t)
    /\ NoJunkRead

-----------------------------------------------------------------------------
(* Writes get through.                                                     *)

\* Block b holds what task t wrote, or something newer.
Written(t, b, d) == InRange(op[t], b, op[t].copied) => d[b] >= op[t].val

\* What is written is of a change asked for; the page holds it until the
\* server has it.
ThroughTask(t) ==
    /\ op[t] # NULL /\ op[t].kind = "write" => op[t].val <= Change(issued)
    /\ pc[t] = "write" => \A b \in Blocks : Written(t, b, content)
    /\ "write" \notin Errors /\ pc[t] = "write_end" =>
          \E k \in since[t]..srv.mtime : \A b \in Blocks : Written(t, b, past[k + 1])

(* From the copy of uvfs_write_begin's caller to the end of the request of *)
(* uvfs_commit_write the locked page holds what is being written, or what  *)
(* was stored to it later; from the reply of uvfs_write on, the server has *)
(* had it since the call began.                                            *)
ThroughInv == \A t \in Tasks : ThroughTask(t)

=============================================================================
