---------------------------- MODULE UvfsReaddir ----------------------------
(***************************************************************************)
(* uvfs_readdir: tasks that share one open directory list it, call by      *)
(* call, while it changes at the server.  An entry is named by its index,  *)
(* the position the server gives it.                                       *)
(***************************************************************************)
EXTENDS UvfsOps

CONSTANTS
    Indices,        \* the indices of entries, 0..n
    Rooms           \* how many entries the buffer of a call may take; the VFS
                    \* itself fails a call with no room for one

ASSUME ReaddirConstants == Indices \subseteq Nat /\ Rooms \subseteq Nat \ {0}

VARIABLES
    present,        \* the entries, at the server
    f_pos,          \* of the open directory
    i_mutex,        \* of the directory: the task in vfs_readdir
    \* History of the listing, since f_pos was last set to the beginning.
    listed,         \* the entries handed to the user, in order
    stayed,         \* the entries that were present all the time
    lapsed,         \* a call failed after it had filled in entries
    ended           \* a call has returned nothing: the end

listVars == <<f_pos, i_mutex, listed, lapsed, ended>>
readdirVars == <<present, stayed, listVars>>

ReaddirInit ==
    /\ present = Indices
    /\ stayed = present
    /\ f_pos = 0
    /\ i_mutex = NULL
    /\ listed = <<>>
    /\ lapsed = FALSE /\ ended = FALSE

Readdir(room, filled) ==
    [kind |-> "readdir", room |-> room, filled |-> filled]

\* The VFS calls uvfs_readdir under the mutex of the directory.
vfs_readdir(t) ==
    /\ op[t] = Idle
    /\ i_mutex = NULL
    /\ ~ended
    /\ i_mutex' = t
    /\ \E room \in Rooms : begin(t, Readdir(room, <<>>))
    /\ UNCHANGED <<present, stayed, f_pos, listed, lapsed, ended>>

\* A list of entries has an entry; it is in the order of the indices.
Has(s, e) == \E i \in DOMAIN s : s[i] = e
Rising(s) == \A i, k \in DOMAIN s : i < k => s[i] < s[k]

\* The server returns entries from entry_no on, in order and leaving none out,
\* as many as it likes but at least one if there is one.
ServedEntries ==
    LET rest == {e \in present : e >= f_pos}
    IN  {s \in UNION {[1..n -> rest] : n \in 0..Cardinality(rest)} :
            /\ Rising(s)
            /\ \A i \in DOMAIN s, e \in rest : e < s[i] => Has(s, e)
            /\ s = <<>> => rest = {}}

serve_readdir(t) ==
    /\ op[t].kind = "readdir"
    /\ \E s \in ServedEntries : serve(t, Success(s))
    /\ UNCHANGED readdirVars

serve_readdir_error(t) ==
    /\ op[t].kind = "readdir"
    /\ serve(t, Failure("EACCES"))
    /\ UNCHANGED readdirVars

\* The call is over.  The VFS hands the user what was filled in, or the error
\* and nothing else.
Return0(t, filled) ==
    /\ i_mutex' = NULL
    /\ listed' = listed \o filled
    /\ ended' = (filled = <<>>)
    /\ UNCHANGED lapsed
ReturnError(t) ==
    /\ i_mutex' = NULL
    /\ lapsed' = (lapsed \/ op[t].filled # <<>>)
    /\ UNCHANGED <<f_pos, listed, ended>>

readdir_error(t) ==
    /\ op[t].kind = "readdir"
    /\ Failed(t)
    /\ finish(t, Idle)
    /\ ReturnError(t)
    /\ UNCHANGED <<present, stayed>>

\* Mutant: the transaction is not freed at the end of the directory.
FreeAtEnd_missing(t) ==
    /\ status[t] = "returned"
    /\ op' = [op EXCEPT ![t] = Idle]
    /\ UNCHANGED <<conduitVars, reply>>

\* "We've reached the end of the directory": break, and kfree after the loop.
FreeAtEnd(t) == finish(t, Idle)

\* Mutant: an empty reply is not taken for the end.
readdir_end_again(t) ==
    /\ op[t].kind = "readdir"
    /\ Succeeded(t) /\ reply[t].value = <<>>
    /\ finish(t, op[t])
    /\ UNCHANGED readdirVars

readdir_end(t) ==
    /\ op[t].kind = "readdir"
    /\ Succeeded(t) /\ reply[t].value = <<>>
    /\ FreeAtEnd(t)
    /\ Return0(t, op[t].filled)
    /\ UNCHANGED <<present, stayed, f_pos>>

\* Mutants: the position of the entry, and the one before it.
PositionAfter_same(entry) == entry
PositionAfter_before(entry) == entry - 1

\* ent->index + 1.
PositionAfter(entry) == entry + 1

\* filldir takes entries while there is room, and f_pos follows those taken.
\* With entries left over the call returns; otherwise it asks for more.
readdir_fill(t) ==
    LET batch  == reply[t].value
        room   == op[t].room
        taken  == IF Len(batch) <= room THEN Len(batch) ELSE room
        filled == op[t].filled \o SubSeq(batch, 1, taken)
    IN  /\ op[t].kind = "readdir"
        /\ Succeeded(t) /\ batch # <<>>
        /\ f_pos' = IF taken = 0 THEN f_pos ELSE PositionAfter(batch[taken])
        /\ \/ /\ taken < Len(batch)
              /\ finish(t, Idle)
              /\ Return0(t, filled)
           \/ /\ taken = Len(batch)
              /\ finish(t, Readdir(room - taken, filled))
              /\ UNCHANGED <<i_mutex, listed, lapsed, ended>>
        /\ UNCHANGED <<present, stayed>>

readdir_more(t) ==
    /\ op[t].kind = "readdir"
    /\ begin(t, op[t])
    /\ UNCHANGED readdirVars

readdir_nomem(t) ==
    /\ NoMemory
    /\ op[t].kind = "readdir"
    /\ status[t] = "free"
    /\ op' = [op EXCEPT ![t] = Idle]
    /\ ReturnError(t)
    /\ UNCHANGED <<conduitVars, reply, present, stayed>>

\* The directory changes at the server.
RemoteEntry(e) ==
    /\ present' = IF e \in present THEN present \ {e} ELSE present \cup {e}
    /\ stayed' = stayed \ {e}
    /\ UNCHANGED <<listVars, conduitVars, op, reply>>

\* The user starts over.
rewinddir ==
    /\ ended
    /\ i_mutex = NULL
    /\ f_pos' = 0
    /\ listed' = <<>> /\ stayed' = present
    /\ lapsed' = FALSE /\ ended' = FALSE
    /\ UNCHANGED <<present, i_mutex, conduitVars, op, reply>>

readdir_step(t) ==
    \/ readdir_error(t) \/ readdir_end(t) \/ readdir_fill(t)
    \/ readdir_more(t) \/ readdir_nomem(t)

ReaddirNext ==
    \/ \E t \in Tasks :
          \/ vfs_readdir(t) \/ serve_readdir(t) \/ serve_readdir_error(t)
          \/ readdir_step(t)
    \/ \E e \in Indices : RemoteEntry(e)
    \/ rewinddir

(* A listing is exact, however it is cut into calls and replies, whoever   *)
(* makes the calls and whatever changes meanwhile: no entry is handed out  *)
(* twice, and at the end every entry that was there all the time has been  *)
(* handed out, unless a call failed after it had filled in entries         *)
(* (the loop of uvfs_readdir and f_pos).                                   *)
ListedOnce ==
    /\ \A i, k \in DOMAIN listed : listed[i] = listed[k] => i = k
    /\ ended /\ ~lapsed => \A e \in stayed : Has(listed, e)

=============================================================================
