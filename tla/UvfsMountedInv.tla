--------------------------- MODULE UvfsMountedInv ---------------------------
(***************************************************************************)
(* The inductive invariants of UvfsMounted, one for what all operations    *)
(* share and one each for UvfsReaddir, UvfsExport and UvfsPermission.      *)
(***************************************************************************)
EXTENDS UvfsMounted

\* Between its requests, an operation has no transaction; a request that is
\* decided has a result.
Outside == {"none", "found", "failed", "entered", "checking", "decided"}

Functions ==
    /\ status = [t \in Tasks |-> status[t]]
    /\ result = [t \in Tasks |-> result[t]]
    /\ op = [t \in Tasks |-> op[t]]
    /\ reply = [t \in Tasks |-> reply[t]]

CallInv ==
    /\ Functions
    /\ \A t \in Tasks :
         /\ result[t] \in {"none", "reply", "EIO", "ERESTARTSYS"}
         /\ status[t] \in {"decided", "returned"} => result[t] # "none"
         /\ op[t].kind \in Outside => status[t] = "free"
         /\ i_mutex = t <=> op[t].kind = "readdir"

\* The list s is in order and before f_pos, and holds every entry before
\* f_pos that stayed.
Before(s) == Rising(s) /\ \A i \in DOMAIN s : s[i] < f_pos
Complete(s) == \A e \in stayed : e < f_pos => Has(s, e)

\* A reply goes on from f_pos, in order, and leaves out no entry that stayed.
Continues(s) ==
    /\ s \in Seq(Nat) /\ Rising(s) /\ \A i \in DOMAIN s : f_pos <= s[i]
    /\ \A e \in stayed : f_pos <= e =>
          Has(s, e) \/ (s # <<>> /\ \A i \in DOMAIN s : s[i] < e)

\* What a call has filled in goes on from what the user has.
FillInv(t) ==
    op[t].kind = "readdir" =>
       /\ op[t].room \in Nat /\ op[t].filled \in Seq(Nat)
       /\ op[t].filled = <<>> => op[t].room # 0
       /\ Before(listed \o op[t].filled)
       /\ ~lapsed => Complete(listed \o op[t].filled)
       /\ result[t] = "reply" /\ reply[t].error = "none" =>
             Continues(reply[t].value)

ListInv ==
    /\ present \subseteq Indices /\ stayed \subseteq present
    /\ f_pos \in Nat /\ i_mutex \in Tasks \cup {NULL}
    /\ listed \in Seq(Nat) /\ Before(listed)
    /\ i_mutex = NULL /\ ~lapsed => Complete(listed)
    /\ ended => i_mutex = NULL
    /\ ended /\ ~lapsed => \A e \in stayed : Has(listed, e)
    /\ \A t \in Tasks : FillInv(t)

\* A reply without error is the handle of the object asked for, and a handle
\* that was decoded names its object.
ObjectInv(t) ==
    /\ op[t].kind = "found" =>
          IsOf(op[t].inode, op[t].want) /\ op[t].inode \in icache
    /\ op[t].kind = "get_dentry" => IsOf(op[t].fh, op[t].want)
    /\ /\ op[t].kind \in {"read_super", "lookup", "get_parent", "get_dentry"}
       /\ result[t] = "reply" /\ reply[t].error = "none"
       => IsOf(reply[t].value, op[t].want)

\* The server reports an error only for a handle whose object is gone.
StaleInv(t) ==
    /\ op[t].kind = "get_dentry" =>
          /\ op[t].want \notin exists => t \in missed
          /\ result[t] = "reply" /\ reply[t].error # "none" => t \in missed
    /\ op[t].kind = "failed" /\ op[t].error = "ESTALE" => t \in missed

ExportInv ==
    /\ \A g, h \in icache : uvfs_compare_inode(g, h) => g = h
    /\ \A f \in handles :
         /\ IsOf(Decoded(f.raw), f.of)
         /\ f.type = 2 => IsOf(DecodedParent(f.raw), Parent[f.of])
    /\ \A t \in Tasks : ObjectInv(t) /\ StaleInv(t)

\* What handles and requests name are objects, and long handles are of files.
Naming == {"read_super", "lookup", "get_parent", "get_dentry"}

NamesInv ==
    /\ \A f \in handles : f.of \in Objects /\ (f.type = 2 => f.of # Root)
    /\ \A t \in Tasks : op[t].kind \in Naming => op[t].want \in Objects

\* The mode is that of attr_uid, and a check that nothing raced has it.
ModeInv ==
    /\ Refreshing = {} /\ ~torn => i_mode.for = attr_uid
    /\ \A t \in Tasks :
         /\ op[t].kind = "refreshing" /\ op[t].alone =>
               i_mode.for = UserOf[t] /\ Refreshing = {t}
         /\ op[t].kind = "entered" /\ t \notin raced =>
               op[t].mode.for = attr_uid
         /\ op[t].kind \in {"checking", "decided"} /\ t \notin raced =>
               op[t].mode.for = UserOf[t]

(* The inductive invariant: transactions belong to requests under way,     *)
(* replies to what was asked, handles to their objects, the mode of an     *)
(* inode to attr_uid, as far as nothing raced, a listing has what is       *)
(* before f_pos, and everything has its type.                              *)
OpsInv == CallInv /\ ListInv /\ ExportInv /\ ModeInv /\ NamesInv /\ TypeOK

=============================================================================
