------------------------------ MODULE UvfsCall ------------------------------
(***************************************************************************)
(* What the conduit promises to a file operation that makes a request.     *)
(*                                                                         *)
(* A file operation allocates a transaction, calls uvfs_make_request,      *)
(* reads the result and frees the transaction.  The request goes to the    *)
(* server at most once; the result is the server's reply to this very      *)
(* request, given after the server took it, or -EIO if no descriptor of    *)
(* the device is open, or -ERESTARTSYS if the caller was killed.  Once     *)
(* decided, only a kill replaces it.  Lists, wait queues, serial numbers   *)
(* and threads do not show.                                                *)
(*                                                                         *)
(* Two weak spots of the code are part of the promise.  The server's reply *)
(* may still arrive after a killed caller has its -ERESTARTSYS (late).     *)
(* And once spoilt, that is once a transaction that was freed has been     *)
(* written to or one of an earlier server has been queued, nothing is      *)
(* promised any more.                                                      *)
(***************************************************************************)

CONSTANTS
    Callers,
    Killable,       \* callers that SIGKILL can end
    Faults          \* may the copy of a reply fault?

VARIABLES
    status,         \* where the transaction of a caller is
    result,         \* its result, once there is one
    spoilt

vars == <<status, result, spoilt>>

Statuses == {"free", "built", "queued", "taken", "decided", "returned"}

Replies == IF Faults THEN {"reply", "torn"} ELSE {"reply"}

Init ==
    /\ status = [c \in Callers |-> "free"]
    /\ result = [c \in Callers |-> "none"]
    /\ spoilt = FALSE

Pending(c) == status[c] \in {"queued", "taken"}

Set(c, s, r) ==
    /\ status' = [status EXCEPT ![c] = s]
    /\ result' = [result EXCEPT ![c] = r]
    /\ UNCHANGED spoilt

allocate(c) == status[c] = "free" /\ Set(c, "built", "none")

refuse(c) == status[c] = "built" /\ Set(c, "returned", "EIO")

queue(c) == status[c] = "built" /\ Set(c, "queued", "none")

take(c) == status[c] = "queued" /\ Set(c, "taken", "none")

answer(c) == status[c] = "taken" /\ \E r \in Replies : Set(c, "decided", r)

\* The last close decides every pending request.
close ==
    /\ \E c \in Callers : Pending(c)
    /\ status' = [c \in Callers |->
                    IF Pending(c) THEN "decided" ELSE status[c]]
    /\ result' = [c \in Callers |-> IF Pending(c) THEN "EIO" ELSE result[c]]
    /\ UNCHANGED spoilt

return(c) == status[c] = "decided" /\ Set(c, "returned", result[c])

abort(c) ==
    /\ c \in Killable
    /\ status[c] \in {"queued", "taken", "decided"}
    /\ Set(c, "returned", "ERESTARTSYS")

late(c) ==
    /\ c \in Killable
    /\ status[c] = "returned" /\ result[c] = "ERESTARTSYS"
    /\ \E r \in Replies : Set(c, "returned", r)

free(c) == status[c] = "returned" /\ Set(c, "free", "none")

CallerNext(c) ==
    \/ allocate(c) \/ refuse(c) \/ queue(c) \/ take(c) \/ answer(c)
    \/ return(c) \/ abort(c) \/ late(c) \/ free(c)

Undefined == spoilt'

\* A step of a caller changes what the caller sees.
Shows(c) == <<status[c], result[c]>>' # <<status[c], result[c]>>

Next == close \/ Undefined \/ \E c \in Callers : Shows(c) /\ CallerNext(c)

Spec == Init /\ [][Next]_vars

=============================================================================
