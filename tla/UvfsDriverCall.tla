--------------------------- MODULE UvfsDriverCall ---------------------------
(***************************************************************************)
(* The conduit of UvfsDriver implements the calls of UvfsCall.             *)
(***************************************************************************)
EXTENDS UvfsDriverInv

\* The refinement mapping: where a transaction is, for its caller.
StatusOf(c) ==
    IF at[c] = "idle" THEN "free"
    ELSE IF at[c] = "built" THEN "built"
    ELSE IF at[c] = "done" THEN "returned"
    ELSE IF answered[c] THEN "decided"
    ELSE IF c \in Req THEN "queued" ELSE "taken"

\* Its result: the contents of u from the moment they are one.  A reply to
\* another caller's request is no result.
ResultOf(c) ==
    IF at[c] = "done" \/ (InFlight(c) /\ answered[c])
    THEN IF u[c].tag \in {"reply", "torn"} => u[c].for = c
         THEN u[c].tag ELSE "foreign"
    ELSE "none"

Call == INSTANCE UvfsCall WITH
            Faults <- Faulty # {},
            status <- [c \in Callers |-> StatusOf(c)],
            result <- [c \in Callers |-> ResultOf(c)],
            spoilt <- tainted

(* uvfs_make_request keeps the promise of UvfsCall: every step of the      *)
(* driver, the server's threads and the signals is a step of a call, or    *)
(* does not show (uvfs_make_request, uvfsd_read, uvfsd_write,              *)
(* uvfsd_release).                                                         *)
KeepsPromise == Call!Spec

=============================================================================
