------------------------------ MODULE UvfsOps ------------------------------
(***************************************************************************)
(* What every file operation has in common: it allocates a transaction,    *)
(* makes its request, acts on the result and frees the transaction.  The   *)
(* conduit is UvfsCall, which driver.c implements; the content of a reply  *)
(* is what the server, which is not part of this repository, finds when it *)
(* answers.                                                                *)
(***************************************************************************)
EXTENDS Integers, FiniteSets, Sequences

CONSTANTS
    Tasks,          \* kernel tasks in file operations
    Killable,       \* those SIGKILL can end
    NoMemory,       \* may an allocation fail?
    NULL

ASSUME OpsConstants ==
    Killable \subseteq Tasks /\ NoMemory \in BOOLEAN /\ NULL \notin Tasks

VARIABLES
    status, result, spoilt,     \* the conduit
    op,             \* the operation a task is in
    reply           \* what the server answered

conduitVars == <<status, result, spoilt>>

Idle == [kind |-> "none"]

Conduit == INSTANCE UvfsCall WITH Callers <- Tasks, Faults <- FALSE

OpsInit ==
    /\ Conduit!Init
    /\ op = [t \in Tasks |-> Idle]
    /\ reply = [t \in Tasks |-> NULL]

\* The content of a reply: an error, or what was asked for.
Failure(e) == [error |-> e, value |-> NULL]
Success(v) == [error |-> "none", value |-> v]

\* reply->error: set by the server, or by the driver in its place.
ErrorOf(t) == IF result[t] = "reply" THEN reply[t].error ELSE result[t]

Succeeded(t) == status[t] = "returned" /\ ErrorOf(t) = "none"
Failed(t) == status[t] = "returned" /\ ErrorOf(t) # "none"

\* The operation allocates its transaction and builds its request.
begin(t, o) ==
    /\ Conduit!allocate(t)
    /\ op' = [op EXCEPT ![t] = o]
    /\ UNCHANGED reply

\* The operation frees its transaction and goes on as o, or is over.
finish(t, o) ==
    /\ Conduit!free(t)
    /\ op' = [op EXCEPT ![t] = o]
    /\ reply' = [reply EXCEPT ![t] = NULL]

\* uvfs_make_request, between the two.
make_request(t) ==
    /\ Conduit!refuse(t) \/ Conduit!queue(t) \/ Conduit!return(t)
    /\ UNCHANGED <<op, reply>>

\* SIGKILL while it waits.
make_request_killed(t) == Conduit!abort(t) /\ UNCHANGED <<op, reply>>

\* The server reads a request.
serve_take(t) == Conduit!take(t) /\ UNCHANGED <<op, reply>>

\* The server answers with r.
serve(t, r) ==
    /\ Conduit!answer(t) \/ Conduit!late(t)
    /\ reply' = [reply EXCEPT ![t] = r]
    /\ UNCHANGED op

\* The server closes the device.
serve_close == Conduit!close /\ UNCHANGED <<op, reply>>

=============================================================================
