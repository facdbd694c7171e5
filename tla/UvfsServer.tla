----------------------------- MODULE UvfsServer -----------------------------
(***************************************************************************)
(* Liveness of driver.c.  The kernel side runs: a task inside the driver   *)
(* goes on unless it is asleep.  Of the server, which is not part of this  *)
(* repository, nothing is assumed for what the kernel promises by itself   *)
(* (KernelSpec); where an answer is awaited it is assumed to be a pool of  *)
(* threads that never all block in read while requests are in its hands,   *)
(* and that answers what it has read (ServedSpec).                         *)
(***************************************************************************)
EXTENDS UvfsDriver

\* A task inside uvfs_make_request, or that has its result, goes on.
CallerFair(c) ==
    /\ WF_vars(uvfs_make_request(c))
    /\ WF_vars(kfree_trans(c))

\* A thread inside read or write that is not asleep goes on.
InCall(t) == (tpc[t] # "user" /\ uvfsd_read(t)) \/ write_copied(t)

KernelFairness ==
    /\ \A c \in Callers : CallerFair(c)
    /\ \A t \in Threads : WF_vars(InCall(t))

KernelSpec == Spec /\ KernelFairness

\* The server keeps a thread out of read, and open, for each request it
\* holds, and the threads no signal can end stay open.
AtHand == {t \in Threads : tpc[t] = "user"}

KeepsAThreadAtHand ==
    \A t \in AtHand :
        /\ tpc'[t] \notin {"user", "copying_in"} =>
              Cardinality(jobs) < Cardinality(AtHand)
        /\ tpc'[t] = "closed" => t \in Interruptible

ServedNext == Next /\ KeepsAThreadAtHand

\* The threads no signal can end open the device and read whenever they may;
\* every thread may answer, and the server answers what it has read.
ServerFairness ==
    /\ \A t \in Threads \ Interruptible :
          /\ WF_vars(uvfsd_open(t))
          /\ WF_vars(tpc[t] = "user" /\ uvfsd_read(t) /\ KeepsAThreadAtHand)
    /\ \A t \in Threads : WF_vars(\E j \in jobs : uvfsd_write(t, j))

ServedSpec == Init /\ [][ServedNext]_vars /\ KernelFairness /\ ServerFairness

(* Every request is answered: a caller whose request was queued gets its   *)
(* result, however requests, reads, answers and kills interleave           *)
(* (uvfs_make_request with uvfsd_read and uvfsd_write).                    *)
EveryRequestReturns ==
    \A c \in Callers : at[c] = "waiting" ~> at[c] = "done"

(* No hang after a server crash: once the last descriptor is closed every  *)
(* caller that was waiting returns, even if a server opens the device      *)
(* again and never reads (uvfsd_release).                                  *)
CrashReleasesCallers ==
    \A c \in Callers : InFlight(c) /\ use_count = 0 ~> at[c] = "done"

(* A killed caller returns whatever the server does or fails to do         *)
(* (the abort protocol of uvfs_make_request).                              *)
KilledReturns ==
    \A c \in Callers : InFlight(c) /\ killed[c] ~> at[c] = "done"

(* A shutdown reaches every thread that was asleep in read, each one woken *)
(* by the one before it.                                                   *)
ShutdownReachesAll ==
    \A t \in Threads : ShuttingDown /\ tpc[t] = "sleeping" ~> tpc[t] = "user"

=============================================================================
