----------------------------- MODULE UvfsDriver -----------------------------
(***************************************************************************)
(* driver.c: the conduit between the kernel side of uvfs and the user      *)
(* space file system server.                                               *)
(*                                                                         *)
(* A caller is a kernel task inside a uvfs file operation.  It allocates a *)
(* transaction, queues it on Uvfs_requests and sleeps on the transaction's *)
(* own wait queue (fs_queue).  A thread is a holder of an open descriptor  *)
(* of /proc/fs/pmfs: it takes requests with read(2), which moves them to   *)
(* Uvfs_replies, and answers them with write(2), naming the serial number. *)
(*                                                                         *)
(* A critical section of Uvfs_lock is one action.  What runs outside the   *)
(* lock is a step of its own: the copies from and to user space, the       *)
(* conditions polled by wait_event, and the last use of request->size in   *)
(* uvfsd_read.  A task has at most one transaction at a time, so a         *)
(* transaction is named by its caller; its memory is the caller's slot.    *)
(***************************************************************************)
EXTENDS Integers, FiniteSets, Sequences, Functions

CONSTANTS
    Callers,        \* kernel tasks that make uvfs requests
    Threads,        \* openers of /proc/fs/pmfs (server threads, uvfs_signal)
    Killable,       \* callers that do not block SIGKILL (ALLOWED_SIGS)
    Interruptible,  \* threads that may get a signal while in read(2)
    Faulty,         \* threads whose user buffer may fault during a copy
    Controllers,    \* threads that may issue UVFS_IOCTL_SHUTDOWN
    NULL,           \* no transaction
    MaxSerial       \* bound: transactions numbered between two counter resets

ASSUME DriverConstants ==
    /\ IsFiniteSet(Threads)
    /\ Killable \subseteq Callers
    /\ Interruptible \subseteq Threads
    /\ Faulty \subseteq Threads
    /\ Controllers \subseteq Threads
    /\ NULL \notin Callers
    /\ MaxSerial \in Nat

VARIABLES
    use_count, ShuttingDown, Serial_number,
    Uvfs_requests, Uvfs_replies,    \* transactions, in list order
    Uvfs_driver_queue,              \* threads asleep in uvfsd_read, in order
    serial, in_use, abort, answered, u,     \* the fields of a transaction
    at,             \* where a caller is
    asleep,         \* is the caller asleep on its fs_queue
    killed,         \* has the caller a pending SIGKILL
    tpc,            \* where a thread is
    ptr,            \* the transaction a thread holds a pointer to
    hand,           \* the request a thread is taking, or the reply it gives
    tsig,           \* has the thread a pending signal
    jobs,           \* requests the server has read and not yet answered
    \* History variables: they record what happened and guard nothing.
    outdated,       \* callers numbered before the last reset of the counter
    dangling,       \* threads whose transaction was freed while they held it
    tainted         \* an outdated transaction was queued, or a thread wrote
                    \* to a transaction that had been freed

transVars  == <<serial, in_use, abort, answered, u>>
callerVars == <<at, asleep, killed>>
threadVars == <<tpc, ptr, hand, tsig>>
listVars   == <<Uvfs_requests, Uvfs_replies>>
countVars  == <<use_count, ShuttingDown, Serial_number>>
histVars   == <<outdated, dangling, tainted>>
vars == <<countVars, listVars, Uvfs_driver_queue, transVars, callerVars,
          threadVars, jobs, histVars>>

Job == [serial : Nat, for : Callers]

(***************************************************************************)
(* The union u of a transaction, as its caller will read it: the request,  *)
(* an error set by the driver, the server's reply to the request of some   *)
(* caller, or what a faulting copy of a reply leaves there.                *)
(***************************************************************************)
Content(t, c) == [tag |-> t, for |-> c]

Tags == {"request", "EIO", "ERESTARTSYS", "reply", "torn"}

CallerStates == {"idle", "built", "waiting", "woken", "aborting", "aborted",
                 "done"}

ThreadStates == {"closed", "user", "sleeping", "roused", "shutdown",
                 "copying_out", "returning", "copying_in"}

TypeOK ==
    /\ use_count \in Nat
    /\ ShuttingDown \in BOOLEAN
    /\ Serial_number \in 0..MaxSerial
    /\ Uvfs_requests \in Seq(Callers)
    /\ Uvfs_replies \in Seq(Callers)
    /\ Uvfs_driver_queue \in Seq(Threads)
    /\ serial \in [Callers -> Nat]
    /\ in_use \in [Callers -> BOOLEAN]
    /\ abort \in [Callers -> BOOLEAN]
    /\ answered \in [Callers -> BOOLEAN]
    /\ u \in [Callers -> [tag : Tags, for : Callers]]
    /\ at \in [Callers -> CallerStates]
    /\ asleep \in [Callers -> BOOLEAN]
    /\ killed \in [Callers -> BOOLEAN]
    /\ tpc \in [Threads -> ThreadStates]
    /\ ptr \in [Threads -> Callers \cup {NULL}]
    /\ hand \in [Threads -> SUBSET Job]
    /\ tsig \in [Threads -> BOOLEAN]
    /\ jobs \subseteq Job
    /\ outdated \subseteq Callers
    /\ dangling \subseteq Threads
    /\ tainted \in BOOLEAN

Init ==
    /\ use_count = 0
    /\ ShuttingDown = FALSE
    /\ Serial_number = 0
    /\ Uvfs_requests = <<>>
    /\ Uvfs_replies = <<>>
    /\ Uvfs_driver_queue = <<>>
    /\ serial = [c \in Callers |-> 0]
    /\ in_use = [c \in Callers |-> FALSE]
    /\ abort = [c \in Callers |-> FALSE]
    /\ answered = [c \in Callers |-> FALSE]
    /\ u = [c \in Callers |-> Content("request", c)]
    /\ at = [c \in Callers |-> "idle"]
    /\ asleep = [c \in Callers |-> FALSE]
    /\ killed = [c \in Callers |-> FALSE]
    /\ tpc = [t \in Threads |-> "closed"]
    /\ ptr = [t \in Threads |-> NULL]
    /\ hand = [t \in Threads |-> {}]
    /\ tsig = [t \in Threads |-> FALSE]
    /\ jobs = {}
    /\ outdated = {}
    /\ dangling = {}
    /\ tainted = FALSE

-----------------------------------------------------------------------------
(* Lists and wait queues.                                                  *)

\* Mutant: the transaction is left on its list.
list_del_init_missing(list, c) == list

\* list_del_init: a transaction is on one list at most, and deleting one
\* that is on no list does nothing.
list_del_init(list, c) ==
    IF \E i \in DOMAIN list : list[i] = c
    THEN LET d == CHOOSE i \in DOMAIN list : list[i] = c
         IN  SubSeq(list, 1, d - 1) \o SubSeq(list, d + 1, Len(list))
    ELSE list

\* Mutant: no reader is woken.
WakeReader_missing(pcs) == tpc' = pcs /\ UNCHANGED Uvfs_driver_queue

\* wake_up_interruptible(&Uvfs_driver_queue): the waiters are exclusive, so
\* the first one still asleep is made runnable.  pcs is tpc with the change
\* the waking thread makes to its own entry.
WakeReader(pcs) ==
    IF Uvfs_driver_queue = <<>>
    THEN /\ tpc' = pcs
         /\ UNCHANGED Uvfs_driver_queue
    ELSE /\ tpc' = [pcs EXCEPT ![Head(Uvfs_driver_queue)] = "roused"]
         /\ Uvfs_driver_queue' = Tail(Uvfs_driver_queue)

\* Mutant: the caller is not woken.
WakeCaller_missing(c) == UNCHANGED asleep

\* wake_up(&trans->fs_queue): the caller is the only one that sleeps there.
WakeCaller(c) == asleep' = [asleep EXCEPT ![c] = FALSE]

\* Mutant: the transaction stays marked as in use.
EndUse_missing(c) == UNCHANGED in_use

\* The copy is over.
EndUse(c) == in_use' = [in_use EXCEPT ![c] = FALSE]

-----------------------------------------------------------------------------
(* The caller: uvfs_new_transaction, uvfs_make_request, kfree.             *)

\* Mutant: the counter stands still.
NextSerial_same == Serial_number

\* Serial_number++.
NextSerial == Serial_number + 1

\* The transaction is numbered and its request filled in.  MaxSerial bounds
\* the counter: its wrap at 2^32 is not modelled.  A failed kmalloc changes
\* nothing.
uvfs_new_transaction(c) ==
    /\ at[c] = "idle"
    /\ Serial_number < MaxSerial
    /\ serial' = [serial EXCEPT ![c] = Serial_number]
    /\ Serial_number' = NextSerial
    /\ in_use' = [in_use EXCEPT ![c] = FALSE]
    /\ abort' = [abort EXCEPT ![c] = FALSE]
    /\ answered' = [answered EXCEPT ![c] = FALSE]
    /\ u' = [u EXCEPT ![c] = Content("request", c)]
    /\ at' = [at EXCEPT ![c] = "built"]
    /\ UNCHANGED <<use_count, ShuttingDown, listVars, Uvfs_driver_queue,
                   asleep, killed, threadVars, jobs, histVars>>

\* Mutant: the request is queued whether or not the device is open.
ServerPresent_unchecked == TRUE

\* Make sure the server is running.
ServerPresent == use_count # 0

\* No descriptor of the device is open: the request fails at once.
make_request_refused(c) ==
    /\ at[c] = "built"
    /\ ~ServerPresent
    /\ u' = [u EXCEPT ![c] = Content("EIO", c)]
    /\ at' = [at EXCEPT ![c] = "done"]
    /\ UNCHANGED <<countVars, listVars, Uvfs_driver_queue, serial, in_use,
                   abort, answered, asleep, killed, threadVars, jobs,
                   histVars>>

make_request_queued(c) ==
    /\ at[c] = "built"
    /\ ServerPresent
    /\ Uvfs_requests' = Append(Uvfs_requests, c)
    /\ WakeReader(tpc)
    /\ at' = [at EXCEPT ![c] = "waiting"]
    /\ tainted' = (tainted \/ c \in outdated)
    /\ UNCHANGED <<countVars, Uvfs_replies, transVars, asleep, killed, ptr,
                   hand, tsig, jobs, outdated, dangling>>

\* Mutant: any wake-up ends the wait.
WaitIsOver_always(c) == TRUE

\* The condition of wait_event_interruptible, or a pending SIGKILL.
WaitIsOver(c) == answered[c] \/ killed[c]

\* wait_event_interruptible(trans->fs_queue, trans->answered).  Only SIGKILL
\* is seen: every other signal is masked meanwhile.
wait_answered(c) ==
    /\ at[c] = "waiting"
    /\ ~asleep[c]
    /\ IF WaitIsOver(c)
       THEN /\ at' = [at EXCEPT ![c] = "woken"]
            /\ UNCHANGED asleep
       ELSE /\ asleep' = [asleep EXCEPT ![c] = TRUE]
            /\ UNCHANGED at
    /\ UNCHANGED <<countVars, listVars, Uvfs_driver_queue, transVars, killed,
                   threadVars, jobs, histVars>>

\* Mutant: the error is not set.
Withdraw_kept(c) ==
    /\ Uvfs_requests' = list_del_init(Uvfs_requests, c)
    /\ Uvfs_replies' = list_del_init(Uvfs_replies, c)
    /\ at' = [at EXCEPT ![c] = "done"]
    /\ UNCHANGED u

\* The transaction leaves its list and the caller's result is -ERESTARTSYS,
\* answered or not.
Withdraw(c) ==
    /\ Uvfs_requests' = list_del_init(Uvfs_requests, c)
    /\ Uvfs_replies' = list_del_init(Uvfs_replies, c)
    /\ u' = [u EXCEPT ![c] = Content("ERESTARTSYS", c)]
    /\ at' = [at EXCEPT ![c] = "done"]

\* Mutant: a killed caller does not wait for the copy.
MustWait_never(c) == FALSE

\* A killed caller waits while a thread copies from or to its transaction.
MustWait(c) == in_use[c]

\* "Check to see if we were interrupted by a signal".
check_signal(c) ==
    /\ at[c] = "woken"
    /\ \/ /\ ~killed[c]
          /\ at' = [at EXCEPT ![c] = "done"]
          /\ UNCHANGED <<listVars, u, abort>>
       \/ /\ killed[c]
          /\ MustWait(c)
          /\ abort' = [abort EXCEPT ![c] = TRUE]
          /\ at' = [at EXCEPT ![c] = "aborting"]
          /\ UNCHANGED <<listVars, u>>
       \/ /\ killed[c]
          /\ ~MustWait(c)
          /\ Withdraw(c)
          /\ UNCHANGED abort
    /\ UNCHANGED <<countVars, Uvfs_driver_queue, serial, in_use, answered,
                   asleep, killed, threadVars, jobs, histVars>>

\* wait_event(trans->fs_queue, !trans->in_use): no signal ends this sleep.
wait_unused(c) ==
    /\ at[c] = "aborting"
    /\ ~asleep[c]
    /\ IF in_use[c]
       THEN /\ asleep' = [asleep EXCEPT ![c] = TRUE]
            /\ UNCHANGED at
       ELSE /\ at' = [at EXCEPT ![c] = "aborted"]
            /\ UNCHANGED asleep
    /\ UNCHANGED <<countVars, listVars, Uvfs_driver_queue, transVars, killed,
                   threadVars, jobs, histVars>>

\* The lock is taken again after the wait; in_use is not looked at again.
finish_abort(c) ==
    /\ at[c] = "aborted"
    /\ Withdraw(c)
    /\ UNCHANGED <<countVars, Uvfs_driver_queue, serial, in_use, abort,
                   answered, asleep, killed, threadVars, jobs, histVars>>

\* The file operation has read the reply and calls kfree(trans).
kfree_trans(c) ==
    /\ at[c] = "done"
    /\ at' = [at EXCEPT ![c] = "idle"]
    /\ outdated' = outdated \ {c}
    /\ dangling' = dangling \cup {t \in Threads : ptr[t] = c}
    /\ UNCHANGED <<countVars, listVars, Uvfs_driver_queue, transVars, asleep,
                   killed, threadVars, jobs, tainted>>

\* SIGKILL wakes the caller only from its interruptible sleep.
Kill(c) ==
    /\ c \in Killable
    /\ ~killed[c]
    /\ killed' = [killed EXCEPT ![c] = TRUE]
    /\ asleep' = [asleep EXCEPT ![c] = @ /\ at[c] # "waiting"]
    /\ UNCHANGED <<countVars, listVars, Uvfs_driver_queue, transVars, at,
                   threadVars, jobs, histVars>>

\* A killed task exits; its name stands for another task from now on.
Exit(c) ==
    /\ at[c] = "idle"
    /\ killed[c]
    /\ killed' = [killed EXCEPT ![c] = FALSE]
    /\ UNCHANGED <<countVars, listVars, Uvfs_driver_queue, transVars, at,
                   asleep, threadVars, jobs, histVars>>

-----------------------------------------------------------------------------
(* The device: uvfsd_open, uvfsd_release, uvfsd_ioctl.                     *)

uvfsd_open(t) ==
    /\ tpc[t] = "closed"
    /\ use_count' = use_count + 1
    /\ tpc' = [tpc EXCEPT ![t] = "user"]
    /\ UNCHANGED <<ShuttingDown, Serial_number, listVars, Uvfs_driver_queue,
                   transVars, callerVars, ptr, hand, tsig, jobs, histVars>>

\* Mutant: a close counts twice.
ReleaseOne_twice(t) ==
    /\ tpc[t] = "user"
    /\ use_count' = use_count - 2
    /\ tpc' = [tpc EXCEPT ![t] = "closed"]

\* A descriptor is released only when no read or write on it is running.
ReleaseOne(t) ==
    /\ tpc[t] = "user"
    /\ use_count' = use_count - 1
    /\ tpc' = [tpc EXCEPT ![t] = "closed"]

uvfsd_release_other(t) ==
    /\ ReleaseOne(t)
    /\ use_count' # 0
    /\ UNCHANGED <<ShuttingDown, Serial_number, listVars, Uvfs_driver_queue,
                   transVars, callerVars, ptr, hand, tsig, jobs, histVars>>

\* Mutant: only the requests that were read are failed.
Flushed_replies == Range(Uvfs_replies)

\* The transactions the last close fails.
Flushed == Range(Uvfs_requests) \cup Range(Uvfs_replies)

\* The last close fails every queued transaction with -EIO.  The server that
\* read the outstanding requests is gone, and its jobs with it.
uvfsd_release_last(t) ==
    /\ ReleaseOne(t)
    /\ use_count' = 0
    /\ Uvfs_requests' = <<>>
    /\ Uvfs_replies' = <<>>
    /\ u' = [c \in Callers |->
                IF c \in Flushed THEN Content("EIO", c) ELSE u[c]]
    /\ answered' = [c \in Callers |-> answered[c] \/ c \in Flushed]
    /\ asleep' = [c \in Callers |-> asleep[c] /\ c \notin Flushed]
    /\ ShuttingDown' = FALSE
    /\ Serial_number' = 0
    /\ jobs' = {}
    /\ outdated' = {c \in Callers : at[c] # "idle"}
    /\ UNCHANGED <<Uvfs_driver_queue, serial, in_use, abort, at, killed,
                   ptr, hand, tsig, dangling, tainted>>

uvfsd_ioctl_shutdown(t) ==
    /\ t \in Controllers
    /\ tpc[t] = "user"
    /\ ShuttingDown' = TRUE
    /\ WakeReader(tpc)
    /\ UNCHANGED <<use_count, Serial_number, listVars, transVars, callerVars,
                   ptr, hand, tsig, jobs, histVars>>

-----------------------------------------------------------------------------
(* uvfsd_read.                                                             *)

\* The thread holds the lock at the head of the wait loop: it has just
\* entered read(2), or woke up with no signal pending.
AtLoopHead(t) == tpc[t] = "user" \/ (tpc[t] = "roused" /\ ~tsig[t])

read_sleep(t) ==
    /\ AtLoopHead(t)
    /\ ~ShuttingDown
    /\ Uvfs_requests = <<>>
    /\ Uvfs_driver_queue' = Append(Uvfs_driver_queue, t)
    /\ tpc' = [tpc EXCEPT ![t] = "sleeping"]
    /\ UNCHANGED <<countVars, listVars, transVars, callerVars, ptr, hand,
                   tsig, jobs, histVars>>

read_shutdown(t) ==
    /\ AtLoopHead(t)
    /\ ShuttingDown
    /\ tpc' = [tpc EXCEPT ![t] = "shutdown"]
    /\ UNCHANGED <<countVars, listVars, Uvfs_driver_queue, transVars,
                   callerVars, ptr, hand, tsig, jobs, histVars>>

\* UVFS_SHUTDOWN has been copied out: the next reader is woken.
read_shutdown_done(t) ==
    /\ tpc[t] = "shutdown"
    /\ WakeReader([tpc EXCEPT ![t] = "user"])
    /\ UNCHANGED <<countVars, listVars, transVars, callerVars, ptr, hand,
                   tsig, jobs, histVars>>

\* The first request moves to Uvfs_replies, the next reader is woken, and
\* the transaction is in use until the copy is over.
read_take(t) ==
    LET c == Head(Uvfs_requests)
    IN  /\ AtLoopHead(t)
        /\ ~ShuttingDown
        /\ Uvfs_requests # <<>>
        /\ Uvfs_requests' = Tail(Uvfs_requests)
        /\ Uvfs_replies' = Append(Uvfs_replies, c)
        /\ WakeReader([tpc EXCEPT ![t] = "copying_out"])
        /\ in_use' = [in_use EXCEPT ![c] = TRUE]
        /\ ptr' = [ptr EXCEPT ![t] = c]
        /\ UNCHANGED <<countVars, serial, abort, answered, u, callerVars,
                       hand, tsig, jobs, histVars>>

\* The copy is over.  The server gets the request if the copy succeeded and
\* u still held it.
read_copied(t) ==
    LET c == ptr[t]
    IN  /\ tpc[t] = "copying_out"
        /\ \/ hand' = [hand EXCEPT ![t] =
                          IF u[c].tag = "request"
                          THEN {[serial |-> serial[c], for |-> c]} ELSE {}]
           \/ /\ t \in Faulty
              /\ UNCHANGED hand
        /\ EndUse(c)
        /\ IF abort[c] THEN WakeCaller(c) ELSE UNCHANGED asleep
        /\ tpc' = [tpc EXCEPT ![t] = "returning"]
        /\ tainted' = (tainted \/ t \in dangling)
        /\ UNCHANGED <<countVars, listVars, Uvfs_driver_queue, serial, abort,
                       answered, u, at, killed, ptr, tsig, jobs, outdated,
                       dangling>>

\* return request->size, read after the lock was dropped: if the transaction
\* was freed meanwhile the size is any number, and the server may or may not
\* make out the request it was given.
read_return(t) ==
    /\ tpc[t] = "returning"
    /\ \/ jobs' = jobs \cup hand[t]
       \/ /\ t \in dangling
          /\ UNCHANGED jobs
    /\ tpc' = [tpc EXCEPT ![t] = "user"]
    /\ ptr' = [ptr EXCEPT ![t] = NULL]
    /\ hand' = [hand EXCEPT ![t] = {}]
    /\ dangling' = dangling \ {t}
    /\ UNCHANGED <<countVars, listVars, Uvfs_driver_queue, transVars,
                   callerVars, tsig, outdated, tainted>>

\* A signal ends the sleep of a reader: it leaves the wait queue without
\* passing on a wake-up it may have had.
Interrupt(t) ==
    /\ t \in Interruptible
    /\ tpc[t] \in {"sleeping", "roused"}
    /\ ~tsig[t]
    /\ tsig' = [tsig EXCEPT ![t] = TRUE]
    /\ tpc' = [tpc EXCEPT ![t] = "roused"]
    /\ Uvfs_driver_queue' = list_del_init(Uvfs_driver_queue, t)
    /\ UNCHANGED <<countVars, listVars, transVars, callerVars, ptr, hand,
                   jobs, histVars>>

\* return -ERESTARTSYS; the thread then handles the signal.
read_interrupted(t) ==
    /\ tpc[t] = "roused"
    /\ tsig[t]
    /\ tsig' = [tsig EXCEPT ![t] = FALSE]
    /\ tpc' = [tpc EXCEPT ![t] = "user"]
    /\ UNCHANGED <<countVars, listVars, Uvfs_driver_queue, transVars,
                   callerVars, ptr, hand, jobs, histVars>>

-----------------------------------------------------------------------------
(* uvfsd_write: the server answers a request it has read.                  *)

\* Mutant: the oldest transaction is answered whatever its serial number.
IsFirstMatch_any(i, s) == i = 1

\* The position of the first transaction of Uvfs_replies with serial s.
IsFirstMatch(i, s) ==
    /\ serial[Uvfs_replies[i]] = s
    /\ \A k \in 1..(i-1) : serial[Uvfs_replies[k]] # s

write_take(t, j) ==
    /\ tpc[t] = "user"
    /\ j \in jobs
    /\ jobs' = jobs \ {j}
    /\ \E i \in DOMAIN Uvfs_replies :
          LET c == Uvfs_replies[i]
          IN  /\ IsFirstMatch(i, j.serial)
              /\ Uvfs_replies' = list_del_init(Uvfs_replies, c)
              /\ in_use' = [in_use EXCEPT ![c] = TRUE]
              /\ ptr' = [ptr EXCEPT ![t] = c]
    /\ hand' = [hand EXCEPT ![t] = {j}]
    /\ tpc' = [tpc EXCEPT ![t] = "copying_in"]
    /\ UNCHANGED <<countVars, Uvfs_requests, Uvfs_driver_queue, serial,
                   abort, answered, u, callerVars, tsig, histVars>>

\* -EINVAL: the transaction was withdrawn by its caller.
write_unmatched(t, j) ==
    /\ tpc[t] = "user"
    /\ j \in jobs
    /\ \A i \in DOMAIN Uvfs_replies : serial[Uvfs_replies[i]] # j.serial
    /\ jobs' = jobs \ {j}
    /\ UNCHANGED <<countVars, listVars, Uvfs_driver_queue, transVars,
                   callerVars, threadVars, histVars>>

\* The copy is over, in full or not, and the transaction is answered.
write_copied(t) ==
    LET c == ptr[t]
    IN  /\ tpc[t] = "copying_in"
        /\ \E j \in hand[t] :
              \/ u' = [u EXCEPT ![c] = Content("reply", j.for)]
              \/ /\ t \in Faulty
                 /\ u' = [u EXCEPT ![c] = Content("torn", j.for)]
        /\ EndUse(c)
        /\ answered' = [answered EXCEPT ![c] = TRUE]
        /\ WakeCaller(c)
        /\ tpc' = [tpc EXCEPT ![t] = "user"]
        /\ ptr' = [ptr EXCEPT ![t] = NULL]
        /\ hand' = [hand EXCEPT ![t] = {}]
        /\ dangling' = dangling \ {t}
        /\ tainted' = (tainted \/ t \in dangling)
        /\ UNCHANGED <<countVars, listVars, Uvfs_driver_queue, serial, abort,
                       at, killed, tsig, jobs, outdated>>

-----------------------------------------------------------------------------

uvfs_make_request(c) ==
    \/ make_request_refused(c)
    \/ make_request_queued(c)
    \/ wait_answered(c)
    \/ check_signal(c)
    \/ wait_unused(c)
    \/ finish_abort(c)

uvfsd_release(t) == uvfsd_release_other(t) \/ uvfsd_release_last(t)

uvfsd_read(t) ==
    \/ read_sleep(t)
    \/ read_shutdown(t)
    \/ read_shutdown_done(t)
    \/ read_take(t)
    \/ read_copied(t)
    \/ read_return(t)
    \/ read_interrupted(t)

uvfsd_write(t, j) == write_take(t, j) \/ write_unmatched(t, j)

Next ==
    \/ \E c \in Callers :
          \/ uvfs_new_transaction(c)
          \/ uvfs_make_request(c)
          \/ kfree_trans(c)
          \/ Kill(c)
          \/ Exit(c)
    \/ \E t \in Threads :
          \/ uvfsd_open(t)
          \/ uvfsd_release(t)
          \/ uvfsd_ioctl_shutdown(t)
          \/ uvfsd_read(t)
          \/ \E j \in jobs : uvfsd_write(t, j)
          \/ write_copied(t)
          \/ Interrupt(t)

Spec == Init /\ [][Next]_vars

-----------------------------------------------------------------------------
(* What must hold.                                                         *)

\* The caller's transaction is the driver's: it has been queued and the
\* caller has not yet got its result.
InFlight(c) == at[c] \in {"waiting", "woken", "aborting", "aborted"}

\* The threads in the middle of a copy out of, or into, c's transaction.
Readers(c) ==
    {t \in Threads \ dangling : ptr[t] = c /\ tpc[t] = "copying_out"}
Writers(c) ==
    {t \in Threads \ dangling : ptr[t] = c /\ tpc[t] = "copying_in"}

\* c is at most once in a list.
Once(list, c) ==
    \A i, k \in DOMAIN list : list[i] = c /\ list[k] = c => i = k

(* Both lists empty out with the last close: while no descriptor is open   *)
(* no transaction is queued, no server holds a request, the driver is not  *)
(* shutting down and no thread is inside a call; use_count is the number   *)
(* of open descriptors (uvfsd_open, uvfsd_release, the use_count test of   *)
(* uvfs_make_request).                                                     *)
ClosedIsEmpty ==
    /\ use_count = Cardinality({t \in Threads : tpc[t] # "closed"})
    /\ use_count = 0 => /\ Uvfs_requests = <<>>
                        /\ Uvfs_replies = <<>>
                        /\ jobs = {}
                        /\ ~ShuttingDown

(* A transaction in flight is in exactly one place: once on Uvfs_requests, *)
(* once on Uvfs_replies, in the hands of one writer, or answered.  So none *)
(* is forgotten, delivered twice or answered twice, whatever the order of  *)
(* reads, writes, kills, copy faults and closes.                           *)
OnePlace ==
    ~tainted =>
      \A c \in Callers :
        LET places == [requests |-> c \in Range(Uvfs_requests),
                       replies  |-> c \in Range(Uvfs_replies),
                       writer   |-> Writers(c) # {},
                       answered |-> answered[c]]
        IN  /\ Once(Uvfs_requests, c) /\ Once(Uvfs_replies, c)
            /\ places.requests \/ places.replies => InFlight(c)
            /\ InFlight(c) => \E p \in DOMAIN places :
                                 \A q \in DOMAIN places : places[q] <=> q = p

(* in_use means what the abort protocol takes it to mean: it is set        *)
(* exactly while one thread is copying from or to the transaction          *)
(* (uvfsd_read, uvfsd_write), so that a killed caller that waits for it to *)
(* clear waits for the right thing.                                        *)
InUseExact ==
    ~tainted =>
      \A c \in Callers :
        /\ at[c] # "idle" =>
              (in_use[c] <=> Readers(c) \cup Writers(c) # {})
        /\ \A t, v \in Readers(c) \cup Writers(c) : t = v

(* A reader never copies out of a transaction its caller has freed: the    *)
(* abort flag makes a killed caller wait for the copy.                     *)
CopyOutLive ==
    ~tainted => \A t \in dangling : tpc[t] # "copying_out"

(* No lost wake-up of a caller: one that is asleep has nothing to wake up  *)
(* for.  Asleep in wait_event_interruptible it has neither an answer nor a *)
(* SIGKILL; asleep in wait_event the transaction is in use and the user    *)
(* will see abort.                                                         *)
NoLostCaller ==
    ~tainted =>
      \A c \in Callers : asleep[c] =>
        \/ at[c] = "waiting" /\ ~answered[c] /\ ~killed[c]
        \/ at[c] = "aborting" /\ in_use[c] /\ (abort[c] \/ Writers(c) # {})

(* A serial number the server holds identifies its request: a transaction  *)
(* on Uvfs_replies that uvfsd_write would match is the one the server      *)
(* read.                                                                   *)
SerialMatches ==
    ~tainted =>
      \A c \in Range(Uvfs_replies) : \A j \in jobs :
        serial[c] = j.serial => j.for = c

(* The result a caller gets is its own: the reply to its own request (or   *)
(* what a faulting copy left of it), -EIO if the device was closed, or     *)
(* -ERESTARTSYS if it was killed.  Its own request is never taken for a    *)
(* reply.                                                                  *)
RightReply ==
    ~tainted =>
      \A c \in Callers : at[c] = "done" =>
        \/ u[c].tag \in {"reply", "torn"} /\ u[c].for = c /\ Writers(c) = {}
        \/ u[c].tag = "EIO"
        \/ u[c].tag = "ERESTARTSYS" /\ c \in Killable

(* No lost wake-up of a reader, as long as no reader gets a signal: when   *)
(* there is a request to take, or a shutdown to report, and a reader is    *)
(* asleep, some reader is on its way to the head of the loop or about to   *)
(* wake the next one (the wake-ups of uvfs_make_request, of uvfsd_read     *)
(* after UVFS_SHUTDOWN, and of UVFS_IOCTL_SHUTDOWN).                       *)
NoLostReader ==
    /\ Uvfs_requests # <<>> \/ ShuttingDown
    /\ Uvfs_driver_queue # <<>>
    => \E t \in Threads : tpc[t] \in {"roused", "shutdown"}

(* Without kills nothing is ever used after it was freed.                  *)
NoKillNoDangling ==
    Killable = {} /\ ~tainted => dangling = {}

(* An answer stands: once a transaction is answered its contents do not    *)
(* change until its caller is done with it, except that a killed caller    *)
(* replaces them by -ERESTARTSYS.                                          *)
AnswerStands ==
    [][\A c \in Callers :
          ~tainted' /\ InFlight(c) /\ answered[c] /\ u'[c] # u[c] =>
             killed[c] /\ u'[c].tag = "ERESTARTSYS"]_vars

(* Two things the documentation promises and the code does not keep.       *)

(* A transaction is freed "after the request is completed"                 *)
(* (uvfs_new_transaction): no thread is left in uvfsd_read or uvfsd_write  *)
(* with a transaction that its caller has freed.                           *)
FreedAfterUse == dangling = {}

(* A caller is never handed the reply to another caller's request, not     *)
(* even one sent to an earlier server (uvfsd_release resets                *)
(* Serial_number).                                                         *)
OwnReply ==
    \A c \in Callers : at[c] = "done" /\ u[c].tag = "reply" => u[c].for = c

=============================================================================
