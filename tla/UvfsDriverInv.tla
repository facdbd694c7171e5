---------------------------- MODULE UvfsDriverInv ----------------------------
(***************************************************************************)
(* The inductive invariant of UvfsDriver.  The properties of UvfsDriver    *)
(* follow from it; they are not inductive by themselves, because they do   *)
(* not say where the claim to a transaction is: on a list, in the pointer  *)
(* of one thread, and, from the moment a thread has copied a request out,  *)
(* in one job that carries its serial number.                              *)
(***************************************************************************)
EXTENDS UvfsDriver

Req == Range(Uvfs_requests)
Rep == Range(Uvfs_replies)

NoDup(s) == \A i, k \in DOMAIN s : s[i] = s[k] => i = k

\* The threads that hold a pointer to a live transaction.
Holds(t, c) == t \notin dangling /\ ptr[t] = c

Copying == {"copying_out", "copying_in"}

Writing(c) == \E t \in Threads : Holds(t, c) /\ tpc[t] = "copying_in"

\* Numbered since the last reset of the counter.
Live(c) == at[c] # "idle" /\ c \notin outdated

Opened == {t \in Threads : tpc[t] # "closed"}

\* The readers on the wait queue are asleep, each there once.
QueueInv ==
    /\ NoDup(Uvfs_driver_queue)
    /\ \A i \in DOMAIN Uvfs_driver_queue :
          tpc[Uvfs_driver_queue[i]] = "sleeping"

\* A thread has a pointer from when it takes a transaction off a list until
\* its call returns.
PointerInv ==
    \A t \in Threads : ptr[t] # NULL <=> tpc[t] \in Copying \cup {"returning"}

\* What a thread holds, by where it is.
ThreadInv ==
    \A t \in Threads :
      /\ t \in dangling => ptr[t] # NULL
      /\ hand[t] # {} => tpc[t] \in {"returning", "copying_in"}
      /\ tpc[t] = "copying_in" => hand[t] # {}
      /\ tpc[t] = "copying_out" => t \notin dangling
      /\ \A c \in Callers : Holds(t, c) => 
            \A j \in hand[t] : j.serial = serial[c] /\ j.for = c

\* A transaction some thread points to is the driver's or just finished, and
\* only one thread points to it.
PtrInv ==
    \A t \in Threads, c \in Callers : Holds(t, c) =>
      /\ InFlight(c) \/ at[c] = "done"
      /\ c \notin outdated
      /\ at[c] = "done" => c \in Killable
      /\ c \notin Req /\ ~answered[c]
      /\ \A v \in Threads : Holds(v, c) => v = t
      /\ tpc[t] = "copying_out" => c \in Rep
      /\ tpc[t] = "copying_in" => c \notin Rep

\* Serial numbers tell the live transactions apart.
SerialInv ==
    /\ \A c \in Callers : Live(c) => serial[c] < Serial_number
    /\ \A c, d \in Callers :
          Live(c) /\ Live(d) /\ serial[c] = serial[d] => c = d

\* Job j is where the claim to a transaction is.
JobInv(j) ==
    /\ j.serial < Serial_number
    /\ \A c \in Callers : Live(c) /\ serial[c] = j.serial =>
          j.for = c /\ c \notin Req /\ at[c] # "built"

JobsInv ==
    /\ \A j \in jobs : JobInv(j)
    /\ \A t \in Threads : \A j \in hand[t] : JobInv(j) /\ j \notin jobs
    /\ \A t, v \in Threads : t # v => hand[t] \cap hand[v] = {}
    /\ \A t \in Threads, c \in Callers : Holds(t, c) =>
          \A j \in jobs : j.serial # serial[c]
    /\ \A t, v \in Threads, c \in Callers : Holds(t, c) /\ v # t =>
          \A j \in hand[v] : j.serial # serial[c]

ListInv ==
    /\ NoDup(Uvfs_requests) /\ NoDup(Uvfs_replies)
    /\ \A c \in Callers :
          /\ c \notin Req \/ c \notin Rep
          /\ c \in Req \/ c \in Rep =>
                InFlight(c) /\ ~answered[c] /\ c \notin outdated
          /\ InFlight(c) /\ ~answered[c] =>
                c \in Req \/ c \in Rep \/ Writing(c)

UseInv ==
    \A c \in Callers : at[c] # "idle" =>
        (in_use[c] <=> \E t \in Threads : Holds(t, c) /\ tpc[t] \in Copying)

CallerInv ==
    \A c \in Callers :
      /\ killed[c] => c \in Killable
      /\ at[c] = "woken" => answered[c] \/ killed[c]
      /\ at[c] \in {"aborting", "aborted"} => killed[c] /\ c \notin Req
      /\ at[c] = "aborting" => abort[c]
      /\ at[c] = "aborted" =>
            \A t \in Threads : Holds(t, c) => tpc[t] # "copying_out"
      /\ asleep[c] => \/ at[c] = "waiting" /\ ~answered[c] /\ ~killed[c]
                      \/ at[c] = "aborting" /\ in_use[c]

\* What the union u holds, by how far the transaction got.
ContentInv ==
    \A c \in Callers :
      /\ at[c] = "built" => u[c].tag = "request" /\ ~answered[c]
      /\ InFlight(c) /\ ~answered[c] => u[c].tag = "request"
      /\ InFlight(c) /\ answered[c] =>
            u[c].tag = "EIO" \/ (u[c].tag \in {"reply", "torn"} /\ u[c].for = c)
      /\ at[c] = "done" =>
            \/ u[c].tag \in {"reply", "torn"} /\ u[c].for = c /\ ~Writing(c)
            \/ u[c].tag = "EIO" /\ ~Writing(c)
            \/ u[c].tag = "ERESTARTSYS" /\ c \in Killable

\* Only a killed caller frees a transaction a thread points to.
KillInv == Killable = {} => dangling = {}

Conduit ==
    /\ ThreadInv /\ PtrInv /\ SerialInv /\ JobsInv
    /\ ListInv /\ UseInv /\ CallerInv /\ ContentInv /\ KillInv

\* What holds whatever happens: types, the wait queue, the threads' pointers
\* and the count of descriptors.
Frame == TypeOK /\ QueueInv /\ PointerInv /\ ClosedIsEmpty

(* The inductive invariant: the frame always; the rest until an outdated   *)
(* transaction is queued or a thread writes to a freed one (uvfsd_read,    *)
(* uvfsd_write, the abort path of uvfs_make_request).                      *)
IInv == Frame /\ (tainted \/ Conduit)

=============================================================================
