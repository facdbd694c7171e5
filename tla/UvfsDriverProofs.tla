-------------------------- MODULE UvfsDriverProofs --------------------------
(***************************************************************************)
(* The operations of a caller preserve Conduit: its transaction is freed,  *)
(* and the next numbered, refused or queued, waited for and withdrawn.     *)
(*                                                                         *)
(* Then the part of the inductive invariant of UvfsDriver that holds       *)
(* whatever happens: types, the wait queue of the readers, the count of    *)
(* open descriptors. IInv is an invariant of UvfsDriver for any number of  *)
(* callers and threads, and the safety properties of UvfsDriver follow     *)
(* from it. With it UvfsDriver implements UvfsCall: the refinement mapping *)
(* takes the initial state to the initial state and every step to a step   *)
(* of a call or to no step at all.                                         *)
(***************************************************************************)
EXTENDS UvfsDriverCall, UvfsDriverThreads, FiniteSetTheorems

\* An empty list has nothing on it.
LEMMA NothingListed == Range(<<>>) = {}
BY SMT DEF Range

(* A killed caller takes its transaction off its list: no thread is        *)
(* copying the request out at that moment.                                 *)
LEMMA WithdrawStep ==
    ASSUME Frame, Conduit, NEW c \in Callers, Withdraw(c),
           InFlight(c), killed[c], ~asleep[c],
           \A t \in Threads : Holds(t, c) => tpc[t] # "copying_out",
           UNCHANGED <<Serial_number, serial, in_use, abort, answered, asleep,
                       killed, tpc, ptr, hand, jobs, outdated, dangling>>
    PROVE  Conduit'
<1>0. /\ serial' = serial /\ tpc' = tpc /\ ptr' = ptr /\ hand' = hand
      /\ dangling' = dangling /\ outdated' = outdated /\ answered' = answered
  OBVIOUS
<1>1. /\ at'[c] = "done" /\ u'[c].tag = "ERESTARTSYS"
      /\ OthersSame(c)
      /\ Uvfs_requests' = list_del_init(Uvfs_requests, c)
      /\ Uvfs_replies' = list_del_init(Uvfs_replies, c)
  BY Zenon DEF Withdraw, Frame, TypeOK, Content, OthersSame
<1>4. ThreadInv'
  <2>1. ThreadInv
    BY Zenon DEF Conduit
  <2> QED
    BY <1>0, <2>1, SMTT(30) DEF ThreadInv, Holds
<1> USE DEF Conduit, Holds, InFlight, Copying, Live, Writing
<1>2. Req' = Req \ {c} /\ Rep' = Rep \ {c}
  BY <1>1, DeleteList, SMTT(30) DEF Frame, TypeOK, ListInv, Req, Rep
<1>3. NoDup(Uvfs_requests') /\ NoDup(Uvfs_replies')
  BY <1>1, DeleteList, Zenon DEF Frame, TypeOK, ListInv
<1>5. PtrInv'
  <2>1. PtrInv /\ c \in Killable
    BY Zenon DEF CallerInv
  <2>2. ASSUME NEW t \in Threads, NEW d \in Callers, ptr[t] = d, t \notin dangling
        PROVE  /\ InFlight(d)' \/ at'[d] = "done"
               /\ d \notin outdated'
               /\ at'[d] = "done" => d \in Killable
               /\ d \notin Req' /\ ~answered'[d]
               /\ \A v \in Threads : v \notin dangling' /\ ptr'[v] = d => v = t
               /\ tpc'[t] = "copying_out" => d \in Rep'
               /\ tpc'[t] = "copying_in" => d \notin Rep'
    <3>1. /\ InFlight(d) \/ at[d] = "done"
          /\ d \notin outdated
          /\ at[d] = "done" => d \in Killable
          /\ d \notin Req /\ ~answered[d]
          /\ \A v \in Threads : v \notin dangling /\ ptr[v] = d => v = t
          /\ tpc[t] = "copying_out" => d \in Rep
          /\ tpc[t] = "copying_in" => d \notin Rep
      BY <2>1, <2>2, Zenon DEF PtrInv
    <3>2. CASE d = c
      BY <1>0, <1>1, <1>2, <2>1, <2>2, <3>1, <3>2, Zenon
    <3>3. CASE d # c
      <4>1. at'[d] = at[d]
        BY <1>1, <3>3, Zenon DEF OthersSame
      <4> QED
        BY <1>0, <1>2, <3>1, <3>3, <4>1, Zenon
    <3> QED
      BY <3>2, <3>3, Zenon
  <2>3. ptr' = ptr /\ dangling' = dangling
    BY <1>0, Zenon
  <2> QED
    BY <2>2, <2>3, Zenon DEF PtrInv
<1>6. SerialInv'
  BY <1>1, <1>2, <1>3, Zenon DEF SerialInv, OthersSame
<1>7. JobsInv'
  BY <1>1, <1>2, <1>3, SMTT(30) DEF JobsInv, JobInv, OthersSame
<1>8. ListInv'
  BY <1>1, <1>2, <1>3, SMTT(30) DEF ListInv, OthersSame
<1>9. UseInv'
  BY <1>1, <1>2, <1>3, SMTT(30) DEF UseInv, OthersSame
<1>10. CallerInv'
  BY <1>1, <1>2, <1>3, SMTT(30) DEF CallerInv, OthersSame
<1>11. ContentInv'
  BY <1>1, SMTT(30) DEF ContentInv, CallerInv, OthersSame
<1>12. KillInv'
  BY Zenon DEF KillInv
<1> QED
  BY <1>4, <1>5, <1>6, <1>7, <1>8, <1>9, <1>10, <1>11, <1>12, Zenon

(* An answered caller leaves with the answer, which no thread is writing   *)
(* any more.                                                               *)
LEMMA AnsweredStep ==
    ASSUME Frame, Conduit, NEW c \in Callers, check_signal(c), ~killed[c]
    PROVE  Conduit'
<1>1. /\ at[c] = "woken" /\ at'[c] = "done"
      /\ OthersSame(c)
      /\ UNCHANGED <<Serial_number, serial, in_use, abort, answered, asleep, killed>>
      /\ UNCHANGED <<u, tpc, ptr, hand, jobs, outdated, dangling>>
      /\ UNCHANGED <<Uvfs_requests, Uvfs_replies>>
  BY Zenon DEF check_signal, Frame, TypeOK, countVars, listVars, threadVars,
      histVars, OthersSame
<1>2. Req' = Req /\ Rep' = Rep
  BY <1>1, Zenon DEF Req, Rep
<1> USE DEF Conduit, Holds, InFlight, Copying, Live, Writing
<1>3. answered[c] /\ c \notin Req /\ c \notin Rep /\ ~Writing(c)
  BY <1>1, Zenon DEF CallerInv, ListInv, PtrInv
<1>4. ThreadInv'
  BY <1>1, <1>2, <1>3 DEF ThreadInv, OthersSame
<1>5. PtrInv'
  BY <1>1, <1>2, <1>3 DEF PtrInv, OthersSame
<1>6. SerialInv'
  BY <1>1, <1>2, <1>3, Zenon DEF SerialInv, OthersSame
<1>7. JobsInv'
  BY <1>1, <1>2, <1>3, SMTT(30) DEF JobsInv, JobInv, OthersSame
<1>8. ListInv'
  BY <1>1, <1>2, <1>3, SMTT(30) DEF ListInv, OthersSame
<1>9. UseInv'
  BY <1>1, <1>2, <1>3, ZenonT(30) DEF UseInv, OthersSame
<1>10. CallerInv'
  BY <1>1, <1>2, <1>3, ZenonT(30) DEF CallerInv, OthersSame
<1>11. ContentInv'
  BY <1>1, <1>2, <1>3, SMTT(30) DEF ContentInv, OthersSame
<1>12. KillInv'
  BY <1>1, Zenon DEF KillInv
<1> QED
  BY <1>4, <1>5, <1>6, <1>7, <1>8, <1>9, <1>10, <1>11, <1>12, Zenon

(* A killed caller sees in_use and sets abort: the thread that copies has  *)
(* the transaction, so it is not on Uvfs_requests.                         *)
LEMMA AbortingStep ==
    ASSUME Frame, Conduit, NEW c \in Callers, check_signal(c), killed[c],
           in_use[c]
    PROVE  Conduit'
<1>1. /\ at[c] = "woken" /\ at'[c] = "aborting" /\ abort'[c]
      /\ OthersSame(c)
      /\ UNCHANGED <<Serial_number, serial, in_use, answered, asleep, killed>>
      /\ UNCHANGED <<u, tpc, ptr, hand, jobs, outdated, dangling>>
      /\ UNCHANGED <<Uvfs_requests, Uvfs_replies>>
  BY Zenon DEF check_signal, MustWait, Frame, TypeOK, countVars, listVars,
      threadVars, histVars, OthersSame
<1>2. Req' = Req /\ Rep' = Rep
  BY <1>1, Zenon DEF Req, Rep
<1> USE DEF Conduit, Holds, InFlight, Copying, Live, Writing
<1>3. c \notin Req
  BY <1>1, Zenon DEF UseInv, PtrInv
<1>4. ThreadInv'
  BY <1>1, <1>2, <1>3, SMTT(30) DEF ThreadInv, OthersSame
<1>5. PtrInv'
  BY <1>1, <1>2, <1>3, SMTT(30) DEF PtrInv, OthersSame
<1>6. SerialInv'
  BY <1>1, <1>2, <1>3, Zenon DEF SerialInv, OthersSame
<1>7. JobsInv'
  BY <1>1, <1>2, <1>3, SMTT(30) DEF JobsInv, JobInv, OthersSame
<1>8. ListInv'
  BY <1>1, <1>2, <1>3, SMTT(30) DEF ListInv, OthersSame
<1>9. UseInv'
  BY <1>1, <1>2, <1>3, ZenonT(30) DEF UseInv, OthersSame
<1>10. CallerInv'
  BY <1>1, <1>2, <1>3, ZenonT(30) DEF CallerInv, OthersSame
<1>11. ContentInv'
  BY <1>1, <1>2, <1>3, ZenonT(30) DEF ContentInv, OthersSame
<1>12. KillInv'
  BY <1>1, Zenon DEF KillInv
<1> QED
  BY <1>4, <1>5, <1>6, <1>7, <1>8, <1>9, <1>10, <1>11, <1>12, Zenon

(* kfree: the threads that still point to the transaction are past their   *)
(* copy out of it, and lose it.                                            *)
LEMMA FreeStep ==
    ASSUME Frame, Conduit, NEW c \in Callers, kfree_trans(c)
    PROVE  Conduit'
<1>1. /\ at[c] = "done" /\ at'[c] = "idle"
      /\ OthersSame(c)
      /\ \A t \in Threads : t \in dangling' <=> t \in dangling \/ ptr[t] = c
      /\ \A d \in Callers \ {c} : d \in outdated' <=> d \in outdated
      /\ UNCHANGED <<Serial_number, serial, in_use, abort, answered, asleep, killed>>
      /\ UNCHANGED <<u, tpc, ptr, hand, jobs>>
      /\ UNCHANGED <<Uvfs_requests, Uvfs_replies>>
  BY Zenon DEF kfree_trans, Frame, TypeOK, countVars, listVars, transVars,
      threadVars, OthersSame
<1>2. Req' = Req /\ Rep' = Rep
  BY <1>1, Zenon DEF Req, Rep
<1> USE DEF Conduit, Holds, InFlight, Copying, Live, Writing
<1>3. c \notin Req /\ c \notin Rep /\ c # NULL
  BY <1>1, DriverConstants, Zenon DEF ListInv
<1>4. \A t \in Threads, d \in Callers : Holds(t, d)' <=> Holds(t, d) /\ d # c
  BY <1>1, Zenon
<1>5. ThreadInv'
  BY <1>1, <1>2, <1>3, <1>4 DEF ThreadInv, OthersSame, PtrInv
<1>6. PtrInv'
  BY <1>1, <1>2, <1>3, <1>4 DEF PtrInv, OthersSame
<1>7. SerialInv'
  BY <1>1, <1>2, <1>3, <1>4, Zenon DEF SerialInv, OthersSame
<1>8. JobsInv'
  BY <1>1, <1>2, <1>3, <1>4, SMTT(30) DEF JobsInv, JobInv, OthersSame
<1>9. ListInv'
  BY <1>1, <1>2, <1>3, <1>4 DEF ListInv, OthersSame
<1>10. UseInv'
  BY <1>1, <1>2, <1>3, <1>4 DEF UseInv, OthersSame
<1>11. CallerInv'
  BY <1>1, <1>2, <1>3, <1>4 DEF CallerInv, OthersSame
<1>12. ContentInv'
  BY <1>1, <1>2, <1>3, <1>4 DEF ContentInv, OthersSame
<1>13. KillInv'
  <2>1. \A t \in Threads : ptr[t] = c /\ t \notin dangling => c \in Killable
    BY <1>1, Zenon DEF PtrInv
  <2>2. dangling \subseteq Threads /\ dangling' \subseteq Threads
    BY Zenon DEF Frame, TypeOK, kfree_trans
  <2> QED
    BY <1>1, <2>1, <2>2, Zenon DEF KillInv
<1> QED
  BY <1>5, <1>6, <1>7, <1>8, <1>9, <1>10, <1>11, <1>12, <1>13, Zenon

(* A number not given out yet distinguishes the new transaction.           *)
LEMMA NewTransactionStep ==
    ASSUME Frame, Conduit, NEW c \in Callers, uvfs_new_transaction(c)
    PROVE  Conduit'
<1>1. /\ at[c] = "idle"
      /\ at'[c] = "built" /\ serial'[c] = Serial_number
      /\ ~in_use'[c] /\ ~abort'[c] /\ ~answered'[c] /\ u'[c].tag = "request"
      /\ OthersSame(c)
      /\ Serial_number' = Serial_number + 1
      /\ Serial_number \in Nat
      /\ UNCHANGED <<asleep, killed, tpc, ptr, hand, jobs, outdated, dangling>>
      /\ UNCHANGED <<Uvfs_requests, Uvfs_replies>>
  BY DriverConstants DEF uvfs_new_transaction, NextSerial, Frame, TypeOK,
      Content, listVars, threadVars, histVars, OthersSame
<1>2. Req' = Req /\ Rep' = Rep
  BY <1>1, Zenon DEF Req, Rep
<1>3. \A d \in Callers : serial[d] \in Nat
  BY Zenon DEF Frame, TypeOK
<1>4. \A j \in jobs : j.serial \in Nat
  BY Zenon DEF Frame, TypeOK, Job
<1>5. \A t \in Threads : \A j \in hand[t] : j.serial \in Nat
  BY DEF Frame, TypeOK, Job
<1> USE DEF Conduit, Holds, InFlight, Copying, Live, Writing
<1>6. \A t \in Threads : ~Holds(t, c)
  BY <1>1, Zenon DEF PtrInv
<1>7. ThreadInv'
  BY <1>1, <1>2, <1>6 DEF ThreadInv, OthersSame
<1>8. PtrInv'
  BY <1>1, <1>2, <1>6 DEF PtrInv, OthersSame
<1>9. SerialInv'
  BY <1>1, <1>3 DEF SerialInv, OthersSame
<1>10. JobsInv'
  BY <1>1, <1>2, <1>4, <1>5, <1>6 DEF JobsInv, JobInv, OthersSame
<1>11. ListInv'
  BY <1>1, <1>2, <1>6 DEF ListInv, OthersSame
<1>12. UseInv'
  BY <1>1, <1>2, <1>6 DEF UseInv, OthersSame
<1>13. CallerInv'
  BY <1>1, <1>2, <1>6, ZenonT(30) DEF CallerInv, OthersSame
<1>14. ContentInv'
  BY <1>1, <1>2, <1>6 DEF ContentInv, OthersSame
<1>15. KillInv'
  BY <1>1, Zenon DEF KillInv
<1> QED
  BY <1>7, <1>8, <1>9, <1>10, <1>11, <1>12, <1>13, <1>14, <1>15, Zenon

(* uvfs_make_request with no server: the transaction never was on a list.  *)
LEMMA RefusedStep ==
    ASSUME Frame, Conduit, NEW c \in Callers, make_request_refused(c)
    PROVE  Conduit'
<1>1. /\ at[c] = "built" /\ at'[c] = "done" /\ u'[c].tag = "EIO"
      /\ OthersSame(c)
      /\ UNCHANGED <<Serial_number, serial, in_use, abort, answered, asleep, killed>>
      /\ UNCHANGED <<tpc, ptr, hand, jobs, outdated, dangling>>
      /\ UNCHANGED <<Uvfs_requests, Uvfs_replies>>
  BY Zenon DEF make_request_refused, Frame, TypeOK, Content, countVars,
      listVars, threadVars, histVars, OthersSame
<1>2. Req' = Req /\ Rep' = Rep
  BY <1>1, Zenon DEF Req, Rep
<1> USE DEF Conduit, Holds, InFlight, Copying, Live, Writing
<1>3. \A t \in Threads : ~Holds(t, c)
  BY <1>1, Zenon DEF PtrInv
<1>4. ThreadInv'
  BY <1>1, <1>2, <1>3 DEF ThreadInv, OthersSame
<1>5. PtrInv'
  BY <1>1, <1>2, <1>3 DEF PtrInv, OthersSame
<1>6. SerialInv'
  BY <1>1, <1>2, <1>3, Zenon DEF SerialInv, OthersSame
<1>7. JobsInv'
  BY <1>1, <1>2, <1>3 DEF JobsInv, JobInv, OthersSame
<1>8. ListInv'
  BY <1>1, <1>2, <1>3 DEF ListInv, OthersSame
<1>9. UseInv'
  BY <1>1, <1>2, <1>3 DEF UseInv, OthersSame
<1>10. CallerInv'
  BY <1>1, <1>2, <1>3 DEF CallerInv, OthersSame
<1>11. ContentInv'
  BY <1>1, <1>2, <1>3 DEF ContentInv, OthersSame
<1>12. KillInv'
  BY <1>1, Zenon DEF KillInv
<1> QED
  BY <1>4, <1>5, <1>6, <1>7, <1>8, <1>9, <1>10, <1>11, <1>12, Zenon

(* uvfs_make_request with a server: no thread and no job claims the        *)
(* transaction it queues.                                                  *)
LEMMA QueuedStep ==
    ASSUME Frame, Conduit, NEW c \in Callers, make_request_queued(c),
           ~tainted'
    PROVE  Conduit'
<1>1. /\ at[c] = "built" /\ at'[c] = "waiting" /\ c \notin outdated
      /\ OthersSame(c)
      /\ UNCHANGED <<Serial_number, serial, in_use, abort, answered, asleep, killed>>
      /\ UNCHANGED <<u, ptr, hand, jobs, outdated, dangling>>
      /\ UNCHANGED Uvfs_replies
      /\ Uvfs_requests' = Append(Uvfs_requests, c)
      /\ WakeReader(tpc)
  BY Zenon DEF make_request_queued, Frame, TypeOK, countVars, transVars,
      histVars, OthersSame
<1>2. \A t \in Threads : \/ tpc'[t] = tpc[t]
                         \/ tpc[t] = "sleeping" /\ tpc'[t] = "roused"
  BY <1>1, WakeReaderLemma, Zenon DEF Frame, TypeOK
<1> USE DEF Conduit, Holds, InFlight, Copying, Live, Writing
<1>3. c \notin Req /\ c \notin Rep /\ ~answered[c]
  BY <1>1, Zenon DEF ListInv, ContentInv
<1>4. Req' = Req \cup {c} /\ Rep' = Rep /\ NoDup(Uvfs_requests')
  BY <1>1, <1>3, AppendList DEF Frame, TypeOK, ListInv, Req, Rep
<1>5. \A t \in Threads : ~Holds(t, c)
  BY <1>1, Zenon DEF PtrInv
<1>6. ThreadInv'
  BY <1>1, <1>2, <1>3, <1>4, <1>5 DEF ThreadInv, OthersSame
<1>7. PtrInv'
  BY <1>1, <1>2, <1>3, <1>4, <1>5 DEF PtrInv, OthersSame
<1>8. SerialInv'
  BY <1>1, Zenon DEF SerialInv, OthersSame
<1>9. JobsInv'
  BY <1>1, <1>2, <1>3, <1>4, <1>5 DEF JobsInv, JobInv, OthersSame
<1>10. ListInv'
  BY <1>1, <1>2, <1>3, <1>4, <1>5 DEF ListInv, OthersSame
<1>11. UseInv'
  BY <1>1, <1>2, <1>3, <1>4, <1>5 DEF UseInv, OthersSame
<1>12. CallerInv'
  BY <1>1, <1>2, <1>3, <1>4, <1>5, SMTT(30) DEF CallerInv, OthersSame
<1>13. ContentInv'
  BY <1>1, <1>2, <1>3, <1>4, <1>5 DEF ContentInv, OthersSame
<1>14. KillInv'
  BY <1>1, Zenon DEF KillInv
<1> QED
  BY <1>6, <1>7, <1>8, <1>9, <1>10, <1>11, <1>12, <1>13, <1>14, Zenon

(* wait_event_interruptible: the caller goes to sleep only with nothing to *)
(* wake up for.                                                            *)
LEMMA WaitStep ==
    ASSUME Frame, Conduit, NEW c \in Callers, wait_answered(c)
    PROVE  Conduit'
<1>1. /\ at[c] = "waiting" /\ ~asleep[c]
      /\ \/ /\ answered[c] \/ killed[c]
            /\ at'[c] = "woken" /\ ~asleep'[c]
         \/ /\ ~answered[c] /\ ~killed[c]
            /\ at'[c] = "waiting"
      /\ OthersSame(c)
      /\ UNCHANGED <<Serial_number, serial, in_use, abort, answered, killed>>
      /\ UNCHANGED <<u, tpc, ptr, hand, jobs, outdated, dangling>>
      /\ UNCHANGED <<Uvfs_requests, Uvfs_replies>>
  BY Zenon DEF wait_answered, WaitIsOver, Frame, TypeOK, countVars, listVars,
      transVars, threadVars, histVars, OthersSame
<1>2. Req' = Req /\ Rep' = Rep
  BY <1>1, Zenon DEF Req, Rep
<1> USE DEF Conduit, Holds, InFlight, Copying, Live, Writing
<1>3. ThreadInv'
  BY <1>1, <1>2 DEF ThreadInv, OthersSame
<1>4. PtrInv'
  BY <1>1, <1>2 DEF PtrInv, OthersSame
<1>5. SerialInv'
  BY <1>1, <1>2, Zenon DEF SerialInv, OthersSame
<1>6. JobsInv'
  BY <1>1, <1>2 DEF JobsInv, JobInv, OthersSame
<1>7. ListInv'
  BY <1>1, <1>2 DEF ListInv, OthersSame
<1>8. UseInv'
  BY <1>1, <1>2, Zenon DEF UseInv, OthersSame
<1>9. CallerInv'
  BY <1>1, <1>2 DEF CallerInv, OthersSame
<1>10. ContentInv'
  BY <1>1, <1>2, Zenon DEF ContentInv, OthersSame
<1>11. KillInv'
  BY <1>1, Zenon DEF KillInv
<1> QED
  BY <1>3, <1>4, <1>5, <1>6, <1>7, <1>8, <1>9, <1>10, <1>11, Zenon

(* wait_event(!in_use): the caller stops waiting when no thread copies.    *)
LEMMA WaitUnusedStep ==
    ASSUME Frame, Conduit, NEW c \in Callers, wait_unused(c)
    PROVE  Conduit'
<1>1. /\ at[c] = "aborting" /\ ~asleep[c]
      /\ \/ in_use[c] /\ at'[c] = "aborting"
         \/ ~in_use[c] /\ at'[c] = "aborted" /\ ~asleep'[c]
      /\ OthersSame(c)
      /\ UNCHANGED <<Serial_number, serial, in_use, abort, answered, killed>>
      /\ UNCHANGED <<u, tpc, ptr, hand, jobs, outdated, dangling>>
      /\ UNCHANGED <<Uvfs_requests, Uvfs_replies>>
  BY Zenon DEF wait_unused, Frame, TypeOK, countVars, listVars, transVars,
      threadVars, histVars, OthersSame
<1>2. Req' = Req /\ Rep' = Rep
  BY <1>1, Zenon DEF Req, Rep
<1> USE DEF Conduit, Holds, InFlight, Copying, Live, Writing
<1>3. ThreadInv'
  BY <1>1, <1>2, SMTT(30) DEF ThreadInv, OthersSame
<1>4. PtrInv'
  BY <1>1, <1>2, SMTT(30) DEF PtrInv, OthersSame
<1>5. SerialInv'
  BY <1>1, <1>2, Zenon DEF SerialInv, OthersSame
<1>6. JobsInv'
  BY <1>1, <1>2, SMTT(30) DEF JobsInv, JobInv, OthersSame
<1>7. ListInv'
  <2>1. \A d \in Callers : Writing(d)' <=> Writing(d)
    BY <1>1, Zenon
  <2>2. \A d \in Callers : InFlight(d)' <=> InFlight(d)
    BY <1>1, Zenon DEF OthersSame
  <2> HIDE DEF Writing, InFlight
  <2> QED
    BY <1>1, <1>2, <2>1, <2>2, Zenon DEF ListInv
<1>8. UseInv'
  BY <1>1, <1>2, Zenon DEF UseInv, OthersSame
<1>9. CallerInv'
  BY <1>1, <1>2, SMTT(30) DEF CallerInv, OthersSame, UseInv
<1>10. ContentInv'
  BY <1>1, <1>2, Zenon DEF ContentInv, OthersSame
<1>11. KillInv'
  BY <1>1, Zenon DEF KillInv
<1> QED
  BY <1>3, <1>4, <1>5, <1>6, <1>7, <1>8, <1>9, <1>10, <1>11, Zenon

(* SIGKILL arrives, or a killed task exits.                                *)
LEMMA SignalStep ==
    ASSUME Frame, Conduit, NEW c \in Callers, Kill(c) \/ Exit(c)
    PROVE  Conduit'
<1>1. /\ \/ /\ killed'[c] /\ c \in Killable
            /\ asleep'[c] <=> asleep[c] /\ at[c] # "waiting"
         \/ ~killed'[c] /\ at[c] = "idle" /\ UNCHANGED asleep
      /\ OthersSame(c)
      /\ UNCHANGED <<Serial_number, serial, in_use, abort, answered, at>>
      /\ UNCHANGED <<u, tpc, ptr, hand, jobs, outdated, dangling>>
      /\ UNCHANGED <<Uvfs_requests, Uvfs_replies>>
  <2>1. UNCHANGED <<countVars, listVars, transVars, threadVars, histVars>>
    BY Zenon DEF Kill, Exit
  <2>2. CASE Kill(c)
    BY <2>1, <2>2, Zenon DEF Kill, Frame, TypeOK, countVars, listVars,
        transVars, threadVars, histVars, OthersSame
  <2>3. CASE Exit(c)
    BY <2>1, <2>3, Zenon DEF Exit, Frame, TypeOK, countVars, listVars,
        transVars, threadVars, histVars, OthersSame
  <2> QED
    BY <2>2, <2>3, Zenon
<1>2. Req' = Req /\ Rep' = Rep
  BY <1>1, Zenon DEF Req, Rep
<1>3. /\ \A v \in Threads, d \in Callers : Holds(v, d)' <=> Holds(v, d)
      /\ \A j : JobInv(j)' <=> JobInv(j)
      /\ \A d \in Callers : Live(d)' <=> Live(d)
      /\ \A d \in Callers : InFlight(d)' <=> InFlight(d)
      /\ \A d \in Callers : Writing(d)' <=> Writing(d)
  BY <1>1, <1>2, Zenon DEF Holds, JobInv, Live, InFlight, Writing
<1> USE DEF Conduit
<1>4. ThreadInv'
  <2>1. UNCHANGED <<serial, tpc, ptr, hand, dangling>> /\ ThreadInv
    BY <1>1, Zenon
  <2> SUFFICES ASSUME NEW t \in Threads
               PROVE  (/\ t \in dangling => ptr[t] # NULL
                       /\ hand[t] # {} => tpc[t] \in {"returning", "copying_in"}
                       /\ tpc[t] = "copying_in" => hand[t] # {}
                       /\ tpc[t] = "copying_out" => t \notin dangling
                       /\ \A d \in Callers : Holds(t, d) =>
                            \A j \in hand[t] : j.serial = serial[d] /\ j.for = d)'
    BY Zenon DEF ThreadInv
  <2>2. /\ t \in dangling => ptr[t] # NULL
        /\ hand[t] # {} => tpc[t] \in {"returning", "copying_in"}
        /\ tpc[t] = "copying_in" => hand[t] # {}
        /\ tpc[t] = "copying_out" => t \notin dangling
    BY <2>1, Zenon DEF ThreadInv
  <2>3. ASSUME NEW d \in Callers, Holds(t, d)', NEW j \in hand'[t]
        PROVE  (j.serial = serial[d] /\ j.for = d)'
    <3>1. Holds(t, d) /\ j \in hand[t]
      BY <2>1, <2>3, <1>3, Zenon
    <3>2. j.serial = serial[d] /\ j.for = d
      BY <3>1, <2>1, SMT DEF ThreadInv
    <3> QED
      BY <3>2, <2>1, SMT
  <2> QED
    BY <2>1, <2>2, <2>3, Zenon
<1>5. PtrInv'
  BY <1>1, <1>2, <1>3, Zenon DEF PtrInv
<1>6. SerialInv'
  BY <1>1, <1>3, Zenon DEF SerialInv
<1>7. JobsInv'
  BY <1>1, <1>3, Zenon DEF JobsInv
<1>8. ListInv'
  BY <1>1, <1>2, <1>3, Zenon DEF ListInv
<1>9. UseInv'
  BY <1>1, <1>3, Zenon DEF UseInv
<1>10. CallerInv'
  BY <1>1, <1>2, <1>3, Zenon DEF CallerInv, OthersSame
<1>11. ContentInv'
  BY <1>1, <1>3, Zenon DEF ContentInv
<1>12. KillInv'
  BY <1>1, Zenon DEF KillInv
<1> QED
  BY <1>4, <1>5, <1>6, <1>7, <1>8, <1>9, <1>10, <1>11, <1>12, Zenon

-----------------------------------------------------------------------------
(* One thread more, one thread less.                                       *)
LEMMA CountOneMore ==
    ASSUME NEW S, NEW x, IsFiniteSet(S), x \notin S
    PROVE  Cardinality(S \cup {x}) = Cardinality(S) + 1
<1>1. Cardinality(S \cup {x}) =
         IF x \in S THEN Cardinality(S) ELSE Cardinality(S) + 1
  BY FS_AddElement, Zenon
<1> QED
  BY <1>1, Zenon

LEMMA CountOneLess ==
    ASSUME NEW S, NEW x, IsFiniteSet(S), x \in S
    PROVE  Cardinality(S \ {x}) = Cardinality(S) - 1
<1>1. Cardinality(S \ {x}) =
         IF x \in S THEN Cardinality(S) - 1 ELSE Cardinality(S)
  BY FS_RemoveElement, Zenon
<1> QED
  BY <1>1, Zenon

(* A thread that has the device open is counted.                           *)
LEMMA CountLemma ==
    ASSUME TypeOK, ClosedIsEmpty
    PROVE  /\ IsFiniteSet(Opened)
           /\ use_count = Cardinality(Opened)
           /\ \A t \in Threads : tpc[t] # "closed" => use_count > 0
           /\ use_count = 1 => \A t, v \in Opened : t = v
<1>1. IsFiniteSet(Opened) /\ use_count = Cardinality(Opened)
  BY DriverConstants, FS_Subset, Zenon DEF Opened, ClosedIsEmpty
<1>2. ASSUME NEW t \in Threads, tpc[t] # "closed" PROVE use_count > 0
  <2>1. Opened # {}
    BY <1>2, Zenon DEF Opened
  <2>2. Cardinality(Opened) # 0
    BY <1>1, <2>1, FS_EmptySet, Zenon
  <2> QED
    BY <1>1, <2>2, SMTT(30) DEF TypeOK
<1>3. ASSUME use_count = 1, NEW t \in Opened, NEW v \in Opened PROVE t = v
  <2>1. /\ IsFiniteSet(Opened \ {t})
        /\ Cardinality(Opened \ {t}) =
              IF t \in Opened THEN Cardinality(Opened) - 1
              ELSE Cardinality(Opened)
    BY <1>1, FS_RemoveElement, Zenon
  <2>2. Cardinality(Opened \ {t}) = 0
    BY <1>1, <1>3, <2>1, SMTT(30)
  <2>3. Opened \ {t} = {}
    BY <2>1, <2>2, FS_EmptySet, Zenon
  <2> QED
    BY <2>3, Zenon
<1> QED
  BY <1>1, <1>2, <1>3, Zenon

(* The count of descriptors does not change when no thread opens or closes *)
(* the device.                                                             *)
LEMMA SameOpened ==
    ASSUME ClosedIsEmpty, use_count' = use_count,
           \A t \in Threads : tpc'[t] = "closed" <=> tpc[t] = "closed"
    PROVE  use_count' = Cardinality({t \in Threads : tpc'[t] # "closed"})
<1>1. {t \in Threads : tpc'[t] # "closed"} = {t \in Threads : tpc[t] # "closed"}
  BY Zenon
<1> QED
  BY <1>1, Zenon DEF ClosedIsEmpty

(* A wait queue that does not change is in order as long as nobody on it   *)
(* moves.                                                                  *)
LEMMA SameQueue ==
    ASSUME TypeOK, QueueInv, UNCHANGED Uvfs_driver_queue,
           \A t \in Threads : tpc[t] = "sleeping" => tpc'[t] = "sleeping"
    PROVE  QueueInv'
<1>1. \A i \in DOMAIN Uvfs_driver_queue : Uvfs_driver_queue[i] \in Threads
  BY SMTT(30) DEF TypeOK
<1> QED
  BY <1>1, Zenon DEF QueueInv, NoDup

-----------------------------------------------------------------------------
(* Each operation of a caller keeps the frame.                             *)
LEMMA CallerFrame ==
    ASSUME Frame, NEW c \in Callers,
           \/ uvfs_new_transaction(c)
           \/ uvfs_make_request(c)
           \/ kfree_trans(c)
           \/ Kill(c)
           \/ Exit(c)
    PROVE  Frame'
<1> USE DEF Frame
<1>a. CASE ~make_request_queued(c)
  <2>1. UNCHANGED <<use_count, ShuttingDown, Uvfs_driver_queue, tpc, jobs>>
    BY <1>a, Zenon DEF uvfs_new_transaction, uvfs_make_request,
        make_request_refused, wait_answered, check_signal, wait_unused,
        finish_abort, kfree_trans, Kill, Exit, countVars, threadVars
  <2>2. QueueInv'
    BY <2>1, SameQueue, Zenon
  <2>3. UNCHANGED listVars \/ Withdraw(c)
    BY <1>a, Zenon DEF uvfs_new_transaction, uvfs_make_request,
        make_request_refused, wait_answered, check_signal, wait_unused,
        finish_abort, kfree_trans, Kill, Exit
  <2>4. Withdraw(c) => /\ Uvfs_requests' \in Seq(Callers)
                       /\ Uvfs_replies' \in Seq(Callers)
                       /\ Uvfs_requests = <<>> => Uvfs_requests' = <<>>
                       /\ Uvfs_replies = <<>> => Uvfs_replies' = <<>>
    BY DeleteList, SMTT(30) DEF Withdraw, TypeOK
  <2>5. ClosedIsEmpty'
    BY <2>1, <2>3, <2>4, Zenon DEF ClosedIsEmpty, listVars
  <2>6. TypeOK'
    <3> USE DEF TypeOK, countVars, listVars, transVars, callerVars, threadVars,
              histVars, Content, CallerStates, Tags
    <3>1. CASE uvfs_new_transaction(c)
      BY <3>1, DriverConstants, SMTT(30) DEF uvfs_new_transaction, NextSerial
    <3>2. CASE make_request_refused(c)
      BY <3>2, Zenon DEF make_request_refused
    <3>3. CASE wait_answered(c)
      BY <3>3, Zenon DEF wait_answered
    <3>4. CASE check_signal(c)
      <4>1. CASE Withdraw(c)
        BY <3>4, <4>1, <2>4, Zenon DEF check_signal, Withdraw
      <4>2. CASE ~Withdraw(c)
        BY <3>4, <4>2, Zenon DEF check_signal
      <4> QED
        BY <4>1, <4>2, Zenon
    <3>5. CASE wait_unused(c)
      BY <3>5, Zenon DEF wait_unused
    <3>6. CASE finish_abort(c)
      BY <3>6, <2>4, Zenon DEF finish_abort, Withdraw
    <3>7. CASE kfree_trans(c)
      BY <3>7, Zenon DEF kfree_trans
    <3>8. CASE Kill(c)
      BY <3>8, Zenon DEF Kill
    <3>9. CASE Exit(c)
      BY <3>9, Zenon DEF Exit
    <3> HIDE DEF TypeOK
    <3> QED
      BY <1>a, <3>1, <3>2, <3>3, <3>4, <3>5, <3>6, <3>7, <3>8, <3>9, Zenon
        , Zenon DEF uvfs_make_request
  <2>7. PointerInv'
    BY <1>a, Zenon DEF PointerInv, uvfs_new_transaction, uvfs_make_request,
        make_request_refused, wait_answered, check_signal, wait_unused,
        finish_abort, kfree_trans, Kill, Exit, threadVars
  <2> QED
    BY <2>2, <2>5, <2>6, <2>7, Zenon
<1>b. CASE make_request_queued(c)
  <2> USE <1>b
  <2>1. WakeReader(tpc)
    BY Zenon DEF make_request_queued
  <2>2. /\ Uvfs_driver_queue' \in Seq(Threads)
        /\ tpc' \in [Threads -> ThreadStates]
        /\ QueueInv'
        /\ \A t \in Threads : \/ tpc'[t] = tpc[t]
                              \/ tpc[t] = "sleeping" /\ tpc'[t] = "roused"
    BY <2>1, WakeReaderLemma, Zenon DEF TypeOK
  <2>3. Uvfs_requests' \in Seq(Callers)
    BY AppendList, Zenon DEF make_request_queued, TypeOK
  <2>4. TypeOK'
    BY <2>2, <2>3, Zenon DEF make_request_queued, TypeOK, countVars, transVars,
        CallerStates
  <2>5. use_count' = Cardinality({t \in Threads : tpc'[t] # "closed"})
    BY <2>2, SameOpened, Zenon DEF make_request_queued, countVars
  <2>6. use_count' # 0
    BY Zenon DEF make_request_queued, ServerPresent, countVars
  <2>7. PointerInv'
    BY <2>2, Zenon DEF make_request_queued, PointerInv, Copying
  <2> QED
    BY <2>2, <2>4, <2>5, <2>6, <2>7, Zenon DEF ClosedIsEmpty
<1> QED
  BY <1>a, <1>b, Zenon

(* The last close: the closer is the only thread that has the device open. *)
LEMMA LastClose ==
    ASSUME Frame, NEW t \in Threads, uvfsd_release_last(t)
    PROVE  /\ use_count' = 0
           /\ \A v \in Threads : tpc'[v] = "closed"
           /\ \A v \in Threads : v # t => tpc[v] = "closed"
<1>1. use_count = 1 /\ tpc[t] = "user" /\ tpc' = [tpc EXCEPT ![t] = "closed"]
  BY SMTT(30) DEF uvfsd_release_last, ReleaseOne, Frame, TypeOK
<1>2. \A v \in Threads : v # t => tpc[v] = "closed"
  BY <1>1, CountLemma, Zenon DEF Frame, Opened
<1> QED
  BY <1>1, <1>2, Zenon DEF uvfsd_release_last, Frame, TypeOK

(* Opening and closing the device keep the frame.                          *)
LEMMA DeviceFrame ==
    ASSUME Frame, NEW t \in Threads, uvfsd_open(t) \/ uvfsd_release(t)
    PROVE  Frame'
<1> USE DEF Frame
<1>1. CASE uvfsd_open(t)
  <2>1. /\ tpc[t] = "closed" /\ tpc' = [tpc EXCEPT ![t] = "user"]
        /\ use_count' = use_count + 1
    BY <1>1, Zenon DEF uvfsd_open
  <2>2. {v \in Threads : tpc'[v] # "closed"} = Opened \cup {t}
    BY <2>1, SMTT(30) DEF Opened, TypeOK
  <2>3. t \notin Opened
    BY <2>1, Zenon DEF Opened
  <2>4. IsFiniteSet(Opened) /\ use_count = Cardinality(Opened)
    BY CountLemma, Zenon
  <2>5. Cardinality(Opened \cup {t}) = Cardinality(Opened) + 1
    BY <2>3, <2>4, CountOneMore, Zenon
  <2>6. use_count' = Cardinality(Opened \cup {t}) /\ use_count' # 0
    BY <2>1, <2>4, <2>5, SMTT(30) DEF TypeOK
  <2>9. ClosedIsEmpty'
    BY <2>2, <2>6, Zenon DEF ClosedIsEmpty
  <2>7. QueueInv'
    BY <1>1, <2>1, SameQueue, Zenon DEF uvfsd_open, TypeOK
  <2>8. TypeOK'
    BY <1>1, SMTT(30) DEF uvfsd_open, TypeOK, ThreadStates, listVars, transVars,
        callerVars, histVars
  <2> QED
    BY <1>1, <2>1, <2>7, <2>8, <2>9, Zenon DEF uvfsd_open, PointerInv, Copying,
        TypeOK
<1>2. ASSUME ReleaseOne(t)
      PROVE  /\ use_count' = Cardinality({v \in Threads : tpc'[v] # "closed"})
             /\ use_count' \in Nat
             /\ tpc' \in [Threads -> ThreadStates]
             /\ UNCHANGED Uvfs_driver_queue => QueueInv'
             /\ UNCHANGED ptr => PointerInv'
  <2>1. /\ tpc[t] = "user" /\ tpc' = [tpc EXCEPT ![t] = "closed"]
        /\ use_count' = use_count - 1
    BY <1>2, Zenon DEF ReleaseOne
  <2>2. {v \in Threads : tpc'[v] # "closed"} = Opened \ {t}
    BY <2>1, Zenon DEF Opened, TypeOK
  <2>3. t \in Opened
    BY <2>1, Zenon DEF Opened
  <2>4. IsFiniteSet(Opened) /\ use_count = Cardinality(Opened) /\ use_count > 0
    BY <2>1, CountLemma, Zenon
  <2>5. Cardinality(Opened \ {t}) = Cardinality(Opened) - 1
    BY <2>3, <2>4, CountOneLess, Zenon
  <2>6. UNCHANGED Uvfs_driver_queue => QueueInv'
    BY <2>1, SameQueue, Zenon DEF TypeOK
  <2>7. use_count' = Cardinality(Opened \ {t}) /\ use_count' \in Nat
    BY <2>1, <2>4, <2>5, SMTT(30) DEF TypeOK
  <2>8. use_count' = Cardinality({v \in Threads : tpc'[v] # "closed"})
    BY <2>2, <2>7, Zenon
  <2>9. UNCHANGED ptr => PointerInv'
    BY <2>1, Zenon DEF PointerInv, Copying, TypeOK
  <2> QED
    BY <2>1, <2>6, <2>7, <2>8, <2>9, Zenon DEF TypeOK, ThreadStates
<1>3. CASE uvfsd_release_other(t)
  <2>1. TypeOK'
    BY <1>2, <1>3, Zenon DEF uvfsd_release_other, TypeOK, listVars, transVars,
        callerVars, histVars
  <2> QED
    BY <1>2, <1>3, <2>1, Zenon DEF uvfsd_release_other, ClosedIsEmpty
<1>4. CASE uvfsd_release_last(t)
  <2>1. TypeOK'
    <3>1. u' \in [Callers -> [tag : Tags, for : Callers]]
      BY <1>4, Zenon DEF uvfsd_release_last, TypeOK, Content, Tags
    <3>2. answered' \in [Callers -> BOOLEAN] /\ asleep' \in [Callers -> BOOLEAN]
      BY <1>4, Zenon DEF uvfsd_release_last, TypeOK
    <3>3. Uvfs_requests' \in Seq(Callers) /\ Uvfs_replies' \in Seq(Callers)
      BY <1>4, SMTT(30) DEF uvfsd_release_last
    <3>4. Serial_number' \in 0..MaxSerial
      BY <1>4, DriverConstants, SMTT(30) DEF uvfsd_release_last
    <3> QED
      BY <1>2, <1>4, <3>1, <3>2, <3>3, <3>4, Zenon DEF uvfsd_release_last,
          TypeOK
  <2> QED
    BY <1>2, <1>4, <2>1, Zenon DEF uvfsd_release_last, ClosedIsEmpty
<1> QED
  BY <1>1, <1>3, <1>4, Zenon DEF uvfsd_release

(* The operations of uvfsd_ioctl and uvfsd_read that wake a reader keep    *)
(* the frame.                                                              *)
LEMMA WakingFrame ==
    ASSUME Frame, NEW t \in Threads,
           \/ uvfsd_ioctl_shutdown(t)
           \/ read_shutdown_done(t)
           \/ read_take(t)
    PROVE  Frame'
<1> USE DEF Frame
<1>1. /\ Uvfs_driver_queue' \in Seq(Threads)
      /\ tpc' \in [Threads -> ThreadStates]
      /\ QueueInv'
      /\ tpc[t] \notin {"sleeping", "closed"}
      /\ tpc'[t] # "closed"
      /\ read_take(t) => tpc'[t] = "copying_out"
      /\ ~read_take(t) => tpc'[t] = "user"
      /\ \A v \in Threads : v # t =>
            \/ tpc'[v] = tpc[v]
            \/ tpc[v] = "sleeping" /\ tpc'[v] = "roused"
  BY WakingThreads, Zenon
<1>2. use_count' = use_count
  BY Zenon DEF uvfsd_ioctl_shutdown, read_shutdown_done, read_take, countVars
<1>3. use_count' = Cardinality({v \in Threads : tpc'[v] # "closed"})
  BY <1>1, <1>2, SameOpened, Zenon
<1>4. use_count' # 0
  BY <1>1, <1>2, CountLemma, SMTT(30) DEF TypeOK
<1>5. ClosedIsEmpty'
  BY <1>3, <1>4, Zenon DEF ClosedIsEmpty
<1>6. TypeOK'
  <2>1. CASE uvfsd_ioctl_shutdown(t) \/ read_shutdown_done(t)
    BY <1>1, <2>1, ZenonT(30), Zenon DEF uvfsd_ioctl_shutdown, read_shutdown_done,
        TypeOK, countVars, listVars, transVars, callerVars, histVars
  <2>2. CASE read_take(t)
    <3>1. /\ Head(Uvfs_requests) \in Callers
          /\ Uvfs_requests' \in Seq(Callers)
      BY <2>2, TailList, Zenon DEF read_take, TypeOK
    <3>2. Uvfs_replies' \in Seq(Callers)
      BY <2>2, <3>1, AppendList, Zenon DEF read_take, TypeOK
    <3> QED
      BY <1>1, <2>2, <3>1, <3>2, Zenon DEF read_take, TypeOK, countVars,
          callerVars, histVars
  <2> QED
    BY <2>1, <2>2, Zenon
<1>7. PointerInv'
  <2>1. CASE read_take(t)
    <3>1. Head(Uvfs_requests) \in Callers
      BY <2>1, TailList, Zenon DEF read_take, TypeOK
    <3>2. /\ ptr' = [ptr EXCEPT ![t] = Head(Uvfs_requests)]
          /\ ptr \in [Threads -> Callers \cup {NULL}]
      BY <2>1, Zenon DEF read_take, TypeOK
    <3>3. ptr'[t] # NULL /\ \A v \in Threads : v # t => ptr'[v] = ptr[v]
      BY <3>1, <3>2, DriverConstants, Zenon
    <3> QED
      BY <1>1, <2>1, <3>3, Zenon DEF PointerInv, Copying
  <2>2. CASE ~read_take(t)
    BY <1>1, <2>2, Zenon DEF uvfsd_ioctl_shutdown,
        read_shutdown_done, PointerInv, Copying
  <2> QED
    BY <2>1, <2>2, Zenon
<1> QED
  BY <1>1, <1>5, <1>6, <1>7, Zenon

(* The operations of a thread that change its own place only, and the wait *)
(* queue at most by its own entry, keep the frame.                         *)
LEMMA ThreadFrame ==
    ASSUME Frame, NEW t \in Threads,
           \/ read_sleep(t)
           \/ read_shutdown(t)
           \/ read_copied(t)
           \/ read_return(t)
           \/ read_interrupted(t)
           \/ Interrupt(t)
           \/ \E j \in jobs : uvfsd_write(t, j)
           \/ write_copied(t)
    PROVE  Frame'
<1> USE DEF Frame
<1>1. tpc[t] # "closed"
  BY Zenon DEF read_sleep, read_shutdown, read_copied, read_return,
      read_interrupted, Interrupt, uvfsd_write, write_take, write_unmatched,
      write_copied, AtLoopHead
<1>2. /\ tpc' \in [Threads -> ThreadStates]
      /\ tpc'[t] # "closed"
      /\ \A v \in Threads : v # t => tpc'[v] = tpc[v]
  BY <1>1, ZenonT(30), Zenon DEF read_sleep, read_shutdown, read_copied, read_return,
      read_interrupted, Interrupt, uvfsd_write, write_take, write_unmatched,
      write_copied, TypeOK, ThreadStates, threadVars
<1>3. use_count' = use_count
  BY Zenon DEF read_sleep, read_shutdown, read_copied, read_return,
      read_interrupted, Interrupt, uvfsd_write, write_take, write_unmatched,
      write_copied, countVars
<1>4. ClosedIsEmpty'
  <2>1. use_count' = Cardinality({v \in Threads : tpc'[v] # "closed"})
    BY <1>1, <1>2, <1>3, SameOpened, Zenon
  <2>2. use_count' # 0
    BY <1>1, <1>3, CountLemma, SMTT(30) DEF TypeOK
  <2> QED
    BY <2>1, <2>2, Zenon DEF ClosedIsEmpty
<1>5. QueueInv'
  <2> DEFINE q == Uvfs_driver_queue
  <2>0. q \in Seq(Threads) /\ NoDup(q)
    BY Zenon DEF TypeOK, QueueInv
  <2>1. CASE read_sleep(t)
    <3>1. t \notin Range(q)
      BY <2>1, Zenon DEF read_sleep, AtLoopHead, QueueInv, Range
    <3>2. q' = Append(q, t) /\ tpc'[t] = "sleeping"
      BY <2>1, Zenon DEF read_sleep, TypeOK
    <3>3. NoDup(q') /\ Range(q') = Range(q) \cup {t}
      BY <2>0, <3>1, <3>2, AppendList, ZenonT(30)
    <3>4. \A v \in Range(q) : v \in Threads /\ tpc[v] = "sleeping"
      BY <2>0, SMTT(30) DEF Range, QueueInv
    <3>5. \A v \in Range(q') : tpc'[v] = "sleeping"
      BY <1>2, <3>1, <3>2, <3>3, <3>4, Zenon
    <3> QED
      BY <3>3, <3>5, Zenon DEF QueueInv, NoDup, Range
  <2>2. CASE Interrupt(t)
    <3>1. q' = list_del_init(q, t)
      BY <2>2, Zenon DEF Interrupt
    <3>2. NoDup(q') /\ Range(q') = Range(q) \ {t}
      BY <2>0, <3>1, DeleteList, Zenon
    <3>3. \A v \in Range(q) : v \in Threads /\ tpc[v] = "sleeping"
      BY <2>0, SMTT(30) DEF Range, QueueInv
    <3>4. \A v \in Range(q') : tpc'[v] = "sleeping"
      BY <1>2, <3>2, <3>3, Zenon
    <3> QED
      BY <3>2, <3>4, Zenon DEF QueueInv, NoDup, Range
  <2>3. CASE ~read_sleep(t) /\ ~Interrupt(t)
    <3>1. UNCHANGED Uvfs_driver_queue /\ tpc[t] # "sleeping"
      BY <2>3, Zenon DEF read_shutdown, read_copied, read_return,
          read_interrupted, uvfsd_write, write_take, write_unmatched,
          write_copied, AtLoopHead
    <3> QED
      BY <1>2, <3>1, SameQueue, Zenon
  <2> QED
    BY <2>1, <2>2, <2>3, Zenon
<1>6. TypeOK'
  <2>1. Uvfs_driver_queue' \in Seq(Threads)
    <3>1. CASE read_sleep(t)
      BY <3>1, AppendList, Zenon DEF read_sleep, TypeOK
    <3>2. CASE Interrupt(t)
      BY <3>2, DeleteList, Zenon DEF Interrupt, TypeOK
    <3>3. CASE UNCHANGED Uvfs_driver_queue
      BY <3>3, Zenon DEF TypeOK
    <3> QED
      BY <3>1, <3>2, <3>3, Zenon DEF read_shutdown, read_copied, read_return,
          read_interrupted, uvfsd_write, write_take, write_unmatched,
          write_copied
  <2>2. CASE \/ read_sleep(t) \/ read_shutdown(t) \/ read_interrupted(t)
             \/ Interrupt(t)
    BY <1>2, <2>1, <2>2, Zenon DEF read_sleep, read_shutdown, read_interrupted,
        Interrupt, TypeOK, countVars, listVars, transVars, callerVars, histVars
  <2>3. CASE read_copied(t)
    <3>0. ptr[t] \in Callers
      BY <2>3, Zenon DEF read_copied, PointerInv, Copying, TypeOK
    <3>1. in_use' \in [Callers -> BOOLEAN] /\ asleep' \in [Callers -> BOOLEAN]
      BY <2>3, <3>0, Zenon DEF read_copied, EndUse, WakeCaller, TypeOK
    <3>2. [serial |-> serial[ptr[t]], for |-> ptr[t]] \in Job
      BY <3>0, Zenon DEF Job, TypeOK
    <3>3. hand' \in [Threads -> SUBSET Job]
      <4>1. \E H \in SUBSET Job : hand' = [hand EXCEPT ![t] = H]
        <5>1. CASE UNCHANGED hand
          BY <5>1, SMTT(30) DEF TypeOK
        <5>2. CASE ~UNCHANGED hand
          BY <2>3, <3>2, <5>2, Zenon DEF read_copied
        <5> QED
          BY <5>1, <5>2, Zenon
      <4> QED
        BY <4>1, Zenon DEF TypeOK
    <3> QED
      BY <1>2, <2>1, <2>3, <3>1, <3>3, Zenon DEF read_copied, TypeOK,
          countVars, listVars
  <2>4. CASE read_return(t)
    BY <1>2, <2>1, <2>4, Zenon DEF read_return, TypeOK, countVars, listVars,
        transVars, callerVars
  <2>5. ASSUME NEW j \in jobs, write_take(t, j) PROVE TypeOK'
    <3>1. PICK i \in DOMAIN Uvfs_replies :
             /\ Uvfs_replies' = list_del_init(Uvfs_replies, Uvfs_replies[i])
             /\ in_use' = [in_use EXCEPT ![Uvfs_replies[i]] = TRUE]
             /\ ptr' = [ptr EXCEPT ![t] = Uvfs_replies[i]]
      BY <2>5, Zenon DEF write_take
    <3>2. Uvfs_replies[i] \in Callers
      BY SMTT(30) DEF TypeOK
    <3>3. Uvfs_replies' \in Seq(Callers)
      BY <3>1, DeleteList, Zenon DEF TypeOK
    <3>4. /\ in_use' \in [Callers -> BOOLEAN]
          /\ ptr' \in [Threads -> Callers \cup {NULL}]
      BY <3>1, <3>2, Zenon DEF TypeOK
    <3>5. j \in Job /\ jobs' = jobs \ {j} /\ hand' = [hand EXCEPT ![t] = {j}]
      BY <2>5, Zenon DEF write_take, TypeOK
    <3>6. jobs' \subseteq Job /\ hand' \in [Threads -> SUBSET Job]
      BY <3>5, Zenon DEF TypeOK
    <3> QED
      BY <1>2, <2>1, <2>5, <3>3, <3>4, <3>6, Zenon DEF write_take, TypeOK,
          countVars, callerVars, histVars
  <2>6. ASSUME NEW j \in jobs, write_unmatched(t, j) PROVE TypeOK'
    BY <1>2, <2>1, <2>6, Zenon DEF write_unmatched, TypeOK, countVars,
        listVars, transVars, callerVars, threadVars, histVars
  <2>7. CASE write_copied(t)
    <3>1. PICK j \in hand[t] :
             \/ u' = [u EXCEPT ![ptr[t]] = Content("reply", j.for)]
             \/ u' = [u EXCEPT ![ptr[t]] = Content("torn", j.for)]
      BY <2>7, Zenon DEF write_copied
    <3>2. j \in Job /\ ptr[t] \in Callers \cup {NULL}
      BY Zenon DEF TypeOK
    <3>3. u' \in [Callers -> [tag : Tags, for : Callers]]
      <4>1. /\ Content("reply", j.for) \in [tag : Tags, for : Callers]
            /\ Content("torn", j.for) \in [tag : Tags, for : Callers]
        BY <3>2, Zenon DEF Job, Content, Tags
      <4> QED
        BY <3>1, <4>1, ZenonT(30), Zenon DEF TypeOK
    <3> QED
      BY <1>2, <2>1, <2>7, <3>2, <3>3, Zenon DEF write_copied, EndUse,
          WakeCaller, TypeOK, countVars, listVars
  <2> QED
    BY <2>2, <2>3, <2>4, <2>5, <2>6, <2>7, Zenon DEF uvfsd_write
<1>7. PointerInv'
  <2>1. CASE \/ read_sleep(t) \/ read_shutdown(t) \/ read_interrupted(t)
             \/ Interrupt(t) \/ read_copied(t) \/ read_return(t)
             \/ write_copied(t)
    <3>1. CASE read_sleep(t) \/ read_shutdown(t) \/ read_interrupted(t)
      BY <1>2, <3>1, ZenonT(30), Zenon DEF read_sleep, read_shutdown,
          read_interrupted, AtLoopHead, PointerInv, Copying, TypeOK
    <3>2. CASE Interrupt(t) \/ read_copied(t)
      BY <1>2, <3>2, Zenon DEF Interrupt, read_copied, PointerInv, Copying, TypeOK
    <3>3. CASE read_return(t) \/ write_copied(t)
      BY <1>2, <3>3, ZenonT(30), Zenon DEF read_return, write_copied, PointerInv,
          Copying, TypeOK
    <3> QED
      BY <2>1, <3>1, <3>2, <3>3, Zenon
  <2>2. ASSUME NEW j \in jobs, write_take(t, j) PROVE PointerInv'
    <3>1. \E c \in Callers : ptr' = [ptr EXCEPT ![t] = c]
      <4>1. \E i \in DOMAIN Uvfs_replies :
               ptr' = [ptr EXCEPT ![t] = Uvfs_replies[i]]
        BY <2>2, Zenon DEF write_take
      <4>2. \A i \in DOMAIN Uvfs_replies : Uvfs_replies[i] \in Callers
        BY SMTT(30) DEF TypeOK
      <4> QED
        BY <4>1, <4>2, Zenon
    <3>2. tpc' = [tpc EXCEPT ![t] = "copying_in"]
      BY <2>2, Zenon DEF write_take
    <3> QED
      BY <3>1, <3>2, DriverConstants, Zenon DEF PointerInv, Copying, TypeOK
  <2>3. ASSUME NEW j \in jobs, write_unmatched(t, j) PROVE PointerInv'
    BY <2>3, Zenon DEF write_unmatched, threadVars, PointerInv
  <2> QED
    BY <2>1, <2>2, <2>3, Zenon DEF uvfsd_write
<1> QED
  BY <1>4, <1>5, <1>6, <1>7, Zenon

-----------------------------------------------------------------------------
(* The driver starts with the device closed and nothing queued.            *)
LEMMA FrameInit ==
    ASSUME Init
    PROVE  Frame
<1>1. TypeOK
  <2>1. u \in [Callers -> [tag : Tags, for : Callers]]
    BY Zenon DEF Init, Content, Tags
  <2>2. /\ Serial_number \in 0..MaxSerial
        /\ serial \in [Callers -> Nat]
    BY DriverConstants, SMTT(30) DEF Init
  <2>3. /\ Uvfs_requests \in Seq(Callers)
        /\ Uvfs_replies \in Seq(Callers)
        /\ Uvfs_driver_queue \in Seq(Threads)
    BY SMTT(30) DEF Init
  <2> QED
    BY <2>1, <2>2, <2>3, Zenon DEF Init, TypeOK, CallerStates, ThreadStates
<1>2. QueueInv
  BY SMTT(30) DEF Init, QueueInv, NoDup
<1>3. {t \in Threads : tpc[t] # "closed"} = {}
  BY Zenon DEF Init
<1>4. ClosedIsEmpty
  BY <1>3, FS_EmptySet, Zenon DEF Init, ClosedIsEmpty
<1>5. PointerInv
  BY Zenon DEF Init, PointerInv, Copying
<1> QED
  BY <1>1, <1>2, <1>4, <1>5, Zenon DEF Frame

(* Every step keeps the frame.                                             *)
LEMMA FrameStep ==
    ASSUME Frame, [Next]_vars
    PROVE  Frame'
<1>1. CASE UNCHANGED vars
  BY <1>1, Zenon DEF Frame, TypeOK, QueueInv, NoDup, PointerInv, ClosedIsEmpty,
      vars, countVars,
      listVars, transVars, callerVars, threadVars, histVars
<1>2. CASE Next
  BY <1>2, CallerFrame, DeviceFrame, WakingFrame, ThreadFrame, Zenon DEF Next,
      uvfsd_read
<1> QED
  BY <1>1, <1>2, Zenon

(* Whatever the interleaving of callers, readers and writers, the driver's *)
(* variables keep their types, the readers' wait queue holds exactly       *)
(* sleeping readers, and use_count counts the open descriptors.            *)
THEOREM FrameInvariant == Spec => []Frame
<1>1. Init => Frame
  BY FrameInit, Zenon
<1>2. Frame /\ [Next]_vars => Frame'
  BY FrameStep, Zenon
<1> QED
  BY <1>1, <1>2, PTL DEF Spec

(* No transaction, job or shutdown outlives the last close of the device,  *)
(* and uvfs_make_request finds use_count = 0 exactly when no descriptor is *)
(* open.                                                                   *)
THEOREM ClosedIsEmptyInvariant == Spec => []ClosedIsEmpty
<1>1. Frame => ClosedIsEmpty
  BY Zenon DEF Frame
<1> QED
  BY <1>1, FrameInvariant, PTL

-----------------------------------------------------------------------------
(* Nothing is held, queued or numbered at the start.                       *)
LEMMA ConduitInit ==
    ASSUME Init
    PROVE  Conduit
<1>1. /\ \A c \in Callers : /\ at[c] = "idle" /\ ~in_use[c] /\ ~abort[c]
                            /\ ~answered[c] /\ ~asleep[c] /\ ~killed[c]
      /\ \A t \in Threads : tpc[t] = "closed" /\ ptr[t] = NULL /\ hand[t] = {}
      /\ jobs = {} /\ dangling = {}
      /\ Uvfs_requests = <<>> /\ Uvfs_replies = <<>>
  BY Zenon DEF Init
<1>2. Req = {} /\ Rep = {} /\ NoDup(Uvfs_requests) /\ NoDup(Uvfs_replies)
  BY <1>1 DEF Req, Rep, Range, NoDup
<1>3. \A t \in Threads, c \in Callers : ~Holds(t, c)
  BY <1>1, DriverConstants, Zenon DEF Holds
<1>4. ThreadInv /\ PtrInv /\ SerialInv /\ JobsInv
  BY <1>1, <1>3, Zenon DEF ThreadInv, PtrInv, SerialInv, JobsInv, Live
<1>5. ListInv /\ UseInv /\ CallerInv /\ ContentInv /\ KillInv
  BY <1>1, <1>2, <1>3, Zenon DEF ListInv, UseInv, CallerInv, ContentInv,
      KillInv, InFlight
<1> QED
  BY <1>4, <1>5, Zenon DEF Conduit

(* Each operation of a caller.                                             *)
LEMMA CallerConduit ==
    ASSUME Frame, Conduit, ~tainted', NEW c \in Callers,
           \/ uvfs_new_transaction(c)
           \/ uvfs_make_request(c)
           \/ kfree_trans(c)
           \/ Kill(c)
           \/ Exit(c)
    PROVE  Conduit'
<1>1. CASE check_signal(c)
  <2>1. CASE ~killed[c]
    BY <1>1, <2>1, AnsweredStep, Zenon
  <2>2. CASE killed[c] /\ in_use[c]
    BY <1>1, <2>2, AbortingStep, Zenon
  <2>3. CASE killed[c] /\ ~in_use[c]
    <3>1. /\ at[c] = "woken" /\ Withdraw(c)
          /\ UNCHANGED <<Serial_number, serial, in_use, abort, answered, asleep,
                         killed, tpc, ptr, hand, jobs, outdated, dangling>>
      BY <1>1, <2>3, Zenon DEF check_signal, MustWait, countVars, threadVars,
          histVars
    <3>2. \A t \in Threads : Holds(t, c) => tpc[t] # "copying_out"
      BY <2>3, <3>1, Zenon DEF Conduit, UseInv, Copying
    <3>3. ~asleep[c]
      BY <3>1, Zenon DEF Conduit, CallerInv
    <3> QED
      BY <2>3, <3>1, <3>2, <3>3, WithdrawStep, Zenon DEF InFlight
  <2> QED
    BY <2>1, <2>2, <2>3, Zenon
<1>2. CASE finish_abort(c)
  <2>1. /\ at[c] = "aborted" /\ Withdraw(c)
        /\ UNCHANGED <<Serial_number, serial, in_use, abort, answered, asleep,
                       killed, tpc, ptr, hand, jobs, outdated, dangling>>
    BY <1>2, Zenon DEF finish_abort, countVars, threadVars, histVars
  <2>2. /\ killed[c] /\ ~asleep[c]
        /\ \A t \in Threads : Holds(t, c) => tpc[t] # "copying_out"
    BY <2>1, Zenon DEF Conduit, CallerInv
  <2> QED
    BY <2>1, <2>2, WithdrawStep, Zenon DEF InFlight
<1> QED
  BY <1>1, <1>2, NewTransactionStep, RefusedStep, QueuedStep, WaitStep,
      WaitUnusedStep, FreeStep, SignalStep, Zenon DEF uvfs_make_request

(* Each operation of a thread.                                             *)
LEMMA ThreadConduit ==
    ASSUME Frame, Conduit, ~tainted', NEW t \in Threads,
           \/ uvfsd_open(t)
           \/ uvfsd_release(t)
           \/ uvfsd_ioctl_shutdown(t)
           \/ uvfsd_read(t)
           \/ \E j \in jobs : uvfsd_write(t, j)
           \/ write_copied(t)
           \/ Interrupt(t)
    PROVE  Conduit'
<1>1. CASE \/ uvfsd_open(t) \/ uvfsd_release_other(t) \/ read_sleep(t)
           \/ read_shutdown(t) \/ read_interrupted(t) \/ Interrupt(t)
  <2>1. \A v \in Threads :
           \/ tpc'[v] = tpc[v]
           \/ /\ tpc[v] \notin Copying \cup {"returning"}
              /\ tpc'[v] \notin Copying \cup {"returning"}
    BY <1>1 DEF uvfsd_open, uvfsd_release_other, ReleaseOne, read_sleep,
        read_shutdown, read_interrupted, Interrupt, AtLoopHead, Copying, Frame,
        TypeOK
  <2>2. UNCHANGED <<Serial_number, listVars, transVars, callerVars, ptr, hand,
                    jobs, histVars>>
    BY <1>1, Zenon DEF uvfsd_open, uvfsd_release_other, ReleaseOne, read_sleep,
        read_shutdown, read_interrupted, Interrupt, countVars
  <2> QED
    BY <2>1, <2>2, QuietStep, Zenon
<1>2. CASE uvfsd_ioctl_shutdown(t) \/ read_shutdown_done(t)
  <2>1. ~read_take(t)
    BY <1>2 DEF uvfsd_ioctl_shutdown, read_shutdown_done, read_take,
        AtLoopHead, countVars
  <2>2. /\ tpc'[t] = "user"
        /\ \A v \in Threads : v # t =>
              \/ tpc'[v] = tpc[v]
              \/ tpc[v] = "sleeping" /\ tpc'[v] = "roused"
    BY <1>2, <2>1, WakingThreads, Zenon
  <2>3. tpc[t] \in {"user", "shutdown"}
    BY <1>2, Zenon DEF uvfsd_ioctl_shutdown, read_shutdown_done
  <2>4. \A v \in Threads :
           \/ tpc'[v] = tpc[v]
           \/ /\ tpc[v] \notin Copying \cup {"returning"}
              /\ tpc'[v] \notin Copying \cup {"returning"}
    BY <2>2, <2>3, Zenon DEF Copying
  <2>5. UNCHANGED <<Serial_number, listVars, transVars, callerVars, ptr, hand,
                    jobs, histVars>>
    BY <1>2, Zenon DEF uvfsd_ioctl_shutdown, read_shutdown_done, countVars
  <2> QED
    BY <2>4, <2>5, QuietStep, Zenon
<1>3. CASE \E j \in jobs : write_take(t, j)
  <2>1. PICK j \in jobs : write_take(t, j)
    BY <1>3, Zenon
  <2>2. PICK i \in DOMAIN Uvfs_replies :
           /\ IsFirstMatch(i, j.serial)
           /\ Uvfs_replies' = list_del_init(Uvfs_replies, Uvfs_replies[i])
           /\ in_use' = [in_use EXCEPT ![Uvfs_replies[i]] = TRUE]
           /\ ptr' = [ptr EXCEPT ![t] = Uvfs_replies[i]]
    BY <2>1, Zenon DEF write_take
  <2> QED
    BY <2>1, <2>2, WriteTakeStep, Zenon
<1> QED
  BY <1>1, <1>2, <1>3, LastClose, LastCloseStep, ReadTakeStep, ReadCopiedStep,
      ReadReturnStep, WriteUnmatchedStep, WriteCopiedStep
     , Zenon DEF uvfsd_release, uvfsd_read, uvfsd_write

(* What was tainted stays so.                                              *)
LEMMA TaintedStays ==
    ASSUME tainted, [Next]_vars
    PROVE  tainted'
  BY ZenonT(30) DEF Next, vars, histVars, uvfs_new_transaction,
      uvfs_make_request, make_request_refused, make_request_queued,
      wait_answered, check_signal, wait_unused, finish_abort, kfree_trans,
      Kill, Exit, uvfsd_open, uvfsd_release, uvfsd_release_other,
      uvfsd_release_last, uvfsd_ioctl_shutdown, uvfsd_read, read_sleep,
      read_shutdown, read_shutdown_done, read_take, read_copied, read_return,
      read_interrupted, uvfsd_write, write_take, write_unmatched, write_copied,
      Interrupt

(* Every step keeps the inductive invariant.                               *)
LEMMA IInvStep ==
    ASSUME IInv, [Next]_vars
    PROVE  IInv'
<1>1. Frame'
  BY FrameStep, Zenon DEF IInv
<1>2. CASE tainted \/ tainted'
  BY <1>1, <1>2, TaintedStays, Zenon DEF IInv
<1>3. CASE ~tainted /\ ~tainted'
  <2>1. Frame /\ Conduit
    BY <1>3, Zenon DEF IInv
  <2>2. Conduit'
    <3>1. CASE Next
      BY <1>3, <2>1, <3>1, CallerConduit, ThreadConduit, Zenon DEF Next
    <3>2. CASE UNCHANGED vars
      <4>1. UNCHANGED <<Serial_number, listVars, transVars, callerVars, ptr,
                        hand, jobs, histVars, tpc>>
        BY <3>2, Zenon DEF vars, countVars, threadVars
      <4> QED
        BY <2>1, <4>1, QuietStep, Zenon
    <3> QED
      BY <3>1, <3>2, Zenon
  <2> QED
    BY <1>1, <2>2, Zenon DEF IInv
<1> QED
  BY <1>2, <1>3, Zenon

(* The inductive invariant holds in every reachable state of the driver,   *)
(* whatever the number of callers and threads and the order of their       *)
(* steps.                                                                  *)
THEOREM IInvInvariant == Spec => []IInv
<1>1. Init => IInv
  BY FrameInit, ConduitInit, Zenon DEF IInv
<1>2. IInv /\ [Next]_vars => IInv'
  BY IInvStep, Zenon
<1> QED
  BY <1>1, <1>2, PTL DEF Spec

-----------------------------------------------------------------------------
(* What follows from it.                                                   *)

(* The threads writing into c's transaction, as a set and as a predicate.  *)
LEMMA WritersLemma ==
    ASSUME NEW c
    PROVE  /\ Writers(c) # {} <=> Writing(c)
           /\ \A t : t \in Writers(c) <=>
                 t \in Threads /\ Holds(t, c) /\ tpc[t] = "copying_in"
           /\ \A t : t \in Readers(c) <=>
                 t \in Threads /\ Holds(t, c) /\ tpc[t] = "copying_out"
  BY Zenon DEF Writers, Readers, Writing, Holds

(* A transaction in flight is in exactly one place, so uvfsd_read and      *)
(* uvfsd_write neither lose it nor hand it out twice.                      *)
LEMMA IInvOnePlace ==
    ASSUME IInv
    PROVE  OnePlace
<1> SUFFICES ASSUME ~tainted, NEW c \in Callers
             PROVE  LET places == [requests |-> c \in Range(Uvfs_requests),
                                   replies  |-> c \in Range(Uvfs_replies),
                                   writer   |-> Writers(c) # {},
                                   answered |-> answered[c]]
                    IN /\ Once(Uvfs_requests, c) /\ Once(Uvfs_replies, c)
                       /\ places.requests \/ places.replies => InFlight(c)
                       /\ InFlight(c) => \E p \in DOMAIN places :
                             \A q \in DOMAIN places : places[q] <=> q = p
  BY Zenon DEF OnePlace
<1> DEFINE inReq == c \in Range(Uvfs_requests)
           inRep == c \in Range(Uvfs_replies)
           writing == Writers(c) # {}
           done == answered[c]
           places == [requests |-> inReq, replies |-> inRep,
                      writer |-> writing, answered |-> done]
<1>1. Conduit /\ Frame
  BY Zenon DEF IInv
<1>2. Once(Uvfs_requests, c) /\ Once(Uvfs_replies, c)
  BY <1>1, Zenon DEF Conduit, ListInv, NoDup, Once
<1>3. inReq \/ inRep => InFlight(c) /\ ~done
  BY <1>1, Zenon DEF Conduit, ListInv, Req, Rep
<1>4. ~(inReq /\ inRep)
  BY <1>1, Zenon DEF Conduit, ListInv, Req, Rep
<1>5. InFlight(c) /\ ~done => inReq \/ inRep \/ writing
  BY <1>1, WritersLemma, Zenon DEF Conduit, ListInv, Req, Rep
<1>6. writing => ~inReq /\ ~inRep /\ ~done
  <2>1. PtrInv
    BY <1>1, Zenon DEF Conduit
  <2>2. writing => \E t \in Threads : Holds(t, c) /\ tpc[t] = "copying_in"
    BY WritersLemma, Zenon DEF Writing
  <2> QED
    BY <2>1, <2>2, Zenon DEF PtrInv, Req, Rep
<1>7. DOMAIN places = {"requests", "replies", "writer", "answered"}
  BY Zenon
<1>8. /\ places["requests"] <=> inReq
      /\ places["replies"] <=> inRep
      /\ places["writer"] <=> writing
      /\ places["answered"] <=> done
  BY Zenon
<1> HIDE DEF inReq, inRep, writing, done, places
<1>9. InFlight(c) => \E p \in DOMAIN places :
                        \A q \in DOMAIN places : places[q] <=> q = p
  <2> SUFFICES ASSUME InFlight(c)
               PROVE  \E p \in DOMAIN places :
                         \A q \in DOMAIN places : places[q] <=> q = p
    BY Zenon
  <2>1. CASE inReq
    <3>1. \A q \in DOMAIN places : places[q] <=> q = "requests"
      BY <1>3, <1>4, <1>6, <1>7, <1>8, <2>1, Zenon
    <3> QED
      BY <1>7, <3>1, Zenon
  <2>2. CASE inRep
    <3>1. \A q \in DOMAIN places : places[q] <=> q = "replies"
      BY <1>3, <1>4, <1>6, <1>7, <1>8, <2>2, Zenon
    <3> QED
      BY <1>7, <3>1, Zenon
  <2>3. CASE writing
    <3>1. \A q \in DOMAIN places : places[q] <=> q = "writer"
      BY <1>6, <1>7, <1>8, <2>3, Zenon
    <3> QED
      BY <1>7, <3>1, Zenon
  <2>4. CASE done
    <3>1. \A q \in DOMAIN places : places[q] <=> q = "answered"
      BY <1>3, <1>6, <1>7, <1>8, <2>4, Zenon
    <3> QED
      BY <1>7, <3>1, Zenon
  <2> QED
    BY <1>5, <2>1, <2>2, <2>3, <2>4, Zenon
<1> QED
  BY <1>2, <1>3, <1>8, <1>9, Zenon DEF places, inReq, inRep, writing, done

(* The other safety properties, from the parts of Conduit.                 *)
LEMMA IInvSafety ==
    ASSUME IInv
    PROVE  /\ InUseExact /\ CopyOutLive /\ NoLostCaller /\ SerialMatches
           /\ RightReply
<1> SUFFICES ASSUME ~tainted
             PROVE  /\ InUseExact /\ CopyOutLive /\ NoLostCaller
                    /\ SerialMatches /\ RightReply
  BY Zenon DEF InUseExact, CopyOutLive, NoLostCaller, SerialMatches, RightReply
<1>1. Frame /\ Conduit
  BY Zenon DEF IInv
<1>2. InUseExact
  <2> SUFFICES ASSUME NEW c \in Callers
               PROVE  /\ at[c] # "idle" =>
                            (in_use[c] <=> Readers(c) \cup Writers(c) # {})
                      /\ \A t, v \in Readers(c) \cup Writers(c) : t = v
    BY Zenon DEF InUseExact
  <2>1. at[c] # "idle" => (in_use[c] <=> Readers(c) \cup Writers(c) # {})
    BY <1>1, WritersLemma, Zenon DEF Conduit, UseInv, Copying
  <2>2. \A t, v \in Readers(c) \cup Writers(c) : t = v
    BY <1>1, WritersLemma, Zenon DEF Conduit, PtrInv
  <2> QED
    BY <2>1, <2>2, Zenon
<1>3. CopyOutLive
  BY <1>1, Zenon DEF CopyOutLive, Conduit, ThreadInv, Frame, TypeOK
<1>4. NoLostCaller
  BY <1>1, Zenon DEF NoLostCaller, Conduit, CallerInv
<1>5. SerialMatches
  <2> SUFFICES ASSUME NEW c \in Range(Uvfs_replies), NEW j \in jobs,
                      serial[c] = j.serial
               PROVE  j.for = c
    BY Zenon DEF SerialMatches
  <2>0. Uvfs_replies \in Seq(Callers)
    BY <1>1, Zenon DEF Frame, TypeOK
  <2>1. c \in Callers /\ c \in Rep
    BY <2>0 DEF Range, Rep
  <2>2. Live(c)
    BY <1>1, <2>1, Zenon DEF Conduit, ListInv, Live, InFlight
  <2> QED
    BY <1>1, <2>1, <2>2, Zenon DEF Conduit, JobsInv, JobInv
<1>6. RightReply
  BY <1>1, WritersLemma, Zenon DEF RightReply, Conduit, ContentInv
<1> QED
  BY <1>2, <1>3, <1>4, <1>5, <1>6, Zenon

(* Types.                                                                  *)
THEOREM TypeCorrect == Spec => []TypeOK
<1>1. Frame => TypeOK
  BY Zenon DEF Frame
<1> QED
  BY <1>1, FrameInvariant, PTL

(* Every transaction in flight is on one list, in the hands of one writer, *)
(* or answered: none is lost, delivered twice or answered twice.           *)
THEOREM OnePlaceInvariant == Spec => []OnePlace
<1>1. IInv => OnePlace
  BY IInvOnePlace, Zenon
<1> QED
  BY <1>1, IInvInvariant, PTL

(* in_use is set exactly while one thread copies (uvfsd_read, uvfsd_write), *)
(* which is what the abort path of uvfs_make_request waits for.            *)
THEOREM InUseExactInvariant == Spec => []InUseExact
<1>1. IInv => InUseExact
  BY IInvSafety, Zenon
<1> QED
  BY <1>1, IInvInvariant, PTL

(* uvfsd_read never copies out of a freed transaction.                     *)
THEOREM CopyOutLiveInvariant == Spec => []CopyOutLive
<1>1. IInv => CopyOutLive
  BY IInvSafety, Zenon
<1> QED
  BY <1>1, IInvInvariant, PTL

(* A caller asleep in uvfs_make_request has nothing to wake up for.        *)
THEOREM NoLostCallerInvariant == Spec => []NoLostCaller
<1>1. IInv => NoLostCaller
  BY IInvSafety, Zenon
<1> QED
  BY <1>1, IInvInvariant, PTL

(* The serial number uvfsd_write matches names the right transaction.      *)
THEOREM SerialMatchesInvariant == Spec => []SerialMatches
<1>1. IInv => SerialMatches
  BY IInvSafety, Zenon
<1> QED
  BY <1>1, IInvInvariant, PTL

(* The result uvfs_make_request returns is the caller's own.               *)
THEOREM RightReplyInvariant == Spec => []RightReply
<1>1. IInv => RightReply
  BY IInvSafety, Zenon
<1> QED
  BY <1>1, IInvInvariant, PTL

(* Without kills no transaction is freed while uvfsd_read or uvfsd_write   *)
(* points to it.                                                           *)
THEOREM NoKillNoDanglingInvariant == Spec => []NoKillNoDangling
<1>1. IInv => NoKillNoDangling
  BY Zenon DEF IInv, Conduit, KillInv, NoKillNoDangling
<1> QED
  BY <1>1, IInvInvariant, PTL

-----------------------------------------------------------------------------
(* An answer stands.                                                       *)

(* The contents of an answered transaction in flight change only when its  *)
(* killed caller withdraws it.                                             *)
LEMMA AnswerStep ==
    ASSUME IInv, [Next]_vars, ~tainted', NEW c \in Callers,
           InFlight(c), answered[c], u'[c] # u[c]
    PROVE  killed[c] /\ u'[c].tag = "ERESTARTSYS"
<1>1. Frame /\ Conduit
  BY TaintedStays, Zenon DEF IInv
<1>2. c \notin Req /\ c \notin Rep
  BY <1>1, Zenon DEF Conduit, ListInv
<1>3. \A d \in Callers : Withdraw(d) => d = c /\ u'[c].tag = "ERESTARTSYS"
  BY <1>1 DEF Withdraw, Frame, TypeOK, Content
<1>4. ASSUME NEW d \in Callers,
             \/ uvfs_new_transaction(d) \/ uvfs_make_request(d)
             \/ kfree_trans(d) \/ Kill(d) \/ Exit(d)
      PROVE  killed[c] /\ u'[c].tag = "ERESTARTSYS"
  <2>1. CASE uvfs_new_transaction(d) \/ make_request_refused(d)
    <3>1. at[d] \in {"idle", "built"} /\ \A x \in Callers \ {d} : u'[x] = u[x]
      BY <1>1, <2>1, Zenon DEF uvfs_new_transaction, make_request_refused,
          Frame, TypeOK
    <3> QED
      BY <3>1, Zenon DEF InFlight
  <2>2. CASE check_signal(d)
    BY <1>3, <2>2, Zenon DEF check_signal
  <2>3. CASE finish_abort(d)
    <3>1. Withdraw(d) /\ at[d] = "aborted"
      BY <2>3, Zenon DEF finish_abort
    <3> QED
      BY <1>1, <1>3, <3>1, Zenon DEF Conduit, CallerInv
  <2> QED
    BY <1>4, <2>1, <2>2, <2>3, Zenon DEF uvfs_make_request,
        make_request_queued, wait_answered, wait_unused, kfree_trans, Kill,
        Exit, transVars
<1>5. ASSUME NEW t \in Threads,
             \/ uvfsd_open(t) \/ uvfsd_release(t) \/ uvfsd_ioctl_shutdown(t)
             \/ uvfsd_read(t) \/ (\E j \in jobs : uvfsd_write(t, j))
             \/ write_copied(t) \/ Interrupt(t)
      PROVE  FALSE
  <2>1. CASE uvfsd_release_last(t)
    <3>1. c \in Flushed
      BY <2>1, Zenon DEF uvfsd_release_last
    <3> QED
      BY <1>2, <3>1, Zenon DEF Flushed, Req, Rep
  <2>2. CASE write_copied(t)
    <3>1. ptr[t] = c /\ t \notin dangling
      BY <1>1, <2>2, Zenon DEF write_copied, Frame, TypeOK
    <3> QED
      BY <1>1, <3>1, Zenon DEF Conduit, PtrInv, Holds
  <2> QED
    BY <1>5, <2>1, <2>2, Zenon DEF uvfsd_open, uvfsd_release,
        uvfsd_release_other, uvfsd_ioctl_shutdown, uvfsd_read, read_sleep,
        read_shutdown, read_shutdown_done, read_take, read_copied, read_return,
        read_interrupted, uvfsd_write, write_take, write_unmatched, Interrupt,
        transVars
<1> QED
  BY <1>4, <1>5, Zenon DEF Next, vars, transVars

(* Once uvfsd_write or the last close has answered a transaction nothing   *)
(* overwrites the answer before its caller has read it, but the            *)
(* -ERESTARTSYS of a killed caller.                                        *)
THEOREM AnswerStandsAlways == Spec => AnswerStands
<1>1. IInv /\ [Next]_vars =>
         [\A c \in Callers :
             ~tainted' /\ InFlight(c) /\ answered[c] /\ u'[c] # u[c] =>
                killed[c] /\ u'[c].tag = "ERESTARTSYS"]_vars
  BY AnswerStep, Zenon
<1> QED
  BY <1>1, IInvInvariant, PTL DEF Spec, AnswerStands

-----------------------------------------------------------------------------
(* Readers that get no signals.                                            *)

SignalInv == \A t \in Threads : tsig[t] => t \in Interruptible

(* wake_up_interruptible leaves a reader awake if any was asleep.          *)
LEMMA WakeLeavesOne ==
    ASSUME Frame, NEW pcs \in [Threads -> ThreadStates], WakeReader(pcs)
    PROVE  \/ Uvfs_driver_queue' = <<>>
           \/ \E t \in Threads : tpc'[t] \in {"roused", "shutdown"}
<1>1. CASE Uvfs_driver_queue = <<>>
  BY <1>1, Zenon DEF WakeReader
<1>2. CASE Uvfs_driver_queue # <<>>
  <2>1. Head(Uvfs_driver_queue) \in Threads
    BY <1>2, TailList, Zenon DEF Frame, TypeOK
  <2>2. tpc' = [pcs EXCEPT ![Head(Uvfs_driver_queue)] = "roused"]
    BY <1>2, Zenon DEF WakeReader
  <2> QED
    BY <2>1, <2>2, Zenon
<1> QED
  BY <1>1, <1>2, Zenon

(* Each step that leaves work for a sleeping reader also leaves a reader   *)
(* awake.                                                                  *)
LEMMA ReaderStep ==
    ASSUME Interruptible = {}, Frame, SignalInv, NoLostReader, [Next]_vars
    PROVE  SignalInv' /\ NoLostReader'
<1> DEFINE Work == Uvfs_requests # <<>> \/ ShuttingDown
           Awake == \E t \in Threads : tpc[t] \in {"roused", "shutdown"}
<1>1. \A t \in Threads : ~tsig[t]
  BY Zenon DEF SignalInv
<1>2. \A t \in Threads : ~Interrupt(t) /\ ~read_interrupted(t)
  BY <1>1, Zenon DEF Interrupt, read_interrupted
<1>3. UNCHANGED tsig
  BY <1>2, ZenonT(30) DEF Next, vars, threadVars, uvfs_new_transaction,
      uvfs_make_request, make_request_refused, make_request_queued,
      wait_answered, check_signal, wait_unused, finish_abort, kfree_trans,
      Kill, Exit, uvfsd_open, uvfsd_release, uvfsd_release_other,
      uvfsd_release_last, uvfsd_ioctl_shutdown, uvfsd_read, read_sleep,
      read_shutdown, read_shutdown_done, read_take, read_copied, read_return,
      uvfsd_write, write_take, write_unmatched, write_copied
<1>4. SignalInv'
  BY <1>3, Zenon DEF SignalInv
<1>5. ASSUME UNCHANGED Uvfs_driver_queue, Work' => Work,
             \A t \in Threads : tpc[t] \in {"roused", "shutdown"} =>
                                   tpc'[t] \in {"roused", "shutdown"}
      PROVE  NoLostReader'
  BY <1>5, Zenon DEF NoLostReader
<1>6. ASSUME NEW pcs \in [Threads -> ThreadStates], WakeReader(pcs)
      PROVE  NoLostReader'
  BY <1>6, WakeLeavesOne, Zenon DEF NoLostReader
<1>7. ASSUME NEW c \in Callers,
             \/ uvfs_new_transaction(c) \/ uvfs_make_request(c)
             \/ kfree_trans(c) \/ Kill(c) \/ Exit(c)
      PROVE  NoLostReader'
  <2>1. CASE make_request_queued(c)
    BY <1>6, <2>1, Zenon DEF make_request_queued, Frame, TypeOK
  <2>2. CASE ~make_request_queued(c)
    <3>1. UNCHANGED <<Uvfs_driver_queue, tpc, ShuttingDown>>
      BY <1>7, <2>2, Zenon DEF uvfs_new_transaction, uvfs_make_request,
          make_request_refused, wait_answered, check_signal, wait_unused,
          finish_abort, kfree_trans, Kill, Exit, countVars, threadVars
    <3>2. UNCHANGED Uvfs_requests \/ Withdraw(c)
      BY <1>7, <2>2, Zenon DEF uvfs_new_transaction, uvfs_make_request,
          make_request_refused, wait_answered, check_signal, wait_unused,
          finish_abort, kfree_trans, Kill, Exit, listVars
    <3>3. Uvfs_requests = <<>> => Uvfs_requests' = <<>>
      <4>1. CASE UNCHANGED Uvfs_requests
        BY <4>1, Zenon
      <4>2. CASE Withdraw(c)
        <5>1. Uvfs_requests \in Seq(Callers)
          BY Zenon DEF Frame, TypeOK
        <5>2. Uvfs_requests' = list_del_init(Uvfs_requests, c)
          BY <4>2, Zenon DEF Withdraw
        <5> QED
          BY <5>1, <5>2, DeleteList, Zenon
      <4> QED
        BY <3>2, <4>1, <4>2, Zenon
    <3> QED
      BY <1>5, <3>1, <3>3, Zenon
  <2> QED
    BY <2>1, <2>2, Zenon
<1>8. ASSUME NEW t \in Threads,
             \/ uvfsd_open(t) \/ uvfsd_release(t) \/ uvfsd_ioctl_shutdown(t)
             \/ uvfsd_read(t) \/ (\E j \in jobs : uvfsd_write(t, j))
             \/ write_copied(t)
      PROVE  NoLostReader'
  <2>1. CASE uvfsd_ioctl_shutdown(t)
    BY <1>6, <2>1, Zenon DEF uvfsd_ioctl_shutdown, Frame, TypeOK
  <2>2. CASE read_shutdown_done(t)
    <3>1. [tpc EXCEPT ![t] = "user"] \in [Threads -> ThreadStates]
      BY Zenon DEF Frame, TypeOK, ThreadStates
    <3> QED
      BY <1>6, <2>2, <3>1, Zenon DEF read_shutdown_done
  <2>3. CASE read_take(t)
    <3>1. [tpc EXCEPT ![t] = "copying_out"] \in [Threads -> ThreadStates]
      BY Zenon DEF Frame, TypeOK, ThreadStates
    <3> QED
      BY <1>6, <2>3, <3>1, Zenon DEF read_take
  <2>4. CASE read_sleep(t)
    BY <2>4, Zenon DEF read_sleep, NoLostReader, listVars, countVars
  <2>5. CASE read_shutdown(t)
    <3>1. tpc'[t] = "shutdown"
      BY <2>5, Zenon DEF read_shutdown, Frame, TypeOK
    <3> QED
      BY <3>1, Zenon DEF NoLostReader
  <2>6. CASE uvfsd_release_last(t)
    BY <2>6, Zenon DEF uvfsd_release_last, NoLostReader
  <2>7. CASE \/ uvfsd_open(t) \/ uvfsd_release_other(t) \/ read_copied(t)
             \/ read_return(t) \/ (\E j \in jobs : uvfsd_write(t, j))
             \/ write_copied(t)
    <3>1. UNCHANGED <<Uvfs_driver_queue, Uvfs_requests, ShuttingDown>>
      BY <2>7, Zenon DEF uvfsd_open, uvfsd_release_other, read_copied,
          read_return, uvfsd_write, write_take, write_unmatched, write_copied,
          listVars, countVars
    <3>2. \A v \in Threads : tpc[v] \in {"roused", "shutdown"} =>
                                tpc'[v] \in {"roused", "shutdown"}
      BY <2>7, Zenon DEF uvfsd_open, uvfsd_release_other, ReleaseOne,
          read_copied, read_return, uvfsd_write, write_take, write_unmatched,
          write_copied, threadVars, Frame, TypeOK
    <3> QED
      BY <1>5, <3>1, <3>2, Zenon
  <2> QED
    BY <1>2, <1>8, <2>1, <2>2, <2>3, <2>4, <2>5, <2>6, <2>7
      , Zenon DEF uvfsd_release, uvfsd_read
<1>9. ASSUME UNCHANGED vars
      PROVE  NoLostReader'
  BY <1>5, <1>9, Zenon DEF vars, countVars, listVars, threadVars
<1>10. NoLostReader'
  BY <1>2, <1>7, <1>8, <1>9, Zenon DEF Next
<1> QED
  BY <1>4, <1>10, Zenon

(* As long as no reader gets a signal, the wake-ups of uvfs_make_request,  *)
(* uvfsd_read and UVFS_IOCTL_SHUTDOWN never leave work behind sleeping     *)
(* readers only.                                                           *)
THEOREM NoLostReaderInvariant ==
    ASSUME Interruptible = {}
    PROVE  Spec => []NoLostReader
<1>1. Init => SignalInv /\ NoLostReader
  BY Zenon DEF Init, SignalInv, NoLostReader
<1>2. Frame /\ SignalInv /\ NoLostReader /\ [Next]_vars =>
         (SignalInv /\ NoLostReader)'
  BY ReaderStep, Zenon
<1> QED
  BY <1>1, <1>2, FrameInvariant, PTL DEF Spec

-----------------------------------------------------------------------------
(* From callers one at a time to the functions of UvfsCall.                *)

Hidden(d) == StatusOf(d)' = StatusOf(d) /\ ResultOf(d)' = ResultOf(d)

(* A caller whose place, answer and contents stay sees nothing; where      *)
(* exactly it is while in flight does not matter.                          *)
LEMMA HiddenLemma ==
    ASSUME NEW d \in Callers,
           at'[d] = at[d] \/ (InFlight(d) /\ InFlight(d)'),
           answered'[d] <=> answered[d], u'[d] = u[d],
           (d \in Req)' <=> d \in Req
    PROVE  Hidden(d)
<1>1. CASE at'[d] = at[d]
  <2>1. StatusOf(d)' = StatusOf(d)
    BY <1>1 DEF StatusOf, InFlight
  <2>2. ResultOf(d)' = ResultOf(d)
    BY <1>1 DEF ResultOf, InFlight
  <2> QED
    BY <2>1, <2>2, Zenon DEF Hidden
<1>2. CASE InFlight(d) /\ InFlight(d)'
  <2>1. StatusOf(d)' = StatusOf(d)
    BY <1>2, Zenon DEF StatusOf, InFlight
  <2>2. ResultOf(d)' = ResultOf(d)
    BY <1>2, Zenon DEF ResultOf, InFlight
  <2> QED
    BY <2>1, <2>2, Zenon DEF Hidden
<1> QED
  BY <1>1, <1>2, Zenon

(* Nothing shows when nothing shows to any caller.                         *)
LEMMA NothingShows ==
    ASSUME \A d \in Callers : Hidden(d), tainted' = tainted
    PROVE  UNCHANGED Call!vars
  BY Zenon DEF Hidden, Call!vars

(* A step that shows to one caller is a step of that caller's call.        *)
LEMMA OneChanges ==
    ASSUME NEW c \in Callers, NEW s, NEW r,
           StatusOf(c)' = s, ResultOf(c)' = r,
           \A d \in Callers \ {c} : Hidden(d), tainted' = tainted
    PROVE  Call!Set(c, s, r)
  BY Zenon DEF Hidden, Call!Set

LEMMA OneShows ==
    ASSUME NEW c \in Callers, NEW s, NEW r,
           StatusOf(c)' = s, ResultOf(c)' = r,
           StatusOf(c) # s \/ ResultOf(c) # r,
           \A d \in Callers \ {c} : Hidden(d), tainted' = tainted
    PROVE  Call!Set(c, s, r) /\ Call!Shows(c)
<1>1. Call!Set(c, s, r)
  BY OneChanges, Zenon
<1>2. Call!Shows(c)
  BY Zenon DEF Call!Shows
<1> QED
  BY <1>1, <1>2, Zenon

(* Everybody but c keeps its place, answer and contents.                   *)
OnlyChanges(c) ==
    \A d \in Callers \ {c} : 
      /\ at'[d] = at[d] /\ (answered'[d] <=> answered[d]) /\ u'[d] = u[d]
      /\ (d \in Req)' <=> d \in Req

LEMMA OthersHidden ==
    ASSUME NEW c \in Callers, OnlyChanges(c)
    PROVE  \A d \in Callers \ {c} : Hidden(d)
  BY HiddenLemma, Zenon DEF OnlyChanges

-----------------------------------------------------------------------------
(* The steps of a caller.                                                  *)

(* uvfs_new_transaction and kfree.                                         *)
LEMMA AllocateFree ==
    ASSUME Frame, NEW c \in Callers, tainted' = tainted
    PROVE  /\ uvfs_new_transaction(c) => Call!Shows(c) /\ Call!allocate(c)
           /\ kfree_trans(c) => Call!Shows(c) /\ Call!free(c)
<1>1. ASSUME uvfs_new_transaction(c)
      PROVE  Call!Shows(c) /\ Call!allocate(c)
  <2>1. at[c] = "idle" /\ at'[c] = "built" /\ OnlyChanges(c)
    BY <1>1, Zenon DEF uvfs_new_transaction, Frame, TypeOK, OnlyChanges, Req,
        listVars
  <2>2. /\ StatusOf(c) = "free" /\ StatusOf(c)' = "built"
        /\ ResultOf(c)' = "none"
    BY <2>1, Zenon DEF StatusOf, ResultOf, InFlight
  <2>3. Call!Set(c, "built", "none") /\ Call!Shows(c)
    BY <2>1, <2>2, OneShows, OthersHidden, Zenon
  <2> QED
    BY <2>2, <2>3, Zenon DEF Call!allocate
<1>2. ASSUME kfree_trans(c)
      PROVE  Call!Shows(c) /\ Call!free(c)
  <2>1. at[c] = "done" /\ at'[c] = "idle" /\ OnlyChanges(c)
    BY <1>2, Zenon DEF kfree_trans, Frame, TypeOK, OnlyChanges, Req,
        listVars, transVars
  <2>2. /\ StatusOf(c) = "returned" /\ StatusOf(c)' = "free"
        /\ ResultOf(c)' = "none"
    BY <2>1, Zenon DEF StatusOf, ResultOf, InFlight
  <2>3. Call!Set(c, "free", "none") /\ Call!Shows(c)
    BY <2>1, <2>2, OneShows, OthersHidden, Zenon
  <2> QED
    BY <2>2, <2>3, Zenon DEF Call!free
<1> QED
  BY <1>1, <1>2, Zenon

(* uvfs_make_request refuses a request or queues it.                       *)
LEMMA RefuseQueue ==
    ASSUME Frame, Conduit, NEW c \in Callers, tainted' = tainted
    PROVE  /\ make_request_refused(c) => Call!Shows(c) /\ Call!refuse(c)
           /\ make_request_queued(c) => Call!Shows(c) /\ Call!queue(c)
<1>1. ASSUME make_request_refused(c)
      PROVE  Call!Shows(c) /\ Call!refuse(c)
  <2>1. /\ at[c] = "built" /\ at'[c] = "done" /\ u'[c] = Content("EIO", c)
        /\ OnlyChanges(c)
    BY <1>1, Zenon DEF make_request_refused, Frame, TypeOK, OnlyChanges, Req,
        listVars
  <2>2. u'[c].tag = "EIO"
    BY <2>1 DEF Content
  <2>3. /\ StatusOf(c) = "built" /\ StatusOf(c)' = "returned"
        /\ ResultOf(c)' = "EIO"
    BY <2>1, <2>2, Zenon DEF StatusOf, ResultOf, InFlight
  <2>4. Call!Set(c, "returned", "EIO") /\ Call!Shows(c)
    BY <2>1, <2>3, OneShows, OthersHidden, Zenon
  <2> QED
    BY <2>3, <2>4, Zenon DEF Call!refuse
<1>2. ASSUME make_request_queued(c)
      PROVE  Call!Shows(c) /\ Call!queue(c)
  <2>1. /\ at[c] = "built" /\ at'[c] = "waiting"
        /\ \A d \in Callers \ {c} : at'[d] = at[d]
        /\ answered' = answered /\ u' = u
        /\ Uvfs_requests' = Append(Uvfs_requests, c)
    BY <1>2, Zenon DEF make_request_queued, Frame, TypeOK, transVars
  <2>2. Req' = Req \cup {c}
    BY <2>1, AppendList DEF Frame, TypeOK, Req
  <2>3. OnlyChanges(c) /\ ~answered'[c]
    BY <2>1, <2>2, Zenon DEF OnlyChanges, Conduit, ContentInv
  <2>4. /\ StatusOf(c) = "built" /\ StatusOf(c)' = "queued"
        /\ ResultOf(c)' = "none"
    BY <2>1, <2>2, <2>3, Zenon DEF StatusOf, ResultOf, InFlight
  <2>5. Call!Set(c, "queued", "none") /\ Call!Shows(c)
    BY <2>3, <2>4, OneShows, OthersHidden, Zenon
  <2> QED
    BY <2>4, <2>5, Zenon DEF Call!queue
<1> QED
  BY <1>1, <1>2, Zenon

(* A killed caller takes its transaction back.                             *)
LEMMA WithdrawAborts ==
    ASSUME Frame, Conduit, NEW c \in Callers, tainted' = tainted,
           Withdraw(c), InFlight(c), killed[c], answered' = answered
    PROVE  Call!Shows(c) /\ Call!abort(c)
<1>1. /\ at'[c] = "done" /\ u'[c] = Content("ERESTARTSYS", c)
      /\ \A d \in Callers \ {c} : at'[d] = at[d] /\ u'[d] = u[d]
      /\ Uvfs_requests' = list_del_init(Uvfs_requests, c)
  BY Zenon DEF Withdraw, Frame, TypeOK
<1>2. Req' = Req \ {c}
  <2>1. Uvfs_requests \in Seq(Callers) /\ NoDup(Uvfs_requests)
    BY Zenon DEF Frame, TypeOK, Conduit, ListInv
  <2>2. Range(list_del_init(Uvfs_requests, c)) = Range(Uvfs_requests) \ {c}
    BY <2>1, DeleteList, Zenon
  <2> QED
    BY <1>1, <2>2, Zenon DEF Req
<1>3. OnlyChanges(c)
  BY <1>1, <1>2, Zenon DEF OnlyChanges
<1>4. u'[c].tag = "ERESTARTSYS"
  BY <1>1 DEF Content
<1>5. /\ StatusOf(c) \in {"queued", "taken", "decided"}
      /\ StatusOf(c)' = "returned" /\ ResultOf(c)' = "ERESTARTSYS"
  BY <1>1, <1>4, Zenon DEF StatusOf, ResultOf, InFlight
<1>6. Call!Set(c, "returned", "ERESTARTSYS") /\ Call!Shows(c)
  BY <1>3, <1>5, OneShows, OthersHidden, Zenon
<1>7. c \in Killable
  BY Zenon DEF Conduit, CallerInv
<1> QED
  BY <1>5, <1>6, <1>7, Zenon DEF Call!abort

(* An answered caller returns; one whose transaction is being copied goes  *)
(* on waiting; any other killed one takes its transaction back.            *)
LEMMA SignalChecked ==
    ASSUME Frame, Conduit, NEW c \in Callers, tainted' = tainted,
           check_signal(c)
    PROVE  \/ Call!Shows(c) /\ (Call!return(c) \/ Call!abort(c))
           \/ UNCHANGED Call!vars
<1>1. at[c] = "woken" /\ answered' = answered /\ InFlight(c)
  BY Zenon DEF check_signal, InFlight
<1>2. CASE killed[c] /\ Withdraw(c)
  BY <1>1, <1>2, WithdrawAborts, Zenon
<1>3. CASE ~killed[c] /\ at' = [at EXCEPT ![c] = "done"]
           /\ UNCHANGED <<listVars, u, abort>>
  <2>1. answered[c]
    BY <1>1, <1>3, Zenon DEF Conduit, CallerInv
  <2>2. /\ at'[c] = "done" /\ u' = u /\ answered'[c] /\ OnlyChanges(c)
    BY <1>1, <1>3, <2>1, Zenon DEF Frame, TypeOK, OnlyChanges, Req, listVars
  <2>3. /\ StatusOf(c) = "decided" /\ StatusOf(c)' = "returned"
        /\ ResultOf(c)' = ResultOf(c)
    BY <1>1, <2>1, <2>2, Zenon DEF StatusOf, ResultOf, InFlight
  <2>4. Call!Set(c, "returned", ResultOf(c)) /\ Call!Shows(c)
    BY <2>2, <2>3, OneShows, OthersHidden, Zenon
  <2> QED
    BY <2>3, <2>4, Zenon DEF Call!return
<1>4. CASE at' = [at EXCEPT ![c] = "aborting"] /\ UNCHANGED <<listVars, u>>
  <2>1. /\ InFlight(c)' /\ u' = u /\ Req' = Req
        /\ \A d \in Callers \ {c} : at'[d] = at[d]
    BY <1>4, Zenon DEF Frame, TypeOK, InFlight, Req, listVars
  <2>2. \A d \in Callers : Hidden(d)
    BY <1>1, <2>1, HiddenLemma, Zenon
  <2> QED
    BY <2>2, NothingShows, Zenon
<1> QED
  BY <1>2, <1>3, <1>4, Zenon DEF check_signal

(* The other steps of a caller do not show.                                *)
LEMMA CallerHidden ==
    ASSUME Frame, NEW c \in Callers, tainted' = tainted,
           wait_answered(c) \/ wait_unused(c) \/ Kill(c) \/ Exit(c)
    PROVE  UNCHANGED Call!vars
<1>1. /\ answered' = answered /\ u' = u /\ Req' = Req
      /\ \A d \in Callers : at'[d] = at[d] \/ (InFlight(d) /\ InFlight(d)')
  BY Zenon DEF wait_answered, wait_unused, Kill, Exit, Frame, TypeOK,
      transVars, listVars, Req, InFlight
<1>2. \A d \in Callers : Hidden(d)
  BY <1>1, HiddenLemma, Zenon
<1> QED
  BY <1>2, NothingShows, Zenon

-----------------------------------------------------------------------------
(* The steps of a thread.                                                  *)

(* uvfsd_read takes the first request.                                     *)
LEMMA ReadTakes ==
    ASSUME Frame, Conduit, NEW t \in Threads, read_take(t),
           NEW c, c = Head(Uvfs_requests), tainted' = tainted
    PROVE  c \in Callers /\ Call!Shows(c) /\ Call!take(c)
<1>1. /\ Uvfs_requests # <<>> /\ Uvfs_requests' = Tail(Uvfs_requests)
      /\ answered' = answered /\ u' = u /\ at' = at
  BY Zenon DEF read_take, callerVars
<1>2. c \in Callers /\ c \in Req /\ Req' = Req \ {c}
  BY <1>1, TailList DEF Frame, TypeOK, Conduit, ListInv, Req
<1>3. InFlight(c) /\ ~answered[c]
  BY <1>2, Zenon DEF Conduit, ListInv
<1>4. OnlyChanges(c)
  BY <1>1, <1>2, Zenon DEF OnlyChanges
<1>5. /\ StatusOf(c) = "queued" /\ StatusOf(c)' = "taken"
      /\ ResultOf(c)' = "none"
  BY <1>1, <1>2, <1>3, Zenon DEF StatusOf, ResultOf, InFlight
<1>6. Call!Set(c, "taken", "none") /\ Call!Shows(c)
  BY <1>2, <1>4, <1>5, OneShows, OthersHidden, Zenon
<1> QED
  BY <1>2, <1>5, <1>6, Zenon DEF Call!take

(* uvfsd_write answers the request it was given the reply for; a killed    *)
(* caller that did not wait for it gets the reply late.                    *)
LEMMA WriteAnswers ==
    ASSUME Frame, Conduit, NEW t \in Threads, write_copied(t), ~tainted',
           tainted' = tainted, NEW c, c = ptr[t]
    PROVE  c \in Callers /\ Call!Shows(c) /\ (Call!answer(c) \/ Call!late(c))
<1>1. /\ tpc[t] = "copying_in" /\ t \notin dangling /\ c \in Callers
      /\ answered' = [answered EXCEPT ![c] = TRUE]
      /\ at' = at /\ Req' = Req /\ Holds(t, c)
  BY Zenon DEF write_copied, Frame, TypeOK, PointerInv, Copying, Holds, Req,
      listVars
<1>2. PICK j \in hand[t] :
         \/ u' = [u EXCEPT ![c] = Content("reply", j.for)]
         \/ t \in Faulty /\ u' = [u EXCEPT ![c] = Content("torn", j.for)]
  BY Zenon DEF write_copied
<1>3. j.for = c
  <2>1. j \in hand[t]
    BY <1>2
  <2> QED
    BY <1>1, <2>1 DEF Conduit, ThreadInv
<1>4. /\ u'[c].for = c
      /\ u'[c].tag = "reply" \/ (u'[c].tag = "torn" /\ Faulty # {})
      /\ \A d \in Callers \ {c} : u'[d] = u[d]
  BY <1>1, <1>2, <1>3 DEF Frame, TypeOK, Content
<1>5. u'[c].tag \in Call!Replies
  BY <1>4, Zenon DEF Call!Replies
<1>6. answered'[c] /\ OnlyChanges(c)
  BY <1>1, <1>4, Zenon DEF Frame, TypeOK, OnlyChanges
<1>7. c \notin Req /\ ~answered[c] /\ (InFlight(c) \/ at[c] = "done")
  BY <1>1, Zenon DEF Conduit, PtrInv
<1>8. CASE InFlight(c)
  <2>1. /\ StatusOf(c) = "taken" /\ StatusOf(c)' = "decided"
        /\ ResultOf(c)' = u'[c].tag
    BY <1>1, <1>4, <1>6, <1>7, <1>8, Zenon DEF StatusOf, ResultOf, InFlight
  <2>2. Call!Set(c, "decided", u'[c].tag) /\ Call!Shows(c)
    BY <1>1, <1>6, <2>1, OneShows, OthersHidden, Zenon
  <2> QED
    BY <1>1, <1>5, <2>1, <2>2, Zenon DEF Call!answer
<1>9. CASE at[c] = "done"
  <2>1. Writing(c)
    BY <1>1, Zenon DEF Writing
  <2>2. u[c].tag = "ERESTARTSYS" /\ c \in Killable
    BY <1>1, <1>9, <2>1, Zenon DEF Conduit, ContentInv
  <2>3. /\ StatusOf(c) = "returned" /\ StatusOf(c)' = "returned"
        /\ ResultOf(c) = "ERESTARTSYS" /\ ResultOf(c)' = u'[c].tag
    BY <1>1, <1>4, <1>9, <2>2, Zenon DEF StatusOf, ResultOf, InFlight
  <2>4. u'[c].tag # "ERESTARTSYS"
    BY <1>4, Zenon
  <2>5. Call!Set(c, "returned", u'[c].tag) /\ Call!Shows(c)
    BY <1>1, <1>6, <2>3, <2>4, OneShows, OthersHidden, Zenon
  <2> QED
    BY <1>1, <1>5, <2>2, <2>3, <2>5, Zenon DEF Call!late
<1> QED
  BY <1>1, <1>7, <1>8, <1>9, Zenon

(* The last close decides what is pending: no writer is left, so that is   *)
(* what is on the lists.                                                   *)
LEMMA CloseDecides ==
    ASSUME Frame, Conduit, NEW t \in Threads, uvfsd_release_last(t),
           tainted' = tainted
    PROVE  Call!close \/ UNCHANGED Call!vars
<1> DEFINE pending(c) == InFlight(c) /\ ~answered[c]
<1>1. /\ at' = at /\ Uvfs_requests' = <<>>
      /\ \A c \in Callers :
            /\ c \in Flushed => u'[c] = Content("EIO", c) /\ answered'[c]
            /\ c \notin Flushed =>
                  u'[c] = u[c] /\ (answered'[c] <=> answered[c])
  BY Zenon DEF uvfsd_release_last
<1>2. Req' = {} /\ Flushed = Req \cup Rep
  BY <1>1, NothingListed, Zenon DEF Req, Rep, Flushed
<1>3. \A c \in Callers : ~Writing(c)
  <2>1. \A v \in Threads : tpc[v] # "copying_in"
    BY LastClose, Zenon DEF uvfsd_release_last, ReleaseOne
  <2> QED
    BY <2>1, Zenon DEF Writing
<1>4. \A c \in Callers : pending(c) <=> c \in Flushed
  BY <1>2, <1>3, Zenon DEF Conduit, ListInv
<1>5. \A c \in Callers : Call!Pending(c) <=> pending(c)
  BY Zenon DEF Call!Pending, StatusOf, InFlight, Frame, TypeOK, CallerStates
<1>6. \A c \in Callers : pending(c) =>
         StatusOf(c)' = "decided" /\ ResultOf(c)' = "EIO"
  <2> SUFFICES ASSUME NEW c \in Callers, pending(c)
               PROVE  StatusOf(c)' = "decided" /\ ResultOf(c)' = "EIO"
    BY Zenon
  <2>1. u'[c] = Content("EIO", c) /\ answered'[c] /\ at'[c] = at[c]
    BY <1>1, <1>4, Zenon
  <2>2. u'[c].tag = "EIO"
    BY <2>1 DEF Content
  <2> QED
    BY <2>1, <2>2, Zenon DEF StatusOf, ResultOf, InFlight
<1>7. \A c \in Callers : ~pending(c) => Hidden(c)
  BY <1>1, <1>2, <1>4, HiddenLemma, Zenon
<1> HIDE DEF pending
<1>8. CASE \E c \in Callers : pending(c)
  BY <1>5, <1>6, <1>7, <1>8, Zenon DEF Call!close, Hidden
<1>9. CASE \A c \in Callers : ~pending(c)
  BY <1>7, <1>9, NothingShows, Zenon
<1> QED
  BY <1>8, <1>9, Zenon

(* The other steps of a thread do not show.                                *)
LEMMA ThreadHidden ==
    ASSUME NEW t \in Threads, tainted' = tainted,
           \/ uvfsd_open(t) \/ uvfsd_release_other(t)
           \/ uvfsd_ioctl_shutdown(t) \/ read_sleep(t) \/ read_shutdown(t)
           \/ read_shutdown_done(t) \/ read_copied(t) \/ read_return(t)
           \/ read_interrupted(t) \/ Interrupt(t)
           \/ \E j \in jobs : uvfsd_write(t, j)
    PROVE  UNCHANGED Call!vars
<1>1. at' = at /\ answered' = answered /\ u' = u /\ Req' = Req
  BY Zenon DEF uvfsd_open, uvfsd_release_other, uvfsd_ioctl_shutdown,
      read_sleep, read_shutdown, read_shutdown_done, read_copied, read_return,
      read_interrupted, Interrupt, uvfsd_write, write_take, write_unmatched,
      transVars, callerVars, listVars, Req
<1>2. \A d \in Callers : Hidden(d)
  BY <1>1, HiddenLemma, Zenon
<1> QED
  BY <1>2, NothingShows, Zenon

-----------------------------------------------------------------------------
(* The refinement.                                                         *)

(* Every step is a step of a call or does not show.  Once the conduit is   *)
(* tainted nothing is promised.                                            *)
LEMMA StepRefines ==
    ASSUME IInv, [Next]_vars
    PROVE  [Call!Next]_(Call!vars)
<1>1. CASE tainted'
  BY <1>1, Zenon DEF Call!Next, Call!Undefined
<1>2. CASE ~tainted'
  <2>1. Frame /\ Conduit /\ tainted' = tainted
    <3>1. ~tainted
      BY <1>2, TaintedStays, Zenon
    <3>2. tainted' = FALSE /\ tainted = FALSE
      BY <1>2, <3>1, FrameStep, Zenon DEF IInv, Frame, TypeOK
    <3> QED
      BY <3>1, <3>2, Zenon DEF IInv
  <2>2. ASSUME NEW c \in Callers,
               \/ uvfs_new_transaction(c) \/ uvfs_make_request(c)
               \/ kfree_trans(c) \/ Kill(c) \/ Exit(c)
        PROVE  (Call!Shows(c) /\ Call!CallerNext(c)) \/ UNCHANGED Call!vars
    <3>1. CASE finish_abort(c)
      <4>1. /\ Withdraw(c) /\ at[c] = "aborted" /\ answered' = answered
            /\ killed[c]
        BY <2>1, <3>1, Zenon DEF finish_abort, Conduit, CallerInv
      <4> QED
        BY <2>1, <4>1, WithdrawAborts, Zenon DEF InFlight, Call!CallerNext
    <3>2. CASE check_signal(c)
      BY <2>1, <3>2, SignalChecked, Zenon DEF Call!CallerNext
    <3>3. CASE \/ uvfs_new_transaction(c) \/ kfree_trans(c)
               \/ make_request_refused(c) \/ make_request_queued(c)
      BY <2>1, <3>3, AllocateFree, RefuseQueue, Zenon DEF Call!CallerNext
    <3>4. CASE wait_answered(c) \/ wait_unused(c) \/ Kill(c) \/ Exit(c)
      BY <2>1, <3>4, CallerHidden, Zenon
    <3> QED
      BY <2>2, <3>1, <3>2, <3>3, <3>4, Zenon DEF uvfs_make_request
  <2>3. ASSUME NEW t \in Threads,
               \/ uvfsd_open(t) \/ uvfsd_release(t) \/ uvfsd_ioctl_shutdown(t)
               \/ uvfsd_read(t) \/ (\E j \in jobs : uvfsd_write(t, j))
               \/ write_copied(t) \/ Interrupt(t)
        PROVE  Call!Next \/ UNCHANGED Call!vars
    <3>1. CASE read_take(t)
      BY <2>1, <3>1, ReadTakes, Zenon DEF Call!Next, Call!CallerNext
    <3>2. CASE write_copied(t)
      BY <1>2, <2>1, <3>2, WriteAnswers, Zenon DEF Call!Next, Call!CallerNext
    <3>3. CASE uvfsd_release_last(t)
      BY <2>1, <3>3, CloseDecides, Zenon DEF Call!Next
    <3> QED
      BY <2>1, <2>3, <3>1, <3>2, <3>3, ThreadHidden, Zenon
          DEF uvfsd_release, uvfsd_read
  <2>4. CASE UNCHANGED vars
    <3>1. UNCHANGED <<at, answered, u, Uvfs_requests>>
      BY <2>4, Zenon DEF vars, transVars, callerVars, listVars
    <3>2. \A d \in Callers : Hidden(d)
      BY <3>1, HiddenLemma, Zenon DEF Req
    <3> QED
      BY <2>1, <3>2, NothingShows, Zenon
  <2>5. Call!Next \/ UNCHANGED Call!vars
    BY <2>2, <2>3, <2>4, Zenon DEF Next, Call!Next
  <2> QED
    BY <2>5
<1> QED
  BY <1>1, <1>2, Zenon

(* The conduit implements the calls of UvfsCall, whatever the number of    *)
(* callers and threads: a file operation that only sees statuses and       *)
(* results can be reasoned about with UvfsCall in the place of             *)
(* uvfs_make_request, uvfsd_read, uvfsd_write and uvfsd_release.           *)
THEOREM DriverImplementsCall == Spec => KeepsPromise
<1>1. Init => Call!Init
  <2> SUFFICES ASSUME Init PROVE Call!Init
    BY Zenon
  <2>1. \A c \in Callers : at[c] = "idle"
    BY Zenon DEF Init
  <2>2. \A c \in Callers : StatusOf(c) = "free" /\ ResultOf(c) = "none"
    BY <2>1, Zenon DEF StatusOf, ResultOf, InFlight
  <2> QED
    BY <2>2, Zenon DEF Init, Call!Init
<1>2. IInv /\ [Next]_vars => [Call!Next]_(Call!vars)
  BY StepRefines, Zenon
<1> QED
  BY <1>1, <1>2, IInvInvariant, PTL DEF Spec, KeepsPromise, Call!Spec

=============================================================================
