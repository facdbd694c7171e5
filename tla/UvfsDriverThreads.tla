------------------------- MODULE UvfsDriverThreads --------------------------
(***************************************************************************)
(* What the list and wait queue operations of driver.c do to the set of    *)
(* the entries of a list without duplicates, and to the sleeping readers.  *)
(* Then the operations of a thread preserve Conduit: uvfsd_read, which     *)
(* takes a request off its list and copies it out; opening, closing and    *)
(* waiting; the last close, which fails what is queued; and uvfsd_write,   *)
(* which matches a reply with its transaction, or with none, and copies it *)
(* in.                                                                     *)
(***************************************************************************)
EXTENDS UvfsDriverInv, TLAPS

(* list_add_tail puts one more transaction on a list.                      *)
LEMMA AppendList ==
    ASSUME NEW S, NEW s \in Seq(S), NEW c \in S
    PROVE  /\ Append(s, c) \in Seq(S)
           /\ Range(Append(s, c)) = Range(s) \cup {c}
           /\ NoDup(s) /\ c \notin Range(s) => NoDup(Append(s, c))
<1> DEFINE r == Append(s, c)
<1>1. /\ r \in Seq(S)
      /\ Len(r) = Len(s) + 1
      /\ DOMAIN r = 1..Len(s) + 1
      /\ DOMAIN s = 1..Len(s)
      /\ Len(s) \in Nat
      /\ r[Len(s) + 1] = c
      /\ \A i \in DOMAIN s : r[i] = s[i]
  OBVIOUS
<1> HIDE DEF r
<1>2. Range(r) = Range(s) \cup {c}
  BY <1>1, SMT DEF Range
<1>3. NoDup(s) /\ c \notin Range(s) => NoDup(r)
  BY <1>1, SMT DEF Range, NoDup
<1> QED
  BY <1>1, <1>2, <1>3, Zenon DEF r

(* Taking the first transaction off a list.                                *)
LEMMA TailList ==
    ASSUME NEW S, NEW s \in Seq(S), s # <<>>
    PROVE  /\ Head(s) \in S
           /\ Tail(s) \in Seq(S)
           /\ Head(s) \in Range(s)
           /\ NoDup(s) => Range(Tail(s)) = Range(s) \ {Head(s)}
           /\ NoDup(s) => NoDup(Tail(s))
           /\ Range(Tail(s)) \subseteq Range(s)
<1> DEFINE r == Tail(s)
           h == Head(s)
<1>1. /\ r \in Seq(S) /\ h \in S
      /\ Len(s) \in Nat \ {0}
      /\ Len(r) = Len(s) - 1
      /\ DOMAIN r = 1..(Len(s) - 1)
      /\ DOMAIN s = 1..Len(s)
      /\ h = s[1]
      /\ \A i \in DOMAIN r : r[i] = s[i + 1]
  OBVIOUS
<1> HIDE DEF r, h
<1>2. h \in Range(s) /\ Range(r) \subseteq Range(s)
  BY <1>1, SMT DEF Range
<1>3. ASSUME NoDup(s) PROVE NoDup(r) /\ h \notin Range(r)
  <2>1. \A i \in DOMAIN r : i + 1 \in DOMAIN s /\ i + 1 # 1 /\ 1 \in DOMAIN s
    BY <1>1
  <2>2. NoDup(r)
    <3> SUFFICES ASSUME NEW i \in DOMAIN r, NEW k \in DOMAIN r, r[i] = r[k]
                 PROVE  i = k
      BY Zenon DEF NoDup
    <3>1. i + 1 = k + 1
      BY <1>1, <1>3, <2>1, Zenon DEF NoDup
    <3> QED
      BY <1>1, <3>1
  <2>3. \A i \in DOMAIN r : r[i] # h
    <3> SUFFICES ASSUME NEW i \in DOMAIN r, r[i] = h PROVE FALSE
      OBVIOUS
    <3>1. i + 1 = 1
      BY <1>1, <1>3, <2>1, Zenon DEF NoDup
    <3> QED
      BY <2>1, <3>1, Zenon
  <2> QED
    BY <2>2, <2>3, Zenon DEF Range
<1>4. Range(s) \ {h} \subseteq Range(r)
  <2> SUFFICES ASSUME NEW i \in DOMAIN s, s[i] # h PROVE s[i] \in Range(r)
    BY Zenon DEF Range
  <2>1. i - 1 \in DOMAIN r /\ r[i - 1] = s[i]
    BY <1>1, SMT
  <2> QED
    BY <2>1, Zenon DEF Range
<1> QED
  BY <1>1, <1>2, <1>3, <1>4, Zenon DEF r, h

(* list_del_init takes one transaction off its list and leaves the others. *)
LEMMA DeleteList ==
    ASSUME NEW S, NEW s \in Seq(S), NEW c
    PROVE  /\ list_del_init(s, c) \in Seq(S)
           /\ NoDup(s) => Range(list_del_init(s, c)) = Range(s) \ {c}
           /\ NoDup(s) => NoDup(list_del_init(s, c))
           /\ Range(list_del_init(s, c)) \subseteq Range(s)
           /\ s = <<>> => list_del_init(s, c) = <<>>
<1>1. CASE ~ \E i \in DOMAIN s : s[i] = c
  BY <1>1, Zenon DEF list_del_init, Range
<1>2. CASE \E i \in DOMAIN s : s[i] = c
  <2> DEFINE d == CHOOSE i \in DOMAIN s : s[i] = c
             r == SubSeq(s, 1, d - 1) \o SubSeq(s, d + 1, Len(s))
  <2>1. d \in DOMAIN s /\ s[d] = c
    BY <1>2, Zenon
  <2>2. list_del_init(s, c) = r
    BY <1>2, Zenon DEF list_del_init
  <2> HIDE DEF d
  <2>3. DOMAIN s = 1..Len(s) /\ Len(s) \in Nat
    OBVIOUS
  <2>4. /\ SubSeq(s, 1, d - 1) \in Seq(S)
        /\ Len(SubSeq(s, 1, d - 1)) = d - 1
        /\ \A i \in 1..(d - 1) : SubSeq(s, 1, d - 1)[i] = s[i]
    BY <2>1, <2>3
  <2>5. /\ SubSeq(s, d + 1, Len(s)) \in Seq(S)
        /\ Len(SubSeq(s, d + 1, Len(s))) = Len(s) - d
        /\ \A i \in 1..(Len(s) - d) : SubSeq(s, d + 1, Len(s))[i] = s[i + d]
    BY <2>1, <2>3, SMTT(30)
  <2>6. /\ r \in Seq(S)
        /\ DOMAIN r = 1..(Len(s) - 1)
        /\ \A i \in 1..(d - 1) : r[i] = s[i]
        /\ \A i \in d..(Len(s) - 1) : r[i] = s[i + 1]
    <3> DEFINE a == SubSeq(s, 1, d - 1)
               b == SubSeq(s, d + 1, Len(s))
    <3>1. r = a \o b
      OBVIOUS
    <3> HIDE DEF a, b, r
    <3>2. /\ a \in Seq(S) /\ b \in Seq(S)
          /\ Len(a) = d - 1 /\ Len(b) = Len(s) - d
      BY <2>4, <2>5, Zenon DEF a, b
    <3>3. /\ a \o b \in Seq(S)
          /\ Len(a \o b) = Len(a) + Len(b)
          /\ \A i \in 1..Len(a \o b) :
                (a \o b)[i] = IF i <= Len(a) THEN a[i] ELSE b[i - Len(a)]
      BY <3>2, SMTT(30)
    <3>4. d \in 1..Len(s) /\ Len(a) + Len(b) = Len(s) - 1
      BY <2>1, <2>3, <3>2
    <3>5. r \in Seq(S) /\ DOMAIN r = 1..(Len(s) - 1)
      BY <3>1, <3>3, <3>4
    <3>6. ASSUME NEW i \in 1..(d - 1) PROVE r[i] = s[i]
      <4>1. i \in 1..Len(a \o b) /\ i <= Len(a)
        BY <2>3, <3>2, <3>3, <3>4
      <4> QED
        BY <2>4, <3>1, <3>3, <4>1, Zenon DEF a
    <3>7. ASSUME NEW i \in d..(Len(s) - 1) PROVE r[i] = s[i + 1]
      <4>1. /\ i \in 1..Len(a \o b) /\ ~(i <= Len(a))
            /\ i - Len(a) \in 1..(Len(s) - d)
            /\ (i - Len(a)) + d = i + 1
        BY <2>3, <3>2, <3>3, <3>4
      <4> QED
        BY <2>5, <3>1, <3>3, <4>1, Zenon DEF b
    <3> QED
      BY <3>5, <3>6, <3>7, Zenon
  <2> HIDE DEF r
  <2>7. Range(r) \subseteq Range(s)
    <3> SUFFICES ASSUME NEW i \in DOMAIN r PROVE r[i] \in Range(s)
      BY Zenon DEF Range
    <3>1. \E k \in DOMAIN s : r[i] = s[k]
      <4>1. CASE i < d
        BY <2>1, <2>3, <2>6, <4>1
      <4>2. CASE i >= d
        <5>1. i + 1 \in DOMAIN s /\ r[i] = s[i + 1]
          BY <2>1, <2>3, <2>6, <4>2
        <5> QED
          BY <5>1, Zenon
      <4> QED
        BY <2>1, <2>3, <2>6, <4>1, <4>2
    <3> QED
      BY <3>1, Zenon DEF Range
  <2>8. Range(s) \ {c} \subseteq Range(r)
    <3> SUFFICES ASSUME NEW k \in DOMAIN s, s[k] # c
                 PROVE  \E i \in DOMAIN r : r[i] = s[k]
      BY Zenon DEF Range
    <3>1. CASE k < d
      BY <2>1, <2>3, <2>6, <3>1
    <3>2. CASE k > d
      <4>1. k - 1 \in DOMAIN r /\ r[k - 1] = s[k]
        BY <2>1, <2>3, <2>6, <3>2
      <4> QED
        BY <4>1, Zenon
    <3> QED
      BY <2>1, <2>3, <3>1, <3>2
  <2>9. ASSUME NoDup(s) PROVE c \notin Range(r) /\ NoDup(r)
    <3>1. \A i \in DOMAIN r :
             \E k \in DOMAIN s : /\ r[i] = s[k] /\ k # d
                                 /\ k = IF i < d THEN i ELSE i + 1
      <4> TAKE i \in DOMAIN r
      <4>1. CASE i < d
        BY <2>1, <2>3, <2>6, <4>1
      <4>2. CASE i >= d
        <5>1. i + 1 \in DOMAIN s /\ r[i] = s[i + 1]
          BY <2>1, <2>3, <2>6, <4>2
        <5> QED
          BY <5>1, <4>2, <2>1, <2>3, <2>6
      <4> QED
        BY <2>1, <2>3, <2>6, <4>1, <4>2
    <3>2. c \notin Range(r)
      BY <2>1, <2>9, <3>1 DEF Range, NoDup
    <3>3. NoDup(r)
      <4> SUFFICES ASSUME NEW i \in DOMAIN r, NEW k \in DOMAIN r, r[i] = r[k]
                   PROVE  i = k
        BY Zenon DEF NoDup
      <4>1. (IF i < d THEN i ELSE i + 1) = (IF k < d THEN k ELSE k + 1)
        BY <2>9, <3>1, Zenon DEF NoDup
      <4> QED
        BY <4>1, <2>1, <2>3, <2>6
    <3> QED
      BY <3>2, <3>3, Zenon
  <2>10. s # <<>>
    BY <1>2
  <2> QED
    BY <2>2, <2>6, <2>7, <2>8, <2>9, <2>10, Zenon
<1> QED
  BY <1>1, <1>2, Zenon

-----------------------------------------------------------------------------
\* A step of caller c changes nothing of another caller.
OthersSame(c) ==
    \A d \in Callers \ {c} :
      /\ at'[d] = at[d] /\ serial'[d] = serial[d] /\ u'[d] = u[d]
      /\ in_use'[d] <=> in_use[d]
      /\ abort'[d] <=> abort[d]
      /\ answered'[d] <=> answered[d]
      /\ asleep'[d] <=> asleep[d]
      /\ killed'[d] <=> killed[d]

\* A step of thread t changes nothing of another thread, but that a sleeping
\* reader may be woken.
OtherThreadsSame(t) ==
    \A v \in Threads \ {t} :
      /\ tpc'[v] = tpc[v] \/ (tpc[v] = "sleeping" /\ tpc'[v] = "roused")
      /\ ptr'[v] = ptr[v] /\ hand'[v] = hand[v]
      /\ v \in dangling' <=> v \in dangling

\* What ThreadInv says of a thread stays true of one that only wakes up.
LEMMA OtherThread ==
    ASSUME ThreadInv, NEW t \in Threads, NEW v \in Threads \ {t},
           OtherThreadsSame(t), UNCHANGED serial,
           \A d \in Callers : Holds(v, d)' => Holds(v, d)
    PROVE  /\ v \in dangling' => ptr'[v] # NULL
           /\ hand'[v] # {} => tpc'[v] \in {"returning", "copying_in"}
           /\ tpc'[v] = "copying_in" => hand'[v] # {}
           /\ tpc'[v] = "copying_out" => v \notin dangling'
           /\ \A d \in Callers : Holds(v, d)' =>
                 \A k \in hand'[v] : k.serial = serial'[d] /\ k.for = d
<1>1. /\ v \in dangling => ptr[v] # NULL
      /\ hand[v] # {} => tpc[v] \in {"returning", "copying_in"}
      /\ tpc[v] = "copying_in" => hand[v] # {}
      /\ tpc[v] = "copying_out" => v \notin dangling
      /\ \A d \in Callers : Holds(v, d) =>
            \A k \in hand[v] : k.serial = serial[d] /\ k.for = d
  BY Zenon DEF ThreadInv
<1>2. /\ tpc'[v] = tpc[v] \/ (tpc[v] = "sleeping" /\ tpc'[v] = "roused")
      /\ ptr'[v] = ptr[v] /\ hand'[v] = hand[v]
      /\ v \in dangling' <=> v \in dangling
  BY Zenon DEF OtherThreadsSame
<1>3. /\ "sleeping" \notin {"returning", "copying_in"}
      /\ "roused" # "copying_in" /\ "roused" # "copying_out"
  OBVIOUS
<1> QED
  BY <1>1, <1>2, <1>3, Zenon

(* wake_up_interruptible(&Uvfs_driver_queue) only moves a sleeping reader  *)
(* to "roused".                                                            *)
LEMMA WakeReaderLemma ==
    ASSUME TypeOK, QueueInv,
           NEW pcs \in [Threads -> ThreadStates],
           \A t \in Threads : tpc[t] = "sleeping" => pcs[t] = "sleeping",
           WakeReader(pcs)
    PROVE  /\ Uvfs_driver_queue' \in Seq(Threads)
           /\ tpc' \in [Threads -> ThreadStates]
           /\ QueueInv'
           /\ \A t \in Threads : \/ tpc'[t] = pcs[t]
                                 \/ tpc[t] = "sleeping" /\ tpc'[t] = "roused"
<1> DEFINE q == Uvfs_driver_queue
           h == Head(q)
<1>1. CASE q = <<>>
  BY <1>1 DEF WakeReader, TypeOK, QueueInv
<1>2. CASE q # <<>>
  <2>1. q \in Seq(Threads)
    BY Zenon DEF TypeOK
  <2>2. /\ h \in Threads /\ Tail(q) \in Seq(Threads) /\ h \in Range(q)
        /\ NoDup(q)
        /\ NoDup(Tail(q)) /\ Range(Tail(q)) = Range(q) \ {h}
    BY <1>2, <2>1, TailList, Zenon DEF QueueInv
  <2>3. \A t \in Range(q) : tpc[t] = "sleeping"
    BY Zenon DEF Range, QueueInv
  <2>4. /\ tpc' = [pcs EXCEPT ![h] = "roused"]
        /\ Uvfs_driver_queue' = Tail(q)
    BY <1>2, Zenon DEF WakeReader
  <2>5. tpc' \in [Threads -> ThreadStates]
    BY <2>4, Zenon DEF ThreadStates
  <2>6. \A t \in Range(Tail(q)) : t \in Threads /\ t # h
    BY <2>1, <2>2 DEF Range
  <2>7. \A t \in Range(Tail(q)) : tpc'[t] = "sleeping"
    BY <2>2, <2>3, <2>4, <2>6, Zenon
  <2>8. \A i \in DOMAIN Tail(q) : Tail(q)[i] \in Range(Tail(q))
    BY Zenon DEF Range
  <2>9. QueueInv'
    BY <2>2, <2>4, <2>7, <2>8, Zenon DEF QueueInv, NoDup
  <2>10. \A t \in Threads : \/ tpc'[t] = pcs[t]
                            \/ tpc[t] = "sleeping" /\ tpc'[t] = "roused"
    BY <2>2, <2>3, <2>4, Zenon
  <2> QED
    BY <2>2, <2>4, <2>5, <2>9, <2>10, Zenon
<1> QED
  BY <1>1, <1>2, Zenon

(* The operations of uvfsd_ioctl and uvfsd_read that wake a reader move    *)
(* the calling thread on, and one sleeping reader at most.                 *)
LEMMA WakingThreads ==
    ASSUME Frame, NEW t \in Threads,
           \/ uvfsd_ioctl_shutdown(t)
           \/ read_shutdown_done(t)
           \/ read_take(t)
    PROVE  /\ Uvfs_driver_queue' \in Seq(Threads)
           /\ tpc' \in [Threads -> ThreadStates]
           /\ QueueInv'
           /\ tpc[t] \notin {"sleeping", "closed"}
           /\ read_take(t) => tpc'[t] = "copying_out"
           /\ ~read_take(t) => tpc'[t] = "user"
           /\ \A v \in Threads : v # t =>
                 \/ tpc'[v] = tpc[v]
                 \/ tpc[v] = "sleeping" /\ tpc'[v] = "roused"
<1> USE DEF Frame
<1> DEFINE pcs == [tpc EXCEPT ![t] = IF read_take(t) THEN "copying_out"
                                     ELSE "user"]
<1>1. WakeReader(pcs)
  <2>1. uvfsd_ioctl_shutdown(t) => tpc = [tpc EXCEPT ![t] = "user"]
    BY Zenon DEF uvfsd_ioctl_shutdown, TypeOK
  <2>2. CASE read_take(t)
    BY <2>2, Zenon DEF read_take
  <2>3. CASE ~read_take(t)
    BY <2>1, <2>3, Zenon DEF uvfsd_ioctl_shutdown, read_shutdown_done
  <2> QED
    BY <2>2, <2>3, Zenon
<1>2. tpc[t] \notin {"sleeping", "closed"}
  BY Zenon DEF uvfsd_ioctl_shutdown, read_shutdown_done, read_take, AtLoopHead
<1>3. /\ pcs \in [Threads -> ThreadStates]
      /\ pcs[t] \notin {"sleeping", "closed"}
      /\ \A v \in Threads : v # t => pcs[v] = tpc[v]
  BY <1>2, Zenon DEF TypeOK, ThreadStates
<1> HIDE DEF pcs
<1>4. /\ Uvfs_driver_queue' \in Seq(Threads)
      /\ tpc' \in [Threads -> ThreadStates]
      /\ QueueInv'
      /\ \A v \in Threads : \/ tpc'[v] = pcs[v]
                            \/ tpc[v] = "sleeping" /\ tpc'[v] = "roused"
  BY <1>1, <1>2, <1>3, WakeReaderLemma, Zenon
<1>5. /\ read_take(t) => pcs[t] = "copying_out"
      /\ ~read_take(t) => pcs[t] = "user"
  BY Zenon DEF pcs, TypeOK
<1> QED
  BY <1>2, <1>3, <1>4, <1>5, Zenon

-----------------------------------------------------------------------------
(* uvfsd_read takes the first request: nobody else points to it, no job    *)
(* carries its number, and its caller has not begun to abort.              *)
LEMMA ReadTakeStep ==
    ASSUME Frame, Conduit, NEW t \in Threads, read_take(t),
           NEW c, c = Head(Uvfs_requests)
    PROVE  Conduit'
<1>1. /\ Uvfs_requests # <<>>
      /\ Uvfs_requests' = Tail(Uvfs_requests)
      /\ Uvfs_replies' = Append(Uvfs_replies, c)
      /\ c \in Callers /\ c \in Req
      /\ ptr[t] = NULL /\ ptr'[t] = c /\ in_use'[c]
      /\ OthersSame(c) /\ OtherThreadsSame(t) /\ tpc'[t] = "copying_out"
      /\ UNCHANGED <<Serial_number, serial, abort, answered, asleep, killed, at>>
      /\ UNCHANGED <<u, hand, jobs, outdated, dangling>>
  <2>1. Uvfs_requests # <<>> /\ Uvfs_requests \in Seq(Callers)
    BY Zenon DEF read_take, Frame, TypeOK
  <2>2. c \in Callers /\ c \in Req
    BY <2>1, TailList, Zenon DEF Req
  <2>3. tpc[t] \in {"user", "roused"}
    BY Zenon DEF read_take, AtLoopHead
  <2>4. ptr[t] = NULL
    BY <2>3, Zenon DEF Frame, PointerInv, Copying
  <2>5. OthersSame(c)
    BY <2>2, Zenon DEF read_take, Frame, TypeOK, callerVars, OthersSame
  <2>6. tpc'[t] = "copying_out" /\ OtherThreadsSame(t)
    BY WakingThreads, Zenon DEF read_take, Frame, TypeOK, histVars,
        OtherThreadsSame
  <2> QED
    BY <2>1, <2>2, <2>4, <2>5, <2>6, Zenon DEF read_take, Frame, TypeOK,
        countVars, callerVars, histVars
<1> USE DEF Conduit, Holds, InFlight, Copying, Live, Writing
<1>2. /\ InFlight(c) /\ ~answered[c] /\ Live(c) /\ c \notin Rep
      /\ NoDup(Uvfs_requests) /\ NoDup(Uvfs_replies)
  BY <1>1, Zenon DEF ListInv
<1>3. Req' = Req \ {c} /\ NoDup(Uvfs_requests')
  BY <1>1, <1>2, TailList DEF Frame, TypeOK, Req
<1>4. Rep' = Rep \cup {c} /\ NoDup(Uvfs_replies')
  BY <1>1, <1>2, AppendList DEF Frame, TypeOK, Rep
<1>5. t \notin dangling /\ hand[t] = {}
  BY <1>1, Zenon DEF ThreadInv, Frame, PointerInv
<1>6. \A v \in Threads : ~Holds(v, c)
  BY <1>1, Zenon DEF PtrInv
<1>7. /\ \A j \in jobs : j.serial # serial[c]
      /\ \A v \in Threads : \A j \in hand[v] : j.serial # serial[c]
  BY <1>1, <1>2, Zenon DEF JobsInv, JobInv
<1>8. /\ \A v \in Threads \ {t}, d \in Callers : Holds(v, d)' <=> Holds(v, d)
      /\ \A d \in Callers : Holds(t, d)' <=> d = c
      /\ \A d \in Callers : ~Holds(t, d)
  BY <1>1, <1>5, DriverConstants, Zenon DEF OtherThreadsSame
<1>9. \A v \in Threads \ {t} :
         /\ tpc'[v] \in Copying <=> tpc[v] \in Copying
         /\ tpc'[v] = "copying_in" <=> tpc[v] = "copying_in"
  BY <1>1, Zenon DEF OtherThreadsSame
<1>10. \A d \in Callers : Writing(d)' <=> Writing(d)
  <2> HIDE DEF Holds, Copying
  <2>1. tpc'[t] # "copying_in"
    BY <1>1, Zenon
  <2> QED
    BY <1>8, <1>9, <2>1, Zenon
<1>11. ThreadInv'
  BY <1>1, <1>2, <1>3, <1>4, <1>5, <1>6 DEF ThreadInv, OthersSame,
      OtherThreadsSame
<1>12. PtrInv'
  BY <1>1, <1>2, <1>3, <1>4, <1>5, <1>6 DEF PtrInv, OthersSame,
      OtherThreadsSame
<1>13. SerialInv'
  BY <1>1, Zenon DEF SerialInv, OthersSame
<1>14. JobsInv'
  BY <1>1, <1>3, <1>5, <1>6, <1>7, SMTT(20) DEF JobsInv, JobInv, OthersSame,
      OtherThreadsSame
<1>15. ListInv'
  <2> HIDE DEF Writing
  <2> QED
    BY <1>1, <1>2, <1>3, <1>4, <1>10, Zenon DEF ListInv
<1>16. UseInv'
  <2> HIDE DEF Holds
  <2> SUFFICES ASSUME NEW d \in Callers, at[d] # "idle"
               PROVE  in_use'[d] <=> \E v \in Threads :
                         Holds(v, d)' /\ tpc'[v] \in Copying
    BY <1>1, Zenon DEF UseInv
  <2>1. CASE d = c
    BY <1>1, <1>8, <2>1, Zenon
  <2>2. CASE d # c
    <3> HIDE DEF Copying
    <3>1. in_use'[d] <=> in_use[d]
      BY <1>1, <2>2, Zenon DEF OthersSame
    <3>2. in_use[d] <=> \E v \in Threads : Holds(v, d) /\ tpc[v] \in Copying
      BY Zenon DEF UseInv
    <3> QED
      BY <1>8, <1>9, <2>2, <3>1, <3>2, Zenon
  <2> QED
    BY <2>1, <2>2, Zenon
<1>17. CallerInv'
  <2> HIDE DEF Holds, Copying, Writing
  <2>1. \A d \in Callers : in_use[d] => in_use'[d]
    BY <1>1, Zenon DEF OthersSame
  <2>2. at[c] \notin {"aborting", "aborted"}
    BY <1>1, Zenon DEF CallerInv
  <2>3. \A v \in Threads, d \in Callers : Holds(v, d)' /\ d # c =>
           Holds(v, d) /\ (tpc'[v] = "copying_out" => tpc[v] = "copying_out")
    BY <1>1, <1>8, Zenon DEF OtherThreadsSame
  <2>4. UNCHANGED <<abort, answered, asleep, killed, at>> /\ Req' \subseteq Req
    BY <1>1, <1>3, Zenon
  <2> QED
    BY <2>1, <2>2, <2>3, <2>4, Zenon DEF CallerInv
<1>18. ContentInv'
  <2> HIDE DEF Writing
  <2> QED
    BY <1>1, <1>10, Zenon DEF ContentInv
<1>19. KillInv'
  BY <1>1, Zenon DEF KillInv
<1> QED
  BY <1>11, <1>12, <1>13, <1>14, <1>15, <1>16, <1>17, <1>18, <1>19, Zenon

(* read(2) returns: the job is the server's, and the thread forgets the    *)
(* transaction.                                                            *)
LEMMA ReadReturnStep ==
    ASSUME Frame, Conduit, NEW t \in Threads, read_return(t)
    PROVE  Conduit'
<1>1. /\ tpc[t] = "returning" /\ tpc'[t] = "user"
      /\ jobs' = jobs \cup hand[t] \/ jobs' = jobs
      /\ ptr'[t] = NULL /\ hand'[t] = {} /\ t \notin dangling'
      /\ OtherThreadsSame(t)
      /\ UNCHANGED <<Serial_number, serial, in_use, abort, answered, killed, at>>
      /\ UNCHANGED <<u, asleep, outdated>>
      /\ UNCHANGED <<Uvfs_requests, Uvfs_replies>>
  BY Zenon DEF read_return, Frame, TypeOK, countVars, listVars, transVars,
      callerVars, OtherThreadsSame
<1>2. Req' = Req /\ Rep' = Rep
  BY <1>1, Zenon DEF Req, Rep
<1> USE DEF Conduit, Holds, InFlight, Copying, Live, Writing
<1>3. \A v \in Threads, d \in Callers : Holds(v, d)' <=> Holds(v, d) /\ v # t
  BY <1>1, DriverConstants, Zenon DEF OtherThreadsSame
<1>4. dangling' \subseteq dangling
  BY Zenon DEF read_return
<1> HIDE DEF Holds
<1>5. ThreadInv'
  BY <1>1, <1>2, <1>3 DEF ThreadInv, OtherThreadsSame
<1>6. PtrInv'
  BY <1>1, <1>2, <1>3 DEF PtrInv, OtherThreadsSame
<1>7. SerialInv'
  BY <1>1, Zenon DEF SerialInv
<1>8. JobsInv'
  BY <1>1, <1>2, <1>3 DEF JobsInv, JobInv, OtherThreadsSame
<1>9. ListInv'
  BY <1>1, <1>2, <1>3 DEF ListInv, OtherThreadsSame
<1>10. UseInv'
  BY <1>1, <1>2, <1>3 DEF UseInv, OtherThreadsSame
<1>11. CallerInv'
  BY <1>1, <1>2, <1>3 DEF CallerInv, OtherThreadsSame
<1>12. ContentInv'
  BY <1>1, <1>2, <1>3 DEF ContentInv, OtherThreadsSame
<1>13. KillInv'
  BY <1>4, Zenon DEF KillInv
<1> QED
  BY <1>5, <1>6, <1>7, <1>8, <1>9, <1>10, <1>11, <1>12, <1>13, Zenon

(* The copy out is over: the thread has the one job for the transaction,   *)
(* and in_use is clear because no other thread points to it.               *)
LEMMA ReadCopiedStep ==
    ASSUME Frame, Conduit, NEW t \in Threads, read_copied(t), ~tainted',
           NEW c, c = ptr[t]
    PROVE  Conduit'
<1>1. /\ c \in Callers /\ Holds(t, c) /\ t \notin dangling
      /\ tpc[t] = "copying_out" /\ tpc'[t] = "returning"
      /\ \/ hand'[t] = {} \/ hand'[t] = hand[t]
         \/ hand'[t] = {[serial |-> serial[c], for |-> c]}
      /\ ~in_use'[c] /\ (asleep'[c] <=> asleep[c] /\ ~abort[c])
      /\ OthersSame(c) /\ OtherThreadsSame(t)
      /\ UNCHANGED <<Serial_number, serial, abort, answered, killed, at>>
      /\ UNCHANGED <<u, ptr, jobs, outdated, dangling>>
      /\ UNCHANGED <<Uvfs_requests, Uvfs_replies>>
  <2>1. /\ tpc[t] = "copying_out" /\ t \notin dangling /\ c \in Callers
        /\ tpc' = [tpc EXCEPT ![t] = "returning"]
        /\ in_use' = [in_use EXCEPT ![c] = FALSE]
    BY Zenon DEF read_copied, EndUse, Frame, TypeOK, PointerInv, Copying
  <2>2. UNCHANGED <<Serial_number, serial, abort, answered, killed, at, u, ptr,
                    jobs, outdated, dangling, Uvfs_requests, Uvfs_replies>>
    BY Zenon DEF read_copied, countVars, listVars
  <2>3. /\ asleep'[c] <=> asleep[c] /\ ~abort[c]
        /\ \A d \in Callers \ {c} : asleep'[d] <=> asleep[d]
    BY <2>1 DEF read_copied, WakeCaller, Frame, TypeOK
  <2>4. /\ \/ hand'[t] = {} \/ hand'[t] = hand[t]
           \/ hand'[t] = {[serial |-> serial[c], for |-> c]}
        /\ \A v \in Threads \ {t} : hand'[v] = hand[v]
    <3>1. CASE UNCHANGED hand
      BY <3>1, Zenon
    <3>2. CASE hand' = [hand EXCEPT ![t] = {}]
      BY <3>2, Zenon DEF Frame, TypeOK
    <3>3. CASE hand' = [hand EXCEPT ![t] = {[serial |-> serial[c], for |-> c]}]
      BY <3>3, Zenon DEF Frame, TypeOK
    <3> QED
      BY <3>1, <3>2, <3>3, Zenon DEF read_copied
  <2>5. OthersSame(c)
    BY <2>1, <2>2, <2>3, Zenon DEF OthersSame, Frame, TypeOK
  <2>6. OtherThreadsSame(t)
    BY <2>1, <2>2, <2>4, Zenon DEF OtherThreadsSame, Frame, TypeOK
  <2> QED
    BY <2>1, <2>2, <2>3, <2>4, <2>5, <2>6, Zenon DEF Holds, Frame, TypeOK
<1>2. Req' = Req /\ Rep' = Rep
  BY <1>1, Zenon DEF Req, Rep
<1> USE DEF Conduit, Holds, InFlight, Copying, Live, Writing
<1>3. /\ InFlight(c) \/ at[c] = "done"
      /\ c \notin Req /\ Live(c) /\ serial[c] < Serial_number
      /\ \A v \in Threads : Holds(v, c) => v = t
      /\ \A d \in Callers : Live(d) /\ serial[d] = serial[c] => d = c
  BY <1>1, Zenon DEF PtrInv, SerialInv
<1>4. \A j \in hand'[t] : j.serial = serial[c] /\ j.for = c
  BY <1>1 DEF ThreadInv
<1>5. /\ \A j \in jobs : j.serial # serial[c]
      /\ \A v \in Threads \ {t} : \A j \in hand[v] : j.serial # serial[c]
  BY <1>1, Zenon DEF JobsInv
<1>6. \A v \in Threads, d \in Callers : Holds(v, d)' <=> Holds(v, d)
  BY <1>1, Zenon DEF OtherThreadsSame
<1>7. \A v \in Threads \ {t}, d \in Callers :
         Holds(v, d) => serial[d] # serial[c]
  BY <1>1, <1>3, Zenon DEF PtrInv
<1>8. ThreadInv'
  BY <1>1, <1>4, <1>6 DEF ThreadInv, OthersSame, OtherThreadsSame
<1>9. PtrInv'
  BY <1>1, <1>2, <1>3, <1>6 DEF PtrInv, OthersSame, OtherThreadsSame
<1>10. SerialInv'
  BY <1>1, Zenon DEF SerialInv
<1>11. JobsInv'
  <2>1. /\ \A j \in jobs' : JobInv(j)'
        /\ \A v \in Threads : \A j \in hand'[v] : JobInv(j)' /\ j \notin jobs'
    BY <1>1, <1>2, <1>3, <1>4, <1>5 DEF JobsInv, JobInv, OthersSame,
        OtherThreadsSame
  <2>2. \A v, w \in Threads : v # w => hand'[v] \cap hand'[w] = {}
    BY <1>1, <1>4, <1>5 DEF JobsInv, OtherThreadsSame
  <2>3. /\ \A v \in Threads, d \in Callers : Holds(v, d)' =>
              \A j \in jobs' : j.serial # serial'[d]
        /\ \A v, w \in Threads, d \in Callers : Holds(v, d)' /\ w # v =>
              \A j \in hand'[w] : j.serial # serial'[d]
    BY <1>1, <1>4, <1>6, <1>7 DEF JobsInv, OtherThreadsSame
  <2> QED
    BY <2>1, <2>2, <2>3, Zenon DEF JobsInv
<1>12. ListInv'
  BY <1>1, <1>2, <1>3, <1>6 DEF ListInv, OthersSame, OtherThreadsSame
<1>13. UseInv'
  BY <1>1, <1>2, <1>3, <1>6 DEF UseInv, OthersSame, OtherThreadsSame
<1>14. CallerInv'
  BY <1>1, <1>2, <1>3, <1>6 DEF CallerInv, OthersSame, OtherThreadsSame
<1>15. ContentInv'
  BY <1>1, <1>2, <1>3, <1>6 DEF ContentInv, OthersSame, OtherThreadsSame
<1>16. KillInv'
  BY <1>1, Zenon DEF KillInv
<1> QED
  BY <1>8, <1>9, <1>10, <1>11, <1>12, <1>13, <1>14, <1>15, <1>16, Zenon

(* A step that moves threads only between states in which they hold        *)
(* nothing: open, close, sleep, wake-up, signal, shutdown.                 *)
LEMMA QuietStep ==
    ASSUME Frame, Conduit,
           \A t \in Threads :
              \/ tpc'[t] = tpc[t]
              \/ /\ tpc[t] \notin Copying \cup {"returning"}
                 /\ tpc'[t] \notin Copying \cup {"returning"},
           UNCHANGED <<Serial_number, listVars, transVars, callerVars, ptr,
                       hand, jobs, histVars>>
    PROVE  Conduit'
<1>1. /\ UNCHANGED <<Serial_number, serial, in_use, abort, answered, asleep, killed>>
      /\ UNCHANGED <<at, u, ptr, hand, jobs, outdated, dangling>>
      /\ UNCHANGED <<Uvfs_requests, Uvfs_replies>>
  BY Zenon DEF listVars, transVars, callerVars, histVars
<1>2. Req' = Req /\ Rep' = Rep
  BY <1>1, Zenon DEF Req, Rep
<1>3. \A t \in Threads :
         ptr[t] # NULL => tpc'[t] = tpc[t]
  BY Zenon DEF Frame, PointerInv
<1>4. \A t \in Threads, c \in Callers : Holds(t, c) => tpc'[t] = tpc[t]
  BY <1>3, DriverConstants, Zenon DEF Holds
<1>5. \A t \in Threads :
         /\ tpc'[t] = "copying_in" <=> tpc[t] = "copying_in"
         /\ tpc'[t] = "copying_out" <=> tpc[t] = "copying_out"
         /\ tpc'[t] = "returning" <=> tpc[t] = "returning"
  BY Zenon DEF Copying
<1> USE DEF Conduit, Holds, InFlight, Copying, Live, Writing
<1>6. ThreadInv'
  BY <1>1, <1>2, <1>5 DEF ThreadInv
<1>7. PtrInv'
  BY <1>1, <1>2, <1>5 DEF PtrInv
<1>8. SerialInv'
  BY <1>1, Zenon DEF SerialInv
<1>9. JobsInv'
  BY <1>1, <1>2, <1>5 DEF JobsInv, JobInv
<1>10. ListInv'
  BY <1>1, <1>2, <1>5 DEF ListInv
<1>11. UseInv'
  BY <1>1, <1>2, <1>5 DEF UseInv
<1>12. CallerInv'
  BY <1>1, <1>2, <1>5 DEF CallerInv
<1>13. ContentInv'
  BY <1>1, <1>2, <1>5 DEF ContentInv
<1>14. KillInv'
  BY <1>1, Zenon DEF KillInv
<1> QED
  BY <1>6, <1>7, <1>8, <1>9, <1>10, <1>11, <1>12, <1>13, <1>14, Zenon

(* The last close: no thread is inside a call, so no transaction is in the *)
(* hands of one, and every transaction in flight is failed or answered.    *)
LEMMA LastCloseStep ==
    ASSUME Frame, Conduit, NEW t \in Threads, uvfsd_release_last(t),
           \A v \in Threads : v # t => tpc[v] = "closed"
    PROVE  Conduit'
<1>1. /\ UNCHANGED <<serial, in_use, abort, killed, at, ptr, hand, dangling>>
      /\ Uvfs_requests' = <<>> /\ Uvfs_replies' = <<>> /\ jobs' = {}
      /\ \A c \in Callers :
            /\ c \in Flushed => u'[c].tag = "EIO" /\ answered'[c] /\ ~asleep'[c]
            /\ c \notin Flushed => /\ u'[c] = u[c]
                                   /\ answered'[c] <=> answered[c]
                                   /\ asleep'[c] <=> asleep[c]
            /\ c \in outdated' <=> at[c] # "idle"
  BY Zenon DEF uvfsd_release_last, Frame, TypeOK, Content
<1>2. /\ \A v \in Threads : tpc[v] \in {"user", "closed"}
      /\ \A v \in Threads : tpc'[v] = "closed"
  BY Zenon DEF uvfsd_release_last, ReleaseOne, Frame, TypeOK
<1>3. \A v \in Threads : ptr[v] = NULL
  BY <1>2, Zenon DEF Frame, PointerInv, Copying
<1>4. \A v \in Threads : hand[v] = {} /\ v \notin dangling
  BY <1>2, <1>3, Zenon DEF Conduit, ThreadInv
<1>5. \A v \in Threads, c \in Callers : ptr[v] # c
  BY <1>3, DriverConstants, Zenon
<1>6. Req' = {} /\ Rep' = {} /\ Flushed = Req \cup Rep
  BY <1>1 DEF Req, Rep, Range, Flushed
<1>7. NoDup(Uvfs_requests') /\ NoDup(Uvfs_replies')
  BY <1>1 DEF NoDup
<1> USE DEF Conduit, Holds, InFlight, Copying, Live, Writing
<1>8. ThreadInv'
  BY <1>1, <1>2, <1>4, <1>5, Zenon DEF ThreadInv
<1>9. PtrInv'
  BY <1>1, <1>5, <1>6, <1>7, SMTT(30) DEF PtrInv
<1>10. SerialInv'
  BY <1>1, Zenon DEF SerialInv
<1>11. JobsInv'
  BY <1>1, <1>4, <1>5, Zenon DEF JobsInv, JobInv
<1>12. ListInv'
  BY <1>1, <1>5, <1>6, <1>7, SMTT(30) DEF ListInv
<1>13. UseInv'
  BY <1>1, <1>5, SMTT(30) DEF UseInv
<1>14. CallerInv'
  BY <1>1, <1>5, <1>6, SMTT(30) DEF CallerInv, ListInv
<1>15. ContentInv'
  BY <1>1, <1>5, <1>6, SMTT(30) DEF ContentInv, ListInv
<1>16. KillInv'
  BY <1>1, Zenon DEF KillInv
<1> QED
  BY <1>8, <1>9, <1>10, <1>11, <1>12, <1>13, <1>14, <1>15, <1>16, Zenon

-----------------------------------------------------------------------------
(* uvfsd_write matches the first transaction with the number of the job:   *)
(* it is the one the job was read from, and no other job or thread has it. *)
LEMMA WriteTakeStep ==
    ASSUME Frame, Conduit, NEW t \in Threads, NEW j \in jobs,
           write_take(t, j), NEW i \in DOMAIN Uvfs_replies,
           NEW c, c = Uvfs_replies[i], IsFirstMatch(i, j.serial),
           Uvfs_replies' = list_del_init(Uvfs_replies, c),
           in_use' = [in_use EXCEPT ![c] = TRUE],
           ptr' = [ptr EXCEPT ![t] = c]
    PROVE  Conduit'
<1>1. /\ c \in Callers /\ c \in Rep /\ serial[c] = j.serial
      /\ tpc[t] = "user" /\ tpc'[t] = "copying_in"
      /\ ptr[t] = NULL /\ ptr'[t] = c /\ hand'[t] = {j} /\ jobs' = jobs \ {j}
      /\ in_use'[c]
      /\ OthersSame(c) /\ OtherThreadsSame(t)
      /\ UNCHANGED <<Serial_number, serial, abort, answered, asleep, killed, at>>
      /\ UNCHANGED <<u, outdated, dangling>>
      /\ UNCHANGED Uvfs_requests
  <2>1. c \in Callers /\ c \in Rep
    BY SMTT(30) DEF Frame, TypeOK, Rep, Range
  <2>2. /\ tpc[t] = "user" /\ tpc' = [tpc EXCEPT ![t] = "copying_in"]
        /\ hand' = [hand EXCEPT ![t] = {j}] /\ jobs' = jobs \ {j}
        /\ UNCHANGED <<Serial_number, serial, abort, answered, asleep, killed>>
        /\ UNCHANGED <<at, u, outdated, dangling, Uvfs_requests>>
    BY Zenon DEF write_take, countVars, callerVars, histVars
  <2>3. ptr[t] = NULL
    BY <2>2, Zenon DEF Frame, PointerInv, Copying
  <2>4. in_use'[c] /\ OthersSame(c)
    BY <2>1, <2>2, Zenon DEF OthersSame, Frame, TypeOK
  <2>5. /\ OtherThreadsSame(t)
        /\ tpc'[t] = "copying_in" /\ ptr'[t] = c /\ hand'[t] = {j}
    BY <2>2, Zenon DEF OtherThreadsSame, Frame, TypeOK
  <2> QED
    BY <2>1, <2>2, <2>3, <2>4, <2>5, Zenon DEF IsFirstMatch
<1> USE DEF Conduit, Holds, InFlight, Copying, Live, Writing
<1>2. /\ InFlight(c) /\ ~answered[c] /\ Live(c) /\ c \notin Req
      /\ NoDup(Uvfs_requests) /\ NoDup(Uvfs_replies)
  BY <1>1, Zenon DEF ListInv
<1>3. Req' = Req /\ Rep' = Rep \ {c} /\ NoDup(Uvfs_replies')
  BY <1>1, <1>2, DeleteList, SMTT(30) DEF Frame, TypeOK, Req, Rep
<1>4. t \notin dangling /\ hand[t] = {}
  BY <1>1, Zenon DEF ThreadInv, Frame, PointerInv
<1>5. \A v \in Threads : ~Holds(v, c)
  BY <1>1, Zenon DEF JobsInv
<1>6. j.for = c /\ JobInv(j) /\ \A v \in Threads : j \notin hand[v]
  BY <1>1, <1>2, Zenon DEF JobsInv, JobInv
<1>7. /\ \A k \in jobs : k.serial = serial[c] => k = j
      /\ \A v \in Threads : \A k \in hand[v] : k.serial # serial[c]
  <2>1. \A k \in Job : k.serial = j.serial /\ k.for = j.for => k = j
    <3>1. j \in Job
      BY Zenon DEF Frame, TypeOK
    <3> QED
      BY <3>1, SMTT(30) DEF Job
  <2>2. /\ \A k \in jobs : k \in Job
        /\ \A v \in Threads : \A k \in hand[v] : k \in Job
    BY Zenon DEF Frame, TypeOK
  <2>3. /\ \A k \in jobs : k.serial = serial[c] => k.for = c
        /\ \A v \in Threads : \A k \in hand[v] : k.serial = serial[c] => k.for = c
    <3> HIDE DEF Conduit, Holds, InFlight, Copying, Live, Writing
    <3>1. \A k : JobInv(k) /\ k.serial = serial[c] => k.for = c
      BY <1>1, <1>2, Zenon DEF JobInv
    <3>2. /\ \A k \in jobs : JobInv(k)
          /\ \A v \in Threads : \A k \in hand[v] : JobInv(k)
      BY Zenon DEF Conduit, JobsInv
    <3> QED
      BY <3>1, <3>2, Zenon
  <2> QED
    BY <1>1, <1>6, <2>1, <2>2, <2>3, Zenon
<1>8. /\ \A v \in Threads \ {t}, d \in Callers : Holds(v, d)' <=> Holds(v, d)
      /\ \A d \in Callers : Holds(t, d)' <=> d = c
      /\ \A d \in Callers : ~Holds(t, d)
  BY <1>1, <1>4, DriverConstants, Zenon DEF OtherThreadsSame
<1>9. \A v \in Threads \ {t} :
         /\ tpc'[v] \in Copying <=> tpc[v] \in Copying
         /\ tpc'[v] = "copying_in" <=> tpc[v] = "copying_in"
  BY <1>1, Zenon DEF OtherThreadsSame
<1>10. \A d \in Callers : Writing(d)' <=> Writing(d) \/ d = c
  <2> HIDE DEF Holds, Copying
  <2>1. tpc'[t] = "copying_in"
    BY <1>1, Zenon
  <2> QED
    BY <1>8, <1>9, <2>1, Zenon
<1> HIDE DEF Holds
<1>11. ThreadInv'
  <2> SUFFICES ASSUME NEW v \in Threads
               PROVE  /\ v \in dangling' => ptr'[v] # NULL
                      /\ hand'[v] # {} => tpc'[v] \in {"returning", "copying_in"}
                      /\ tpc'[v] = "copying_in" => hand'[v] # {}
                      /\ tpc'[v] = "copying_out" => v \notin dangling'
                      /\ \A d \in Callers : Holds(v, d)' =>
                            \A k \in hand'[v] : k.serial = serial'[d] /\ k.for = d
    BY Zenon DEF ThreadInv
  <2>1. CASE v = t
    <3>1. /\ tpc'[t] = "copying_in" /\ hand'[t] = {j} /\ t \notin dangling'
          /\ serial'[c] = j.serial /\ j.for = c
      BY <1>1, <1>4, <1>6, Zenon
    <3>2. "copying_in" \in {"returning", "copying_in"} /\ {j} # {}
          /\ "copying_in" # "copying_out"
      OBVIOUS
    <3> QED
      BY <1>8, <2>1, <3>1, <3>2, Zenon
  <2>2. CASE v # t
    <3>1. /\ v \in Threads \ {t} /\ OtherThreadsSame(t) /\ UNCHANGED serial
          /\ \A d \in Callers : Holds(v, d)' => Holds(v, d)
      BY <1>1, <1>8, <2>2, Zenon
    <3> QED
      BY <3>1, OtherThread, ZenonT(30)
  <2> QED
    BY <2>1, <2>2, Zenon
<1>12. PtrInv'
  <2>1. \A v \in Threads \ {t} :
           /\ tpc'[v] = "copying_in" => tpc[v] = "copying_in"
           /\ tpc'[v] = "copying_out" => tpc[v] = "copying_out"
    BY <1>1, Zenon DEF OtherThreadsSame
  <2>2. UNCHANGED <<at, answered, outdated>> /\ tpc'[t] = "copying_in"
    BY <1>1, Zenon
  <2>3. \A v \in Threads : Holds(v, c)' => v = t
    BY <1>1, <1>5, <1>8, Zenon
  <2>4. \A v \in Threads, d \in Callers : Holds(v, d)' /\ v # t =>
           Holds(v, d) /\ d # c
    BY <1>5, <1>8, Zenon
  <2> SUFFICES ASSUME NEW v \in Threads, NEW d \in Callers, Holds(v, d)'
               PROVE  /\ (InFlight(d) \/ at[d] = "done")
                      /\ d \notin outdated
                      /\ at[d] = "done" => d \in Killable
                      /\ d \notin Req /\ ~answered[d]
                      /\ \A w \in Threads : Holds(w, d)' => w = v
                      /\ tpc'[v] = "copying_out" => d \in Rep'
                      /\ tpc'[v] = "copying_in" => d \notin Rep'
    BY <1>3, <2>2, Zenon DEF PtrInv
  <2>5. CASE v = t
    <3>1. d = c
      BY <1>8, <2>5, Zenon
    <3> QED
      BY <1>2, <1>3, <2>2, <2>3, <2>5, <3>1, Zenon
  <2>6. CASE v # t
    <3>1. Holds(v, d) /\ d # c
      BY <2>4, <2>6, Zenon
    <3>2. \A w \in Threads : Holds(w, d)' => Holds(w, d)
      BY <1>8, <3>1, Zenon
    <3> QED
      BY <1>3, <2>1, <2>6, <3>1, <3>2, Zenon DEF PtrInv
  <2> QED
    BY <2>5, <2>6, Zenon
<1>13. SerialInv'
  BY <1>1, Zenon DEF SerialInv
<1>14. JobsInv'
  <2>1. \A k : JobInv(k) => JobInv(k)'
    BY <1>1, <1>3, Zenon DEF JobInv
  <2>2. /\ hand'[t] = {j} /\ jobs' = jobs \ {j} /\ UNCHANGED serial
        /\ \A v \in Threads \ {t} : hand'[v] = hand[v]
    BY <1>1, Zenon DEF OtherThreadsSame
  <2>3. \A v \in Threads : \A k \in hand'[v] : JobInv(k)' /\ k \notin jobs'
    BY <1>6, <2>1, <2>2, SMTT(30) DEF JobsInv
  <2>4. \A v, w \in Threads : v # w => hand'[v] \cap hand'[w] = {}
    BY <1>6, <2>2, SMTT(30) DEF JobsInv
  <2>5. \A v \in Threads, d \in Callers : Holds(v, d)' =>
           \A k \in jobs' : k.serial # serial[d]
    BY <1>7, <1>8, <2>2, Zenon DEF JobsInv
  <2>6. \A v, w \in Threads, d \in Callers : Holds(v, d)' /\ w # v =>
           \A k \in hand'[w] : k.serial # serial[d]
    <3> SUFFICES ASSUME NEW v \in Threads, NEW w \in Threads,
                        NEW d \in Callers, Holds(v, d)', w # v,
                        NEW k \in hand'[w]
                 PROVE  k.serial # serial[d]
      BY Zenon
    <3>1. CASE v = t
      BY <1>7, <1>8, <2>2, <3>1, Zenon
    <3>2. CASE v # t /\ w = t
      <4>1. Holds(v, d) /\ k = j /\ j \in jobs
        BY <1>1, <1>8, <2>2, <3>2, Zenon
      <4> HIDE DEF Holds
      <4> QED
        BY <4>1, Zenon DEF JobsInv
    <3>3. CASE v # t /\ w # t
      <4>1. Holds(v, d) /\ k \in hand[w]
        BY <1>8, <2>2, <3>3, Zenon
      <4> HIDE DEF Holds
      <4> QED
        BY <4>1, Zenon DEF JobsInv
    <3> QED
      BY <3>1, <3>2, <3>3, Zenon
  <2>7. \A k \in jobs' : JobInv(k)'
    BY <2>1, <2>2, Zenon DEF JobsInv
  <2>8. /\ \A v \in Threads, d \in Callers : Holds(v, d)' =>
              \A k \in jobs' : k.serial # serial'[d]
        /\ \A v, w \in Threads, d \in Callers : Holds(v, d)' /\ w # v =>
              \A k \in hand'[w] : k.serial # serial'[d]
    BY <2>2, <2>5, <2>6, Zenon
  <2> QED
    BY <2>3, <2>4, <2>7, <2>8, Zenon DEF JobsInv
<1>15. ListInv'
  <2> HIDE DEF Writing
  <2> QED
    BY <1>1, <1>2, <1>3, <1>10, Zenon DEF ListInv
<1>16. UseInv'
  <2> HIDE DEF Holds
  <2> SUFFICES ASSUME NEW d \in Callers, at[d] # "idle"
               PROVE  in_use'[d] <=> \E v \in Threads :
                         Holds(v, d)' /\ tpc'[v] \in Copying
    BY <1>1, Zenon DEF UseInv
  <2>1. CASE d = c
    BY <1>1, <1>8, <2>1, Zenon
  <2>2. CASE d # c
    <3> HIDE DEF Copying
    <3>1. in_use'[d] <=> in_use[d]
      BY <1>1, <2>2, Zenon DEF OthersSame
    <3>2. in_use[d] <=> \E v \in Threads : Holds(v, d) /\ tpc[v] \in Copying
      BY Zenon DEF UseInv
    <3> QED
      BY <1>8, <1>9, <2>2, <3>1, <3>2, Zenon
  <2> QED
    BY <2>1, <2>2, Zenon
<1>17. CallerInv'
  <2>1. \A d \in Callers : in_use[d] => in_use'[d]
    BY <1>1, Zenon DEF OthersSame
  <2>2. \A v \in Threads, d \in Callers :
           Holds(v, d)' /\ tpc'[v] = "copying_out" =>
              Holds(v, d) /\ tpc[v] = "copying_out"
    BY <1>1, <1>8, Zenon DEF OtherThreadsSame
  <2>3. UNCHANGED <<abort, answered, asleep, killed, at>> /\ Req' = Req
    BY <1>1, <1>3, Zenon
  <2> QED
    BY <2>1, <2>2, <2>3, Zenon DEF CallerInv
<1>18. ContentInv'
  <2> HIDE DEF Writing
  <2>1. UNCHANGED <<at, answered, u>>
    BY <1>1, Zenon
  <2> QED
    BY <1>2, <1>10, <2>1, Zenon DEF ContentInv
<1>19. KillInv'
  BY <1>1, Zenon DEF KillInv
<1> QED
  BY <1>11, <1>12, <1>13, <1>14, <1>15, <1>16, <1>17, <1>18, <1>19, Zenon

(* A write that matches nothing drops the job.                             *)
LEMMA WriteUnmatchedStep ==
    ASSUME Frame, Conduit, NEW t \in Threads, NEW j \in jobs,
           write_unmatched(t, j)
    PROVE  Conduit'
<1>1. /\ jobs' = jobs \ {j}
      /\ UNCHANGED <<Serial_number, serial, in_use, abort, answered, asleep, killed>>
      /\ UNCHANGED <<at, u, tpc, ptr, hand, outdated, dangling>>
      /\ UNCHANGED <<Uvfs_requests, Uvfs_replies>>
  BY Zenon DEF write_unmatched, countVars, listVars, transVars, callerVars,
      threadVars, histVars
<1>2. Req' = Req /\ Rep' = Rep
  BY <1>1, Zenon DEF Req, Rep
<1>3. UNCHANGED <<serial, tpc, ptr, hand, dangling>>
  BY <1>1, Zenon
<1> USE DEF Conduit, Holds, InFlight, Copying, Live, Writing
<1>4. ThreadInv'
  BY <1>3, SMTT(30) DEF ThreadInv
<1>5. PtrInv'
  BY <1>1, <1>2, Zenon DEF PtrInv
<1>6. SerialInv'
  BY <1>1, <1>2, Zenon DEF SerialInv
<1>7. JobsInv'
  BY <1>1, <1>2, SMTT(30) DEF JobsInv, JobInv
<1>8. ListInv'
  BY <1>1, <1>2, SMTT(30) DEF ListInv
<1>9. UseInv'
  BY <1>1, <1>2, Zenon DEF UseInv
<1>10. CallerInv'
  BY <1>1, <1>2, Zenon DEF CallerInv
<1>11. ContentInv'
  BY <1>1, <1>2, Zenon DEF ContentInv
<1>12. KillInv'
  BY <1>1, Zenon DEF KillInv
<1> QED
  BY <1>4, <1>5, <1>6, <1>7, <1>8, <1>9, <1>10, <1>11, <1>12, Zenon

(* The copy in is over: the reply in the transaction is the one to its own *)
(* request, and its caller is awake.                                       *)
LEMMA WriteCopiedStep ==
    ASSUME Frame, Conduit, NEW t \in Threads, write_copied(t), ~tainted',
           NEW c, c = ptr[t]
    PROVE  Conduit'
<1>1. /\ c \in Callers /\ Holds(t, c)
      /\ tpc[t] = "copying_in" /\ tpc'[t] = "user"
      /\ u'[c].tag \in {"reply", "torn"} /\ \E j \in hand[t] : u'[c].for = j.for
      /\ ptr'[t] = NULL /\ hand'[t] = {} /\ t \notin dangling'
      /\ ~in_use'[c] /\ answered'[c] /\ ~asleep'[c]
      /\ OthersSame(c) /\ OtherThreadsSame(t)
      /\ UNCHANGED <<Serial_number, serial, abort, killed, at>>
      /\ UNCHANGED <<jobs, outdated, Uvfs_requests, Uvfs_replies>>
  <2>1. /\ tpc[t] = "copying_in" /\ t \notin dangling /\ c \in Callers
        /\ tpc' = [tpc EXCEPT ![t] = "user"]
        /\ ptr' = [ptr EXCEPT ![t] = NULL]
        /\ hand' = [hand EXCEPT ![t] = {}]
        /\ dangling' = dangling \ {t}
        /\ in_use' = [in_use EXCEPT ![c] = FALSE]
        /\ answered' = [answered EXCEPT ![c] = TRUE]
        /\ asleep' = [asleep EXCEPT ![c] = FALSE]
    BY Zenon DEF write_copied, EndUse, WakeCaller, Frame, TypeOK, PointerInv,
        Copying
  <2>2. PICK j \in hand[t] : \/ u' = [u EXCEPT ![c] = Content("reply", j.for)]
                             \/ u' = [u EXCEPT ![c] = Content("torn", j.for)]
    BY Zenon DEF write_copied
  <2>3. /\ u'[c].tag \in {"reply", "torn"} /\ u'[c].for = j.for
        /\ \A d \in Callers \ {c} : u'[d] = u[d]
    BY <2>1, <2>2, SMTT(30) DEF Frame, TypeOK, Content
  <2>4. UNCHANGED <<Serial_number, serial, abort, killed, at, jobs, outdated,
                    Uvfs_requests, Uvfs_replies>>
    BY Zenon DEF write_copied, countVars, listVars
  <2>5. OthersSame(c) /\ ~in_use'[c] /\ answered'[c] /\ ~asleep'[c]
    BY <2>1, <2>3, <2>4, Zenon DEF OthersSame, Frame, TypeOK
  <2>6. /\ OtherThreadsSame(t)
        /\ tpc'[t] = "user" /\ ptr'[t] = NULL /\ hand'[t] = {}
    BY <2>1, Zenon DEF OtherThreadsSame, Frame, TypeOK
  <2> QED
    BY <2>1, <2>3, <2>4, <2>5, <2>6, Zenon DEF Holds
<1>2. Req' = Req /\ Rep' = Rep
  BY <1>1, Zenon DEF Req, Rep
<1> USE DEF Conduit, Holds, InFlight, Copying, Live, Writing
<1>3. /\ InFlight(c) \/ at[c] = "done"
      /\ c \notin Req /\ c \notin Rep
      /\ \A v \in Threads : Holds(v, c) => v = t
  BY <1>1, Zenon DEF PtrInv
<1>4. u'[c].for = c
  <2>1. PICK j \in hand[t] : u'[c].for = j.for
    BY <1>1, Zenon
  <2> QED
    <3> HIDE DEF Conduit, Holds, InFlight, Copying, Live, Writing
    <3>1. ThreadInv
      BY Zenon DEF Conduit
    <3>2. \A d \in Callers : Holds(t, d) => \A k \in hand[t] : k.for = d
      BY <3>1, SMTT(30) DEF ThreadInv
    <3> QED
      BY <1>1, <2>1, <3>2, Zenon
<1>5. \A v \in Threads, d \in Callers : Holds(v, d)' <=> Holds(v, d) /\ v # t
  <2>1. \A d \in Callers : ~Holds(t, d)'
    BY <1>1, DriverConstants, Zenon
  <2>2. \A v \in Threads \ {t}, d \in Callers : Holds(v, d)' <=> Holds(v, d)
    BY <1>1, Zenon DEF OtherThreadsSame
  <2> QED
    BY <2>1, <2>2, Zenon
<1>6. dangling' \subseteq dangling
  BY Zenon DEF write_copied
<1>7. ThreadInv'
  <2> HIDE DEF Holds, InFlight, Copying, Live, Writing
  <2> SUFFICES ASSUME NEW v \in Threads
               PROVE  /\ v \in dangling' => ptr'[v] # NULL
                      /\ hand'[v] # {} => tpc'[v] \in {"returning", "copying_in"}
                      /\ tpc'[v] = "copying_in" => hand'[v] # {}
                      /\ tpc'[v] = "copying_out" => v \notin dangling'
                      /\ \A d \in Callers : Holds(v, d)' =>
                            \A k \in hand'[v] : k.serial = serial'[d] /\ k.for = d
    BY Zenon DEF ThreadInv
  <2>1. CASE v = t
    <3>1. tpc'[t] = "user" /\ hand'[t] = {} /\ t \notin dangling'
      BY <1>1, Zenon
    <3>2. "user" # "copying_in" /\ "user" # "copying_out"
      OBVIOUS
    <3> QED
      BY <1>5, <2>1, <3>1, <3>2, Zenon
  <2>2. CASE v # t
    <3>1. /\ v \in Threads \ {t} /\ OtherThreadsSame(t) /\ UNCHANGED serial
          /\ \A d \in Callers : Holds(v, d)' => Holds(v, d)
      BY <1>1, <1>5, <2>2, Zenon
    <3> QED
      BY <3>1, OtherThread, Zenon
  <2> QED
    BY <2>1, <2>2, Zenon
<1>8. PtrInv'
  <2> HIDE DEF Holds, InFlight, Copying, Live, Writing
  <2>1. \A v \in Threads \ {t} :
           /\ tpc'[v] = "copying_out" => tpc[v] = "copying_out"
           /\ tpc'[v] = "copying_in" => tpc[v] = "copying_in"
    BY <1>1, Zenon DEF OtherThreadsSame
  <2>2. \A d \in Callers \ {c} : answered'[d] <=> answered[d]
    BY <1>1, Zenon DEF OthersSame
  <2>3. \A v \in Threads, d \in Callers : Holds(v, d)' => d # c /\ v # t
    BY <1>3, <1>5, Zenon
  <2>4. /\ UNCHANGED <<at, outdated>>
        /\ \A d \in Callers : InFlight(d)' <=> InFlight(d)
    BY <1>1, Zenon DEF InFlight
  <2> QED
    BY <1>2, <1>5, <2>1, <2>2, <2>3, <2>4, Zenon DEF PtrInv
<1>9. SerialInv'
  BY <1>1, Zenon DEF SerialInv
<1>10. JobsInv'
  <2> HIDE DEF Holds
  <2>1. \A v \in Threads : hand'[v] = hand[v] \/ hand'[v] = {}
    BY <1>1, Zenon DEF OtherThreadsSame
  <2>2. /\ UNCHANGED <<serial, at, jobs, outdated, Serial_number>> /\ Req' = Req
        /\ \A v \in Threads, d \in Callers : Holds(v, d)' => Holds(v, d)
    BY <1>1, <1>2, <1>5, Zenon
  <2>3. \A k : JobInv(k) => JobInv(k)'
    BY <2>2, Zenon DEF JobInv
  <2>4. /\ \A j \in jobs : JobInv(j)
        /\ \A v \in Threads : \A j \in hand[v] : JobInv(j) /\ j \notin jobs
        /\ \A v, w \in Threads : v # w => hand[v] \cap hand[w] = {}
    BY Zenon DEF JobsInv
  <2>5. /\ \A v \in Threads, d \in Callers : Holds(v, d) =>
              \A j \in jobs : j.serial # serial[d]
        /\ \A v, w \in Threads, d \in Callers : Holds(v, d) /\ w # v =>
              \A j \in hand[w] : j.serial # serial[d]
    BY Zenon DEF JobsInv
  <2>6. /\ \A j \in jobs' : JobInv(j)'
        /\ \A v \in Threads : \A j \in hand'[v] : JobInv(j)' /\ j \notin jobs'
        /\ \A v, w \in Threads : v # w => hand'[v] \cap hand'[w] = {}
    <3>1. \A v \in Threads : \A j \in hand'[v] : j \in hand[v]
      BY <2>1, Zenon
    <3> QED
      BY <2>2, <2>3, <2>4, <3>1, Zenon
  <2>7. /\ \A v \in Threads, d \in Callers : Holds(v, d)' =>
              \A j \in jobs' : j.serial # serial'[d]
        /\ \A v, w \in Threads, d \in Callers : Holds(v, d)' /\ w # v =>
              \A j \in hand'[w] : j.serial # serial'[d]
    BY <2>1, <2>2, <2>5, Zenon
  <2> QED
    BY <2>6, <2>7, Zenon DEF JobsInv
<1>11. /\ \A v \in Threads \ {t} :
              /\ tpc'[v] \in Copying <=> tpc[v] \in Copying
              /\ tpc'[v] = "copying_in" <=> tpc[v] = "copying_in"
       /\ \A d \in Callers \ {c} : ~Holds(t, d)
  <2>1. \A v \in Threads \ {t} :
           /\ tpc'[v] \in Copying <=> tpc[v] \in Copying
           /\ tpc'[v] = "copying_in" <=> tpc[v] = "copying_in"
    BY <1>1, Zenon DEF OtherThreadsSame
  <2>2. \A d \in Callers \ {c} : ~Holds(t, d)
    BY <1>1, Zenon
  <2> QED
    BY <2>1, <2>2, Zenon
<1>12. ListInv'
  <2> HIDE DEF Holds, Copying
  <2>1. \A d \in Callers \ {c} : Writing(d) => Writing(d)'
    BY <1>5, <1>11, Zenon
  <2>2. \A d \in Callers \ {c} : answered'[d] <=> answered[d]
    BY <1>1, Zenon DEF OthersSame
  <2> HIDE DEF Writing
  <2> SUFFICES ASSUME NEW d \in Callers
               PROVE  /\ d \notin Req \/ d \notin Rep
                      /\ d \in Req \/ d \in Rep =>
                            InFlight(d)' /\ ~answered'[d] /\ d \notin outdated
                      /\ InFlight(d)' /\ ~answered'[d] =>
                            d \in Req \/ d \in Rep \/ Writing(d)'
    BY <1>1, <1>2, Zenon DEF ListInv
  <2>3. CASE d = c
    BY <1>1, <1>3, <2>3, Zenon
  <2>4. CASE d # c
    BY <1>1, <2>1, <2>2, <2>4, Zenon DEF ListInv
  <2> QED
    BY <2>3, <2>4, Zenon
<1>13. UseInv'
  <2> HIDE DEF Holds, Copying
  <2> SUFFICES ASSUME NEW d \in Callers, at[d] # "idle"
               PROVE  in_use'[d] <=> \E v \in Threads :
                         Holds(v, d)' /\ tpc'[v] \in Copying
    BY <1>1, Zenon DEF UseInv
  <2>1. CASE d = c
    BY <1>1, <1>3, <1>5, <2>1, Zenon
  <2>2. CASE d # c
    <3>1. in_use'[d] <=> in_use[d]
      BY <1>1, <2>2, Zenon DEF OthersSame
    <3>2. in_use[d] <=> \E v \in Threads : Holds(v, d) /\ tpc[v] \in Copying
      BY Zenon DEF UseInv
    <3> QED
      BY <1>5, <1>11, <2>2, <3>1, <3>2, Zenon
  <2> QED
    BY <2>1, <2>2, Zenon
<1>14. CallerInv'
  <2> HIDE DEF Holds
  <2>1. \A d \in Callers : (asleep'[d] => asleep[d] /\ (in_use[d] => in_use'[d])
                                             /\ (~answered[d] => ~answered'[d]))
    BY <1>1, Zenon DEF OthersSame
  <2>2. \A d \in Callers : answered[d] => answered'[d]
    BY <1>1, Zenon DEF OthersSame
  <2>3. \A v \in Threads, d \in Callers : Holds(v, d)' =>
           Holds(v, d) /\ (tpc'[v] = "copying_out" => tpc[v] = "copying_out")
    BY <1>1, <1>5, Zenon DEF OtherThreadsSame
  <2>4. UNCHANGED <<killed, at, abort>> /\ Req' = Req
    BY <1>1, <1>2, Zenon
  <2> QED
    BY <2>1, <2>2, <2>3, <2>4, Zenon DEF CallerInv
<1>15. ContentInv'
  <2> HIDE DEF Holds
  <2>1. \A v \in Threads : tpc'[v] = "copying_in" => tpc[v] = "copying_in"
    BY <1>1, Zenon DEF OtherThreadsSame
  <2>2. \A d \in Callers : Writing(d)' => Writing(d) /\ d # c
    BY <1>3, <1>5, <2>1, Zenon
  <2> HIDE DEF Writing
  <2>3. \A d \in Callers \ {c} : u'[d] = u[d] /\ (answered'[d] <=> answered[d])
    BY <1>1, Zenon DEF OthersSame
  <2>4. UNCHANGED at /\ u'[c].tag \in {"reply", "torn"} /\ answered'[c]
    BY <1>1, Zenon
  <2> QED
    BY <1>3, <1>4, <2>2, <2>3, <2>4, SMTT(30) DEF ContentInv
<1>16. KillInv'
  BY <1>1, <1>6, Zenon DEF KillInv
<1> QED
  BY <1>7, <1>8, <1>9, <1>10, <1>12, <1>13, <1>14, <1>15, <1>16, Zenon

=============================================================================
