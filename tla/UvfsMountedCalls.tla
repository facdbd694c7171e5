------------------------- MODULE UvfsMountedCalls --------------------------
(***************************************************************************)
(* What the steps of UvfsMounted do to a task, and three parts of OpsInv:  *)
(* CallInv, that transactions belong to requests under way, ModeInv, that  *)
(* the mode of an inode is that of attr_uid, and ListInv, that a listing   *)
(* has what is before f_pos.                                               *)
(***************************************************************************)
EXTENDS UvfsMountedInv, TLAPS

\* Nothing happens to task v.
Same(v) ==
    /\ status'[v] = status[v] /\ result'[v] = result[v]
    /\ op'[v] = op[v] /\ reply'[v] = reply[v]

Others(t) == \A v \in Tasks \ {t} : Same(v)

-----------------------------------------------------------------------------
(* What the steps that operations are made of do to a task.                *)
LEMMA SetFacts ==
    ASSUME Functions, NEW t \in Tasks, NEW s, NEW r, Conduit!Set(t, s, r)
    PROVE  /\ status' = [v \in Tasks |-> status'[v]]
           /\ result' = [v \in Tasks |-> result'[v]]
           /\ status'[t] = s /\ result'[t] = r
           /\ \A v \in Tasks \ {t} :
                status'[v] = status[v] /\ result'[v] = result[v]
<1>1. status' = [status EXCEPT ![t] = s] /\ result' = [result EXCEPT ![t] = r]
  BY Zenon DEF Conduit!Set
<1>2. DOMAIN status = Tasks /\ DOMAIN result = Tasks
  BY Zenon DEF Functions
<1> QED
  BY <1>1, <1>2, Zenon

LEMMA ExceptFacts ==
    ASSUME Functions, NEW t \in Tasks, NEW o, op' = [op EXCEPT ![t] = o]
    PROVE  /\ op' = [v \in Tasks |-> op'[v]] /\ op'[t] = o
           /\ \A v \in Tasks \ {t} : op'[v] = op[v]
  BY Zenon DEF Functions

LEMMA ReplyFacts ==
    ASSUME Functions, NEW t \in Tasks, NEW r, reply' = [reply EXCEPT ![t] = r]
    PROVE  /\ reply' = [v \in Tasks |-> reply'[v]] /\ reply'[t] = r
           /\ \A v \in Tasks \ {t} : reply'[v] = reply[v]
  BY Zenon DEF Functions

LEMMA BeginFacts ==
    ASSUME CallInv, NEW t \in Tasks, NEW o, begin(t, o)
    PROVE  /\ Functions' /\ Others(t) /\ status[t] = "free"
           /\ status'[t] = "built" /\ result'[t] = "none" /\ op'[t] = o
<1>1. Functions /\ reply' = reply
  BY Zenon DEF CallInv, begin
<1>2. status[t] = "free" /\ Conduit!Set(t, "built", "none")
  BY Zenon DEF begin, Conduit!allocate
<1>3. op' = [op EXCEPT ![t] = o]
  BY Zenon DEF begin
<1>4. /\ status' = [v \in Tasks |-> status'[v]]
      /\ result' = [v \in Tasks |-> result'[v]]
      /\ \A v \in Tasks \ {t} :
            status'[v] = status[v] /\ result'[v] = result[v]
      /\ status'[t] = "built" /\ result'[t] = "none"
  BY <1>1, <1>2, SetFacts, Zenon
<1>5. /\ op' = [v \in Tasks |-> op'[v]] /\ op'[t] = o
      /\ \A v \in Tasks \ {t} : op'[v] = op[v]
  BY <1>1, <1>3, ExceptFacts, Zenon
<1> QED
  BY <1>1, <1>2, <1>4, <1>5, Zenon DEF Functions, Others, Same

LEMMA FinishFacts ==
    ASSUME CallInv, NEW t \in Tasks, NEW o, finish(t, o)
    PROVE  /\ Functions' /\ Others(t) /\ status[t] = "returned"
           /\ status'[t] = "free" /\ result'[t] = "none" /\ op'[t] = o
<1>1. Functions
  BY Zenon DEF CallInv
<1>2. status[t] = "returned" /\ Conduit!Set(t, "free", "none")
  BY Zenon DEF finish, Conduit!free
<1>3. op' = [op EXCEPT ![t] = o] /\ reply' = [reply EXCEPT ![t] = NULL]
  BY Zenon DEF finish
<1>4. /\ status' = [v \in Tasks |-> status'[v]]
      /\ result' = [v \in Tasks |-> result'[v]]
      /\ \A v \in Tasks \ {t} :
            status'[v] = status[v] /\ result'[v] = result[v]
      /\ status'[t] = "free" /\ result'[t] = "none"
  BY <1>1, <1>2, SetFacts, Zenon
<1>5. /\ op' = [v \in Tasks |-> op'[v]] /\ op'[t] = o
      /\ \A v \in Tasks \ {t} : op'[v] = op[v]
  BY <1>1, <1>3, ExceptFacts, Zenon
<1>6. /\ reply' = [v \in Tasks |-> reply'[v]]
      /\ \A v \in Tasks \ {t} : reply'[v] = reply[v]
  BY <1>1, <1>3, ReplyFacts, Zenon
<1> QED
  BY <1>2, <1>4, <1>5, <1>6, Zenon DEF Functions, Others, Same

\* A step of an operation between its requests.
Local(t, o) ==
    op' = [op EXCEPT ![t] = o] /\ UNCHANGED <<conduitVars, reply>>

LEMMA LocalFacts ==
    ASSUME CallInv, NEW t \in Tasks, NEW o, Local(t, o)
    PROVE  /\ Functions' /\ Others(t) /\ op'[t] = o
           /\ status'[t] = status[t] /\ result'[t] = result[t]
           /\ reply'[t] = reply[t]
  BY Zenon DEF CallInv, Functions, Others, Same, Local, conduitVars

LEMMA ServeFacts ==
    ASSUME CallInv, NEW t \in Tasks, NEW r, serve(t, r)
    PROVE  /\ Functions' /\ Others(t) /\ op' = op
           /\ status[t] # "free" /\ result'[t] = "reply" /\ reply'[t] = r
<1>1. Functions /\ op' = op
  BY Zenon DEF CallInv, serve
<1>2. PICK s : status[t] # "free" /\ Conduit!Set(t, s, "reply")
  BY Zenon DEF serve, Conduit!answer, Conduit!late, Conduit!Replies
<1>3. reply' = [reply EXCEPT ![t] = r]
  BY Zenon DEF serve
<1>4. /\ status' = [v \in Tasks |-> status'[v]]
      /\ result' = [v \in Tasks |-> result'[v]]
      /\ \A v \in Tasks \ {t} :
            status'[v] = status[v] /\ result'[v] = result[v]
      /\ result'[t] = "reply"
  BY <1>1, <1>2, SetFacts, Zenon
<1>5. /\ reply' = [v \in Tasks |-> reply'[v]] /\ reply'[t] = r
      /\ \A v \in Tasks \ {t} : reply'[v] = reply[v]
  BY <1>1, <1>3, ReplyFacts, Zenon
<1> QED
  BY <1>1, <1>2, <1>4, <1>5, Zenon DEF Functions, Others, Same

\* A step of the conduit that brings no reply.
ConduitStep ==
    \/ serve_close
    \/ \E t \in Tasks : \/ make_request(t) \/ make_request_killed(t)
                        \/ serve_take(t)

LEMMA ConduitFacts ==
    ASSUME CallInv, ConduitStep
    PROVE  /\ Functions' /\ op' = op /\ reply' = reply
           /\ \A v \in Tasks :
                /\ result'[v] \in {result[v], "none", "EIO", "ERESTARTSYS"}
                /\ status[v] = "free" => status'[v] = "free"
                /\ status'[v] \in {"decided", "returned"} =>
                      result'[v] # "none"
<1>1. CASE serve_close
  BY <1>1, Zenon DEF CallInv, Functions, serve_close, Conduit!close, Conduit!Pending
<1>2. ASSUME NEW t \in Tasks,
             \/ make_request(t) \/ make_request_killed(t) \/ serve_take(t)
      PROVE  /\ Functions' /\ op' = op /\ reply' = reply
             /\ \A v \in Tasks :
                  /\ result'[v] \in {result[v], "none", "EIO", "ERESTARTSYS"}
                  /\ status[v] = "free" => status'[v] = "free"
                  /\ status'[v] \in {"decided", "returned"} =>
                        result'[v] # "none"
  <2>1. Functions /\ op' = op /\ reply' = reply
    BY <1>2, Zenon DEF CallInv, make_request, make_request_killed, serve_take
  <2>2. /\ status[t] # "free"
        /\ \/ Conduit!Set(t, "returned", "EIO")
           \/ Conduit!Set(t, "returned", "ERESTARTSYS")
           \/ status[t] = "decided" /\ Conduit!Set(t, "returned", result[t])
           \/ Conduit!Set(t, "queued", "none")
           \/ Conduit!Set(t, "taken", "none")
    BY <1>2, Zenon DEF make_request, make_request_killed, serve_take,
        Conduit!refuse, Conduit!queue, Conduit!return, Conduit!abort,
        Conduit!take
  <2>3. PICK s, r : /\ Conduit!Set(t, s, r)
                    /\ r \in {result[t], "none", "EIO", "ERESTARTSYS"}
                    /\ s \in {"decided", "returned"} => r # "none"
    BY <2>2 DEF CallInv
  <2> QED
    BY <2>1, <2>2, <2>3, SetFacts DEF CallInv, Functions
<1> QED
  BY <1>1, <1>2, Zenon DEF ConduitStep


\* The fields of what operations keep and replies carry.
LEMMA RecordFields ==
    /\ \A o, h : /\ Dentry(o, h).kind = "found" /\ Dentry(o, h).want = o
                  /\ Dentry(o, h).inode = h
    /\ \A x : Error(x).kind = "failed" /\ Error(x).error = x
    /\ \A x : Success(x).error = "none" /\ Success(x).value = x
    /\ \A x : Failure(x).error = x
  BY Zenon DEF Dentry, Error, Success, Failure

-----------------------------------------------------------------------------
(* CallInv, by the kind of step.                                           *)

\* The directory's mutex goes with the operation o that task t goes on as.
MutexFollows(t, o) ==
    /\ i_mutex' = t <=> o.kind = "readdir"
    /\ \A v \in Tasks \ {t} : i_mutex' = v <=> i_mutex = v

LEMMA TaskCall ==
    ASSUME CallInv, NEW t \in Tasks, NEW o, Functions', Others(t), op'[t] = o,
           result'[t] \in {"none", "reply", "EIO", "ERESTARTSYS"},
           status'[t] \in {"decided", "returned"} => result'[t] # "none",
           o.kind \in Outside => status'[t] = "free", MutexFollows(t, o)
    PROVE  CallInv'
<1> SUFFICES ASSUME NEW v \in Tasks
             PROVE  /\ result'[v] \in {"none", "reply", "EIO", "ERESTARTSYS"}
                    /\ status'[v] \in {"decided", "returned"} =>
                          result'[v] # "none"
                    /\ op'[v].kind \in Outside => status'[v] = "free"
                    /\ i_mutex' = v <=> op'[v].kind = "readdir"
  BY Zenon DEF CallInv
<1>1. CASE v = t
  BY <1>1, Zenon DEF MutexFollows
<1>2. CASE v # t
  BY <1>2, Zenon DEF CallInv, Others, Same, MutexFollows
<1> QED
  BY <1>1, <1>2, Zenon

LEMMA BeginCall ==
    ASSUME CallInv, NEW t \in Tasks, NEW o, begin(t, o), o.kind \notin Outside,
           MutexFollows(t, o)
    PROVE  CallInv'
  BY BeginFacts, TaskCall, Zenon

LEMMA FinishCall ==
    ASSUME CallInv, NEW t \in Tasks, NEW o, finish(t, o), MutexFollows(t, o)
    PROVE  CallInv'
  BY FinishFacts, TaskCall, Zenon

LEMMA LocalCall ==
    ASSUME CallInv, NEW t \in Tasks, NEW o, Local(t, o),
           o.kind \in Outside => status[t] = "free", MutexFollows(t, o)
    PROVE  CallInv'
<1>1. /\ result[t] \in {"none", "reply", "EIO", "ERESTARTSYS"}
      /\ status[t] \in {"decided", "returned"} => result[t] # "none"
  BY Zenon DEF CallInv
<1> QED
  BY <1>1, LocalFacts, TaskCall, Zenon

LEMMA ServeCall ==
    ASSUME CallInv, NEW t \in Tasks, NEW r, serve(t, r), i_mutex' = i_mutex
    PROVE  CallInv'
<1>1. /\ Functions' /\ Others(t) /\ op'[t] = op[t] /\ result'[t] = "reply"
      /\ status[t] # "free"
  BY ServeFacts, Zenon
<1>2. op[t].kind \notin Outside /\ MutexFollows(t, op[t])
  BY <1>1, Zenon DEF CallInv, MutexFollows
<1> QED
  BY <1>1, <1>2, TaskCall, Zenon

LEMMA ConduitCall ==
    ASSUME CallInv, ConduitStep, i_mutex' = i_mutex
    PROVE  CallInv'
  BY ConduitFacts, Zenon DEF CallInv

\* Nothing happens to any task.
LEMMA StillCall ==
    ASSUME CallInv, UNCHANGED <<conduitVars, op, reply, i_mutex>>
    PROVE  CallInv'
  BY Zenon DEF CallInv, Functions, conduitVars

\* Outside uvfs_readdir the mutex is not touched.
LEMMA MutexKept ==
    ASSUME CallInv, NEW t \in Tasks, NEW o, i_mutex' = i_mutex,
           op[t].kind # "readdir", o.kind # "readdir"
    PROVE  MutexFollows(t, o)
  BY Zenon DEF CallInv, MutexFollows

LEMMA ReaddirCall ==
    ASSUME CallInv, ReaddirNext
    PROVE  CallInv'
<1> USE DEF Idle, Readdir
<1>1. ASSUME NEW t \in Tasks, vfs_readdir(t)
      PROVE  CallInv'
  <2>1. /\ i_mutex = NULL /\ i_mutex' = t
        /\ \E room \in Rooms : begin(t, Readdir(room, <<>>))
    BY <1>1, Zenon DEF vfs_readdir
  <2>2. PICK room \in Rooms : begin(t, Readdir(room, <<>>))
    BY <2>1, Zenon
  <2>3. MutexFollows(t, Readdir(room, <<>>))
    BY <2>1, OpsConstants, Zenon DEF MutexFollows
  <2>4. Readdir(room, <<>>).kind \notin Outside
    BY Zenon DEF Outside
  <2> QED
    BY <2>2, <2>3, <2>4, BeginCall, Zenon
<1>2. ASSUME NEW t \in Tasks, serve_readdir(t) \/ serve_readdir_error(t)
      PROVE  CallInv'
  BY <1>2, ServeCall, Zenon DEF serve_readdir, serve_readdir_error, readdirVars,
      listVars
\* The call returns: the mutex is released.
<1>3. ASSUME NEW t \in Tasks, op[t].kind = "readdir", i_mutex' = NULL
      PROVE  MutexFollows(t, Idle)
  BY <1>3, OpsConstants, Zenon DEF MutexFollows, CallInv
<1>4. ASSUME NEW t \in Tasks, readdir_error(t) \/ readdir_end(t)
      PROVE  CallInv'
  <2>1. op[t].kind = "readdir" /\ i_mutex' = NULL /\ finish(t, Idle)
    BY <1>4, Zenon DEF readdir_error, readdir_end, ReturnError, Return0, FreeAtEnd
  <2> QED
    BY <2>1, <1>3, FinishCall, Zenon
<1>5. ASSUME NEW t \in Tasks, readdir_nomem(t)
      PROVE  CallInv'
  <2>1. /\ op[t].kind = "readdir" /\ i_mutex' = NULL /\ status[t] = "free"
        /\ Local(t, Idle)
    BY <1>5, Zenon DEF readdir_nomem, ReturnError, Local
  <2> QED
    BY <2>1, <1>3, LocalCall, Zenon
<1>6. ASSUME NEW t \in Tasks, readdir_fill(t)
      PROVE  CallInv'
  <2>1. /\ op[t].kind = "readdir"
        /\ \/ finish(t, Idle) /\ i_mutex' = NULL
           \/ /\ \E room, filled : finish(t, Readdir(room, filled))
              /\ i_mutex' = i_mutex
    BY <1>6, Zenon DEF readdir_fill, Return0
  <2>2. CASE finish(t, Idle) /\ i_mutex' = NULL
    BY <2>1, <2>2, <1>3, FinishCall, Zenon
  <2>3. ASSUME NEW room, NEW filled, finish(t, Readdir(room, filled)),
               i_mutex' = i_mutex
        PROVE  CallInv'
    <3>1. MutexFollows(t, Readdir(room, filled))
      BY <2>1, <2>3, Zenon DEF MutexFollows, CallInv
    <3> QED
      BY <2>3, <3>1, FinishCall, Zenon
  <2> QED
    BY <2>1, <2>2, <2>3, Zenon
<1>7. ASSUME NEW t \in Tasks, readdir_more(t)
      PROVE  CallInv'
  <2>1. op[t].kind = "readdir" /\ begin(t, op[t]) /\ i_mutex' = i_mutex
    BY <1>7, Zenon DEF readdir_more, readdirVars, listVars
  <2>2. MutexFollows(t, op[t]) /\ op[t].kind \notin Outside
    BY <2>1, Zenon DEF MutexFollows, CallInv, Outside
  <2> QED
    BY <2>1, <2>2, BeginCall, Zenon
<1>8. ASSUME NEW x \in Indices, RemoteEntry(x)
      PROVE  CallInv'
  BY <1>8, StillCall, Zenon DEF RemoteEntry, listVars
<1>9. CASE rewinddir
  BY <1>9, StillCall, Zenon DEF rewinddir
<1> QED
  BY <1>1, <1>2, <1>4, <1>5, <1>6, <1>7, <1>8, <1>9, Zenon
     DEF ReaddirNext, readdir_step

-----------------------------------------------------------------------------
(* The operations of a module, as steps of a task.                         *)

Move(t, o) ==
    /\ o.kind = "none" => o = Idle
    /\ \/ begin(t, o) /\ o.kind \notin Outside
       \/ finish(t, o)
       \/ /\ Local(t, o)
          /\ o.kind \in Outside => op[t].kind \in Outside \/ status[t] = "free"

\* A step of a task in operations of these kinds, of the server, or of none.
Moves(kinds) ==
    \/ \E t \in Tasks : \E o :
          Move(t, o) /\ op[t].kind \in kinds /\ o.kind \in kinds
    \/ \E t \in Tasks : \E r : op[t].kind \in kinds /\ serve(t, r)
    \/ UNCHANGED <<conduitVars, op, reply>>

ReaddirKinds == {"none", "readdir"}

ExportKinds == Requests \cup {"none", "found", "failed", "walking"}

LEMMA ReaddirMoves ==
    ASSUME ReaddirNext
    PROVE  Moves(ReaddirKinds)
<1> USE DEF Idle, Readdir, ReaddirKinds
<1>1. ASSUME NEW t \in Tasks, NEW o, Move(t, o), op[t].kind \in ReaddirKinds,
             o.kind \in ReaddirKinds
      PROVE  Moves(ReaddirKinds)
  BY <1>1, Zenon DEF Moves
<1>2. ASSUME NEW t \in Tasks, vfs_readdir(t)
      PROVE  Moves(ReaddirKinds)
  <2>1. PICK room \in Rooms : begin(t, Readdir(room, <<>>))
    BY <1>2, Zenon DEF vfs_readdir
  <2>2. op[t].kind = "none" /\ Move(t, Readdir(room, <<>>))
    BY <1>2, <2>1 DEF vfs_readdir, Move, Outside
  <2> QED
    BY <2>2, <1>1, Zenon
<1>3. ASSUME NEW t \in Tasks, serve_readdir(t) \/ serve_readdir_error(t)
      PROVE  Moves(ReaddirKinds)
  <2>1. op[t].kind = "readdir" /\ \E r : serve(t, r)
    BY <1>3, Zenon DEF serve_readdir, serve_readdir_error
  <2>2. op[t].kind \in ReaddirKinds
    BY <2>1, Zenon
  <2> HIDE DEF ReaddirKinds
  <2> QED
    BY <2>1, <2>2, Zenon DEF Moves
<1>4. ASSUME NEW t \in Tasks, readdir_error(t) \/ readdir_end(t)
      PROVE  Moves(ReaddirKinds)
  <2>1. op[t].kind = "readdir" /\ Move(t, Idle)
    BY <1>4, Zenon DEF readdir_error, readdir_end, FreeAtEnd, Move
  <2> QED
    BY <2>1, <1>1, Zenon
<1>5. ASSUME NEW t \in Tasks, readdir_fill(t)
      PROVE  Moves(ReaddirKinds)
  <2>1. /\ op[t].kind = "readdir"
        /\ \/ Move(t, Idle)
           \/ \E room, filled : Move(t, Readdir(room, filled))
    BY <1>5, Zenon DEF readdir_fill, Move
  <2>2. ASSUME NEW room, NEW filled, Move(t, Readdir(room, filled))
        PROVE  Moves(ReaddirKinds)
    BY <2>1, <2>2, <1>1, Zenon
  <2>3. CASE Move(t, Idle)
    BY <2>1, <2>3, <1>1, Zenon
  <2> QED
    BY <2>1, <2>2, <2>3, Zenon
<1>6. ASSUME NEW t \in Tasks, readdir_more(t)
      PROVE  Moves(ReaddirKinds)
  <2>1. op[t].kind = "readdir" /\ Move(t, op[t])
    BY <1>6, Zenon DEF readdir_more, Move, Outside
  <2> QED
    BY <2>1, <1>1, Zenon
<1>7. ASSUME NEW t \in Tasks, readdir_nomem(t)
      PROVE  Moves(ReaddirKinds)
  <2>1. op[t].kind = "readdir" /\ Move(t, Idle)
    BY <1>7, Zenon DEF readdir_nomem, Move, Local
  <2> QED
    BY <2>1, <1>1, Zenon
<1>8. ASSUME NEW e \in Indices, RemoteEntry(e)
      PROVE  Moves(ReaddirKinds)
  BY <1>8, Zenon DEF RemoteEntry, Moves
<1>9. CASE rewinddir
  BY <1>9, Zenon DEF rewinddir, Moves
<1> QED
  BY <1>2, <1>3, <1>4, <1>5, <1>6, <1>7, <1>8, <1>9, Zenon
     DEF ReaddirNext, readdir_step

PermissionKinds ==
    {"none", "getattr", "refreshing", "entered", "permission", "checking",
     "decided"}

\* A check or a refresh is a step of a task, but for the first store of a
\* refresh, which all that are refreshing notice.
LEMMA PermissionMoves ==
    ASSUME PermissionNext
    PROVE  Moves(PermissionKinds) \/ \E t \in Tasks : refresh_mode(t)
<1> USE DEF Idle, PermissionKinds, Check
<1>1. ASSUME NEW t \in Tasks, NEW o, Move(t, o), op[t].kind \in PermissionKinds,
             o.kind \in PermissionKinds
      PROVE  Moves(PermissionKinds)
  BY <1>1, Zenon DEF Moves
<1>2. ASSUME NEW t \in Tasks, uvfs_revalidate_inode(t)
      PROVE  Moves(PermissionKinds)
  <2>1. op[t].kind = "none" /\ Move(t, [kind |-> "getattr"])
    BY <1>2 DEF uvfs_revalidate_inode, Move, Outside
  <2> QED
    BY <2>1, <1>1
<1>3. ASSUME NEW t \in Tasks, NEW mask \in Masks, permission_enter(t, mask)
      PROVE  Moves(PermissionKinds)
  <2>1. op[t].kind = "none" /\ Move(t, Check("entered", mask, i_mode))
    BY <1>3 DEF permission_enter, Local, Move, Outside
  <2> QED
    BY <2>1, <1>1
<1>4. ASSUME NEW t \in Tasks, serve_getattr(t)
      PROVE  Moves(PermissionKinds)
  <2>1. op[t].kind \in PermissionKinds /\ \E r : serve(t, r)
    BY <1>4 DEF serve_getattr
  <2> HIDE DEF PermissionKinds
  <2> QED
    BY <2>1, Zenon DEF Moves
<1>5. ASSUME NEW t \in Tasks, refresh_owner(t) \/ permission_error(t)
      PROVE  Moves(PermissionKinds)
  <2>1. op[t].kind \in PermissionKinds /\ Move(t, Idle)
    BY <1>5 DEF refresh_owner, permission_error, Move
  <2> QED
    BY <2>1, <1>1
<1>6. ASSUME NEW t \in Tasks, permission_check(t)
      PROVE  Moves(PermissionKinds)
  <2>1. /\ op[t].kind = "entered"
        /\ \/ Move(t, Check("checking", op[t].mask, op[t].mode))
           \/ Move(t, Check("permission", op[t].mask, op[t].mode))
    BY <1>6 DEF permission_check, Local, Move, Outside
  <2> QED
    BY <2>1, <1>1
<1>7. ASSUME NEW t \in Tasks, permission_nomem(t) \/ permission_return(t)
      PROVE  Moves(PermissionKinds)
  <2>1. op[t].kind \in PermissionKinds \cap Outside /\ Move(t, Idle)
    BY <1>7 DEF permission_nomem, permission_return, Local, Move, Outside
  <2> QED
    BY <2>1, <1>1
<1>8. ASSUME NEW t \in Tasks, permission_reply(t)
      PROVE  Moves(PermissionKinds)
  <2>1. /\ op[t].kind = "permission"
        /\ Move(t, Check("checking", op[t].mask,
                         ModeFor(UserOf[t], reply[t].value)))
    BY <1>8 DEF permission_reply, Move
  <2> QED
    BY <2>1, <1>1
<1>9. ASSUME NEW t \in Tasks, permission_decide(t)
      PROVE  Moves(PermissionKinds)
  <2>1. PICK e : Local(t, Decided(op[t].mode, e)) /\ op[t].kind = "checking"
    BY <1>9, Zenon DEF permission_decide, Local
  <2>2. Move(t, Decided(op[t].mode, e))
    BY <2>1 DEF Decided, Move, Outside
  <2> QED
    BY <2>1, <2>2, <1>1 DEF Decided
<1>10. ASSUME NEW u \in Users, NEW a \in Attributes, RemoteMode(u, a)
       PROVE  Moves(PermissionKinds)
  BY <1>10, Zenon DEF RemoteMode, Moves
<1> QED
  BY <1>2, <1>3, <1>4, <1>5, <1>6, <1>7, <1>8, <1>9, <1>10, Zenon
     DEF PermissionNext, permission_step

LEMMA ExportMoves ==
    ASSUME ExportNext \/ LinkNext \/ AnswerNext
    PROVE  Moves(ExportKinds)
<1> USE DEF Idle, ExportKinds
<1>1. ASSUME NEW t \in Tasks, NEW o, Move(t, o), op[t].kind \in ExportKinds,
             o.kind \in ExportKinds
      PROVE  Moves(ExportKinds)
  BY <1>1, Zenon DEF Moves
\* A request is made.
<1>2. ASSUME NEW t \in Tasks, NEW o, begin(t, o), op[t] = Idle,
             o.kind \in Requests
      PROVE  Moves(ExportKinds)
  <2>1. Move(t, o) /\ op[t].kind = "none"
    BY <1>2 DEF Move, Requests, Outside
  <2> QED
    BY <2>1, <1>1, <1>2, Zenon
<1>3. ASSUME NEW t \in Tasks, uvfs_read_super(t)
      PROVE  Moves(ExportKinds)
  BY <1>3, <1>2, Zenon DEF uvfs_read_super, Requests
<1>4. ASSUME NEW t \in Tasks, NEW o \in Objects,
             lookup(t, o) \/ uvfs_get_parent(t, o)
      PROVE  Moves(ExportKinds)
  BY <1>4, <1>2, Zenon DEF lookup, uvfs_get_parent, Start, Requests
<1>5. ASSUME NEW t \in Tasks, NEW h, NEW o, uvfs_get_dentry(t, h, o)
      PROVE  Moves(ExportKinds)
  <2>1. /\ op[t] = Idle
        /\ \/ begin(t, [kind |-> "get_dentry", want |-> o, fh |-> h])
           \/ Local(t, Dentry(o, uvfs_iget(h)))
    BY <1>5, Zenon DEF uvfs_get_dentry, Start, Local
  <2>2. CASE begin(t, [kind |-> "get_dentry", want |-> o, fh |-> h])
    BY <2>1, <2>2, <1>2, Zenon DEF Requests
  <2>3. CASE Local(t, Dentry(o, uvfs_iget(h)))
    <3>1. op[t].kind = "none" /\ Move(t, Dentry(o, uvfs_iget(h)))
      <4>1. op[t].kind = "none" /\ "found" # "none"
        BY <2>1
      <4> QED
        BY <2>3, <4>1, RecordFields, Zenon DEF Move, Outside
    <3>2. op[t].kind \in ExportKinds /\ Dentry(o, uvfs_iget(h)).kind \in ExportKinds
      BY <3>1, RecordFields, Zenon
    <3> QED
      BY <3>1, <3>2, <1>1, Zenon
  <2> QED
    BY <2>1, <2>2, <2>3, Zenon
<1>6. ASSUME NEW t \in Tasks, uvfs_statfs(t)
      PROVE  Moves(ExportKinds)
  BY <1>6, <1>2, Zenon DEF uvfs_statfs, Start, Requests
<1>7. ASSUME NEW t \in Tasks, NEW o \in Objects,
             uvfs_readlink(t, o) \/ uvfs_follow_link(t, o)
      PROVE  Moves(ExportKinds)
  BY <1>7, <1>2, Zenon DEF uvfs_readlink, uvfs_follow_link, Start, Requests
<1>8. ASSUME NEW t \in Tasks, serve_export(t)
      PROVE  Moves(ExportKinds)
  <2>1. op[t].kind \in ExportKinds /\ \E r : serve(t, r)
    BY <1>8, Zenon DEF serve_export, Asked
  <2> QED
    BY <2>1, Zenon DEF Moves
\* The transaction is freed, and the operation goes on as o.
<1>9. ASSUME NEW t \in Tasks, NEW o, finish(t, o), op[t].kind \in ExportKinds,
             o.kind \in ExportKinds, o.kind = "none" => o = Idle
      PROVE  Moves(ExportKinds)
  BY <1>9, <1>1, Zenon DEF Move
<1>10. ASSUME NEW t \in Tasks, export_step(t)
       PROVE  Moves(ExportKinds)
  <2>1. CASE op_error(t)
    <3>1. /\ op[t].kind \in Requests
          /\ \/ finish(t, Idle)
             \/ finish(t, Error(StaleError(ErrorOf(t))))
      BY <2>1, Zenon DEF op_error, Asked
    <3> QED
      BY <3>1, <1>9, RecordFields, Zenon
  <2>2. CASE iget_nomem(t)
    <3>1. /\ op[t].kind \in Requests
          /\ finish(t, Idle) \/ finish(t, Error("EACCES"))
      BY <2>2, Zenon DEF iget_nomem, Requests
    <3> QED
      BY <3>1, <1>9, RecordFields, Zenon
  <2>3. CASE iget_done(t) \/ read_super_done(t)
    <3>1. /\ op[t].kind \in Requests
          /\ finish(t, Dentry(op[t].want, uvfs_iget(reply[t].value)))
      BY <2>3, Zenon DEF iget_done, read_super_done, Obtain, Requests
    <3>2. \A o, h : /\ Dentry(o, h).kind \in ExportKinds
                     /\ Dentry(o, h).kind # "none"
      BY DEF Dentry
    <3> HIDE DEF ExportKinds
    <3>3. op[t].kind \in ExportKinds
      BY <3>1, Zenon DEF ExportKinds
    <3> QED
      BY <3>1, <3>2, <3>3, <1>9, Zenon
  <2>4. CASE reply_done(t) \/ follow_link_done(t)
    BY <2>4, <1>9, Zenon DEF reply_done, follow_link_done, Requests
  <2>5. CASE follow_link_walk(t)
    <3>1. op[t].kind = "follow_link" /\ Move(t, [kind |-> "walking"])
      BY <2>5, Zenon DEF follow_link_walk, Local, Move, Outside
    <3> QED
      BY <3>1, <1>1, Zenon DEF Requests
  <2>6. CASE op_return(t)
    <3>1. op[t].kind \in {"found", "failed"} /\ Move(t, Idle)
      BY <2>6, Zenon DEF op_return, Local, Move, Outside
    <3> QED
      BY <3>1, <1>1, Zenon
  <2> QED
    BY <1>10, <2>1, <2>2, <2>3, <2>4, <2>5, <2>6, Zenon DEF export_step
\* The others happen to no task.
<1>11. ASSUME UNCHANGED <<conduitVars, op, reply>>
       PROVE  Moves(ExportKinds)
  BY <1>11, Zenon DEF Moves
<1>12. CASE ExportNext
  <2>1. ASSUME NEW t \in Tasks, NEW f \in handles,
               uvfs_fh_to_dentry(t, f) \/ uvfs_fh_to_parent(t, f)
        PROVE  Moves(ExportKinds)
    BY <2>1, <1>5, Zenon DEF uvfs_fh_to_dentry, uvfs_fh_to_parent
  <2> QED
    BY <1>12, <1>3, <1>4, <1>11, <2>1, Zenon
       DEF ExportNext, uvfs_encode_fh, Evict, umount
<1>13. CASE LinkNext
  BY <1>13, <1>6, <1>7, Zenon DEF LinkNext
<1>14. CASE AnswerNext
  BY <1>14, <1>8, <1>10, <1>11, Zenon DEF AnswerNext, RemoteObject
<1> QED
  BY <1>12, <1>13, <1>14, Zenon

LEMMA RefreshFacts ==
    ASSUME NEW t \in Tasks, refresh_mode(t)
    PROVE  /\ UNCHANGED <<status, result, reply>>
           /\ op' = [v \in Tasks |-> op'[v]]
           /\ \A v \in Tasks :
                \/ op'[v] = op[v]
                \/ /\ op'[v].kind = "refreshing"
                   /\ op[v].kind \in {"getattr", "refreshing"}
<1>1. /\ op[t].kind = "getattr"
      /\ op' = [v \in Tasks |->
                  IF v = t \/ v \in Refreshing
                  THEN [kind |-> "refreshing", alone |-> Refreshing = {}]
                  ELSE op[v]]
      /\ status' = status /\ result' = result /\ reply' = reply
  BY Zenon DEF refresh_mode, conduitVars
<1>2. \A v \in Tasks :
        \/ op'[v] = op[v]
        \/ /\ op'[v].kind = "refreshing"
           /\ op[v].kind \in {"getattr", "refreshing"}
  BY <1>1, Zenon DEF Refreshing
<1>3. op' = [v \in Tasks |-> op'[v]]
  BY <1>1
<1> QED
  BY <1>1, <1>2, <1>3, Zenon

LEMMA MovesCall ==
    ASSUME CallInv, NEW kinds, "readdir" \notin kinds, Moves(kinds),
           i_mutex' = i_mutex
    PROVE  CallInv'
<1>1. ASSUME NEW t \in Tasks, NEW o, Move(t, o), op[t].kind \in kinds,
             o.kind \in kinds
      PROVE  CallInv'
  <2>1. MutexFollows(t, o)
    BY <1>1, MutexKept, Zenon
  <2>2. op[t].kind \in Outside => status[t] = "free"
    BY Zenon DEF CallInv
  <2> QED
    BY <1>1, <2>1, <2>2, BeginCall, FinishCall, LocalCall, Zenon DEF Move
<1>2. ASSUME NEW t \in Tasks, NEW r, serve(t, r)
      PROVE  CallInv'
  BY <1>2, ServeCall, Zenon
<1>3. CASE UNCHANGED <<conduitVars, op, reply>>
  BY <1>3, StillCall, Zenon
<1> QED
  BY <1>1, <1>2, <1>3, Zenon DEF Moves

LEMMA ExportCall ==
    ASSUME CallInv, ExportNext \/ LinkNext \/ AnswerNext, i_mutex' = i_mutex
    PROVE  CallInv'
<1>1. "readdir" \notin ExportKinds
  BY DEF ExportKinds, Requests
<1> QED
  BY <1>1, ExportMoves, MovesCall, Zenon

LEMMA PermissionCall ==
    ASSUME CallInv, PermissionNext, i_mutex' = i_mutex
    PROVE  CallInv'
<1>1. "readdir" \notin PermissionKinds
  BY DEF PermissionKinds
<1>2. ASSUME NEW t \in Tasks, refresh_mode(t)
      PROVE  CallInv'
  BY <1>2, RefreshFacts, SMTT(30) DEF CallInv, Functions, Outside
<1> QED
  BY <1>1, <1>2, PermissionMoves, MovesCall, Zenon

LEMMA CallStep ==
    ASSUME CallInv, [Next]_allVars
    PROVE  CallInv'
<1>1. CASE ConduitStep /\ OnlyConduit
  BY <1>1, ConduitCall, Zenon DEF OnlyConduit, readdirVars, listVars
<1>2. CASE ReaddirNext
  BY <1>2, ReaddirCall, Zenon
<1>3. CASE (ExportNext \/ LinkNext \/ AnswerNext) /\ NotExport
  BY <1>3, ExportCall, Zenon DEF NotExport, readdirVars, listVars
<1>4. CASE PermissionNext /\ NotPermission
  BY <1>4, PermissionCall, Zenon DEF NotPermission, readdirVars, listVars
<1>5. CASE UNCHANGED allVars
  BY <1>5, StillCall, Zenon DEF allVars, readdirVars, listVars
<1> QED
  BY <1>1, <1>2, <1>3, <1>4, <1>5, Zenon DEF Next, ConduitStep

-----------------------------------------------------------------------------
(* ModeInv: only a refresh touches the mode and attr_uid.                  *)

LEMMA StillMode ==
    ASSUME ModeInv, UNCHANGED <<op, i_mode, attr_uid, torn, raced>>
    PROVE  ModeInv'
  BY Zenon DEF ModeInv, Refreshing

\* Task t goes on with operation o and is in no refresh.
LEMMA TaskMode ==
    ASSUME ModeInv, NEW t \in Tasks, NEW o, Others(t), op'[t] = o,
           op[t].kind # "refreshing", o.kind # "refreshing",
           UNCHANGED <<i_mode, attr_uid, torn>>,
           \A v \in Tasks \ {t} : v \in raced' <=> v \in raced,
           o.kind = "entered" /\ t \notin raced' => o.mode.for = attr_uid,
           o.kind \in {"checking", "decided"} /\ t \notin raced' =>
              o.mode.for = UserOf[t]
    PROVE  ModeInv'
<1>1. Refreshing' = Refreshing
  BY Zenon DEF Refreshing, Others, Same
<1>2. Refreshing' = {} /\ ~torn' => i_mode'.for = attr_uid'
  BY <1>1, Zenon DEF ModeInv
<1>3. ASSUME NEW v \in Tasks \ {t}
      PROVE  /\ op'[v].kind = "refreshing" /\ op'[v].alone =>
                   i_mode'.for = UserOf[v] /\ Refreshing' = {v}
             /\ op'[v].kind = "entered" /\ v \notin raced' =>
                   op'[v].mode.for = attr_uid'
             /\ op'[v].kind \in {"checking", "decided"} /\ v \notin raced' =>
                   op'[v].mode.for = UserOf[v]
  <2>1. op'[v] = op[v] /\ (v \in raced' <=> v \in raced)
    BY Zenon DEF Others, Same
  <2> QED
    BY <1>1, <2>1, Zenon DEF ModeInv
<1> QED
  BY <1>2, <1>3, Zenon DEF ModeInv

\* The operations that ModeInv speaks of.
Checked == {"refreshing", "entered", "checking", "decided"}

\* A step of an operation of another module.
LEMMA OtherMode ==
    ASSUME CallInv, ModeInv, NEW t \in Tasks, NEW o,
           begin(t, o) \/ finish(t, o) \/ Local(t, o),
           op[t].kind # "refreshing", o.kind \notin Checked,
           UNCHANGED <<i_mode, attr_uid, torn>>,
           \A v \in Tasks \ {t} : v \in raced' <=> v \in raced
    PROVE  ModeInv'
<1>1. Others(t) /\ op'[t] = o
  BY BeginFacts, FinishFacts, LocalFacts, Zenon
<1>2. /\ o.kind # "refreshing" /\ o.kind # "entered"
      /\ o.kind \notin {"checking", "decided"}
  BY Zenon DEF Checked
<1> QED
  BY <1>1, <1>2, TaskMode, Zenon

LEMMA ServeMode ==
    ASSUME CallInv, ModeInv, NEW t \in Tasks, NEW r, serve(t, r),
           UNCHANGED permissionVars
    PROVE  ModeInv'
  BY ServeFacts, StillMode, Zenon DEF permissionVars

LEMMA MovesMode ==
    ASSUME CallInv, ModeInv, NEW kinds, Moves(kinds), kinds \cap Checked = {},
           UNCHANGED permissionVars
    PROVE  ModeInv'
<1>1. ASSUME NEW t \in Tasks, NEW o, Move(t, o), op[t].kind \in kinds,
             o.kind \in kinds
      PROVE  ModeInv'
  <2>1. /\ op[t].kind # "refreshing" /\ o.kind \notin Checked
        /\ begin(t, o) \/ finish(t, o) \/ Local(t, o)
    BY <1>1, Zenon DEF Checked, Move
  <2> QED
    BY <2>1, OtherMode, Zenon DEF permissionVars
<1>2. ASSUME NEW t \in Tasks, NEW r, serve(t, r)
      PROVE  ModeInv'
  BY <1>2, ServeMode, Zenon
<1>3. CASE op' = op
  BY <1>3, StillMode, Zenon DEF permissionVars
<1> QED
  BY <1>1, <1>2, <1>3, Zenon DEF Moves

LEMMA ReaddirMode ==
    ASSUME CallInv, ModeInv, ReaddirNext, UNCHANGED permissionVars
    PROVE  ModeInv'
<1>1. ReaddirKinds \cap Checked = {}
  BY Zenon DEF ReaddirKinds, Checked
<1> QED
  BY <1>1, ReaddirMoves, MovesMode, Zenon

LEMMA ExportMode ==
    ASSUME CallInv, ModeInv, ExportNext \/ LinkNext \/ AnswerNext,
           UNCHANGED permissionVars
    PROVE  ModeInv'
<1>1. ExportKinds \cap Checked = {}
  BY Zenon DEF ExportKinds, Requests, Checked
<1> QED
  BY <1>1, ExportMoves, MovesMode, Zenon

\* The first store of a refresh: whoever is refreshing is no longer alone.
LEMMA RefreshMode ==
    ASSUME ModeInv, NEW t \in Tasks, refresh_mode(t)
    PROVE  ModeInv'
<1>1. /\ op' = [v \in Tasks |->
                  IF v = t \/ v \in Refreshing
                  THEN [kind |-> "refreshing", alone |-> Refreshing = {}]
                  ELSE op[v]]
      /\ i_mode' = ModeFor(UserOf[t], reply[t].value)
      /\ raced' = raced \cup Racing
  BY Zenon DEF refresh_mode
<1>2. i_mode'.for = UserOf[t]
  BY <1>1, Zenon DEF ModeFor
<1>3. Refreshing' = Refreshing \cup {t}
  <2>1. \A v \in Tasks : op'[v].kind = "refreshing" <=>
                           v = t \/ v \in Refreshing
    BY <1>1, Zenon DEF Refreshing
  <2> QED
    BY <2>1, Zenon DEF Refreshing
<1>4. ASSUME NEW v \in Tasks, v = t \/ v \in Refreshing
      PROVE  /\ op'[v].kind = "refreshing"
             /\ op'[v].alone <=> Refreshing = {}
  <2>1. op'[v] = [kind |-> "refreshing", alone |-> Refreshing = {}]
    BY <1>1, <1>4, Zenon
  <2>2. op'[v].kind = "refreshing" /\ op'[v].alone = (Refreshing = {})
    BY <2>1
  <2> QED
    BY <2>2, Zenon
<1>5. ASSUME NEW v \in Tasks, ~(v = t \/ v \in Refreshing)
      PROVE  /\ op'[v] = op[v] /\ op[v].kind # "refreshing"
             /\ op[v].kind = "entered" => v \in raced'
             /\ v \in raced => v \in raced'
  BY <1>1, <1>5, Zenon DEF Refreshing, Racing
<1>6. ASSUME NEW v \in Tasks
      PROVE  /\ op'[v].kind = "refreshing" /\ op'[v].alone =>
                   i_mode'.for = UserOf[v] /\ Refreshing' = {v}
             /\ op'[v].kind = "entered" /\ v \notin raced' =>
                   op'[v].mode.for = attr_uid'
             /\ op'[v].kind \in {"checking", "decided"} /\ v \notin raced' =>
                   op'[v].mode.for = UserOf[v]
  <2>1. CASE v = t \/ v \in Refreshing
    BY <1>2, <1>3, <1>4, <2>1, Zenon
  <2>2. CASE ~(v = t \/ v \in Refreshing)
    BY <1>5, <2>2, Zenon DEF ModeInv
  <2> QED
    BY <2>1, <2>2, Zenon
<1> QED
  BY <1>3, <1>6, Zenon DEF ModeInv

\* The last store: the mode is that of attr_uid if the refresh was alone.
LEMMA RefreshOwner ==
    ASSUME CallInv, ModeInv, NEW t \in Tasks, refresh_owner(t)
    PROVE  ModeInv'
<1>1. /\ op[t].kind = "refreshing" /\ finish(t, Idle)
      /\ attr_uid' = UserOf[t] /\ (torn' <=> ~op[t].alone)
      /\ raced' = raced \cup Racing /\ i_mode' = i_mode
  BY Zenon DEF refresh_owner, RefreshedUid
<1>2. Others(t) /\ op'[t].kind = "none"
  <2>1. Others(t) /\ op'[t] = Idle
    BY <1>1, FinishFacts, Zenon
  <2> QED
    BY <2>1 DEF Idle
<1>3. Refreshing' = Refreshing \ {t} /\ t \in Refreshing
  BY <1>1, <1>2, Zenon DEF Refreshing, Others, Same
<1>4. ~torn' => i_mode'.for = attr_uid'
  BY <1>1, Zenon DEF ModeInv
<1>5. ASSUME NEW v \in Tasks \ {t}
      PROVE  /\ op'[v].kind = "refreshing" /\ op'[v].alone =>
                   i_mode'.for = UserOf[v] /\ Refreshing' = {v}
             /\ op'[v].kind = "entered" /\ v \notin raced' =>
                   op'[v].mode.for = attr_uid'
             /\ op'[v].kind \in {"checking", "decided"} /\ v \notin raced' =>
                   op'[v].mode.for = UserOf[v]
  <2>1. op'[v] = op[v]
    BY <1>2, Zenon DEF Others, Same
  <2>2. op[v].kind = "refreshing" => ~op[v].alone
    BY <1>3, Zenon DEF ModeInv
  <2>3. op[v].kind = "entered" => v \in raced'
    BY <1>1, Zenon DEF Racing
  <2>4. v \in raced => v \in raced'
    BY <1>1, Zenon
  <2> QED
    BY <2>1, <2>2, <2>3, <2>4, Zenon DEF ModeInv
<1> QED
  BY <1>2, <1>4, <1>5, Zenon DEF ModeInv

LEMMA CheckFields ==
    \A kind, mask, mode : /\ Check(kind, mask, mode).kind = kind
                          /\ Check(kind, mask, mode).mode = mode
  BY Zenon DEF Check

LEMMA PermissionMode ==
    ASSUME CallInv, ModeInv, PermissionNext
    PROVE  ModeInv'
<1> USE DEF Idle
<1>1. ASSUME NEW t \in Tasks, uvfs_revalidate_inode(t)
      PROVE  ModeInv'
  <2>1. /\ op[t].kind = "none" /\ begin(t, [kind |-> "getattr"])
        /\ UNCHANGED permissionVars
    BY <1>1 DEF uvfs_revalidate_inode
  <2> QED
    BY <2>1, OtherMode, Zenon DEF permissionVars, Checked
<1>2. ASSUME NEW t \in Tasks, NEW mask \in Masks, permission_enter(t, mask)
      PROVE  ModeInv'
  <2> DEFINE o == Check("entered", mask, i_mode)
  <2>1. /\ op[t].kind = "none" /\ Local(t, o)
        /\ raced' = IF torn \/ Refreshing # {} THEN raced \cup {t} ELSE raced
        /\ UNCHANGED <<i_mode, attr_uid, torn>>
    BY <1>2 DEF permission_enter, Local
  <2>2. Others(t) /\ op'[t] = o
    BY <2>1, LocalFacts, Zenon
  <2>3. o.kind = "entered" /\ o.mode = i_mode
    BY CheckFields, Zenon
  <2>4. t \notin raced' => i_mode.for = attr_uid
    BY <2>1, Zenon DEF ModeInv
  <2>5. \A v \in Tasks \ {t} : v \in raced' <=> v \in raced
    BY <2>1, Zenon
  <2> HIDE DEF o
  <2> QED
    BY <2>1, <2>2, <2>3, <2>4, <2>5, TaskMode, Zenon
<1>3. ASSUME NEW t \in Tasks, permission_check(t)
      PROVE  ModeInv'
  <2> DEFINE o == Check("checking", op[t].mask, op[t].mode)
             r == Check("permission", op[t].mask, op[t].mode)
  <2>1. /\ op[t].kind = "entered" /\ UNCHANGED permissionVars
        /\ (UserOf[t] = attr_uid /\ Local(t, o)) \/ begin(t, r)
    BY <1>3, Zenon DEF permission_check, Local
  <2>2. CASE UserOf[t] = attr_uid /\ Local(t, o)
    <3>1. Others(t) /\ op'[t] = o
      BY <2>2, LocalFacts, Zenon
    <3>2. o.kind = "checking" /\ o.mode = op[t].mode
      BY CheckFields
    <3>3. t \notin raced => op[t].mode.for = UserOf[t]
      BY <2>1, <2>2, Zenon DEF ModeInv
    <3> HIDE DEF o
    <3> QED
      BY <2>1, <3>1, <3>2, <3>3, TaskMode, Zenon DEF permissionVars
  <2>3. CASE begin(t, r)
    <3>1. r.kind \notin Checked
      BY CheckFields DEF Checked
    <3> HIDE DEF r
    <3> QED
      BY <2>1, <2>3, <3>1, OtherMode, Zenon DEF permissionVars
  <2> QED
    BY <2>1, <2>2, <2>3, Zenon
<1>4. ASSUME NEW t \in Tasks,
             permission_nomem(t) \/ permission_return(t) \/ permission_error(t)
      PROVE  ModeInv'
  <2>1. /\ op[t].kind # "refreshing"
        /\ Local(t, Idle) \/ finish(t, Idle)
        /\ raced' = raced \ {t} /\ UNCHANGED <<i_mode, attr_uid, torn>>
    BY <1>4, Zenon DEF permission_nomem, permission_return, permission_error, Local
  <2> QED
    BY <2>1, OtherMode, Zenon DEF Checked
<1>5. ASSUME NEW t \in Tasks, permission_reply(t)
      PROVE  ModeInv'
  <2> DEFINE o == Check("checking", op[t].mask,
                        ModeFor(UserOf[t], reply[t].value))
  <2>1. /\ op[t].kind = "permission" /\ finish(t, o)
        /\ UNCHANGED permissionVars
    BY <1>5, Zenon DEF permission_reply
  <2>2. Others(t) /\ op'[t] = o
    BY <2>1, FinishFacts, Zenon
  <2>3. o.kind = "checking" /\ o.mode.for = UserOf[t]
    BY CheckFields DEF ModeFor
  <2> HIDE DEF o
  <2> QED
    BY <2>1, <2>2, <2>3, TaskMode, Zenon DEF permissionVars
<1>6. ASSUME NEW t \in Tasks, permission_decide(t)
      PROVE  ModeInv'
  <2>1. PICK err \in {"none", "EACCES"} :
          /\ op[t].kind = "checking" /\ Local(t, Decided(op[t].mode, err))
          /\ UNCHANGED permissionVars
    BY <1>6, Zenon DEF permission_decide, Local
  <2> DEFINE o == Decided(op[t].mode, err)
  <2>2. Others(t) /\ op'[t] = o
    BY <2>1, LocalFacts, Zenon
  <2>3. o.kind = "decided" /\ o.mode = op[t].mode
    BY Zenon DEF Decided
  <2>4. t \notin raced => op[t].mode.for = UserOf[t]
    BY <2>1, Zenon DEF ModeInv
  <2> HIDE DEF o
  <2> QED
    BY <2>1, <2>2, <2>3, <2>4, TaskMode, Zenon DEF permissionVars
<1>7. ASSUME NEW t \in Tasks, serve_getattr(t)
      PROVE  ModeInv'
  BY <1>7, ServeMode, Zenon DEF serve_getattr
<1>8. ASSUME NEW u \in Users, NEW a \in Attributes, RemoteMode(u, a)
      PROVE  ModeInv'
  BY <1>8, StillMode, Zenon DEF RemoteMode
<1> QED
  BY <1>1, <1>2, <1>3, <1>4, <1>5, <1>6, <1>7, <1>8, RefreshMode, RefreshOwner,
      Zenon
     DEF PermissionNext, permission_step

LEMMA ModeStep ==
    ASSUME CallInv, ModeInv, [Next]_allVars
    PROVE  ModeInv'
<1>1. CASE ConduitStep /\ OnlyConduit
  BY <1>1, ConduitFacts, StillMode, Zenon DEF OnlyConduit, permissionVars
<1>2. CASE ReaddirNext /\ NotListing
  BY <1>2, ReaddirMode, Zenon DEF NotListing
<1>3. CASE (ExportNext \/ LinkNext \/ AnswerNext) /\ NotExport
  BY <1>3, ExportMode, Zenon DEF NotExport
<1>4. CASE PermissionNext
  BY <1>4, PermissionMode, Zenon
<1>5. CASE UNCHANGED allVars
  BY <1>5, StillMode, Zenon DEF allVars, permissionVars
<1> QED
  BY <1>1, <1>2, <1>3, <1>4, <1>5, Zenon DEF Next, ConduitStep

-----------------------------------------------------------------------------
(* Lists of entries.                                                       *)

\* The members of two lists put together.
LEMMA Joined ==
    ASSUME NEW s \in Seq(Nat), NEW r \in Seq(Nat)
    PROVE  /\ s \o r \in Seq(Nat)
           /\ DOMAIN s \subseteq Nat /\ DOMAIN r \subseteq Nat
           /\ \A i \in DOMAIN s : i \in DOMAIN (s \o r) /\ (s \o r)[i] = s[i]
           /\ \A i \in DOMAIN r : /\ Len(s) + i \in DOMAIN (s \o r)
                                  /\ (s \o r)[Len(s) + i] = r[i]
           /\ \A i \in DOMAIN (s \o r) :
                i \in DOMAIN s \/ (i - Len(s) \in DOMAIN r /\ i \notin DOMAIN s)
  OBVIOUS

LEMMA JoinedThree ==
    ASSUME NEW s \in Seq(Nat), NEW f \in Seq(Nat), NEW q \in Seq(Nat)
    PROVE  s \o (f \o q) = (s \o f) \o q
  BY SMTT(60)

LEMMA JoinedHas ==
    ASSUME NEW s \in Seq(Nat), NEW r \in Seq(Nat)
    PROVE  \A e : Has(s \o r, e) <=> Has(s, e) \/ Has(r, e)
<1>1. ASSUME NEW e, Has(s \o r, e) PROVE Has(s, e) \/ Has(r, e)
  <2>1. PICK i \in DOMAIN (s \o r) : (s \o r)[i] = e
    BY <1>1, Zenon DEF Has
  <2>2. CASE i \in DOMAIN s
    <3>1. s[i] = e
      BY <2>1, <2>2
    <3> QED
      BY <2>2, <3>1, Zenon DEF Has
  <2>3. CASE i - Len(s) \in DOMAIN r /\ i \notin DOMAIN s
    <3>1. r[i - Len(s)] = e
      BY <2>1, <2>3
    <3> QED
      BY <2>3, <3>1, Zenon DEF Has
  <2> QED
    BY <2>1, <2>2, <2>3, Joined, Zenon
<1>2. ASSUME NEW e, Has(s, e) PROVE Has(s \o r, e)
  <2>1. PICK i \in DOMAIN s : s[i] = e
    BY <1>2, Zenon DEF Has
  <2>2. i \in DOMAIN (s \o r) /\ (s \o r)[i] = e
    BY <2>1
  <2> QED
    BY <2>2, Zenon DEF Has
<1>3. ASSUME NEW e, Has(r, e) PROVE Has(s \o r, e)
  <2>1. PICK i \in DOMAIN r : r[i] = e
    BY <1>3, Zenon DEF Has
  <2>2. Len(s) + i \in DOMAIN (s \o r) /\ (s \o r)[Len(s) + i] = e
    BY <2>1
  <2> QED
    BY <2>2, Zenon DEF Has
<1> QED
  BY <1>1, <1>2, <1>3, Zenon

\* Two lists in order, the second after the first, are one list in order, and
\* the other way round.
LEMMA JoinedRising ==
    ASSUME NEW s \in Seq(Nat), NEW r \in Seq(Nat)
    PROVE  /\ /\ Rising(s) /\ Rising(r)
              /\ \A i \in DOMAIN s, k \in DOMAIN r : s[i] < r[k]
              => Rising(s \o r)
           /\ Rising(s \o r) => Rising(s)
<1>1. ASSUME Rising(s), Rising(r), \A i \in DOMAIN s, k \in DOMAIN r : s[i] < r[k],
             NEW i \in DOMAIN (s \o r), NEW k \in DOMAIN (s \o r), i < k
      PROVE  (s \o r)[i] < (s \o r)[k]
  <2>1. CASE k \in DOMAIN s
    BY <1>1, <2>1 DEF Rising
  <2>2. CASE k \notin DOMAIN s /\ i \in DOMAIN s
    BY <1>1, <2>2
  <2>3. CASE k \notin DOMAIN s /\ i \notin DOMAIN s
    BY <1>1, <2>3 DEF Rising
  <2> QED
    BY <2>1, <2>2, <2>3, Zenon
<1>2. ASSUME Rising(s \o r), NEW i \in DOMAIN s, NEW k \in DOMAIN s, i < k
      PROVE  s[i] < s[k]
  <2>1. /\ i \in DOMAIN (s \o r) /\ (s \o r)[i] = s[i]
        /\ k \in DOMAIN (s \o r) /\ (s \o r)[k] = s[k]
    BY <1>2
  <2>2. (s \o r)[i] < (s \o r)[k]
    BY <1>2, <2>1, Zenon DEF Rising
  <2> QED
    BY <2>1, <2>2, Zenon
<1> QED
  BY <1>1, <1>2, Zenon DEF Rising

\* The first entries of a list.
LEMMA First ==
    ASSUME NEW s \in Seq(Nat), NEW n \in 0..Len(s)
    PROVE  /\ SubSeq(s, 1, n) \in Seq(Nat) /\ DOMAIN SubSeq(s, 1, n) = 1..n
           /\ \A i \in 1..n : i \in DOMAIN s /\ SubSeq(s, 1, n)[i] = s[i]
           /\ Rising(s) => Rising(SubSeq(s, 1, n))
<1>1. /\ SubSeq(s, 1, n) \in Seq(Nat) /\ DOMAIN SubSeq(s, 1, n) = 1..n
      /\ \A i \in 1..n : i \in DOMAIN s /\ SubSeq(s, 1, n)[i] = s[i]
  OBVIOUS
<1>2. ASSUME Rising(s), NEW i \in 1..n, NEW k \in 1..n, i < k
      PROVE  SubSeq(s, 1, n)[i] < SubSeq(s, 1, n)[k]
  BY <1>1, <1>2, Zenon DEF Rising
<1> QED
  BY <1>1, <1>2, Zenon DEF Rising

\* How many entries of the reply b there is room for.
LEMMA Fitting ==
    ASSUME NEW b \in Seq(Nat), b # <<>>, NEW room \in Nat, NEW n,
           n = IF Len(b) <= room THEN Len(b) ELSE room
    PROVE  /\ n \in Nat /\ n <= Len(b) /\ Len(b) # 0 /\ n \in 0..Len(b)
           /\ room - n \in Nat /\ (n < Len(b) => n = room)
           /\ n # 0 => b[n] \in Nat
           /\ SubSeq(b, 1, n) \in Seq(Nat)
           /\ SubSeq(b, 1, n) = <<>> => n = 0
<1>1. /\ n \in Nat /\ n <= Len(b) /\ Len(b) # 0 /\ n \in 0..Len(b)
      /\ room - n \in Nat /\ (n < Len(b) => n = room)
  OBVIOUS
<1>2. n # 0 => b[n] \in Nat
  BY <1>1
<1>3. SubSeq(b, 1, n) \in Seq(Nat) /\ Len(SubSeq(b, 1, n)) = n
  BY <1>1
<1> QED
  BY <1>1, <1>2, <1>3, Zenon

\* What is before n is before anything after n.
LEMMA Later ==
    ASSUME NEW s \in Seq(Nat), NEW n \in Nat, NEW p \in Nat, n <= p,
           \A i \in DOMAIN s : s[i] < n
    PROVE  \A i \in DOMAIN s : s[i] < p
  OBVIOUS

-----------------------------------------------------------------------------
(* ListInv, by the kind of step.                                           *)

\* The task with the mutex is the one in uvfs_readdir.
LEMMA OneReader ==
    ASSUME CallInv, NEW t \in Tasks, op[t].kind = "readdir"
    PROVE  /\ i_mutex = t /\ i_mutex # NULL
           /\ \A v \in Tasks \ {t} : op[v].kind # "readdir"
  BY OpsConstants, Zenon DEF CallInv

\* Nothing happens to the listing, nor to a task in uvfs_readdir, which loses
\* its reply at most.
LEMMA OtherList ==
    ASSUME ListInv, CallInv, CallInv', UNCHANGED readdirVars,
           \A v \in Tasks : op[v].kind = "readdir" =>
              /\ op'[v] = op[v]
              /\ \/ result'[v] # "reply"
                 \/ result'[v] = result[v] /\ reply'[v] = reply[v]
    PROVE  ListInv'
<1>1. UNCHANGED <<present, stayed, f_pos, i_mutex, listed, lapsed, ended>>
  BY Zenon DEF readdirVars, listVars
<1>2. \A s : /\ Before(s)' <=> Before(s)
             /\ Complete(s)' <=> Complete(s)
             /\ Continues(s)' <=> Continues(s)
  BY <1>1, Zenon DEF Before, Complete, Continues
<1>3. ASSUME NEW v \in Tasks PROVE FillInv(v)'
  <2>1. CASE op'[v].kind = "readdir"
    <3>1. op[v].kind = "readdir"
      BY <1>1, <2>1, Zenon DEF CallInv
    <3>2. /\ op'[v] = op[v] /\ FillInv(v)
          /\ \/ result'[v] # "reply"
             \/ result'[v] = result[v] /\ reply'[v] = reply[v]
      BY <3>1, Zenon DEF ListInv
    <3>3. /\ op[v].room \in Nat /\ op[v].filled \in Seq(Nat)
          /\ op[v].filled = <<>> => op[v].room # 0
          /\ Before(listed \o op[v].filled)
          /\ ~lapsed => Complete(listed \o op[v].filled)
      BY <3>1, <3>2, Zenon DEF FillInv
    <3>4. result'[v] = "reply" /\ reply'[v].error = "none" =>
             Continues(reply'[v].value)
      BY <3>1, <3>2, Zenon DEF FillInv
    <3> QED
      BY <1>1, <1>2, <3>2, <3>3, <3>4, Zenon DEF FillInv, Before, Complete, Continues
  <2>2. CASE op'[v].kind # "readdir"
    BY <2>2, Zenon DEF FillInv
  <2> QED
    BY <2>1, <2>2, Zenon
<1>4. Before(listed)' /\ (Complete(listed) => Complete(listed)')
  BY <1>1, Zenon DEF ListInv, Before, Complete
<1> QED
  BY <1>1, <1>3, <1>4, Zenon DEF ListInv

\* The call of task t goes on.
LEMMA GoesOn ==
    ASSUME ListInv, CallInv, CallInv', NEW t \in Tasks, i_mutex' = t, ~ended,
           UNCHANGED <<present, stayed, listed, lapsed, ended>>,
           f_pos' \in Nat, Before(listed)', FillInv(t)'
    PROVE  ListInv'
<1>1. ASSUME NEW v \in Tasks PROVE FillInv(v)'
  <2>1. CASE v = t
    BY <2>1, Zenon
  <2>2. CASE v # t
    <3>1. op'[v].kind # "readdir"
      BY <2>2, Zenon DEF CallInv
    <3> QED
      BY <3>1, Zenon DEF FillInv
  <2> QED
    BY <2>1, <2>2, Zenon
<1>2. i_mutex' # NULL
  BY OpsConstants, Zenon
<1> QED
  BY <1>1, <1>2, Zenon DEF ListInv

\* A call begins.
LEMMA BeginList ==
    ASSUME ListInv, CallInv, CallInv', NEW t \in Tasks, vfs_readdir(t)
    PROVE  ListInv'
<1>1. PICK room \in Rooms : begin(t, Readdir(room, <<>>))
  BY Zenon DEF vfs_readdir
<1>2. /\ i_mutex = NULL /\ i_mutex' = t /\ ~ended
      /\ UNCHANGED <<present, stayed, f_pos, listed, lapsed, ended>>
  BY Zenon DEF vfs_readdir
<1>3. op'[t] = Readdir(room, <<>>) /\ result'[t] = "none"
  BY <1>1, BeginFacts, Zenon
<1>4. /\ op'[t].room = room /\ op'[t].filled = <<>> /\ room \in Nat /\ room # 0
      /\ <<>> \in Seq(Nat)
  BY <1>3, ReaddirConstants DEF Readdir
<1>5. listed \o <<>> = listed
  BY DEF ListInv
<1>6. Before(listed)' /\ (~lapsed => Complete(listed)')
  BY <1>2, Zenon DEF ListInv, Before, Complete
<1>7. FillInv(t)'
  <2>1. (listed \o op[t].filled)' = listed
    BY <1>2, <1>4, <1>5, Zenon
  <2>2. /\ Before(listed \o op[t].filled)'
        /\ (~lapsed => Complete(listed \o op[t].filled))'
    BY <1>2, <1>6, <2>1, Zenon DEF Before, Complete
  <2>3. result'[t] # "reply"
    BY <1>3, Zenon
  <2> QED
    BY <1>4, <2>2, <2>3, Zenon DEF FillInv
<1> QED
  BY <1>2, <1>6, <1>7, GoesOn, Zenon DEF ListInv

\* What the server returns goes on from f_pos.
LEMMA ServedContinues ==
    ASSUME ListInv, NEW s \in ServedEntries
    PROVE  Continues(s)
<1> DEFINE rest == {e \in present : e >= f_pos}
<1>1. PICK n \in 0..Cardinality(rest) : s \in [1..n -> rest]
  BY Zenon DEF ServedEntries
<1>2. /\ Rising(s)
      /\ s = <<>> => rest = {}
      /\ \A i \in DOMAIN s, e \in rest : e < s[i] => Has(s, e)
  BY Zenon DEF ServedEntries
<1>3. /\ rest \subseteq Nat /\ (\A e \in rest : f_pos <= e) /\ f_pos \in Nat
      /\ \A e \in stayed : f_pos <= e => e \in rest /\ e \in Nat
  <2>1. /\ present \subseteq Nat /\ stayed \subseteq present /\ f_pos \in Nat
    BY ReaddirConstants, Zenon DEF ListInv
  <2>2. \A e \in rest : e \in Nat /\ f_pos <= e
    BY <2>1, Zenon
  <2>3. \A e \in stayed : f_pos <= e => e \in rest
    BY <2>1, Zenon
  <2> QED
    BY <2>1, <2>2, <2>3, Zenon
<1> HIDE DEF rest
<1>4. s \in Seq(Nat) /\ \A i \in DOMAIN s : s[i] \in rest
  <2>1. n \in Nat /\ DOMAIN s = 1..n
    BY <1>1
  <2>2. s \in [1..n -> Nat]
    BY <1>1, <1>3, Zenon
  <2>3. s \in Seq(Nat)
    BY <2>1, <2>2
  <2> QED
    BY <1>1, <2>1, <2>3, Zenon
<1>5. \A i \in DOMAIN s : f_pos <= s[i]
  BY <1>3, <1>4, Zenon
<1>6. ASSUME NEW e \in stayed, f_pos <= e, ~Has(s, e)
      PROVE  s # <<>> /\ \A i \in DOMAIN s : s[i] < e
  <2>1. e \in rest /\ e \in Nat
    BY <1>3, <1>6, Zenon
  <2>2. s # <<>>
    BY <1>2, <2>1, Zenon
  <2>3. ASSUME NEW i \in DOMAIN s PROVE s[i] < e
    <3>1. ~(e < s[i]) /\ s[i] # e
      BY <1>2, <2>3, <1>6, <2>1, Zenon DEF Has
    <3>2. s[i] \in Nat
      BY <1>3, <1>4, <2>3, Zenon
    <3> QED
      BY <2>1, <3>1, <3>2
  <2> QED
    BY <2>2, <2>3, Zenon
<1> QED
  BY <1>2, <1>4, <1>5, <1>6, Zenon DEF Continues

\* The server answers.
LEMMA ServeList ==
    ASSUME ListInv, CallInv, CallInv', NEW t \in Tasks,
           serve_readdir(t) \/ serve_readdir_error(t)
    PROVE  ListInv'
<1>1. PICK r : /\ serve(t, r)
               /\ r.error = "none" => r.value \in ServedEntries
  <2>1. CASE serve_readdir(t)
    <3>1. PICK s \in ServedEntries : serve(t, Success(s))
      BY <2>1, Zenon DEF serve_readdir
    <3> QED
      <4>1. Success(s).error = "none" => Success(s).value \in ServedEntries
        BY <3>1, RecordFields, Zenon
      <4> QED
        BY <3>1, <4>1, Zenon
  <2>2. CASE serve_readdir_error(t)
    <3>1. Failure("EACCES").error # "none"
      BY Zenon DEF Failure
    <3> QED
      BY <2>2, <3>1, Zenon DEF serve_readdir_error
  <2> QED
    BY <2>1, <2>2, Zenon
<1>2. /\ UNCHANGED <<present, stayed, f_pos, i_mutex, listed, lapsed, ended>>
      /\ op[t].kind = "readdir"
  BY Zenon DEF serve_readdir, serve_readdir_error, readdirVars, listVars
<1>3. op' = op /\ reply'[t] = r /\ i_mutex = t /\ ~ended
  BY <1>1, <1>2, ServeFacts, OneReader, Zenon DEF ListInv
<1>4. r.error = "none" => Continues(r.value)
  BY <1>1, ServedContinues, Zenon
<1>5. Before(listed)'
  BY <1>2, Zenon DEF ListInv, Before
<1>6. FillInv(t)'
  <2>1. FillInv(t)
    BY Zenon DEF ListInv
  <2>2. (result[t] = "reply" /\ reply[t].error = "none" => Continues(reply[t].value))'
    BY <1>2, <1>3, <1>4, Zenon DEF Continues
  <2> QED
    BY <1>2, <1>3, <2>1, <2>2, Zenon DEF FillInv, Before, Complete
<1> QED
  BY <1>2, <1>3, <1>5, <1>6, GoesOn, Zenon DEF ListInv

\* The next request of a call.
LEMMA MoreList ==
    ASSUME ListInv, CallInv, CallInv', NEW t \in Tasks, readdir_more(t)
    PROVE  ListInv'
<1>1. begin(t, op[t]) /\ UNCHANGED readdirVars
  BY Zenon DEF readdir_more
<1>2. Others(t) /\ op'[t] = op[t] /\ result'[t] = "none"
  BY <1>1, BeginFacts, Zenon
<1>3. result'[t] # "reply"
  BY <1>2, Zenon
<1> QED
  BY <1>1, <1>2, <1>3, OtherList, Zenon DEF Others, Same

\* The call is over.
LEMMA CallOver ==
    ASSUME ListInv, CallInv', i_mutex' = NULL, UNCHANGED <<present, stayed>>,
           f_pos' \in Nat, listed' \in Seq(Nat), Before(listed)',
           (~lapsed => Complete(listed))',
           (ended /\ ~lapsed => \A e \in stayed : Has(listed, e))'
    PROVE  ListInv'
<1>1. ASSUME NEW v \in Tasks PROVE FillInv(v)'
  <2>1. op'[v].kind # "readdir"
    BY OpsConstants, Zenon DEF CallInv
  <2> QED
    BY <2>1, Zenon DEF FillInv
<1> QED
  BY <1>1, Zenon DEF ListInv

\* A call fails: the user gets nothing of what it filled in.
LEMMA ErrorList ==
    ASSUME ListInv, CallInv, CallInv', NEW t \in Tasks,
           readdir_error(t) \/ readdir_nomem(t)
    PROVE  ListInv'
<1>1. /\ op[t].kind = "readdir" /\ i_mutex' = NULL
      /\ lapsed' = (lapsed \/ op[t].filled # <<>>)
      /\ UNCHANGED <<present, stayed, f_pos, listed, ended>>
  BY Zenon DEF readdir_error, readdir_nomem, ReturnError
<1>2. FillInv(t) /\ ~ended /\ f_pos \in Nat /\ listed \in Seq(Nat) /\ Before(listed)
  BY <1>1, OneReader, Zenon DEF ListInv
<1>3. ~lapsed' => Complete(listed)
  <2>1. listed \o <<>> = listed
    BY <1>2
  <2>2. ~lapsed' => ~lapsed /\ op[t].filled = <<>>
    BY <1>1, Zenon
  <2> QED
    BY <1>1, <1>2, <2>1, <2>2, Zenon DEF FillInv
<1>4. Before(listed)' /\ (~lapsed => Complete(listed))'
  BY <1>1, <1>2, <1>3, Zenon DEF Before, Complete
<1>5. f_pos' \in Nat /\ listed' \in Seq(Nat) /\ ~ended'
  BY <1>1, <1>2, Zenon
<1> QED
  BY <1>1, <1>4, <1>5, CallOver, Zenon

\* The reply of a call is one of the server's.
LEMMA GoodReply ==
    ASSUME ListInv, CallInv, NEW t \in Tasks, op[t].kind = "readdir", Succeeded(t)
    PROVE  /\ Continues(reply[t].value) /\ f_pos \in Nat /\ listed \in Seq(Nat)
           /\ op[t].room \in Nat /\ op[t].filled \in Seq(Nat)
           /\ op[t].filled = <<>> => op[t].room # 0
           /\ Before(listed \o op[t].filled)
           /\ ~lapsed => Complete(listed \o op[t].filled)
           /\ Before(listed) /\ ~ended
<1>1. result[t] = "reply" /\ reply[t].error = "none"
  BY Zenon DEF Succeeded, ErrorOf, CallInv
<1>2. FillInv(t) /\ f_pos \in Nat /\ listed \in Seq(Nat) /\ Before(listed) /\ ~ended
  BY OneReader, Zenon DEF ListInv
<1> QED
  BY <1>1, <1>2, Zenon DEF FillInv

\* The end of the directory: the user gets what was filled in, and if that is
\* nothing, every entry that stayed was listed before.
LEMMA EndList ==
    ASSUME ListInv, CallInv, CallInv', NEW t \in Tasks, readdir_end(t)
    PROVE  ListInv'
<1>1. /\ op[t].kind = "readdir" /\ Succeeded(t) /\ reply[t].value = <<>>
      /\ i_mutex' = NULL /\ listed' = listed \o op[t].filled
      /\ ended' = (op[t].filled = <<>>)
      /\ UNCHANGED <<present, stayed, f_pos, lapsed>>
  BY Zenon DEF readdir_end, Return0
<1>2. /\ Continues(<<>>) /\ f_pos \in Nat /\ listed \in Seq(Nat)
      /\ op[t].filled \in Seq(Nat) /\ Before(listed \o op[t].filled)
      /\ ~lapsed => Complete(listed \o op[t].filled)
  BY <1>1, GoodReply, Zenon
<1>3. listed' \in Seq(Nat)
  <2>1. listed \o op[t].filled \in Seq(Nat)
    BY <1>2
  <2> QED
    BY <1>1, <2>1, Zenon
<1>4. Before(listed)' /\ (~lapsed => Complete(listed))'
  BY <1>1, <1>2, Zenon DEF Before, Complete
<1>5. (ended /\ ~lapsed => \A e \in stayed : Has(listed, e))'
  <2> SUFFICES ASSUME ~lapsed', NEW e \in stayed' PROVE Has(listed', e)
    BY Zenon
  <2>1. ~Has(<<>>, e)
    BY DEF Has
  <2>2. ~(f_pos <= e) /\ e \in Nat /\ e \in stayed
    BY <1>1, <1>2, <2>1, ReaddirConstants, Zenon DEF Continues, ListInv
  <2>3. e < f_pos
    BY <1>2, <2>2
  <2> QED
    BY <1>1, <1>2, <2>2, <2>3, Zenon DEF Complete
<1> QED
  BY <1>1, <1>2, <1>3, <1>4, <1>5, CallOver, Zenon

\* filldir takes the first n entries of the reply b, and f_pos goes past them:
\* the list s, so far, goes on with them.
LEMMA TakeSome ==
    ASSUME f_pos \in Nat, NEW s \in Seq(Nat), NEW b, NEW n \in Nat, NEW p \in Nat,
           Continues(b), Before(s), n <= Len(b), stayed \subseteq Nat,
           n = 0 => p = f_pos, n # 0 => p = b[n] + 1
    PROVE  LET r == s \o SubSeq(b, 1, n)
           IN  /\ r \in Seq(Nat) /\ Rising(r) /\ \A i \in DOMAIN r : r[i] < p
               /\ f_pos <= p
               /\ Complete(s) => \A e \in stayed : e < p => Has(r, e)
<1> DEFINE q == SubSeq(b, 1, n)
           r == s \o q
<1>1. /\ b \in Seq(Nat) /\ Rising(b) /\ (\A i \in DOMAIN b : f_pos <= b[i])
      /\ n \in 0..Len(b) /\ Rising(s) /\ \A i \in DOMAIN s : s[i] < f_pos
  <2>1. b \in Seq(Nat) /\ Rising(b) /\ \A i \in DOMAIN b : f_pos <= b[i]
    BY Zenon DEF Continues
  <2>2. n \in 0..Len(b)
    BY <2>1
  <2> QED
    BY <2>1, <2>2, Zenon DEF Before
<1>2. /\ q \in Seq(Nat) /\ DOMAIN q = 1..n /\ Rising(q)
      /\ \A i \in 1..n : i \in DOMAIN b /\ q[i] = b[i]
  BY <1>1, First, Zenon
<1>3. n # 0 => n \in 1..n /\ n \in DOMAIN b /\ b[n] \in Nat /\ p = b[n] + 1
  BY <1>1, <1>2
<1>4. \A i \in 1..n : b[i] \in Nat /\ f_pos <= b[i] /\ b[i] < p
  <2> SUFFICES ASSUME NEW i \in 1..n PROVE b[i] \in Nat /\ f_pos <= b[i] /\ b[i] < p
    BY Zenon
  <2>1. i \in DOMAIN b /\ f_pos <= b[i]
    BY <1>1, <1>2, Zenon
  <2>2. b[i] \in Nat /\ n # 0 /\ (i < n \/ i = n)
    BY <1>1, <2>1
  <2>3. i < n => b[i] < b[n]
    BY <1>1, <1>3, <2>1, <2>2, Zenon DEF Rising
  <2> QED
    BY <1>3, <2>1, <2>2, <2>3
<1>5. f_pos <= p
  BY <1>3, <1>4
<1> HIDE DEF q
<1>6. r \in Seq(Nat) /\ Rising(r)
  <2>1. ASSUME NEW i \in DOMAIN s, NEW k \in DOMAIN q PROVE s[i] < q[k]
    <3>1. s[i] < f_pos /\ q[k] \in Nat /\ f_pos <= q[k]
      BY <1>1, <1>2, <1>4, <2>1, Zenon
    <3>2. s[i] \in Nat
      BY <2>1
    <3> QED
      BY <3>1, <3>2
  <2> QED
    BY <1>1, <1>2, <2>1, Joined, JoinedRising, Zenon
<1>7. ASSUME NEW i \in DOMAIN r PROVE r[i] < p
  <2>1. Has(r, r[i])
    BY <1>7, Zenon DEF Has
  <2>2. Has(s, r[i]) \/ Has(q, r[i])
    BY <1>2, <2>1, JoinedHas, Zenon
  <2>5. \A k \in DOMAIN s : s[k] < p
    BY <1>1, <1>5, Later, Zenon
  <2>3. CASE Has(s, r[i])
    BY <2>3, <2>5, Zenon DEF Has
  <2>4. CASE Has(q, r[i])
    BY <1>2, <1>4, <2>4, Zenon DEF Has
  <2> QED
    BY <2>2, <2>3, <2>4, Zenon
<1>8. ASSUME Complete(s), NEW e \in stayed, e < p PROVE Has(r, e)
  <2>1. CASE e < f_pos
    BY <1>2, <1>8, <2>1, JoinedHas, Zenon DEF Complete
  <2>2. CASE ~(e < f_pos)
    <3>1. f_pos <= e /\ n # 0 /\ e \in Nat /\ ~(b[n] < e)
      BY <1>3, <1>8, <2>2
    <3>2. Has(b, e)
      BY <1>3, <1>8, <3>1, Zenon DEF Continues
    <3>3. PICK k \in DOMAIN b : b[k] = e
      BY <3>2, Zenon DEF Has
    <3>4. ~(n < k)
      BY <1>1, <1>3, <3>1, <3>3, Zenon DEF Rising
    <3>5. k \in 1..n
      BY <1>1, <3>3, <3>4
    <3>6. Has(q, e)
      BY <1>2, <3>3, <3>5, Zenon DEF Has
    <3> QED
      BY <1>2, <3>6, JoinedHas, Zenon
  <2> QED
    BY <2>1, <2>2, Zenon
<1> QED
  BY <1>5, <1>6, <1>7, <1>8, Zenon DEF q

\* filldir fills in entries of the reply.
LEMMA FillList ==
    ASSUME ListInv, CallInv, CallInv', NEW t \in Tasks, readdir_fill(t)
    PROVE  ListInv'
<1> DEFINE b == reply[t].value
           n == IF Len(b) <= op[t].room THEN Len(b) ELSE op[t].room
           filled == op[t].filled \o SubSeq(b, 1, n)
           s == listed \o op[t].filled
           p == IF n = 0 THEN f_pos ELSE b[n] + 1
<1>1. /\ op[t].kind = "readdir" /\ Succeeded(t) /\ b # <<>> /\ f_pos' = p
      /\ \/ /\ n < Len(b) /\ i_mutex' = NULL /\ listed' = listed \o filled
            /\ ended' = (filled = <<>>) /\ lapsed' = lapsed
         \/ /\ n = Len(b) /\ finish(t, Readdir(op[t].room - n, filled))
            /\ UNCHANGED <<i_mutex, listed, lapsed, ended>>
      /\ UNCHANGED <<present, stayed>>
  BY Zenon DEF readdir_fill, Return0, PositionAfter
<1>2. /\ Continues(b) /\ f_pos \in Nat /\ listed \in Seq(Nat)
      /\ op[t].room \in Nat /\ op[t].filled \in Seq(Nat)
      /\ op[t].filled = <<>> => op[t].room # 0
      /\ Before(s) /\ Before(listed) /\ ~ended
      /\ ~lapsed => Complete(s)
  BY <1>1, GoodReply, Zenon
<1>3. b \in Seq(Nat) /\ stayed \subseteq Nat
  BY <1>2, ReaddirConstants, Zenon DEF Continues, ListInv
<1>4. /\ n \in Nat /\ n <= Len(b) /\ Len(b) # 0
      /\ op[t].room - n \in Nat /\ (n < Len(b) => n = op[t].room)
      /\ n # 0 => b[n] \in Nat
      /\ SubSeq(b, 1, n) \in Seq(Nat)
      /\ SubSeq(b, 1, n) = <<>> => n = 0
  <2>1. n = IF Len(b) <= op[t].room THEN Len(b) ELSE op[t].room
    BY Zenon
  <2> HIDE DEF n, b
  <2> QED
    BY <1>1, <1>2, <1>3, <2>1, Fitting, Zenon
<1>5. p \in Nat
  <2>1. \A x \in Nat : x + 1 \in Nat
    OBVIOUS
  <2> HIDE DEF n, b
  <2> QED
    BY <1>2, <1>4, <2>1, Zenon
<1>6. /\ filled \in Seq(Nat) /\ s \in Seq(Nat)
      /\ listed \o filled = s \o SubSeq(b, 1, n)
      /\ filled = <<>> => op[t].filled = <<>> /\ n = 0
  <2> DEFINE f == op[t].filled
             q == SubSeq(b, 1, n)
  <2>1. listed \in Seq(Nat) /\ f \in Seq(Nat) /\ q \in Seq(Nat)
    BY <1>2, <1>4, Zenon
  <2>2. (q = <<>> => n = 0) /\ filled = f \o q /\ s = listed \o f
    BY <1>4, Zenon
  <2> HIDE DEF f, q, n, b, s, filled, p
  <2>3. listed \o (f \o q) = (listed \o f) \o q
    BY <2>1, JoinedThree, Zenon
  <2>4. f \o q \in Seq(Nat) /\ listed \o f \in Seq(Nat) /\ Len(f \o q) = Len(f) + Len(q)
    BY <2>1, SMTT(30)
  <2>5. f \o q = <<>> => f = <<>> /\ q = <<>>
    BY <2>1, <2>4, SMTT(30)
  <2> QED
    BY <2>2, <2>3, <2>4, <2>5, Zenon DEF f, q
<1> DEFINE r == s \o SubSeq(b, 1, n)
<1>7. /\ r \in Seq(Nat) /\ Rising(r) /\ \A i \in DOMAIN r : r[i] < p
      /\ f_pos <= p
      /\ Complete(s) => \A e \in stayed : e < p => Has(r, e)
  <2>1. (n = 0 => p = f_pos) /\ (n # 0 => p = b[n] + 1)
    BY Zenon
  <2>2. /\ f_pos \in Nat /\ s \in Seq(Nat) /\ n \in Nat /\ p \in Nat
        /\ Continues(b) /\ Before(s) /\ n <= Len(b) /\ stayed \subseteq Nat
    BY <1>2, <1>3, <1>4, <1>5, <1>6, Zenon
  <2> HIDE DEF n, p, b, s
  <2> QED
    BY <2>1, <2>2, TakeSome, Zenon
<1>8. r = listed \o filled
  BY <1>6, Zenon
<1> HIDE DEF b, n, filled, s, p, r
<1>9. CASE /\ n < Len(b) /\ i_mutex' = NULL /\ listed' = listed \o filled
            /\ ended' = (filled = <<>>) /\ lapsed' = lapsed
  \* The buffer is full, so something was filled in.
  <2>1. filled # <<>>
    BY <1>2, <1>4, <1>6, <1>9, Zenon
  <2>2. Before(listed)' /\ (~lapsed => Complete(listed))'
    BY <1>1, <1>2, <1>7, <1>8, <1>9, Zenon DEF Before, Complete
  <2>3. f_pos' \in Nat /\ listed' \in Seq(Nat) /\ ~ended'
    BY <1>1, <1>5, <1>7, <1>8, <1>9, <2>1, Zenon
  <2> QED
    BY <1>1, <1>9, <2>2, <2>3, CallOver, Zenon
<1>10. CASE /\ n = Len(b) /\ finish(t, Readdir(op[t].room - n, filled))
            /\ UNCHANGED <<i_mutex, listed, lapsed, ended>>
  <2>1. op'[t] = Readdir(op[t].room - n, filled) /\ result'[t] = "none"
    BY <1>10, FinishFacts, Zenon
  <2>2. op'[t].room = op[t].room - n /\ op'[t].filled = filled /\ result'[t] # "reply"
    BY <2>1 DEF Readdir
  <2>3. op'[t].room \in Nat
    BY <1>4, <2>2, Zenon
  <2>4. filled # <<>>
    BY <1>4, <1>6, <1>10, Zenon
  <2>5. /\ Before(listed \o op[t].filled)'
        /\ (~lapsed => Complete(listed \o op[t].filled))'
    <3>1. (listed \o op[t].filled)' = r
      BY <1>8, <1>10, <2>2, Zenon
    <3> QED
      BY <1>1, <1>2, <1>7, <1>10, <3>1, Zenon DEF Before, Complete
  <2>6. FillInv(t)'
    BY <1>6, <2>2, <2>3, <2>4, <2>5, Zenon DEF FillInv
  <2>7. Before(listed)'
    <3>1. \A i \in DOMAIN listed : listed[i] < p
      BY <1>2, <1>5, <1>7, Later, Zenon DEF Before
    <3> QED
      BY <1>1, <1>2, <1>10, <3>1, Zenon DEF Before
  <2>8. i_mutex = t /\ ~ended
    BY <1>1, <1>2, OneReader, Zenon
  <2> QED
    BY <1>1, <1>5, <1>10, <2>6, <2>7, <2>8, GoesOn, Zenon
<1> QED
  BY <1>1, <1>9, <1>10, Zenon

\* The directory changes: fewer entries stayed.
LEMMA RemoteList ==
    ASSUME ListInv, NEW e \in Indices, RemoteEntry(e)
    PROVE  ListInv'
<1>1. /\ UNCHANGED <<f_pos, i_mutex, listed, lapsed, ended, result, op, reply>>
      /\ stayed' \subseteq stayed /\ present' \subseteq Indices
      /\ stayed' \subseteq present'
  <2>1. UNCHANGED <<f_pos, i_mutex, listed, lapsed, ended, result, op, reply>>
    BY Zenon DEF RemoteEntry, listVars, conduitVars
  <2>2. /\ stayed' = stayed \ {e}
        /\ present' = present \ {e} \/ present' = present \cup {e}
    BY Zenon DEF RemoteEntry
  <2>3. present \subseteq Indices /\ stayed \subseteq present
    BY Zenon DEF ListInv
  <2> QED
    BY <2>1, <2>2, <2>3, Zenon
<1>2. \A s : Complete(s) => \A x \in stayed' : x < f_pos => Has(s, x)
  BY <1>1, Zenon DEF Complete
<1>3. \A s : Continues(s) => \A x \in stayed' : f_pos <= x =>
         Has(s, x) \/ (s # <<>> /\ \A i \in DOMAIN s : s[i] < x)
  BY <1>1, Zenon DEF Continues
<1>4. ASSUME NEW v \in Tasks, op[v].kind = "readdir" PROVE FillInv(v)'
  <2> DEFINE s == listed \o op[v].filled
             b == reply[v].value
  <2>1. /\ op[v].room \in Nat /\ op[v].filled \in Seq(Nat)
        /\ op[v].filled = <<>> => op[v].room # 0
        /\ Before(s) /\ (~lapsed => Complete(s))
        /\ result[v] = "reply" /\ reply[v].error = "none" => Continues(b)
    BY <1>4, Zenon DEF ListInv, FillInv
  <2> HIDE DEF s, b
  <2>2. ~lapsed => \A x \in stayed' : x < f_pos => Has(s, x)
    BY <1>2, <2>1, Zenon
  <2>3. result[v] = "reply" /\ reply[v].error = "none" =>
           /\ b \in Seq(Nat) /\ Rising(b) /\ \A i \in DOMAIN b : f_pos <= b[i]
           /\ \A x \in stayed' : f_pos <= x =>
                 Has(b, x) \/ (b # <<>> /\ \A i \in DOMAIN b : b[i] < x)
    BY <1>3, <2>1, Zenon DEF Continues
  <2>4. Before(listed \o op[v].filled)'
    BY <1>1, <2>1, Zenon DEF Before, s
  <2>5. (~lapsed => Complete(listed \o op[v].filled))'
    BY <1>1, <2>2, Zenon DEF Complete, s
  <2>6. (result[v] = "reply" /\ reply[v].error = "none" =>
            Continues(reply[v].value))'
    BY <1>1, <2>3, Zenon DEF Continues, b
  <2> QED
    BY <1>1, <2>1, <2>4, <2>5, <2>6, Zenon DEF FillInv
<1>5. \A v \in Tasks : FillInv(v)'
  BY <1>1, <1>4, Zenon DEF FillInv
<1>6. Before(listed)' /\ (Complete(listed) => Complete(listed)')
  BY <1>1, <1>2, Zenon DEF ListInv, Before, Complete
<1> QED
  BY <1>1, <1>5, <1>6, Zenon DEF ListInv

\* The listing begins anew.
LEMMA RewindList ==
    ASSUME ListInv, CallInv', rewinddir
    PROVE  ListInv'
<1>1. /\ i_mutex' = NULL /\ f_pos' = 0 /\ listed' = <<>> /\ ~ended'
      /\ stayed' = present /\ present' = present
  BY Zenon DEF rewinddir
<1>2. ASSUME NEW v \in Tasks PROVE FillInv(v)'
  <2>1. op'[v].kind # "readdir"
    BY <1>1, OpsConstants, Zenon DEF CallInv
  <2> QED
    BY <2>1, Zenon DEF FillInv
<1>3. /\ \A e \in Nat : ~(e < 0)
      /\ 0 \in Nat /\ <<>> \in Seq(Nat) /\ \A i \in DOMAIN <<>> : FALSE
  OBVIOUS
<1>4. Before(listed)' /\ Complete(listed)'
  BY <1>1, <1>3, ReaddirConstants, Zenon DEF ListInv, Before, Rising, Complete
<1> QED
  BY <1>1, <1>2, <1>3, <1>4, Zenon DEF ListInv

LEMMA ReaddirList ==
    ASSUME ListInv, CallInv, CallInv', ReaddirNext
    PROVE  ListInv'
<1>1. ASSUME NEW t \in Tasks, serve_readdir(t) \/ serve_readdir_error(t)
      PROVE  ListInv'
  BY <1>1, ServeList, Zenon
<1>2. ASSUME NEW t \in Tasks, readdir_step(t)
      PROVE  ListInv'
  BY <1>2, ErrorList, EndList, FillList, MoreList, Zenon DEF readdir_step
<1> QED
  BY <1>1, <1>2, BeginList, RemoteList, RewindList, Zenon DEF ReaddirNext

-----------------------------------------------------------------------------
(* The other operations leave a listing alone.                             *)

LEMMA MovesList ==
    ASSUME ListInv, CallInv, CallInv', UNCHANGED readdirVars, NEW kinds,
           "readdir" \notin kinds, Moves(kinds)
    PROVE  ListInv'
<1>1. ASSUME NEW t \in Tasks, Others(t), op[t].kind \in kinds
      PROVE  ListInv'
  <2>1. ASSUME NEW v \in Tasks, op[v].kind = "readdir" PROVE Same(v)
    BY <1>1, <2>1, Zenon DEF Others
  <2> QED
    BY <2>1, OtherList, Zenon DEF Same
<1>2. ASSUME NEW t \in Tasks, NEW o, Move(t, o), op[t].kind \in kinds
      PROVE  ListInv'
  <2>1. Others(t)
    BY <1>2, BeginFacts, FinishFacts, LocalFacts, Zenon DEF Move
  <2> QED
    BY <1>1, <1>2, <2>1, Zenon
<1>3. ASSUME NEW t \in Tasks, NEW r, serve(t, r), op[t].kind \in kinds
      PROVE  ListInv'
  <2>1. Others(t)
    BY <1>3, ServeFacts, Zenon
  <2> QED
    BY <1>1, <1>3, <2>1, Zenon
<1>4. CASE UNCHANGED <<conduitVars, op, reply>>
  BY <1>4, OtherList, Zenon DEF conduitVars
<1> QED
  BY <1>2, <1>3, <1>4, Zenon DEF Moves

LEMMA PermissionList ==
    ASSUME ListInv, CallInv, CallInv', UNCHANGED readdirVars, PermissionNext
    PROVE  ListInv'
<1>1. "readdir" \notin PermissionKinds
  BY DEF PermissionKinds
<1>2. ASSUME NEW t \in Tasks, refresh_mode(t)
      PROVE  ListInv'
  <2>1. UNCHANGED <<result, reply>>
    BY <1>2, RefreshFacts, Zenon
  <2>2. \A v \in Tasks : op[v].kind = "readdir" => op'[v] = op[v]
    BY <1>2, RefreshFacts, Zenon
  <2> QED
    BY <2>1, <2>2, OtherList, Zenon
<1> QED
  BY <1>1, <1>2, PermissionMoves, MovesList, Zenon

LEMMA ListStep ==
    ASSUME ListInv, CallInv, CallInv', [Next]_allVars
    PROVE  ListInv'
<1>1. CASE ConduitStep /\ OnlyConduit
  <2>1. /\ op' = op /\ reply' = reply /\ UNCHANGED readdirVars
        /\ \A v \in Tasks :
              result'[v] \in {result[v], "none", "EIO", "ERESTARTSYS"}
    BY <1>1, ConduitFacts, Zenon DEF OnlyConduit
  <2>2. \A v \in Tasks : result'[v] # "reply" \/ result'[v] = result[v]
    BY <2>1, Zenon
  <2> QED
    BY <2>1, <2>2, OtherList, Zenon
<1>2. CASE ReaddirNext
  BY <1>2, ReaddirList, Zenon
<1>3. CASE (ExportNext \/ LinkNext \/ AnswerNext) /\ NotExport
  <2>1. "readdir" \notin ExportKinds
    BY Zenon DEF ExportKinds, Requests
  <2>2. Moves(ExportKinds) /\ UNCHANGED readdirVars
    BY <1>3, ExportMoves, Zenon DEF NotExport
  <2> QED
    BY <2>1, <2>2, MovesList, Zenon
<1>4. CASE PermissionNext /\ NotPermission
  BY <1>4, PermissionList, Zenon DEF NotPermission
<1>5. CASE UNCHANGED allVars
  <2>1. UNCHANGED <<readdirVars, conduitVars, op, reply>>
    BY <1>5, Zenon DEF allVars
  <2> QED
    BY <2>1, OtherList, Zenon DEF conduitVars
<1> QED
  BY <1>1, <1>2, <1>3, <1>4, <1>5, Zenon DEF Next, ConduitStep

LEMMA ListInit == Init => ListInv
<1> SUFFICES ASSUME Init PROVE ListInv
  BY Zenon
<1>1. /\ present = Indices /\ stayed = present /\ f_pos = 0 /\ i_mutex = NULL
      /\ listed = <<>> /\ ~ended /\ op = [t \in Tasks |-> Idle]
  BY Zenon DEF Init, ReaddirInit, OpsInit
<1>2. \A t \in Tasks : op[t].kind # "readdir"
  BY <1>1, Zenon DEF Idle
<1>3. \A e \in Indices : ~(e < 0)
  BY ReaddirConstants
<1>4. 0 \in Nat /\ <<>> \in Seq(Nat) /\ \A i \in DOMAIN <<>> : FALSE
  OBVIOUS
<1>5. Before(listed) /\ Complete(listed)
  BY <1>1, <1>3, <1>4, Zenon DEF Before, Rising, Complete
<1> QED
  BY <1>1, <1>2, <1>4, <1>5, Zenon DEF ListInv, FillInv

\* An order has no repetitions.
LEMMA RisingOnce ==
    ASSUME NEW s \in Seq(Nat), Rising(s), NEW i \in DOMAIN s, NEW k \in DOMAIN s,
           s[i] = s[k]
    PROVE  i = k
<1>1. i < k \/ k < i \/ i = k
  OBVIOUS
<1>2. s[i] \in Nat
  OBVIOUS
<1>3. ~(s[i] < s[i])
  BY <1>2
<1> QED
  BY <1>1, <1>3, Zenon DEF Rising

=============================================================================
