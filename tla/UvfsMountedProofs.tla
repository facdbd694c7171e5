------------------------- MODULE UvfsMountedProofs -------------------------
(***************************************************************************)
(* The rest of OpsInv: ExportInv, that replies belong to what was asked    *)
(* and handles to their objects, and the types.  OpsInv is an invariant of *)
(* UvfsMounted for any tasks, objects, users and directory, and its safety *)
(* properties follow from it.                                              *)
(***************************************************************************)
EXTENDS UvfsMountedCalls

-----------------------------------------------------------------------------
(* The inode cache.                                                        *)

\* iget5_locked returns a match, or the new handle when there is none.
LEMMA IgetResult ==
    ASSUME NEW h
    PROVE  \/ /\ uvfs_iget(h) = h
              /\ \A g \in icache : ~uvfs_compare_inode(g, h)
           \/ /\ uvfs_iget(h) \in icache
              /\ uvfs_compare_inode(uvfs_iget(h), h)
<1>1. CASE ilookup5(h) = {}
  BY <1>1, Zenon DEF ilookup5, uvfs_iget
<1>2. CASE ilookup5(h) # {}
  <2>1. uvfs_iget(h) \in ilookup5(h)
    BY <1>2, Zenon DEF uvfs_iget
  <2> QED
    BY <2>1, Zenon DEF ilookup5
<1> QED
  BY <1>1, <1>2, Zenon

LEMMA IgetMatch ==
    ASSUME NEW h, ilookup5(h) # {}
    PROVE  uvfs_iget(h) \in icache /\ uvfs_compare_inode(uvfs_iget(h), h)
<1>1. uvfs_iget(h) \in ilookup5(h)
  BY Zenon DEF uvfs_iget
<1> QED
  BY <1>1, Zenon DEF ilookup5

\* An inode that matches a handle is one of its object.
LEMMA MatchIsOf ==
    ASSUME NEW g, NEW h, NEW o, uvfs_compare_inode(g, h), IsOf(h, o)
    PROVE  IsOf(g, o)
  BY Zenon DEF uvfs_compare_inode, IsOf

NoTwo(cache) == \A g, h \in cache : uvfs_compare_inode(g, h) => g = h

\* uvfs_iget makes no second inode for an object.
LEMMA IgetOne ==
    ASSUME NoTwo(icache), NEW h, icache' = icache \cup {uvfs_iget(h)}
    PROVE  NoTwo(icache')
<1>1. CASE uvfs_iget(h) \in icache
  <2>1. icache' = icache
    BY <1>1, Zenon
  <2> QED
    BY <2>1, Zenon
<1>2. CASE uvfs_iget(h) = h /\ \A g \in icache : ~uvfs_compare_inode(g, h)
  <2>1. \A g : uvfs_compare_inode(h, g) => uvfs_compare_inode(g, h)
    BY Zenon DEF uvfs_compare_inode
  <2> QED
    BY <1>2, <2>1, Zenon DEF NoTwo
<1> QED
  BY <1>1, <1>2, IgetResult, Zenon

HandlesExact(kept) ==
    \A f \in kept :
        /\ IsOf(Decoded(f.raw), f.of)
        /\ f.type = 2 => IsOf(DecodedParent(f.raw), Parent[f.of])

LEMMA ExportParts ==
    ExportInv <=> /\ NoTwo(icache) /\ HandlesExact(handles)
                  /\ \A t \in Tasks : ObjectInv(t) /\ StaleInv(t)
  BY Zenon DEF ExportInv, NoTwo, HandlesExact

\* A handle decodes to the object it was encoded for, and to its directory.
LEMMA EncodeExact ==
    ASSUME HandlesExact(handles), NEW o \in Objects,
           NEW connectable \in BOOLEAN, NEW max_len,
           uvfs_encode_fh(o, connectable, max_len)
    PROVE  HandlesExact(handles')
<1> DEFINE long == connectable /\ o \notin Directories
           h == uvfs_iget(Handle(o))
           f == [of |-> o, type |-> IF long THEN 2 ELSE 1,
                 raw |-> IF long THEN <<h.aruid, h.sfuid, h.sbxid,
                                        Parent[o].sfuid, Parent[o].sbxid>>
                         ELSE <<h.aruid, h.sfuid, h.sbxid>>]
<1>1. handles' = handles \cup {f} /\ ilookup5(Handle(o)) # {}
  BY Zenon DEF uvfs_encode_fh
<1>2. h.aruid = o.aruid /\ h.sfuid = o.sfuid /\ h.sbxid = o.sbxid
  <2>1. uvfs_compare_inode(h, Handle(o))
    BY <1>1, IgetMatch, Zenon
  <2> QED
    BY <2>1, Zenon DEF uvfs_compare_inode, Handle
<1> HIDE DEF h
<1>3. CASE long
  <2>1. /\ f.of = o
        /\ f.raw = <<h.aruid, h.sfuid, h.sbxid,
                     Parent[o].sfuid, Parent[o].sbxid>>
    BY <1>3, Zenon
  <2>2. o \in Objects \ {Root}
    BY <1>3, ExportConstants, Zenon
  <2>3. Parent[o].aruid = o.aruid
    BY <2>2, ExportConstants, Zenon
  <2> HIDE DEF f
  <2>4. IsOf(Decoded(f.raw), f.of)
    BY <1>2, <2>1, SMTT(30) DEF IsOf, Decoded
  <2>5. IsOf(DecodedParent(f.raw), Parent[f.of])
    BY <1>2, <2>1, <2>3, SMTT(30) DEF IsOf, DecodedParent
  <2> QED
    BY <1>1, <2>4, <2>5, Zenon DEF HandlesExact
<1>4. CASE ~long
  <2>1. f.of = o /\ f.type = 1 /\ f.raw = <<h.aruid, h.sfuid, h.sbxid>>
    BY <1>4, Zenon
  <2> HIDE DEF f
  <2>2. IsOf(Decoded(f.raw), f.of)
    BY <1>2, <2>1, SMTT(30) DEF IsOf, Decoded
  <2> QED
    BY <1>1, <2>1, <2>2 DEF HandlesExact
<1> QED
  BY <1>3, <1>4, Zenon

-----------------------------------------------------------------------------
(* ExportInv, by the kind of step.                                         *)

\* A task whose operation does not move, at most losing a reply.
LEMMA KeptTask ==
    ASSUME NEW v \in Tasks, ObjectInv(v), StaleInv(v), op'[v] = op[v],
           \/ result'[v] # "reply"
           \/ result'[v] = result[v] /\ reply'[v] = reply[v],
           op[v].kind = "found" => op[v].inode \in icache',
           v \in missed => v \in missed',
           exists' = exists
    PROVE  ObjectInv(v)' /\ StaleInv(v)'
  BY Zenon DEF ObjectInv, StaleInv

\* The operations that UvfsExport's invariant speaks of.
Tracked == {"found", "failed", "get_dentry", "read_super", "lookup",
            "get_parent"}

LEMMA UntrackedTask ==
    ASSUME NEW t \in Tasks, op'[t].kind \notin Tracked
    PROVE  ObjectInv(t)' /\ StaleInv(t)'
  BY Zenon DEF ObjectInv, StaleInv, Tracked

\* A task that found an inode, failed, or got a reply.
LEMMA FoundTask ==
    ASSUME NEW t \in Tasks, NEW o, NEW h, op'[t] = Dentry(o, h), IsOf(h, o),
           h \in icache'
    PROVE  ObjectInv(t)' /\ StaleInv(t)'
<1>1. op'[t].kind = "found" /\ op'[t].want = o /\ op'[t].inode = h
  BY DEF Dentry
<1> QED
  BY <1>1, Zenon DEF ObjectInv, StaleInv

LEMMA FailedTask ==
    ASSUME NEW t \in Tasks, NEW x, op'[t] = Error(x),
           x = "ESTALE" => t \in missed'
    PROVE  ObjectInv(t)' /\ StaleInv(t)'
<1>1. op'[t].kind = "failed" /\ op'[t].error = x
  BY DEF Error
<1> QED
  BY <1>1, Zenon DEF ObjectInv, StaleInv

LEMMA RepliedTask ==
    ASSUME NEW t \in Tasks, ObjectInv(t), StaleInv(t), op'[t] = op[t],
           op[t].kind \in {"read_super", "lookup", "get_parent", "get_dentry"},
           UNCHANGED exportVars,
           reply'[t].error = "none" => IsOf(reply'[t].value, op[t].want),
           op[t].kind = "get_dentry" /\ reply'[t].error # "none" =>
              op[t].want \notin exists
    PROVE  ObjectInv(t)' /\ StaleInv(t)'
  BY Zenon DEF ObjectInv, StaleInv, exportVars

\* Task t moves, and the cache and the handles do not.
LEMMA TaskExport ==
    ASSUME ExportInv, NEW t \in Tasks, Others(t),
           UNCHANGED <<icache, exists, handles>>,
           \A v \in Tasks \ {t} : v \in missed => v \in missed',
           ObjectInv(t)' /\ StaleInv(t)'
    PROVE  ExportInv'
<1>1. NoTwo(icache') /\ HandlesExact(handles')
  BY ExportParts, Zenon
<1>2. ASSUME NEW v \in Tasks \ {t}
      PROVE  ObjectInv(v)' /\ StaleInv(v)'
  <2>1. Same(v) /\ ObjectInv(v) /\ StaleInv(v)
    BY ExportParts, Zenon DEF Others
  <2>2. op[v].kind = "found" => op[v].inode \in icache'
    BY <2>1, Zenon DEF ObjectInv
  <2> QED
    BY <2>1, <2>2, KeptTask, Zenon DEF Same
<1>3. ExportInv' <=> /\ NoTwo(icache') /\ HandlesExact(handles')
                     /\ \A v \in Tasks : ObjectInv(v)' /\ StaleInv(v)'
  BY Zenon DEF ExportInv, NoTwo, HandlesExact
<1> QED
  BY <1>1, <1>2, <1>3, Zenon

\* The operations of the other modules.
LEMMA UntrackedExport ==
    ASSUME ExportInv, NEW t \in Tasks, Others(t), op'[t].kind \notin Tracked,
           UNCHANGED exportVars
    PROVE  ExportInv'
  BY UntrackedTask, TaskExport, Zenon DEF exportVars

LEMMA UntrackedStep ==
    ASSUME CallInv, ExportInv, NEW t \in Tasks, NEW o,
           begin(t, o) \/ finish(t, o) \/ Local(t, o),
           o.kind \notin Tracked, UNCHANGED exportVars
    PROVE  ExportInv'
<1>1. Others(t) /\ op'[t] = o
  BY BeginFacts, FinishFacts, LocalFacts, Zenon
<1> QED
  BY <1>1, UntrackedExport, Zenon

\* Nothing but results change, and none becomes a reply.
LEMMA StillExport ==
    ASSUME ExportInv, UNCHANGED <<op, reply, exportVars>>,
           \A v \in Tasks : result'[v] \in {result[v], "none", "EIO",
                                            "ERESTARTSYS"}
    PROVE  ExportInv'
<1>1. NoTwo(icache') /\ HandlesExact(handles')
  BY ExportParts, Zenon DEF exportVars
<1>2. ASSUME NEW v \in Tasks
      PROVE  ObjectInv(v)' /\ StaleInv(v)'
  <2>1. ObjectInv(v) /\ StaleInv(v)
    BY ExportParts, Zenon
  <2>2. op[v].kind = "found" => op[v].inode \in icache'
    BY <2>1, Zenon DEF ObjectInv, exportVars
  <2> QED
    BY <2>1, <2>2, KeptTask, Zenon DEF exportVars
<1> QED
  BY <1>1, <1>2, Zenon DEF ExportInv, NoTwo, HandlesExact

LEMMA MovesExport ==
    ASSUME CallInv, ExportInv, NEW kinds, kinds \cap Tracked = {},
           Moves(kinds), UNCHANGED exportVars
    PROVE  ExportInv'
<1>1. ASSUME NEW t \in Tasks, NEW o, Move(t, o), o.kind \in kinds
      PROVE  ExportInv'
  BY <1>1, UntrackedStep, Zenon DEF Move
<1>2. ASSUME NEW t \in Tasks, NEW r, op[t].kind \in kinds, serve(t, r)
      PROVE  ExportInv'
  BY <1>2, ServeFacts, UntrackedExport, Zenon
<1>3. CASE UNCHANGED <<conduitVars, op, reply>>
  BY <1>3, StillExport, Zenon DEF conduitVars
<1> QED
  BY <1>1, <1>2, <1>3, Zenon DEF Moves

LEMMA ReaddirExport ==
    ASSUME CallInv, ExportInv, ReaddirNext, UNCHANGED exportVars
    PROVE  ExportInv'
<1>1. ReaddirKinds \cap Tracked = {}
  BY DEF ReaddirKinds, Tracked
<1> QED
  BY <1>1, ReaddirMoves, MovesExport, Zenon

LEMMA PermissionExport ==
    ASSUME CallInv, ExportInv, PermissionNext, UNCHANGED exportVars
    PROVE  ExportInv'
<1>1. PermissionKinds \cap Tracked = {}
  BY DEF PermissionKinds, Tracked
<1>2. ASSUME NEW t \in Tasks, refresh_mode(t)
      PROVE  ExportInv'
  <2>1. NoTwo(icache') /\ HandlesExact(handles')
    BY ExportParts, Zenon DEF exportVars
  <2>2. ASSUME NEW v \in Tasks
        PROVE  ObjectInv(v)' /\ StaleInv(v)'
    <3>1. CASE op'[v].kind = "refreshing"
      <4>1. op'[v].kind \notin Tracked
        BY <3>1 DEF Tracked
      <4> QED
        BY <4>1, UntrackedTask, Zenon
    <3>2. CASE op'[v] = op[v]
      <4>1. ObjectInv(v) /\ StaleInv(v)
        BY ExportParts, Zenon
      <4>2. op[v].kind = "found" => op[v].inode \in icache'
        BY <4>1, Zenon DEF ObjectInv, exportVars
      <4>3. UNCHANGED <<result, reply>>
        BY <1>2, RefreshFacts, Zenon
      <4> QED
        BY <3>2, <4>1, <4>2, <4>3, KeptTask, Zenon DEF exportVars
    <3> QED
      BY <1>2, <3>1, <3>2, RefreshFacts, Zenon
  <2> QED
    BY <2>1, <2>2, Zenon DEF ExportInv, NoTwo, HandlesExact
<1> QED
  BY <1>1, <1>2, PermissionMoves, MovesExport, Zenon


LEMMA StartExport ==
    ASSUME CallInv, ExportInv, NEW t \in Tasks, NEW o, begin(t, o),
           o.kind # "found", o.kind # "failed",
           UNCHANGED <<icache, exists, handles>>, missed \subseteq missed',
           o.kind = "get_dentry" =>
              /\ IsOf(o.fh, o.want)
              /\ o.want \notin exists => t \in missed'
    PROVE  ExportInv'
<1>1. Others(t) /\ op'[t] = o /\ result'[t] = "none"
  BY BeginFacts, Zenon
<1>2. ObjectInv(t)' /\ StaleInv(t)'
  BY <1>1, Zenon DEF ObjectInv, StaleInv
<1> QED
  BY <1>1, <1>2, TaskExport, Zenon

LEMMA GetDentryExport ==
    ASSUME CallInv, ExportInv, NEW t \in Tasks, NEW h, NEW o, IsOf(h, o),
           uvfs_get_dentry(t, h, o)
    PROVE  ExportInv'
<1>1. CASE ilookup5(h) = {}
  <2> DEFINE r == [kind |-> "get_dentry", want |-> o, fh |-> h]
  <2>1. /\ begin(t, r)
        /\ missed' = IF o \in exists THEN missed ELSE missed \cup {t}
        /\ UNCHANGED <<icache, exists, handles>>
    BY <1>1, Zenon DEF uvfs_get_dentry, Start
  <2> QED
    BY <2>1, StartExport, Zenon
<1>2. CASE ilookup5(h) # {}
  <2>1. Local(t, Dentry(o, uvfs_iget(h))) /\ UNCHANGED exportVars
    BY <1>2, Zenon DEF uvfs_get_dentry, Local
  <2>2. uvfs_iget(h) \in icache /\ IsOf(uvfs_iget(h), o)
    BY <1>2, IgetMatch, MatchIsOf, Zenon
  <2>3. Others(t) /\ op'[t] = Dentry(o, uvfs_iget(h))
    BY <2>1, LocalFacts, Zenon
  <2>4. ObjectInv(t)' /\ StaleInv(t)'
    BY <2>1, <2>2, <2>3, FoundTask, Zenon DEF exportVars
  <2> QED
    BY <2>1, <2>3, <2>4, TaskExport, Zenon DEF exportVars
<1> QED
  BY <1>1, <1>2, Zenon

\* The server answers: what it says is about the object asked for.
LEMMA ServeExport ==
    ASSUME CallInv, ExportInv, NEW t \in Tasks, serve_export(t)
    PROVE  ExportInv'
<1>1. serve(t, Answer(t)) /\ UNCHANGED exportVars
  BY Zenon DEF serve_export
<1>2. /\ Others(t) /\ op'[t] = op[t] /\ result'[t] = "reply"
      /\ reply'[t] = Answer(t)
  BY <1>1, ServeFacts, Zenon
<1>3. ObjectInv(t) /\ StaleInv(t)
  BY ExportParts, Zenon
<1>4. CASE op[t].kind = "get_dentry"
  <2>1. op[t].want \in exists => Answer(t) = Success(op[t].fh)
    BY <1>3, <1>4, Zenon DEF Answer, ObjectInv
  <2>2. \/ Answer(t) = Success(op[t].fh)
        \/ op[t].want \notin exists /\ Answer(t) = Failure("ECOMM")
    BY <1>4, <2>1, Zenon DEF Answer
  <2>3. /\ reply'[t].error = "none" => IsOf(reply'[t].value, op[t].want)
        /\ reply'[t].error # "none" => op[t].want \notin exists
    <3>1. IsOf(op[t].fh, op[t].want)
      BY <1>3, <1>4, Zenon DEF ObjectInv
    <3>2. \/ /\ reply'[t].error = "none" /\ reply'[t].value = op[t].fh
          \/ reply'[t].error = "ECOMM" /\ op[t].want \notin exists
      BY <1>2, <2>2 DEF Success, Failure
    <3> QED
      BY <3>1, <3>2, Zenon
  <2>4. ObjectInv(t)' /\ StaleInv(t)'
    BY <1>1, <1>2, <1>3, <1>4, <2>3, RepliedTask, Zenon
  <2> QED
    BY <1>1, <1>2, <2>4, TaskExport, Zenon DEF exportVars
<1>5. CASE op[t].kind \in {"read_super", "lookup", "get_parent"}
  <2>1. \/ Answer(t) = Success(Handle(op[t].want))
        \/ \E x \in {"ECOMM", "ENOENT"} : Answer(t) = Failure(x)
    BY <1>5, Zenon DEF Answer
  <2>2. IsOf(Handle(op[t].want), op[t].want)
    BY Zenon DEF IsOf, Handle
  <2>3. reply'[t].error = "none" => IsOf(reply'[t].value, op[t].want)
    BY <1>2, <2>1, <2>2 DEF Success, Failure
  <2>4. ObjectInv(t)' /\ StaleInv(t)'
    BY <1>1, <1>2, <1>3, <1>5, <2>3, RepliedTask, Zenon
  <2> QED
    BY <1>1, <1>2, <2>4, TaskExport, Zenon DEF exportVars
<1>6. CASE op[t].kind \in {"statfs", "readlink", "follow_link"}
  <2>1. op'[t].kind \notin Tracked
    BY <1>2, <1>6, Zenon DEF Tracked
  <2> QED
    BY <1>1, <1>2, <2>1, UntrackedExport, Zenon
<1> QED
  BY <1>4, <1>5, <1>6, Zenon DEF serve_export, Asked, Requests

\* The inode for a reply is the one inode of the object asked for.
LEMMA ObtainExport ==
    ASSUME CallInv, ExportInv, NEW t \in Tasks, Obtain(t),
           op[t].kind \in {"read_super", "lookup", "get_parent", "get_dentry"}
    PROVE  ExportInv'
<1> DEFINE h == reply[t].value
<1>1. /\ finish(t, Dentry(op[t].want, uvfs_iget(h)))
      /\ icache' = icache \cup {uvfs_iget(h)}
      /\ UNCHANGED <<exists, handles, missed>>
      /\ result[t] = "reply" /\ reply[t].error = "none"
  BY Zenon DEF Obtain, Succeeded, ErrorOf, CallInv
<1>2. IsOf(h, op[t].want)
  BY <1>1, ExportParts, Zenon DEF ObjectInv
<1>3. IsOf(uvfs_iget(h), op[t].want)
  BY <1>2, IgetResult, MatchIsOf, Zenon
<1>4. Others(t) /\ op'[t] = Dentry(op[t].want, uvfs_iget(h))
  BY <1>1, FinishFacts, Zenon
<1>5. NoTwo(icache') /\ HandlesExact(handles')
  BY <1>1, ExportParts, IgetOne, Zenon
<1>6. ObjectInv(t)' /\ StaleInv(t)'
  BY <1>1, <1>3, <1>4, FoundTask, Zenon
<1>7. ASSUME NEW v \in Tasks \ {t}
      PROVE  ObjectInv(v)' /\ StaleInv(v)'
  <2>1. Same(v) /\ ObjectInv(v) /\ StaleInv(v)
    BY <1>4, ExportParts, Zenon DEF Others
  <2>2. op[v].kind = "found" => op[v].inode \in icache'
    BY <1>1, <2>1, Zenon DEF ObjectInv
  <2> QED
    BY <1>1, <2>1, <2>2, KeptTask, Zenon DEF Same
<1> QED
  BY <1>5, <1>6, <1>7, Zenon DEF ExportInv, NoTwo, HandlesExact

\* An error is stale only if the server said so.
LEMMA ErrorExport ==
    ASSUME CallInv, ExportInv, NEW t \in Tasks, op_error(t)
    PROVE  ExportInv'
<1> DEFINE x == StaleError(ErrorOf(t))
<1>1. Failed(t) /\ UNCHANGED exportVars
  BY Zenon DEF op_error
<1>2. CASE op[t].kind = "get_dentry"
  <2>1. finish(t, Error(x))
    BY <1>2, Zenon DEF op_error
  <2>2. x = "ESTALE" => t \in missed
    <3>1. /\ result[t] \in {"none", "reply", "EIO", "ERESTARTSYS"}
          /\ StaleInv(t)
      BY ExportParts, Zenon DEF CallInv
    <3>2. CASE result[t] = "reply"
      BY <1>1, <1>2, <3>1, <3>2, Zenon DEF Failed, ErrorOf, StaleInv
    <3>3. CASE result[t] # "reply"
      BY <3>1, <3>3, Zenon DEF StaleError, ErrorOf
    <3> QED
      BY <3>2, <3>3, Zenon
  <2>3. Others(t) /\ op'[t] = Error(x)
    BY <2>1, FinishFacts, Zenon
  <2> HIDE DEF x
  <2>4. ObjectInv(t)' /\ StaleInv(t)'
    BY <1>1, <2>2, <2>3, FailedTask, Zenon DEF exportVars
  <2> QED
    BY <1>1, <2>3, <2>4, TaskExport, Zenon DEF exportVars
<1>3. CASE op[t].kind # "get_dentry"
  <2>1. finish(t, Idle)
    BY <1>3, Zenon DEF op_error
  <2> QED
    BY <1>1, <2>1, UntrackedStep, Zenon DEF Idle, Tracked
<1> QED
  BY <1>2, <1>3, Zenon

LEMMA NoMemExport ==
    ASSUME CallInv, ExportInv, NEW t \in Tasks, iget_nomem(t)
    PROVE  ExportInv'
<1>1. UNCHANGED exportVars /\ (finish(t, Idle) \/ finish(t, Error("EACCES")))
  BY Zenon DEF iget_nomem
<1>2. CASE finish(t, Idle)
  BY <1>1, <1>2, UntrackedStep, Zenon DEF Idle, Tracked
<1>3. CASE finish(t, Error("EACCES"))
  <2>1. Others(t) /\ op'[t] = Error("EACCES")
    BY <1>3, FinishFacts, Zenon
  <2>2. ObjectInv(t)' /\ StaleInv(t)'
    BY <2>1, FailedTask, Zenon
  <2> QED
    BY <1>1, <2>1, <2>2, TaskExport, Zenon DEF exportVars
<1> QED
  BY <1>1, <1>2, <1>3, Zenon

LEMMA ReturnExport ==
    ASSUME CallInv, ExportInv, NEW t \in Tasks, op_return(t)
    PROVE  ExportInv'
<1>1. /\ Local(t, Idle) /\ missed' = missed \ {t}
      /\ UNCHANGED <<icache, exists, handles>>
  BY Zenon DEF op_return, Local
<1>2. Others(t) /\ op'[t] = Idle
  BY <1>1, LocalFacts, Zenon
<1>3. ObjectInv(t)' /\ StaleInv(t)'
  BY <1>2, UntrackedTask DEF Idle, Tracked
<1> QED
  BY <1>1, <1>2, <1>3, TaskExport, Zenon

LEMMA ExportStepExport ==
    ASSUME CallInv, ExportInv, NEW t \in Tasks, export_step(t)
    PROVE  ExportInv'
<1>1. CASE iget_done(t) \/ read_super_done(t)
  BY <1>1, ObtainExport, Zenon DEF iget_done, read_super_done
<1>2. CASE reply_done(t) \/ follow_link_done(t)
  <2>1. finish(t, Idle) /\ UNCHANGED exportVars
    BY <1>2, Zenon DEF reply_done, follow_link_done
  <2> QED
    BY <2>1, UntrackedStep, Zenon DEF Idle, Tracked
<1>3. CASE follow_link_walk(t)
  <2>1. Local(t, [kind |-> "walking"]) /\ UNCHANGED exportVars
    BY <1>3, Zenon DEF follow_link_walk, Local
  <2> QED
    BY <2>1, UntrackedStep, Zenon DEF Tracked
<1> QED
  BY <1>1, <1>2, <1>3, ErrorExport, NoMemExport, ReturnExport, Zenon DEF export_step

\* Nothing happens to any task, and the inodes that are in use stay.
LEMMA CacheExport ==
    ASSUME ExportInv, UNCHANGED <<conduitVars, op, reply, exists, missed>>,
           NoTwo(icache'), HandlesExact(handles'),
           \A v \in Tasks : op[v].kind = "found" => op[v].inode \in icache'
    PROVE  ExportInv'
<1>1. ASSUME NEW v \in Tasks
      PROVE  ObjectInv(v)' /\ StaleInv(v)'
  <2>1. ObjectInv(v) /\ StaleInv(v)
    BY ExportParts, Zenon
  <2> QED
    BY <2>1, KeptTask, Zenon DEF conduitVars
<1> QED
  BY <1>1, SMTT(30) DEF ExportInv, NoTwo, HandlesExact

LEMMA RemoteExport ==
    ASSUME ExportInv, NEW o \in Objects, RemoteObject(o)
    PROVE  ExportInv'
<1>1. /\ exists' = IF o \in exists THEN exists \ {o} ELSE exists \cup {o}
      /\ missed' = missed \cup
           {t \in Tasks : op[t].kind = "get_dentry" /\ op[t].want = o}
      /\ UNCHANGED <<icache, handles, status, result, op, reply>>
  BY Zenon DEF RemoteObject, conduitVars
<1>2. NoTwo(icache') /\ HandlesExact(handles')
  BY <1>1, ExportParts, Zenon
<1>3. ASSUME NEW v \in Tasks
      PROVE  ObjectInv(v)' /\ StaleInv(v)'
  <2>1. ObjectInv(v) /\ StaleInv(v)
    BY ExportParts, Zenon
  <2>2. ObjectInv(v)'
    BY <1>1, <2>1, Zenon DEF ObjectInv
  <2>3. v \in missed => v \in missed'
    BY <1>1, Zenon
  <2>4. op[v].kind = "get_dentry" /\ op[v].want \notin exists' => v \in missed'
    BY <1>1, <2>1, Zenon DEF StaleInv
  <2> QED
    BY <1>1, <2>1, <2>2, <2>3, <2>4, Zenon DEF StaleInv
<1> QED
  BY <1>2, <1>3, SMTT(30) DEF ExportInv, NoTwo, HandlesExact

LEMMA HandleExport ==
    ASSUME CallInv, ExportInv, NEW t \in Tasks, NEW f \in handles,
           uvfs_fh_to_dentry(t, f) \/ uvfs_fh_to_parent(t, f)
    PROVE  ExportInv'
<1>1. /\ IsOf(Decoded(f.raw), f.of)
      /\ f.type = 2 => IsOf(DecodedParent(f.raw), Parent[f.of])
  BY ExportParts, Zenon DEF HandlesExact
<1>2. CASE uvfs_fh_to_dentry(t, f)
  <2>1. uvfs_get_dentry(t, Decoded(f.raw), f.of)
    BY <1>2, Zenon DEF uvfs_fh_to_dentry
  <2> QED
    BY <1>1, <2>1, GetDentryExport, Zenon
<1>3. CASE uvfs_fh_to_parent(t, f)
  <2>1. f.type = 2 /\ uvfs_get_dentry(t, DecodedParent(f.raw), Parent[f.of])
    BY <1>3, Zenon DEF uvfs_fh_to_parent
  <2> QED
    BY <1>1, <2>1, GetDentryExport, Zenon
<1> QED
  BY <1>2, <1>3, Zenon

LEMMA ExportExport ==
    ASSUME CallInv, ExportInv, ExportNext
    PROVE  ExportInv'
<1>1. ASSUME NEW t \in Tasks, uvfs_read_super(t)
      PROVE  ExportInv'
  BY <1>1, StartExport, Zenon DEF uvfs_read_super, exportVars
<1>2. ASSUME NEW t \in Tasks, NEW o \in Objects, lookup(t, o)
      PROVE  ExportInv'
  BY <1>2, StartExport, Zenon DEF lookup, Start, exportVars
<1>3. ASSUME NEW t \in Tasks, NEW o \in Objects, uvfs_get_parent(t, o)
      PROVE  ExportInv'
  BY <1>3, StartExport, Zenon DEF uvfs_get_parent, Start, exportVars
<1>4. ASSUME NEW t \in Tasks, NEW f \in handles,
             uvfs_fh_to_dentry(t, f) \/ uvfs_fh_to_parent(t, f)
      PROVE  ExportInv'
  BY <1>4, HandleExport, Zenon
<1>5. NoTwo(icache) /\ HandlesExact(handles)
  BY ExportParts, Zenon
<1>6. \A v \in Tasks : op[v].kind = "found" => op[v].inode \in icache
  BY ExportParts, Zenon DEF ObjectInv
<1>7. ASSUME NEW o \in Objects, NEW connectable \in BOOLEAN, NEW max_len,
             uvfs_encode_fh(o, connectable, max_len)
      PROVE  ExportInv'
  <2>1. UNCHANGED <<icache, exists, missed, conduitVars, op, reply>>
    BY <1>7, Zenon DEF uvfs_encode_fh
  <2>2. HandlesExact(handles')
    BY <1>5, <1>7, EncodeExact, Zenon
  <2> QED
    BY <1>5, <1>6, <2>1, <2>2, CacheExport, Zenon
<1>8. ASSUME NEW h \in icache, Evict(h)
      PROVE  ExportInv'
  <2>1. /\ icache' = icache \ {h}
        /\ \A t \in Tasks : op[t].kind = "found" => op[t].inode # h
        /\ UNCHANGED <<exists, handles, missed, conduitVars, op, reply>>
    BY <1>8, Zenon DEF Evict
  <2>2. NoTwo(icache')
    BY <1>5, <2>1, Zenon DEF NoTwo
  <2>3. \A v \in Tasks : op[v].kind = "found" => op[v].inode \in icache'
    BY <1>6, <2>1, Zenon
  <2> QED
    BY <1>5, <2>1, <2>2, <2>3, CacheExport, Zenon
<1>9. CASE umount
  <2>1. /\ icache' = {} /\ \A t \in Tasks : op[t].kind # "found"
        /\ UNCHANGED <<exists, handles, missed, conduitVars, op, reply>>
    BY <1>9 DEF umount, Idle
  <2>2. NoTwo(icache')
    BY <2>1, Zenon DEF NoTwo
  <2> QED
    BY <1>5, <2>1, <2>2, CacheExport, Zenon
<1> QED
  BY <1>1, <1>2, <1>3, <1>4, <1>7, <1>8, <1>9, Zenon DEF ExportNext

LEMMA LinkExport ==
    ASSUME CallInv, ExportInv, LinkNext
    PROVE  ExportInv'
<1>1. ASSUME NEW t \in Tasks, uvfs_statfs(t)
      PROVE  ExportInv'
  BY <1>1, StartExport, Zenon DEF uvfs_statfs, Start, exportVars
<1>2. ASSUME NEW t \in Tasks, NEW o \in Objects, uvfs_readlink(t, o)
      PROVE  ExportInv'
  BY <1>2, StartExport, Zenon DEF uvfs_readlink, Start, exportVars
<1>3. ASSUME NEW t \in Tasks, NEW o \in Objects, uvfs_follow_link(t, o)
      PROVE  ExportInv'
  BY <1>3, StartExport, Zenon DEF uvfs_follow_link, Start, exportVars
<1> QED
  BY <1>1, <1>2, <1>3, Zenon DEF LinkNext

LEMMA AnswerExport ==
    ASSUME CallInv, ExportInv, AnswerNext
    PROVE  ExportInv'
  BY ServeExport, ExportStepExport, RemoteExport, Zenon DEF AnswerNext

LEMMA ExportStep ==
    ASSUME CallInv, ExportInv, [Next]_allVars
    PROVE  ExportInv'
<1>1. CASE ConduitStep /\ OnlyConduit
  BY <1>1, ConduitFacts, StillExport, Zenon DEF OnlyConduit, exportVars
<1>2. CASE ReaddirNext /\ NotListing
  BY <1>2, ReaddirExport, Zenon DEF NotListing
<1>3. CASE ExportNext \/ LinkNext \/ AnswerNext
  BY <1>3, ExportExport, LinkExport, AnswerExport, Zenon
<1>4. CASE PermissionNext /\ NotPermission
  BY <1>4, PermissionExport, Zenon DEF NotPermission
<1>5. CASE UNCHANGED allVars
  BY <1>5, StillExport, Zenon DEF allVars, conduitVars, exportVars
<1> QED
  BY <1>1, <1>2, <1>3, <1>4, <1>5, Zenon DEF Next, ConduitStep

-----------------------------------------------------------------------------
(* Types.                                                                  *)

\* The part of TypeOK and NamesInv about tasks.
TaskTypes ==
    /\ status \in [Tasks -> Conduit!Statuses]
    /\ \A t \in Tasks : op[t] = Idle \/ op[t].kind # "none"

\* The part about the inode's attributes, and the part about objects.
AttributeTypes ==
    shown \in [Users -> Attributes] /\ attr_uid \in Users /\ raced \subseteq Tasks

ObjectTypes ==
    /\ mounted \in {"no", "yes", "rootless"} /\ exists \subseteq Objects
    /\ \A h \in icache : \E o \in Objects : IsOf(h, o)
    /\ \A f \in handles : f.of \in Objects /\ (f.type = 2 => f.of # Root)

Named == \A t \in Tasks : op[t].kind \in Naming => op[t].want \in Objects

LEMMA TypesParts ==
    CallInv /\ ListInv =>
       (NamesInv /\ TypeOK <=>
           TaskTypes /\ AttributeTypes /\ ObjectTypes /\ Named)
<1> SUFFICES ASSUME CallInv, ListInv
             PROVE  NamesInv /\ TypeOK <=>
                       TaskTypes /\ AttributeTypes /\ ObjectTypes /\ Named
  BY Zenon
<1>1. result \in [Tasks -> {"none", "reply", "EIO", "ERESTARTSYS"}]
  <2>1. result = [t \in Tasks |-> result[t]]
    BY Zenon DEF CallInv, Functions
  <2>2. \A t \in Tasks : result[t] \in {"none", "reply", "EIO", "ERESTARTSYS"}
    BY Zenon DEF CallInv
  <2> QED
    BY <2>1, <2>2, Zenon
<1>2. /\ present \subseteq Indices /\ stayed \subseteq present
      /\ f_pos \in Nat /\ i_mutex \in Tasks \cup {NULL}
  BY Zenon DEF ListInv
<1> QED
  BY <1>1, <1>2, Zenon
     DEF NamesInv, TypeOK, TaskTypes, AttributeTypes, ObjectTypes, Named

\* The status of a task changes to another.
LEMMA SetTypes ==
    ASSUME status \in [Tasks -> Conduit!Statuses], NEW t \in Tasks, NEW s, NEW r,
           Conduit!Set(t, s, r), s \in Conduit!Statuses
    PROVE  status' \in [Tasks -> Conduit!Statuses]
<1>1. status' = [status EXCEPT ![t] = s]
  BY Zenon DEF Conduit!Set
<1> QED
  BY <1>1, Zenon

LEMMA StepTypes ==
    ASSUME status \in [Tasks -> Conduit!Statuses], NEW t \in Tasks, NEW o,
           begin(t, o) \/ finish(t, o) \/ Local(t, o) \/ serve(t, o)
    PROVE  status' \in [Tasks -> Conduit!Statuses]
<1>1. {"built", "free", "decided", "returned"} \subseteq Conduit!Statuses
  BY DEF Conduit!Statuses
<1>2. CASE \E s \in {"built", "free", "decided", "returned"} :
              \E r : Conduit!Set(t, s, r)
  BY <1>1, <1>2, SetTypes, Zenon
<1>3. CASE Local(t, o)
  BY <1>3, Zenon DEF Local, conduitVars
<1>4. CASE begin(t, o) \/ finish(t, o)
  BY <1>2, <1>4, Zenon DEF begin, finish, Conduit!allocate, Conduit!free
<1>5. CASE serve(t, o)
  BY <1>2, <1>5, Zenon DEF serve, Conduit!answer, Conduit!late
<1> QED
  BY <1>3, <1>4, <1>5, Zenon

LEMMA MovesTypes ==
    ASSUME CallInv, TaskTypes, NEW kinds, Moves(kinds)
    PROVE  TaskTypes'
<1>1. status' \in [Tasks -> Conduit!Statuses]
  <2>1. CASE UNCHANGED <<conduitVars, op, reply>>
    BY <2>1, Zenon DEF TaskTypes, conduitVars
  <2> QED
    BY <2>1, StepTypes, Zenon DEF Moves, Move, TaskTypes
<1>2. ASSUME NEW v \in Tasks PROVE op'[v] = Idle \/ op'[v].kind # "none"
  <2>1. op[v] = Idle \/ op[v].kind # "none"
    BY Zenon DEF TaskTypes
  <2>2. ASSUME NEW t \in Tasks, NEW o, Move(t, o)
        PROVE  op'[v] = Idle \/ op'[v].kind # "none"
    <3>1. Others(t) /\ op'[t] = o /\ (o.kind = "none" => o = Idle)
      BY <2>2, BeginFacts, FinishFacts, LocalFacts, Zenon DEF Move
    <3> QED
      BY <2>1, <3>1, Zenon DEF Others, Same
  <2>3. CASE op' = op
    BY <2>1, <2>3, Zenon
  <2> QED
    BY <2>2, <2>3, ServeFacts, Zenon DEF Moves
<1> QED
  BY <1>1, <1>2, Zenon DEF TaskTypes

LEMMA ConduitTypes ==
    ASSUME CallInv, TaskTypes, ConduitStep
    PROVE  TaskTypes'
<1>1. {"queued", "taken", "decided", "returned"} \subseteq Conduit!Statuses
  BY DEF Conduit!Statuses
<1>2. op' = op
  BY ConduitFacts, Zenon
<1>3. CASE serve_close
  <2>1. status' = [v \in Tasks |-> IF Conduit!Pending(v) THEN "decided" ELSE status[v]]
    BY <1>3, Zenon DEF serve_close, Conduit!close
  <2> QED
    BY <1>1, <1>2, <2>1, Zenon DEF TaskTypes
<1>4. ASSUME NEW t \in Tasks,
             make_request(t) \/ make_request_killed(t) \/ serve_take(t)
      PROVE  TaskTypes'
  <2>1. \E s \in {"queued", "taken", "decided", "returned"} :
           \E r : Conduit!Set(t, s, r)
    BY <1>4, Zenon DEF make_request, make_request_killed, serve_take,
       Conduit!refuse, Conduit!queue, Conduit!return, Conduit!abort, Conduit!take
  <2> QED
    BY <1>1, <1>2, <2>1, SetTypes, Zenon DEF TaskTypes
<1> QED
  BY <1>3, <1>4, Zenon DEF ConduitStep
\* Other operations name no objects.
LEMMA MovesNamed ==
    ASSUME CallInv, Named, NEW kinds, kinds \cap Naming = {}, Moves(kinds)
    PROVE  Named'
<1>1. ASSUME NEW t \in Tasks, NEW o, Move(t, o), o.kind \in kinds
      PROVE  Named'
  <2>1. Others(t) /\ op'[t] = o
    BY <1>1, BeginFacts, FinishFacts, LocalFacts, Zenon DEF Move
  <2>2. o.kind \notin Naming
    BY <1>1, Zenon
  <2> QED
    BY <2>1, <2>2, Zenon DEF Named, Others, Same
<1>2. CASE op' = op
  BY <1>2, Zenon DEF Named
<1> QED
  BY <1>1, <1>2, ServeFacts, Zenon DEF Moves

LEMMA RefreshTypes ==
    ASSUME TaskTypes, Named, NEW t \in Tasks, refresh_mode(t)
    PROVE  TaskTypes' /\ Named'
<1>1. "refreshing" # "none" /\ "refreshing" \notin Naming
  BY DEF Naming
<1>2. /\ UNCHANGED status
      /\ \A v \in Tasks : op'[v] = op[v] \/ op'[v].kind = "refreshing"
  BY RefreshFacts, Zenon
<1> QED
  BY <1>1, <1>2, Zenon DEF TaskTypes, Named

LEMMA PermissionAttributes ==
    ASSUME AttributeTypes, PermissionNext
    PROVE  AttributeTypes'
<1>1. Racing \subseteq Tasks /\ \A t \in Tasks : UserOf[t] \in Users
  BY Zenon DEF Racing, Users
<1>2. ASSUME NEW u \in Users, NEW a \in Attributes, RemoteMode(u, a)
      PROVE  AttributeTypes'
  <2>1. shown' = [shown EXCEPT ![u] = a] /\ UNCHANGED <<attr_uid, raced>>
    BY <1>2, Zenon DEF RemoteMode
  <2> QED
    BY <2>1, Zenon DEF AttributeTypes
<1>3. ASSUME NEW t \in Tasks, NEW more, more \subseteq Tasks, shown' = shown,
             attr_uid' = attr_uid \/ attr_uid' = UserOf[t],
             raced' = raced \cup more \/ raced' = raced \ {t} \/ raced' = raced
      PROVE  AttributeTypes'
  BY <1>1, <1>3, Zenon DEF AttributeTypes
<1>4. ASSUME NEW t \in Tasks, UNCHANGED permissionVars
      PROVE  AttributeTypes'
  BY <1>4, Zenon DEF permissionVars, AttributeTypes
<1>5. ASSUME NEW t \in Tasks, refresh_mode(t) \/ refresh_owner(t)
      PROVE  AttributeTypes'
  BY <1>1, <1>3, <1>5, Zenon DEF refresh_mode, refresh_owner, RefreshedUid
<1>6. ASSUME NEW t \in Tasks, NEW mask \in Masks, permission_enter(t, mask)
      PROVE  AttributeTypes'
  <2>1. /\ shown' = shown /\ attr_uid' = attr_uid
        /\ raced' = raced \cup {t} \/ raced' = raced
    BY <1>6, Zenon DEF permission_enter
  <2> QED
    BY <1>3, <2>1, Zenon
<1>7. ASSUME NEW t \in Tasks, \/ permission_nomem(t) \/ permission_error(t)
                              \/ permission_return(t)
      PROVE  AttributeTypes'
  <2>1. shown' = shown /\ attr_uid' = attr_uid /\ raced' = raced \ {t}
    BY <1>7, Zenon DEF permission_nomem, permission_error, permission_return
  <2> QED
    BY <1>3, <2>1, Zenon
<1>8. ASSUME NEW t \in Tasks, \/ uvfs_revalidate_inode(t) \/ serve_getattr(t)
                              \/ permission_check(t) \/ permission_reply(t)
                              \/ permission_decide(t)
      PROVE  AttributeTypes'
  BY <1>4, <1>8, Zenon DEF uvfs_revalidate_inode, serve_getattr,
     permission_check, permission_reply, permission_decide
<1> QED
  BY <1>2, <1>5, <1>6, <1>7, <1>8, Zenon DEF PermissionNext, permission_step

\* A request names an object.
LEMMA NameTask ==
    ASSUME Named, NEW t \in Tasks, Others(t),
           op'[t].kind \in Naming => op'[t].want \in Objects
    PROVE  Named'
  BY Zenon DEF Named, Others, Same

LEMMA StillObjects ==
    ASSUME ObjectTypes, UNCHANGED <<mounted, icache, exists, handles>>
    PROVE  ObjectTypes'
  BY Zenon DEF ObjectTypes

\* What uvfs_iget returns is of an object, if its argument is.
LEMMA IgetTypes ==
    ASSUME ObjectTypes, NEW o \in Objects, NEW h, IsOf(h, o)
    PROVE  \E x \in Objects : IsOf(uvfs_iget(h), x)
  BY IgetResult, Zenon DEF ObjectTypes

LEMMA DentryTypes ==
    ASSUME CallInv, ObjectTypes, Named, NEW t \in Tasks, NEW h, NEW o \in Objects,
           uvfs_get_dentry(t, h, o)
    PROVE  ObjectTypes' /\ Named'
<1>1. /\ UNCHANGED <<mounted, icache, exists, handles>>
      /\ \/ begin(t, [kind |-> "get_dentry", want |-> o, fh |-> h])
         \/ Local(t, Dentry(o, uvfs_iget(h)))
  BY Zenon DEF uvfs_get_dentry, Start, Local, exportVars
<1>2. /\ Others(t)
      /\ \/ op'[t] = [kind |-> "get_dentry", want |-> o, fh |-> h]
         \/ op'[t] = Dentry(o, uvfs_iget(h))
  BY <1>1, BeginFacts, LocalFacts, Zenon
<1>3. op'[t].want = o
  BY <1>2 DEF Dentry
<1> QED
  BY <1>1, <1>2, <1>3, NameTask, StillObjects, Zenon

\* The object of a handle, and its directory.
LEMMA HandleTypes ==
    ASSUME CallInv, ObjectTypes, Named, NEW t \in Tasks, NEW f \in handles,
           uvfs_fh_to_dentry(t, f) \/ uvfs_fh_to_parent(t, f)
    PROVE  ObjectTypes' /\ Named'
<1>1. f.of \in Objects /\ (f.type = 2 => f.of # Root)
  BY Zenon DEF ObjectTypes
<1>2. CASE uvfs_fh_to_dentry(t, f)
  BY <1>1, <1>2, DentryTypes, Zenon DEF uvfs_fh_to_dentry
<1>3. CASE uvfs_fh_to_parent(t, f)
  <2>1. f.of \in Objects \ {Root}
    BY <1>1, <1>3, Zenon DEF uvfs_fh_to_parent
  <2>2. Parent[f.of] \in Objects
    BY <2>1, ExportConstants, Zenon
  <2> QED
    BY <1>3, <2>2, DentryTypes, Zenon DEF uvfs_fh_to_parent
<1> QED
  BY <1>2, <1>3, Zenon

\* Requests made of the cache and of directories.
LEMMA BeginTypes ==
    ASSUME CallInv, ObjectTypes, Named, NEW t \in Tasks, NEW o, begin(t, o),
           o.want \in Objects, UNCHANGED exportVars
    PROVE  ObjectTypes' /\ Named'
<1>1. Others(t) /\ op'[t] = o
  BY BeginFacts, Zenon
<1>2. UNCHANGED <<mounted, icache, exists, handles>>
  BY Zenon DEF exportVars
<1> QED
  BY <1>1, <1>2, NameTask, StillObjects, Zenon

LEMMA RequestTypes ==
    ASSUME CallInv, ObjectTypes, Named, NEW t \in Tasks,
           \/ uvfs_read_super(t) \/ uvfs_statfs(t)
           \/ \E o \in Objects : \/ lookup(t, o) \/ uvfs_get_parent(t, o)
                                 \/ uvfs_readlink(t, o) \/ uvfs_follow_link(t, o)
    PROVE  ObjectTypes' /\ Named'
<1>1. Root \in Objects /\ \A o \in Directories \ {Root} : Parent[o] \in Objects
  BY ExportConstants, Zenon
<1>2. CASE uvfs_read_super(t) \/ uvfs_statfs(t)
  BY <1>1, <1>2, BeginTypes, Zenon DEF uvfs_read_super, uvfs_statfs, Start
<1>3. ASSUME NEW o \in Objects, \/ lookup(t, o) \/ uvfs_readlink(t, o)
                                \/ uvfs_follow_link(t, o)
      PROVE  ObjectTypes' /\ Named'
  BY <1>3, BeginTypes, Zenon DEF lookup, uvfs_readlink, uvfs_follow_link, Start
<1>4. ASSUME NEW o \in Objects, uvfs_get_parent(t, o)
      PROVE  ObjectTypes' /\ Named'
  BY <1>1, <1>4, BeginTypes, Zenon DEF uvfs_get_parent, Start
<1> QED
  BY <1>2, <1>3, <1>4, Zenon
\* An operation acts on its result.
LEMMA ResultTypes ==
    ASSUME CallInv, ExportInv, ObjectTypes, Named, NEW t \in Tasks, export_step(t)
    PROVE  ObjectTypes' /\ Named'
<1>1. ASSUME NEW o, finish(t, o) \/ Local(t, o), o.kind \notin Naming
      PROVE  Named'
  BY <1>1, FinishFacts, LocalFacts, NameTask, Zenon
<1>2. /\ \A e : Error(e).kind \notin Naming
      /\ \A o, h : Dentry(o, h).kind \notin Naming
      /\ Idle.kind \notin Naming /\ [kind |-> "walking"].kind \notin Naming
  BY DEF Error, Dentry, Idle, Naming
<1>3. CASE op_error(t) \/ iget_nomem(t) \/ reply_done(t) \/ follow_link_done(t)
  <2>1. /\ UNCHANGED exportVars
        /\ finish(t, Idle) \/ \E e : finish(t, Error(e))
    BY <1>3, Zenon DEF op_error, iget_nomem, reply_done, follow_link_done
  <2>2. Named'
    BY <1>1, <1>2, <2>1, Zenon
  <2> QED
    BY <2>1, <2>2, StillObjects, Zenon DEF exportVars
<1>4. CASE follow_link_walk(t) \/ op_return(t)
  <2>1. /\ UNCHANGED <<mounted, icache, exists, handles>>
        /\ Local(t, Idle) \/ Local(t, [kind |-> "walking"])
    BY <1>4, Zenon DEF follow_link_walk, op_return, Local, exportVars
  <2>2. Named'
    BY <1>1, <1>2, <2>1, Zenon
  <2> QED
    BY <2>1, <2>2, StillObjects, Zenon
<1>5. CASE iget_done(t) \/ read_super_done(t)
  <2> DEFINE v == reply[t].value
  <2>1. /\ op[t].kind \in {"read_super", "lookup", "get_parent", "get_dentry"}
        /\ Succeeded(t) /\ finish(t, Dentry(op[t].want, uvfs_iget(v)))
        /\ icache' = icache \cup {uvfs_iget(v)} /\ UNCHANGED <<exists, handles>>
        /\ mounted' = mounted \/ mounted' \in {"yes", "rootless"}
    BY <1>5, Zenon DEF iget_done, read_super_done, Obtain
  <2>2. result[t] = "reply" /\ reply[t].error = "none"
    BY <2>1 DEF Succeeded, ErrorOf, CallInv
  <2>3. op[t].want \in Objects
    BY <2>1, Zenon DEF Named, Naming
  <2>4. IsOf(v, op[t].want)
    BY <2>1, <2>2, Zenon DEF ExportInv, ObjectInv
  <2> HIDE DEF v
  <2>5. \E x \in Objects : IsOf(uvfs_iget(v), x)
    BY <2>3, <2>4, IgetTypes, Zenon
  <2>6. ObjectTypes'
    BY <2>1, <2>5, Zenon DEF ObjectTypes
  <2>7. Named'
    BY <1>1, <1>2, <2>1, Zenon
  <2> QED
    BY <2>6, <2>7, Zenon
<1> QED
  BY <1>3, <1>4, <1>5, Zenon DEF export_step

\* A handle is kept, an inode dropped, an object removed.
LEMMA WorldTypes ==
    ASSUME ObjectTypes, Named,
           \/ \E o \in Objects, connectable \in BOOLEAN, max_len \in {2, 3, 5} :
                 uvfs_encode_fh(o, connectable, max_len)
           \/ \E h \in icache : Evict(h)
           \/ umount
           \/ \E o \in Objects : RemoteObject(o)
    PROVE  ObjectTypes' /\ Named'
<1>1. CASE \E o \in Objects, connectable \in BOOLEAN, max_len \in {2, 3, 5} :
              uvfs_encode_fh(o, connectable, max_len)
  <2>1. PICK o \in Objects, connectable \in BOOLEAN, max_len \in {2, 3, 5} :
                uvfs_encode_fh(o, connectable, max_len)
    BY <1>1, Zenon
  <2> DEFINE long == connectable /\ o \notin Directories
             h == uvfs_iget(Handle(o))
             f == [of |-> o, type |-> IF long THEN 2 ELSE 1,
                   raw |-> IF long THEN <<h.aruid, h.sfuid, h.sbxid,
                                          Parent[o].sfuid, Parent[o].sbxid>>
                           ELSE <<h.aruid, h.sfuid, h.sbxid>>]
  <2>2. handles' = handles \cup {f}
    BY <2>1, Zenon DEF uvfs_encode_fh
  <2> HIDE DEF h
  <2>5. f.of = o /\ (f.type = 2 => o \notin Directories)
    BY SMTT(30)
  <2> HIDE DEF f
  <2>3. UNCHANGED <<mounted, icache, exists, op>>
    BY <2>1, Zenon DEF uvfs_encode_fh
  <2>4. o \notin Directories => o # Root
    BY ExportConstants, Zenon
  <2> QED
    BY <2>2, <2>3, <2>4, <2>5, Zenon DEF ObjectTypes, Named
<1>2. CASE \E h \in icache : Evict(h)
  <2>1. icache' \subseteq icache /\ UNCHANGED <<mounted, exists, handles, op>>
    BY <1>2, Zenon DEF Evict
  <2> QED
    BY <2>1, Zenon DEF ObjectTypes, Named
<1>3. CASE umount
  <2>1. icache' = {} /\ mounted' = "no" /\ UNCHANGED <<exists, handles, op>>
    BY <1>3, Zenon DEF umount
  <2> QED
    BY <2>1, Zenon DEF ObjectTypes, Named
<1>4. CASE \E o \in Objects : RemoteObject(o)
  <2>1. PICK o \in Objects : RemoteObject(o)
    BY <1>4, Zenon
  <2>2. /\ exists' = exists \ {o} \/ exists' = exists \cup {o}
        /\ UNCHANGED <<mounted, icache, handles, op>>
    BY <2>1, Zenon DEF RemoteObject
  <2> QED
    BY <2>2, Zenon DEF ObjectTypes, Named
<1> QED
  BY <1>1, <1>2, <1>3, <1>4, Zenon

LEMMA ExportTypes ==
    ASSUME CallInv, ExportInv, ObjectTypes, Named,
           ExportNext \/ LinkNext \/ AnswerNext
    PROVE  ObjectTypes' /\ Named'
<1>1. ASSUME NEW t \in Tasks, serve_export(t)
      PROVE  ObjectTypes' /\ Named'
  <2>1. op' = op /\ UNCHANGED <<mounted, icache, exists, handles>>
    BY <1>1, ServeFacts, Zenon DEF serve_export, exportVars
  <2> QED
    BY <2>1, StillObjects, Zenon DEF Named
<1>2. CASE ExportNext
  BY <1>2, RequestTypes, HandleTypes, WorldTypes, Zenon DEF ExportNext
<1>3. CASE LinkNext
  BY <1>3, RequestTypes, Zenon DEF LinkNext
<1>4. CASE AnswerNext
  BY <1>1, <1>4, ResultTypes, WorldTypes, Zenon DEF AnswerNext
<1> QED
  BY <1>2, <1>3, <1>4, Zenon

LEMMA TypeStep ==
    ASSUME CallInv, ListInv, ExportInv, CallInv', ListInv', NamesInv, TypeOK,
           [Next]_allVars
    PROVE  NamesInv' /\ TypeOK'
<1>9. (CallInv /\ ListInv =>
         (NamesInv /\ TypeOK <=>
             TaskTypes /\ AttributeTypes /\ ObjectTypes /\ Named))'
  BY TypesParts, PTL
<1> SUFFICES TaskTypes' /\ AttributeTypes' /\ ObjectTypes' /\ Named'
  BY <1>9, Zenon
<1>1. TaskTypes /\ AttributeTypes /\ ObjectTypes /\ Named
  BY TypesParts, Zenon
<1>2. UNCHANGED permissionVars => AttributeTypes'
  BY <1>1, Zenon DEF permissionVars, AttributeTypes
<1>3. UNCHANGED exportVars => ObjectTypes'
  BY <1>1, StillObjects, Zenon DEF exportVars
<1>4. CASE ConduitStep /\ OnlyConduit
  <2>1. TaskTypes' /\ op' = op /\ UNCHANGED <<permissionVars, exportVars>>
    BY <1>1, <1>4, ConduitTypes, ConduitFacts, Zenon DEF OnlyConduit
  <2> QED
    BY <1>1, <1>2, <1>3, <2>1, Zenon DEF Named
<1>5. CASE ReaddirNext /\ NotListing
  <2>1. ReaddirKinds \cap Naming = {}
    BY DEF ReaddirKinds, Naming
  <2>2. TaskTypes' /\ Named' /\ UNCHANGED <<permissionVars, exportVars>>
    BY <1>1, <1>5, <2>1, ReaddirMoves, MovesTypes, MovesNamed, Zenon
       DEF NotListing
  <2> QED
    BY <1>2, <1>3, <2>2, Zenon
<1>6. CASE (ExportNext \/ LinkNext \/ AnswerNext) /\ NotExport
  BY <1>1, <1>2, <1>6, ExportMoves, MovesTypes, ExportTypes, Zenon DEF NotExport
<1>7. CASE PermissionNext /\ NotPermission
  <2>1. PermissionKinds \cap Naming = {}
    BY DEF PermissionKinds, Naming
  <2>2. TaskTypes' /\ Named'
    BY <1>1, <1>7, <2>1, PermissionMoves, MovesTypes, MovesNamed, RefreshTypes,
       Zenon
  <2>3. AttributeTypes' /\ UNCHANGED exportVars
    BY <1>1, <1>7, PermissionAttributes, Zenon DEF NotPermission
  <2> QED
    BY <1>3, <2>2, <2>3, Zenon
<1>8. CASE UNCHANGED allVars
  <2>1. UNCHANGED <<permissionVars, exportVars, status, op>>
    BY <1>8, Zenon DEF allVars, conduitVars
  <2> QED
    BY <1>1, <1>2, <1>3, <2>1, Zenon DEF TaskTypes, Named
<1> QED
  BY <1>4, <1>5, <1>6, <1>7, <1>8, Zenon DEF Next, ConduitStep

LEMMA TypeInit == Init /\ CallInv /\ ListInv => NamesInv /\ TypeOK
<1> SUFFICES ASSUME Init, CallInv, ListInv PROVE NamesInv /\ TypeOK
  BY Zenon
<1>1. op = [t \in Tasks |-> Idle] /\ status = [t \in Tasks |-> "free"]
  BY Zenon DEF Init, OpsInit, Conduit!Init
<1>2. TaskTypes /\ Named
  <2>1. "free" \in Conduit!Statuses /\ Idle.kind \notin Naming
    BY DEF Conduit!Statuses, Idle, Naming
  <2>2. \A t \in Tasks : op[t] = Idle
    BY <1>1, Zenon
  <2>3. status \in [Tasks -> Conduit!Statuses]
    BY <1>1, <2>1, Zenon
  <2> QED
    BY <2>1, <2>2, <2>3, Zenon DEF TaskTypes, Named
<1>3. AttributeTypes
  <2>1. PICK t : t \in Tasks
    BY PermissionConstants, Zenon
  <2>2. UserOf[t] \in Users
    BY <2>1, Zenon DEF Users
  <2>3. (CHOOSE v \in Users : TRUE) \in Users
    BY <2>2, Zenon
  <2>4. (CHOOSE b \in Attributes : TRUE) \in Attributes
    BY PermissionConstants, Zenon
  <2> QED
    BY <2>3, <2>4, Zenon DEF Init, PermissionInit, AttributeTypes
<1>4. ObjectTypes
  <2>1. \A o \in Objects : IsOf(Handle(o), o)
    BY DEF IsOf, Handle
  <2>2. /\ mounted \in {"no", "yes"} /\ exists = Objects /\ handles = {}
        /\ icache = {} \/ icache = {Handle(o) : o \in Objects}
    BY Zenon DEF Init, ExportInit
  <2> QED
    BY <2>1, <2>2, Zenon DEF ObjectTypes
<1> QED
  BY <1>2, <1>3, <1>4, TypesParts, Zenon

-----------------------------------------------------------------------------
(* The theorems.                                                           *)

LEMMA InitInv == Init => OpsInv
<1> SUFFICES ASSUME Init
             PROVE  OpsInv
  OBVIOUS
<1> USE DEF Init, Idle
<1>1. CallInv
  <2>1. /\ status = [t \in Tasks |-> "free"] /\ result = [t \in Tasks |-> "none"]
        /\ op = [t \in Tasks |-> Idle] /\ reply = [t \in Tasks |-> NULL]
        /\ i_mutex = NULL
    BY Zenon DEF OpsInit, Conduit!Init, ReaddirInit
  <2> QED
    BY <2>1, OpsConstants, Zenon DEF CallInv, Functions, Outside
<1>2. \A t \in Tasks : op[t].kind = "none"
  BY Zenon DEF OpsInit
<1>3. ExportInv
  <2>1. NoTwo(icache)
    BY DEF ExportInit, NoTwo, Handle, uvfs_compare_inode
  <2>2. HandlesExact(handles)
    BY Zenon DEF ExportInit, HandlesExact
  <2>3. \A t \in Tasks : ObjectInv(t) /\ StaleInv(t)
    BY <1>2, Zenon DEF ObjectInv, StaleInv
  <2> QED
    BY <2>1, <2>2, <2>3, ExportParts, Zenon
<1>4. ModeInv
  <2>1. i_mode.for = attr_uid
    BY Zenon DEF PermissionInit, ModeFor
  <2> QED
    BY <1>2, <2>1, Zenon DEF ModeInv
<1> QED
  BY <1>1, <1>3, <1>4, ListInit, TypeInit, Zenon DEF OpsInv

(* The inductive invariant holds for any tasks, objects, users and         *)
(* directory (every operation of UvfsMounted).                             *)
THEOREM OpsInvariant == Spec => []OpsInv
<1>1. OpsInv /\ [Next]_allVars => OpsInv'
  BY CallStep, ListStep, ExportStep, ModeStep, TypeStep, Zenon DEF OpsInv
<1> QED
  BY InitInv, <1>1, PTL DEF Spec

(* The variables of UvfsMounted keep their types: every inode in memory is *)
(* one of an object, whichever handles it was got by (uvfs_iget).          *)
THEOREM MountedTypes == Spec => []TypeOK
<1>1. OpsInv => TypeOK
  BY Zenon DEF OpsInv
<1> QED
  BY OpsInvariant, <1>1, PTL

(* No path out of an operation leaks its transaction or the directory's    *)
(* mutex (every return of the operations in dir.c, super.c and symlink.c   *)
(* that UvfsMounted has).                                                  *)
THEOREM NothingLeaks == Spec => []NoLeak
<1>1. OpsInv => NoLeak
  BY DEF OpsInv, CallInv, Outside, NoLeak, Idle
<1> QED
  BY OpsInvariant, <1>1, PTL

(* An object never has two inodes, and whoever asks for an object gets its *)
(* inode, for any objects (uvfs_iget, uvfs_compare_inode, uvfs_get_dentry, *)
(* uvfs_encode_fh).                                                        *)
THEOREM InodesUnique == Spec => []OneInode
<1>1. OpsInv => OneInode
  <2> SUFFICES ASSUME OpsInv
               PROVE  OneInode
    OBVIOUS
  <2>1. ExportInv
    BY Zenon DEF OpsInv
  <2>2. \A o \in Objects, g, h \in icache : IsOf(g, o) /\ IsOf(h, o) => g = h
    BY <2>1 DEF ExportInv, IsOf, uvfs_compare_inode
  <2>3. \A t \in Tasks : op[t].kind = "found" =>
            IsOf(op[t].inode, op[t].want) /\ op[t].inode \in icache
    BY <2>1, Zenon DEF ExportInv, ObjectInv
  <2> QED
    BY <2>2, <2>3, Zenon DEF OneInode
<1> QED
  BY OpsInvariant, <1>1, PTL

(* A handle is reported stale only if its object was gone during the call, *)
(* for any objects and handles (uvfs_get_dentry).                          *)
THEOREM StaleHandlesGone == Spec => []StaleMeansGone
<1>1. OpsInv => StaleMeansGone
  <2> SUFFICES ASSUME OpsInv, NEW t \in Tasks, op[t] = Error("ESTALE")
               PROVE  t \in missed
    BY Zenon DEF StaleMeansGone
  <2>1. op[t].kind = "failed" /\ op[t].error = "ESTALE"
    BY RecordFields, Zenon
  <2> QED
    BY <2>1, Zenon DEF OpsInv, ExportInv, StaleInv
<1> QED
  BY OpsInvariant, <1>1, PTL

(* A check that no refresh overlapped is made with a mode that was shown   *)
(* to its user, for any users, tasks and modes (uvfs_permission,           *)
(* uvfs_refresh_inode).                                                    *)
THEOREM ChecksUseOwnMode == Spec => []OwnMode
<1>1. OpsInv => OwnMode
  BY Zenon DEF OpsInv, ModeInv, OwnMode
<1> QED
  BY OpsInvariant, <1>1, PTL

(* A listing is exact however it is cut into calls and replies, for any    *)
(* tasks, buffers and directory, whatever changes meanwhile (the loop of   *)
(* uvfs_readdir and f_pos).                                                *)
THEOREM EntriesListedOnce == Spec => []ListedOnce
<1>1. OpsInv => ListedOnce
  <2> SUFFICES ASSUME OpsInv
               PROVE  ListedOnce
    BY Zenon
  <2>1. /\ listed \in Seq(Nat) /\ Rising(listed)
        /\ ended /\ ~lapsed => \A e \in stayed : Has(listed, e)
    BY Zenon DEF OpsInv, ListInv, Before
  <2> QED
    BY <2>1, RisingOnce, Zenon DEF ListedOnce
<1> QED
  BY OpsInvariant, <1>1, PTL


=============================================================================
