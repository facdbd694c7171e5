--------------------------- MODULE UvfsPermission ---------------------------
(***************************************************************************)
(* uvfs_permission: the server may show an inode's attributes differently  *)
(* to every user, so an inode remembers for whom its attributes were       *)
(* fetched (attr_uid), and a check for another user asks again.  Checks    *)
(* take no lock: they race with uvfs_revalidate_inode, which overwrites    *)
(* the attributes one by one.                                              *)
(***************************************************************************)
EXTENDS UvfsOps

CONSTANTS
    UserOf,         \* the fsuid of a task
    GroupOf,        \* the group a user is in
    Capabilities,   \* of a task: CAP_DAC_OVERRIDE, CAP_DAC_READ_SEARCH
    Attributes,     \* a set of [dir, bits, uid, gid]: bits per class
    Masks,          \* subsets of {"MAY_READ", "MAY_WRITE", "MAY_EXEC"}
    Unwritable      \* is the file system read-only, or the inode immutable?

Users == {UserOf[t] : t \in Tasks}

ASSUME PermissionConstants ==
    /\ Tasks # {} /\ Attributes # {}
    /\ DOMAIN UserOf = Tasks /\ DOMAIN Capabilities = Tasks
    /\ \A a \in Attributes : DOMAIN a.bits = {"user", "group", "other"}
    /\ Unwritable \in BOOLEAN

VARIABLES
    shown,          \* what the server shows a user
    i_mode,         \* the mode, with the user it was fetched for (history)
    i_owner,        \* i_uid and i_gid
    attr_uid,
    torn,           \* history: two refreshes overlapped, and none came since
    raced           \* history: tasks whose check overlapped a refresh, or
                    \* came when the attributes were torn

permissionVars == <<shown, i_mode, i_owner, attr_uid, torn, raced>>

\* A mode as the server shows it to user u, and the owners that come with it.
ModeFor(u, a) == [for |-> u, dir |-> a.dir, bits |-> a.bits]
OwnerOf(a) == <<a.uid, a.gid>>

\* uvfs_iget has made the inode for some user; any other follows by a refresh.
PermissionInit ==
    LET u == CHOOSE v \in Users : TRUE
        a == CHOOSE b \in Attributes : TRUE
    IN  /\ shown = [v \in Users |-> a]
        /\ i_mode = ModeFor(u, a) /\ i_owner = OwnerOf(a) /\ attr_uid = u
        /\ torn = FALSE /\ raced = {}

-----------------------------------------------------------------------------
(* uvfs_revalidate_inode, and the stores of uvfs_refresh_inode.            *)

uvfs_revalidate_inode(t) ==
    /\ op[t] = Idle
    /\ begin(t, [kind |-> "getattr"])
    /\ UNCHANGED permissionVars

\* Every check between its first read and its test of attr_uid is raced.
Racing == {t \in Tasks : op[t].kind = "entered"}

Refreshing == {t \in Tasks : op[t].kind = "refreshing"}

refresh_mode(t) ==
    /\ op[t].kind = "getattr"
    /\ Succeeded(t)
    /\ i_mode' = ModeFor(UserOf[t], reply[t].value)
    /\ op' = [v \in Tasks |->
                IF v = t \/ v \in Refreshing
                THEN [kind |-> "refreshing", alone |-> Refreshing = {}]
                ELSE op[v]]
    /\ raced' = raced \cup Racing
    /\ UNCHANGED <<shown, i_owner, attr_uid, torn, conduitVars, reply>>

\* Mutant: attr_uid is not set.
RefreshedUid_kept(t) == attr_uid

RefreshedUid(t) == UserOf[t]

refresh_owner(t) ==
    /\ op[t].kind = "refreshing"
    /\ i_owner' = OwnerOf(reply[t].value)
    /\ attr_uid' = RefreshedUid(t)
    /\ torn' = ~op[t].alone
    /\ raced' = raced \cup Racing
    /\ finish(t, Idle)
    /\ UNCHANGED <<shown, i_mode>>

-----------------------------------------------------------------------------
(* uvfs_permission.                                                        *)

Check(kind, mask, mode) == [kind |-> kind, mask |-> mask, mode |-> mode]

\* It reads the mode; writing to what cannot be written fails at once.
permission_enter(t, mask) ==
    /\ op[t] = Idle
    /\ ~("MAY_WRITE" \in mask /\ Unwritable)
    /\ op' = [op EXCEPT ![t] = Check("entered", mask, i_mode)]
    /\ raced' = IF torn \/ Refreshing # {}
                THEN raced \cup {t} ELSE raced
    /\ UNCHANGED <<shown, i_mode, i_owner, attr_uid, torn, conduitVars, reply>>

\* The attributes in the inode will do if they were fetched for this user.
permission_check(t) ==
    /\ op[t].kind = "entered"
    /\ IF UserOf[t] = attr_uid
       THEN /\ op' = [op EXCEPT ![t] =
                        Check("checking", op[t].mask, op[t].mode)]
            /\ UNCHANGED <<conduitVars, reply>>
       ELSE begin(t, Check("permission", op[t].mask, op[t].mode))
    /\ UNCHANGED permissionVars

permission_nomem(t) ==
    /\ NoMemory
    /\ op[t].kind = "entered" /\ UserOf[t] # attr_uid
    /\ op' = [op EXCEPT ![t] = Idle]
    /\ raced' = raced \ {t}
    /\ UNCHANGED <<shown, i_mode, i_owner, attr_uid, torn, conduitVars, reply>>

\* Otherwise the server is asked, and the mode of its reply is used.
permission_reply(t) ==
    /\ op[t].kind = "permission"
    /\ Succeeded(t)
    /\ finish(t, Check("checking", op[t].mask,
                       ModeFor(UserOf[t], reply[t].value)))
    /\ UNCHANGED permissionVars

\* The class of a task, from the owners in the inode.
ClassOf(t) ==
    IF UserOf[t] = i_owner[1] THEN "user"
    ELSE IF GroupOf[UserOf[t]] = i_owner[2] THEN "group" ELSE "other"

\* The mode bits, and the capabilities that override them.
Permits(t, mode, mask) ==
    \/ mask \subseteq mode.bits[ClassOf(t)]
    \/ /\ "CAP_DAC_OVERRIDE" \in Capabilities[t]
       /\ \/ "MAY_EXEC" \notin mask
          \/ \E class \in DOMAIN mode.bits : "MAY_EXEC" \in mode.bits[class]
          \/ mode.dir
    \/ /\ "CAP_DAC_READ_SEARCH" \in Capabilities[t]
       /\ mask = {"MAY_READ"} \/ (mode.dir /\ "MAY_WRITE" \notin mask)

Decided(mode, e) == [kind |-> "decided", mode |-> mode, error |-> e]

permission_decide(t) ==
    /\ op[t].kind = "checking"
    /\ \E e \in {"none", "EACCES"} :
          /\ e = "none" <=> Permits(t, op[t].mode, op[t].mask)
          /\ op' = [op EXCEPT ![t] = Decided(op[t].mode, e)]
    /\ UNCHANGED <<permissionVars, conduitVars, reply>>

-----------------------------------------------------------------------------

permission_error(t) ==
    /\ op[t].kind \in {"getattr", "permission"}
    /\ Failed(t)
    /\ finish(t, Idle)
    /\ raced' = raced \ {t}
    /\ UNCHANGED <<shown, i_mode, i_owner, attr_uid, torn>>

permission_return(t) ==
    /\ op[t].kind = "decided"
    /\ op' = [op EXCEPT ![t] = Idle]
    /\ raced' = raced \ {t}
    /\ UNCHANGED <<shown, i_mode, i_owner, attr_uid, torn, conduitVars, reply>>

serve_getattr(t) ==
    /\ op[t].kind \in {"getattr", "permission"}
    /\ serve(t, Success(shown[UserOf[t]]))
    /\ UNCHANGED permissionVars

\* The server shows a user something else.
RemoteMode(u, a) ==
    /\ shown[u] # a
    /\ shown' = [shown EXCEPT ![u] = a]
    /\ UNCHANGED <<i_mode, i_owner, attr_uid, torn, raced, conduitVars, op,
                   reply>>

permission_step(t) ==
    \/ refresh_mode(t) \/ refresh_owner(t) \/ permission_check(t)
    \/ permission_nomem(t) \/ permission_reply(t) \/ permission_decide(t)
    \/ permission_error(t) \/ permission_return(t)

PermissionNext ==
    \/ \E t \in Tasks :
          \/ uvfs_revalidate_inode(t)
          \/ \E mask \in Masks : permission_enter(t, mask)
          \/ serve_getattr(t) \/ permission_step(t)
    \/ \E u \in Users, a \in Attributes : RemoteMode(u, a)

(* A check is made with a mode that the server showed to this very user,   *)
(* however checks and refreshes of several users interleave, unless the    *)
(* attributes were being overwritten between the check's first read and    *)
(* its test of attr_uid, or were last written by two refreshes at once     *)
(* (uvfs_permission, uvfs_refresh_inode: neither takes a lock).            *)
OwnMode ==
    \A t \in Tasks : op[t].kind = "decided" /\ t \notin raced =>
        op[t].mode.for = UserOf[t]

=============================================================================
