---------------------------- MODULE UvfsMounted ----------------------------
(***************************************************************************)
(* The operations of UvfsReaddir, UvfsExport and UvfsPermission over one   *)
(* conduit.                                                                *)
(***************************************************************************)
EXTENDS UvfsReaddir, UvfsExport, UvfsPermission

VARIABLE work       \* the operations this behaviour is about

allVars == <<conduitVars, op, reply, readdirVars, exportVars, permissionVars,
             work>>

Works == {"listing", "inodes", "links", "permissions"}

TypeOK ==
    /\ status \in [Tasks -> Conduit!Statuses]
    /\ result \in [Tasks -> {"none", "reply", "EIO", "ERESTARTSYS"}]
    /\ \A t \in Tasks : op[t] = Idle \/ op[t].kind # "none"
    /\ present \subseteq Indices /\ stayed \subseteq present
    /\ f_pos \in Nat /\ i_mutex \in Tasks \cup {NULL}
    /\ mounted \in {"no", "yes", "rootless"}
    /\ exists \subseteq Objects
    /\ \A h \in icache : \E o \in Objects : IsOf(h, o)
    /\ shown \in [Users -> Attributes] /\ attr_uid \in Users
    /\ raced \subseteq Tasks

Init ==
    /\ OpsInit /\ ExportInit /\ ReaddirInit /\ PermissionInit
    /\ work \in Works
    /\ mounted = "no" <=> work = "inodes"

\* What the operations of one workload leave alone.
NotListing == UNCHANGED <<exportVars, permissionVars, work>>
NotExport == UNCHANGED <<readdirVars, permissionVars, work>>
NotPermission == UNCHANGED <<readdirVars, exportVars, work>>
OnlyConduit == UNCHANGED <<readdirVars, exportVars, permissionVars, work>>

Next ==
    \/ /\ \/ serve_close
          \/ \E t \in Tasks : \/ make_request(t) \/ make_request_killed(t)
                              \/ serve_take(t)
       /\ OnlyConduit
    \/ work = "listing" /\ ReaddirNext /\ NotListing
    \/ work = "inodes" /\ ExportNext /\ NotExport
    \/ work = "links" /\ LinkNext /\ NotExport
    \/ work \in {"inodes", "links"} /\ AnswerNext /\ NotExport
    \/ work = "permissions" /\ PermissionNext /\ NotPermission

Spec == Init /\ [][Next]_allVars

\* A task in an operation goes on, and the server, while it has the device
\* open, reads and answers.
TaskStep(t) ==
    /\ op[t] # Idle
    /\ \/ make_request(t) /\ OnlyConduit
       \/ work = "listing" /\ readdir_step(t) /\ NotListing
       \/ work \in {"inodes", "links"} /\ export_step(t) /\ NotExport
       \/ work = "permissions" /\ permission_step(t) /\ NotPermission

ServerStep(t) ==
    /\ status[t] \in {"queued", "taken"}
    /\ \/ serve_take(t) /\ OnlyConduit
       \/ serve_readdir(t) /\ NotListing
       \/ serve_export(t) /\ NotExport
       \/ serve_getattr(t) /\ NotPermission

\* An operation waits for its task or for the server, never for both.
Fairness == \A t \in Tasks : WF_allVars(TaskStep(t) \/ ServerStep(t))

FairSpec == Spec /\ Fairness

(* No operation leaks its transaction or frees it twice: a task outside    *)
(* the operations has none, on whichever path it left the last one, and a  *)
(* task holds the directory's mutex only inside uvfs_readdir.              *)
NoLeak ==
    \A t \in Tasks :
      /\ op[t] = Idle => status[t] = "free"
      /\ i_mutex = t <=> op[t].kind = "readdir"

(* Every operation returns, whichever requests fail and however the        *)
(* directory changes under the loop of uvfs_readdir.                       *)
OpsReturn == \A t \in Tasks : []<>(op[t] = Idle)

=============================================================================
