------------------------- MODULE WorkspaceRetention -------------------------
(***************************************************************************)
(* Persistent workspaces: create_sandbox(persistent=True) finds or creates *)
(* the user's workspaces row and mounts its volume; the reconciler's       *)
(* sweep_retention archives idle workspaces to object storage, deletes     *)
(* their volumes, and purges the copies later.                             *)
(*                                                                         *)
(* The sweep reads all rows once, works on volumes and objects row by row, *)
(* and writes all new states in one commit at its end.  A unit of time is  *)
(* of the order of a day: no request and no sweep is as long.              *)
(***************************************************************************)
EXTENDS Naturals, FiniteSets

CONSTANTS
    Users,
    Rows,           \* rows one user can come to have
    Sessions,       \* persistent sandboxes that exist at the same time
    Files,          \* what users write into their workspaces
    Backend,
    OnePerUser,     \* users never have two persistent sandboxes at a time
    IdleRetention,  \* idle_retention_days
    ArchiveGrace,   \* archive_grace_days
    MaxLifetime,    \* max_lifetime_days
    MaxTime,        \* the clock stops here (bound of the model)
    Restoring,      \* somebody calls WorkspaceService.restore
    Overlaps,       \* what may overlap with a sweep in this instance
    Faults

ASSUME SomeWorkspace == Users # {} /\ Rows # {}
ASSUME BackendAssumption == Backend \in {"docker", "kubernetes"}
ASSUME SwitchAssumption == OnePerUser \in BOOLEAN /\ Restoring \in BOOLEAN
ASSUME RetentionAssumption ==
    /\ IdleRetention \in Nat \ {0} /\ ArchiveGrace \in Nat
    /\ MaxLifetime \in Nat \ {0} /\ MaxTime \in Nat
ASSUME OverlapAssumption == Overlaps \subseteq {"create", "destroy"}
ASSUME RetentionFaults == Faults \subseteq {"acquire", "sweep", "delete"}

Workspaces == Users \X Rows

VARIABLES
    clock,
    rowState,    \* Workspace.state, committed; "none" while there is no row
    lastAccess,  \* Workspace.last_access_at
    createdAt,   \* Workspace.created_at
    volume,      \* the files on the workspace's volume
    present,     \* workspaces whose volume (namespace and PVC) exists
    stored,      \* workspaces whose archive.tar.gz exists
    archive,     \* the files in it
    written,     \* every file a run has ever written into it
    pc,          \* where each session is
    using,       \* its workspace
    up,          \* sessions whose container runs, with the volume mounted
    sweepPc,     \* where sweep_retention is
    actives,     \* active rows it has read and not yet dealt with
    due,         \* those of them it will archive
    overdue,     \* archived rows it will purge
    subject,     \* the workspace it is archiving
    tarball,     \* archive_workspace's result
    archived,    \* rows it has set to "archived", not committed
    purged       \* rows it has set to "deleted", not committed

rowVars == <<rowState, lastAccess, createdAt>>
dataVars == <<volume, present, stored, archive, written>>
sessionVars == <<pc, using, up>>
sweepVars == <<sweepPc, actives, due, overdue, subject, tarball, archived, purged>>
vars == <<clock, rowVars, dataVars, sessionVars, sweepVars>>

-----------------------------------------------------------------------------

TypeOK ==
    /\ clock \in 0 .. MaxTime
    /\ rowState \in [Workspaces -> {"none", "active", "archived", "deleted"}]
    /\ lastAccess \in [Workspaces -> 0 .. MaxTime]
    /\ createdAt \in [Workspaces -> 0 .. MaxTime]
    /\ volume \in [Workspaces -> SUBSET Files] /\ archive \in [Workspaces -> SUBSET Files]
    /\ written \in [Workspaces -> SUBSET Files]
    /\ present \subseteq Workspaces /\ stored \subseteq Workspaces
    /\ pc \in [Sessions -> {"idle", "found", "mounted", "live"}]
    /\ using \in [Sessions -> Workspaces]
    /\ up \subseteq Sessions
    /\ sweepPc \in {"idle", "rows", "put", "delete"}
    /\ actives \subseteq Workspaces /\ due \subseteq actives /\ overdue \subseteq Workspaces
    /\ subject \in Workspaces
    /\ tarball \subseteq Files
    /\ archived \subseteq Workspaces /\ purged \subseteq Workspaces

AnyWorkspace == CHOOSE w \in Workspaces : TRUE

Init ==
    /\ clock = 0
    /\ rowState = [w \in Workspaces |-> "none"]
    /\ lastAccess = [w \in Workspaces |-> 0] /\ createdAt = [w \in Workspaces |-> 0]
    /\ volume = [w \in Workspaces |-> {}] /\ archive = [w \in Workspaces |-> {}]
    /\ written = [w \in Workspaces |-> {}] /\ present = {} /\ stored = {}
    /\ pc = [x \in Sessions |-> "idle"]
    /\ using = [x \in Sessions |-> AnyWorkspace]
    /\ up = {}
    /\ sweepPc = "idle" /\ actives = {} /\ due = {} /\ overdue = {}
    /\ subject = AnyWorkspace /\ tarball = {} /\ archived = {} /\ purged = {}

RowsOf(u) == {w \in {u} \X Rows : rowState[w] # "none"}

On(w) == {x \in Sessions : pc[x] # "idle" /\ using[x] = w}

Mounting(w) == {x \in up : using[x] = w}

(* On Kubernetes every pod of a workspace has the same name in the same    *)
(* namespace: deleting "the" pod deletes whichever is there.               *)
WithoutPod(w) == IF Backend = "kubernetes" THEN up \ Mounting(w) ELSE up

(* What _has_live_sandbox selects; it raises when there are two.           *)
Live(w) == {x \in On(w) : pc[x] = "live"}
TwoLive(w) == \E x, y \in Live(w) : x # y

-----------------------------------------------------------------------------
(* create_sandbox(persistent=True), the sandbox's life, and its end.       *)

Begin(x, w) ==
    /\ pc' = [pc EXCEPT ![x] = "found"]
    /\ using' = [using EXCEPT ![x] = w]
    /\ UNCHANGED <<clock, rowVars, dataVars, up, sweepVars>>

MayBegin(x, u) ==
    /\ pc[x] = "idle"
    /\ "create" \in Overlaps \/ sweepPc = "idle"
    /\ OnePerUser => \A w \in {u} \X Rows : On(w) = {}

(* get_or_create finds the user's only row; only an active one is mounted. *)
Find(x, u) ==
    /\ MayBegin(x, u)
    /\ \E w \in RowsOf(u) :
          /\ RowsOf(u) = {w}
          /\ rowState[w] = "active"
          /\ Begin(x, w)

(* ... or inserts one, which nobody else sees before the commit.           *)
FindNone(x, u) ==
    /\ MayBegin(x, u)
    /\ RowsOf(u) = {}
    /\ \E w \in {u} \X Rows : On(w) = {} /\ Begin(x, w)

(* acquire: the volume is created unless it exists.  On Kubernetes a pod   *)
(* that is found in the workspace's namespace is taken for a stale one.    *)
Mount(x) ==
    /\ pc[x] = "found"
    /\ pc' = [pc EXCEPT ![x] = "mounted"]
    /\ present' = present \cup {using[x]}
    /\ up' = WithoutPod(using[x]) \cup {x}
    /\ UNCHANGED <<clock, rowVars, volume, stored, archive, written, using, sweepVars>>

(* The row (if new), the touch, and the sandbox, in one commit.            *)
CommitCreate(x) ==
    /\ pc[x] = "mounted"
    /\ pc' = [pc EXCEPT ![x] = "live"]
    /\ IF rowState[using[x]] = "none"
       THEN /\ rowState' = [rowState EXCEPT ![using[x]] = "active"]
            /\ createdAt' = [createdAt EXCEPT ![using[x]] = clock]
       ELSE UNCHANGED <<rowState, createdAt>>
    /\ lastAccess' = [lastAccess EXCEPT ![using[x]] = clock]
    /\ UNCHANGED <<clock, dataVars, using, up, sweepVars>>

End(x) ==
    /\ pc' = [pc EXCEPT ![x] = "idle"]
    /\ using' = [using EXCEPT ![x] = AnyWorkspace]
    /\ up' = WithoutPod(using[x]) \ {x}
    /\ UNCHANGED <<clock, rowVars, dataVars, sweepVars>>

CreateFails(x) ==
    /\ "acquire" \in Faults
    /\ pc[x] \in {"found", "mounted"}
    /\ End(x)

(* run_in_sandbox: the run writes a file, _touch_workspace commits.        *)
Work(x) ==
    /\ pc[x] = "live" /\ x \in up
    /\ \E f \in Files \ written[using[x]] :
          /\ volume' = [volume EXCEPT ![using[x]] = @ \cup {f}]
          /\ written' = [written EXCEPT ![using[x]] = @ \cup {f}]
    /\ lastAccess' = [lastAccess EXCEPT ![using[x]] = clock]
    /\ UNCHANGED <<clock, rowState, createdAt, present, stored, archive, sessionVars, sweepVars>>

(* destroy_sandbox, by the user or the TTL reaper: the volume stays.       *)
(* Without "destroy" in Overlaps, no sandbox ends during a sweep.          *)
Destroy(x) ==
    /\ pc[x] = "live"
    /\ "destroy" \in Overlaps \/ sweepPc = "idle"
    /\ End(x)

(* WorkspaceService.restore, and the commit of whoever calls it: the tar   *)
(* is unpacked over what the volume holds.  Nothing in the service calls   *)
(* it, so the model spares it the overlap with a sweep.                    *)
Restore(w) ==
    /\ Restoring /\ sweepPc = "idle"
    /\ rowState[w] = "archived" /\ w \in stored
    /\ volume' = [volume EXCEPT ![w] = @ \cup archive[w]]
    /\ present' = present \cup {w}
    /\ rowState' = [rowState EXCEPT ![w] = "active"]
    /\ lastAccess' = [lastAccess EXCEPT ![w] = clock]
    /\ UNCHANGED <<clock, createdAt, stored, archive, written, sessionVars, sweepVars>>

-----------------------------------------------------------------------------
(* sweep_retention.                                                        *)

SweepEnd ==
    /\ sweepPc' = "idle" /\ actives' = {} /\ due' = {} /\ overdue' = {}
    /\ subject' = AnyWorkspace /\ tarball' = {} /\ archived' = {} /\ purged' = {}

IdleFor(w, days) == clock >= lastAccess[w] + days

RetentionOver(w) == IdleFor(w, IdleRetention) \/ clock >= createdAt[w] + MaxLifetime
PastGrace(w) == IdleFor(w, IdleRetention + ArchiveGrace)

(* Mutants: only workspaces that are idle and old are archived; the grace  *)
(* period is forgotten.                                                    *)
DueIfBoth(w) ==
    /\ rowState[w] = "active"
    /\ IdleFor(w, IdleRetention) /\ clock >= createdAt[w] + MaxLifetime
PurgeableEarly(w) == rowState[w] = "archived" /\ IdleFor(w, IdleRetention)

Due(w) == rowState[w] = "active" /\ RetentionOver(w)
Purgeable(w) == rowState[w] = "archived" /\ PastGrace(w)

(* Without "create" in Overlaps, no create is in flight during a sweep.    *)
SweepStart ==
    /\ sweepPc = "idle"
    /\ "create" \in Overlaps \/ \A x \in Sessions : pc[x] \in {"idle", "live"}
    /\ sweepPc' = "rows"
    /\ actives' = {w \in Workspaces : rowState[w] = "active"}
    /\ due' = {w \in Workspaces : Due(w)}
    /\ overdue' = {w \in Workspaces : Purgeable(w)}
    /\ UNCHANGED <<clock, rowVars, dataVars, sessionVars, subject, tarball, archived, purged>>

(* measure_workspace_usage and archive_workspace run a pod on Kubernetes.  *)
(* If that of a create_sandbox in flight has the name, theirs is refused,  *)
(* and they delete the other; a failed measurement is only logged.         *)
PodFree(w) == Backend = "kubernetes" /\ Live(w) = {} => Mounting(w) = {}

SweepCollides(w) ==
    /\ sweepPc = "rows" /\ w \in actives
    /\ ~PodFree(w)
    /\ up' = WithoutPod(w)
    /\ \/ UNCHANGED sweepVars
       \/ w \in due /\ SweepEnd
    /\ UNCHANGED <<clock, rowVars, dataVars, pc, using>>

(* Mutant: the skipped workspace stays in line to be archived.             *)
SweepSkipStillDue(w) ==
    /\ sweepPc = "rows" /\ w \in actives
    /\ w \in due => Live(w) # {}
    /\ ~TwoLive(w)
    /\ PodFree(w)
    /\ actives' = actives \ {w}
    /\ UNCHANGED <<clock, rowVars, dataVars, sessionVars, sweepPc, due, overdue, subject, tarball, archived, purged>>

(* A row that is not due, or in use.  Its usage is measured if it is not   *)
(* in use, which on Docker creates a volume that is missing.               *)
SweepSkip(w) ==
    /\ sweepPc = "rows" /\ w \in actives
    /\ w \in due => Live(w) # {}
    /\ ~TwoLive(w)
    /\ PodFree(w)
    /\ present' = IF Backend = "docker" /\ Live(w) = {} THEN present \cup {w} ELSE present
    /\ actives' = actives \ {w} /\ due' = due \ {w}
    /\ UNCHANGED <<clock, rowVars, volume, stored, archive, written, sessionVars>>
    /\ UNCHANGED <<sweepPc, overdue, subject, tarball, archived, purged>>

(* archive_workspace: a Docker volume that is missing is created empty.    *)
SweepArchive(w) ==
    /\ sweepPc = "rows" /\ w \in due
    /\ Live(w) = {} /\ PodFree(w)
    /\ Backend = "kubernetes" => w \in present
    /\ subject' = w
    /\ tarball' = volume[w]
    /\ present' = present \cup {w}
    /\ sweepPc' = "put"
    /\ UNCHANGED <<clock, rowVars, volume, stored, archive, written, sessionVars, actives, due, overdue, archived, purged>>

(* Mutant: the upload is not awaited, and fails.                           *)
SweepPutLost ==
    /\ sweepPc = "put"
    /\ sweepPc' = "delete"
    /\ UNCHANGED <<clock, rowVars, dataVars, sessionVars>>
    /\ UNCHANGED <<actives, due, overdue, subject, tarball, archived, purged>>

SweepPut ==
    /\ sweepPc = "put"
    /\ archive' = [archive EXCEPT ![subject] = tarball]
    /\ stored' = stored \cup {subject}
    /\ sweepPc' = "delete"
    /\ UNCHANGED <<clock, rowVars, volume, present, written, sessionVars>>
    /\ UNCHANGED <<actives, due, overdue, subject, tarball, archived, purged>>

(* delete_workspace_volume: Docker refuses while a container mounts it,    *)
(* Kubernetes deletes the namespace with the pod in it.                    *)
SweepDelete ==
    /\ sweepPc = "delete"
    /\ Backend = "docker" => Mounting(subject) = {}
    /\ volume' = [volume EXCEPT ![subject] = {}]
    /\ present' = present \ {subject}
    /\ up' = up \ Mounting(subject)
    /\ archived' = archived \cup {subject}
    /\ actives' = actives \ {subject} /\ due' = due \ {subject}
    /\ sweepPc' = "rows" /\ subject' = AnyWorkspace /\ tarball' = {}
    /\ UNCHANGED <<clock, rowVars, stored, archive, written, pc, using, overdue, purged>>

(* On Kubernetes a failed delete of the namespace is suppressed.           *)
SweepDeleteSuppressed ==
    /\ "delete" \in Faults /\ Backend = "kubernetes"
    /\ sweepPc = "delete"
    /\ archived' = archived \cup {subject}
    /\ actives' = actives \ {subject} /\ due' = due \ {subject}
    /\ sweepPc' = "rows" /\ subject' = AnyWorkspace /\ tarball' = {}
    /\ UNCHANGED <<clock, rowVars, dataVars, sessionVars, overdue, purged>>

SweepPurge(w) ==
    /\ sweepPc = "rows" /\ w \in overdue
    /\ archive' = [archive EXCEPT ![w] = {}]
    /\ stored' = stored \ {w}
    /\ overdue' = overdue \ {w}
    /\ purged' = purged \cup {w}
    /\ UNCHANGED <<clock, rowVars, volume, present, written, sessionVars>>
    /\ UNCHANGED <<sweepPc, actives, due, subject, tarball, archived>>

SweepCommit ==
    /\ sweepPc = "rows" /\ actives = {} /\ overdue = {}
    /\ rowState' = [w \in Workspaces |->
          IF w \in purged THEN "deleted" ELSE IF w \in archived THEN "archived" ELSE rowState[w]]
    /\ SweepEnd
    /\ UNCHANGED <<clock, lastAccess, createdAt, dataVars, sessionVars>>

(* The sweep raises, and nothing it set is committed: two live sandboxes   *)
(* on one workspace, a volume in use or missing, or anything else.         *)
SweepFails ==
    /\ \/ sweepPc = "rows" /\ \E w \in actives : TwoLive(w)
       \/ sweepPc = "rows" /\ Backend = "kubernetes" /\ \E w \in due : w \notin present
       \/ sweepPc = "delete" /\ Backend = "docker" /\ Mounting(subject) # {}
       \/ sweepPc # "idle" /\ "sweep" \in Faults
    /\ SweepEnd
    /\ UNCHANGED <<clock, rowVars, dataVars, sessionVars>>

-----------------------------------------------------------------------------

TimePasses ==
    /\ clock < MaxTime
    /\ sweepPc = "idle" /\ \A x \in Sessions : pc[x] \in {"idle", "live"}
    /\ clock' = clock + 1
    /\ UNCHANGED <<rowVars, dataVars, sessionVars, sweepVars>>

Finish(x) == Mount(x) \/ CommitCreate(x) \/ CreateFails(x) \/ Destroy(x)

Session(x) == (\E u \in Users : Find(x, u) \/ FindNone(x, u)) \/ Finish(x) \/ Work(x)

Sweep ==
    \/ SweepStart \/ SweepPut \/ SweepDelete \/ SweepDeleteSuppressed
    \/ SweepCommit \/ SweepFails
    \/ \E w \in Workspaces : SweepSkip(w) \/ SweepCollides(w) \/ SweepArchive(w) \/ SweepPurge(w)

Next ==
    \/ \E x \in Sessions : Session(x)
    \/ \E w \in Workspaces : Restore(w)
    \/ Sweep
    \/ TimePasses

Spec == Init /\ [][Next]_vars

(* Requests run on, sandboxes are destroyed (by the TTL reaper at last),   *)
(* the reconciler's loop goes on, and time passes.                         *)
FairSpec ==
    /\ Spec
    /\ \A x \in Sessions : WF_vars(Finish(x))
    /\ WF_vars(Sweep)
    /\ WF_vars(TimePasses)

-----------------------------------------------------------------------------
(* Properties.                                                             *)

(* What a user wrote stays on the volume or in the archive until the whole *)
(* retention time has passed without an access: an idle workspace "is      *)
(* archived, not deleted".                                                 *)
NothingLost ==
    \A w \in Workspaces :
        rowState[w] # "none" /\ ~PastGrace(w) => written[w] \subseteq volume[w] \cup archive[w]

(* A row is set to deleted only then, even though the sweep decides on     *)
(* what it read at its start; unless a sandbox runs on an archived         *)
(* workspace, which LiveIsActive is about.                                 *)
DeletesOnlyPastGrace ==
    \A w \in Workspaces :
        rowState[w] # "deleted" /\ rowState'[w] = "deleted" => PastGrace(w) \/ Live(w) # {}

(* A running sandbox's workspace is not archived "out from under" it.      *)
LiveIsActive == \A w \in Workspaces : Live(w) # {} => rowState[w] = "active"

(* A sandbox runs until it is destroyed, whatever other sandboxes its user *)
(* creates: the pod that a create deletes is a leftover "from a prior,     *)
(* not-cleanly-destroyed session".                                         *)
LiveIsUp == \A x \in Sessions : pc[x] = "live" => x \in up

(* One workspace row per user; with a second one, get_or_create raises.    *)
OneWorkspacePerUser == \A u \in Users : Cardinality(RowsOf(u)) <= 1

(* A workspace that nobody uses is archived in the end: it leaves the      *)
(* active state unless somebody touches it.                                *)
IdleIsArchived ==
    \A w \in Workspaces :
        rowState[w] = "active" /\ RetentionOver(w)
           ~> rowState[w] # "active" \/ ~RetentionOver(w)

=============================================================================
