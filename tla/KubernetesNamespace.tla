------------------------- MODULE KubernetesNamespace -------------------------
(***************************************************************************)
(* One sandbox namespace of KubernetesProvisioner, and those who work on   *)
(* it by name: acquire and destroy of the sandboxes it is for, and the     *)
(* keeper, which is the reconciler (measuring and archiving a workspace,   *)
(* or collecting an orphan) or somebody who restores an archive.           *)
(*                                                                         *)
(* With Persistent it is the namespace of one workspace, shared by all its *)
(* sessions for the workspace's lifetime; otherwise that of one ephemeral  *)
(* sandbox, which is made for one acquire and deleted with it.  Every pod  *)
(* in a namespace has the same name, so whoever deletes, awaits or execs   *)
(* in "the" pod gets whichever is there.                                   *)
(***************************************************************************)
EXTENDS Naturals, Sequences

CONSTANTS
    Sessions,   \* sandboxes being created, used and destroyed
    Persistent,
    Faults

ASSUME PersistentAssumption == Persistent \in BOOLEAN
ASSUME NamespaceFaults == Faults \subseteq {"api", "pod", "timeout", "crash"}

Keeper == "keeper"
Actors == Sessions \cup {Keeper}

ASSUME KeeperAssumption == Keeper \notin Sessions

(* What a namespace is filled with, in this order.                         *)
Fences == <<"default-deny", "deny-metadata", "sandbox-quota", "sandbox-limits">>

(* Mutant: the claim is created before what fences the pod in.             *)
SetupClaimFirst == IF Persistent THEN <<"claim">> \o Fences ELSE Fences

Setup == IF Persistent THEN Append(Fences, "claim") ELSE Fences

VARIABLES
    ns,        \* "none", "active" or "terminating"
    made,      \* the objects in it
    podOf,     \* whose create_namespaced_pod made its pod
    phase,     \* the pod's phase; "none" without one
    deleting,  \* the pod has been deleted and is in its grace period
    pc,        \* where each actor is
    step,      \* the next element of Setup for it to create
    ran,       \* whose pod the keeper's last command was executed in
    due,       \* the workspace is past its retention time
    row        \* the state of the workspace's row; "none" without one

clusterVars == <<ns, made, podOf, phase, deleting>>
workspaceVars == <<due, row>>
vars == <<clusterVars, pc, step, ran, workspaceVars>>

-----------------------------------------------------------------------------

SessionPcs ==
    {"idle", "check", "make", "setup", "stale", "gone", "create", "ready", "cleanup", "live"}
KeeperPcs ==
    {"idle", "check", "make", "setup", "measure", "measuring", "decide", "archive", "archiving",
     "put", "delete", "restore", "restoring"}

TypeOK ==
    /\ ns \in {"none", "active", "terminating"}
    /\ made \subseteq {"default-deny", "deny-metadata", "sandbox-quota", "sandbox-limits", "claim"}
    /\ podOf \in Actors /\ phase \in {"none", "pending", "running", "failed"}
    /\ deleting \in BOOLEAN
    /\ pc \in [Actors -> SessionPcs \cup KeeperPcs]
    /\ step \in [Actors -> 1 .. 6]
    /\ ran \in Actors \cup {"nobody"}
    /\ due \in BOOLEAN /\ row \in {"none", "active", "archived"}

Init ==
    /\ ns = "none" /\ made = {}
    /\ podOf = Keeper /\ phase = "none" /\ deleting = FALSE
    /\ pc = [a \in Actors |-> "idle"] /\ step = [a \in Actors |-> 1]
    /\ ran = "nobody"
    /\ due = FALSE /\ row = "none"

HasPod == phase # "none"

Go(a, where) == pc' = [pc EXCEPT ![a] = where]

(* delete_namespaced_pod: the pod is there for its grace period.           *)
DeletePod == deleting' = HasPod

(* delete_namespace, which deletes the pod too.                            *)
DeleteNamespace ==
    /\ ns' = IF ns = "active" THEN "terminating" ELSE ns
    /\ DeletePod

-----------------------------------------------------------------------------
(* acquire.                                                                *)

(* A persistent sandbox's namespace is looked up, an ephemeral one's has a *)
(* new name.  An archived workspace is refused.                            *)
Begin(x) ==
    /\ pc[x] = "idle" /\ row # "archived"
    /\ ~Persistent => ns = "none" /\ \A a \in Actors : pc[a] = "idle"
    /\ Go(x, IF Persistent THEN "check" ELSE "make")
    /\ UNCHANGED <<clusterVars, step, ran, workspaceVars>>

(* read_namespace: one that exists, in whatever state, is taken for set up.*)
(* restore_workspace looks the same way.                                   *)
CheckNamespace(a) ==
    /\ pc[a] = "check"
    /\ Go(a, IF ns = "none" THEN "make" ELSE IF a = Keeper THEN "restore" ELSE "stale")
    /\ UNCHANGED <<clusterVars, step, ran, workspaceVars>>

CreateNamespace(a) ==
    /\ pc[a] = "make" /\ ns = "none"
    /\ ns' = "active"
    /\ step' = [step EXCEPT ![a] = 1]
    /\ Go(a, "setup")
    /\ UNCHANGED <<made, podOf, phase, deleting, ran, workspaceVars>>

CreatePart(a) ==
    /\ pc[a] = "setup" /\ ns = "active"
    /\ made' = made \cup {Setup[step[a]]}
    /\ step' = [step EXCEPT ![a] = @ + 1]
    /\ IF step[a] < Len(Setup) THEN UNCHANGED pc
       ELSE Go(a, IF a = Keeper THEN "restore" ELSE "create")
    /\ UNCHANGED <<ns, podOf, phase, deleting, ran, workspaceVars>>

(* _ensure_no_stale_pod: a pod that is found is deleted ...                *)
ClearStalePod(x) ==
    /\ pc[x] = "stale"
    /\ IF HasPod THEN DeletePod /\ Go(x, "gone") ELSE Go(x, "create") /\ UNCHANGED deleting
    /\ UNCHANGED <<ns, made, podOf, phase, step, ran, workspaceVars>>

(* ... and awaited, for thirty seconds.                                    *)
StalePodGone(x) ==
    /\ pc[x] = "gone" /\ ~HasPod
    /\ Go(x, "create")
    /\ UNCHANGED <<clusterVars, step, ran, workspaceVars>>

NewPod(a) == podOf' = a /\ phase' = "pending" /\ deleting' = FALSE

CreatePod(x) ==
    /\ pc[x] = "create" /\ ns = "active" /\ ~HasPod
    /\ NewPod(x) /\ Go(x, "ready")
    /\ UNCHANGED <<ns, made, step, ran, workspaceVars>>

(* _wait_ready reads the pod by its name, whoever created it, and does not *)
(* look whether it is being deleted.  The commit of the row, and of the    *)
(* touch, comes with it.                                                   *)
Ready(x) ==
    /\ pc[x] = "ready" /\ phase = "running"
    /\ Go(x, "live")
    /\ due' = FALSE
    /\ row' = IF Persistent THEN "active" ELSE row
    /\ UNCHANGED <<clusterVars, step, ran>>

(* What the API server refuses: an object that exists already, or anything *)
(* in a namespace that is terminating or gone.                             *)
Refused(a) ==
    \/ pc[a] = "make" /\ ns # "none"
    \/ pc[a] = "setup" /\ ns # "active"
    \/ pc[a] = "create" /\ (ns # "active" \/ HasPod)
    \/ pc[a] = "ready" /\ phase \in {"none", "failed"}

AcquireFails(x) ==
    /\ \/ Refused(x)
       \/ "api" \in Faults /\ pc[x] \in {"check", "make", "setup", "stale", "gone", "create", "ready"}
       \/ "timeout" \in Faults /\ pc[x] \in {"gone", "ready"}
    /\ Go(x, "cleanup")
    /\ UNCHANGED <<clusterVars, step, ran, workspaceVars>>

(* _cleanup_after_acquire_failure, and destroy: the pod, or the namespace. *)
TearDown == IF Persistent THEN DeletePod /\ UNCHANGED ns ELSE DeleteNamespace

(* The cleanup's own errors are suppressed.                                *)
CleanUp(x) ==
    /\ pc[x] = "cleanup"
    /\ \/ TearDown
       \/ "api" \in Faults /\ UNCHANGED <<ns, deleting>>
    /\ Go(x, "idle")
    /\ UNCHANGED <<made, podOf, phase, step, ran, workspaceVars>>

Destroy(x) ==
    /\ pc[x] = "live"
    /\ TearDown
    /\ Go(x, "idle")
    /\ UNCHANGED <<made, podOf, phase, step, ran, workspaceVars>>

(* The process dies in the middle of an acquire.                           *)
Crash(x) ==
    /\ "crash" \in Faults
    /\ pc[x] \notin {"idle", "live"}
    /\ Go(x, "idle")
    /\ UNCHANGED <<clusterVars, step, ran, workspaceVars>>

-----------------------------------------------------------------------------
(* The keeper on a workspace: a throwaway pod of the same name mounts the  *)
(* claim, a command is executed in "the" pod, and "the" pod is deleted.    *)

NoLive == \A x \in Sessions : pc[x] # "live"

(* sweep_retention measures a workspace that no sandbox uses.              *)
SweepStart ==
    /\ pc[Keeper] = "idle" /\ row = "active"
    /\ Go(Keeper, IF NoLive THEN "measure" ELSE "decide")
    /\ UNCHANGED <<clusterVars, step, ran, workspaceVars>>

(* restore, of an archived workspace.                                      *)
RestoreStart ==
    /\ pc[Keeper] = "idle" /\ row = "archived"
    /\ Go(Keeper, "check")
    /\ UNCHANGED <<clusterVars, step, ran, workspaceVars>>

Running(job) ==
    CASE job = "measure" -> "measuring" [] job = "archive" -> "archiving" [] job = "restore" -> "restoring"

ThrowawayPod(job) ==
    /\ pc[Keeper] = job
    /\ ns = "active" /\ ~HasPod
    /\ NewPod(Keeper) /\ Go(Keeper, Running(job))
    /\ UNCHANGED <<ns, made, step, ran, workspaceVars>>

Then(job) == CASE job = "measure" -> "decide" [] job = "archive" -> "put" [] job = "restore" -> "idle"

(* Mutant: tar's exit code is not looked at.                               *)
ThrowawayRunsAny(job) ==
    /\ pc[Keeper] = Running(job)
    /\ phase = "running"
    /\ ran' = podOf
    /\ DeletePod
    /\ row' = "active"
    /\ due' = (due /\ job # "restore")
    /\ Go(Keeper, Then(job))
    /\ UNCHANGED <<ns, made, podOf, phase, step>>

(* In a sandbox's pod nothing is mounted where the command looks: it fails.*)
ThrowawayRuns(job) ==
    /\ pc[Keeper] = Running(job)
    /\ phase = "running" /\ podOf = Keeper
    /\ ran' = podOf
    /\ DeletePod
    /\ row' = "active"
    /\ due' = (due /\ job # "restore")
    /\ Go(Keeper, Then(job))
    /\ UNCHANGED <<ns, made, podOf, phase, step>>

(* A measurement that fails is logged, anything else ends the sweep.  The  *)
(* pod is deleted all the same.                                            *)
ThrowawayFails(job) ==
    /\ \/ pc[Keeper] = job /\ (ns # "active" \/ HasPod)
       \/ pc[Keeper] = Running(job) /\ phase \in {"none", "failed"}
       \/ pc[Keeper] = Running(job) /\ phase = "running" /\ podOf # Keeper
       \/ pc[Keeper] \in {job, Running(job)} /\ {"api", "timeout"} \cap Faults # {}
    /\ DeletePod
    /\ Go(Keeper, IF job = "measure" THEN "decide" ELSE "idle")
    /\ UNCHANGED <<ns, made, podOf, phase, step, ran, workspaceVars>>

(* restore_workspace's setup of a namespace fails: nothing is cleaned up.  *)
RestoreFails ==
    /\ pc[Keeper] \in {"check", "make", "setup"}
    /\ Refused(Keeper) \/ "api" \in Faults
    /\ Go(Keeper, "idle")
    /\ UNCHANGED <<clusterVars, step, ran, workspaceVars>>

Decide ==
    /\ pc[Keeper] = "decide"
    /\ Go(Keeper, IF due /\ NoLive THEN "archive" ELSE "idle")
    /\ UNCHANGED <<clusterVars, step, ran, workspaceVars>>

Put ==
    /\ pc[Keeper] = "put"
    /\ Go(Keeper, "delete")
    /\ UNCHANGED <<clusterVars, step, ran, workspaceVars>>

(* delete_workspace_volume, whose errors are suppressed, and the commit.   *)
DeleteVolume ==
    /\ pc[Keeper] = "delete"
    /\ \/ DeleteNamespace
       \/ "api" \in Faults /\ UNCHANGED <<ns, deleting>>
    /\ row' = "archived"
    /\ Go(Keeper, "idle")
    /\ UNCHANGED <<made, podOf, phase, step, ran, due>>

(* The workspace has been idle for its retention time.                     *)
BecomeDue ==
    /\ row = "active" /\ ~due
    /\ \A a \in Actors : pc[a] = "idle"
    /\ due' = TRUE
    /\ UNCHANGED <<clusterVars, pc, step, ran, row>>

(* reap_orphans: only ephemeral namespaces have the label it lists by, and *)
(* no live row names it.  (An acquire in progress is too young.)           *)
Collect ==
    /\ ~Persistent /\ ns = "active"
    /\ \A x \in Sessions : pc[x] = "idle"
    /\ DeleteNamespace
    /\ UNCHANGED <<made, podOf, phase, pc, step, ran, workspaceVars>>

-----------------------------------------------------------------------------
(* The cluster.                                                            *)

(* A pod whose volume has no claim stays pending.                          *)
PodStarts ==
    /\ phase = "pending" /\ ~deleting
    /\ Persistent => "claim" \in made
    /\ phase' = "running"
    /\ UNCHANGED <<ns, made, podOf, deleting, pc, step, ran, workspaceVars>>

PodDies ==
    /\ "pod" \in Faults
    /\ phase = "pending"
    /\ phase' = "failed"
    /\ UNCHANGED <<ns, made, podOf, deleting, pc, step, ran, workspaceVars>>

PodGone ==
    /\ deleting
    /\ phase' = "none" /\ deleting' = FALSE /\ podOf' = Keeper
    /\ UNCHANGED <<ns, made, pc, step, ran, workspaceVars>>

NamespaceGone ==
    /\ ns = "terminating" /\ ~HasPod
    /\ ns' = "none" /\ made' = {}
    /\ UNCHANGED <<podOf, phase, deleting, pc, step, ran, workspaceVars>>

Cluster == PodStarts \/ PodDies \/ PodGone \/ NamespaceGone

-----------------------------------------------------------------------------

Acquire(x) ==
    \/ CheckNamespace(x) \/ CreateNamespace(x) \/ CreatePart(x) \/ ClearStalePod(x)
    \/ StalePodGone(x) \/ CreatePod(x) \/ Ready(x) \/ AcquireFails(x) \/ CleanUp(x)

Keep ==
    \/ CheckNamespace(Keeper) \/ CreateNamespace(Keeper) \/ CreatePart(Keeper) \/ RestoreFails
    \/ \E job \in {"measure", "archive", "restore"} :
          ThrowawayPod(job) \/ ThrowawayRuns(job) \/ ThrowawayFails(job)
    \/ Decide \/ Put \/ DeleteVolume

Next ==
    \/ \E x \in Sessions : Begin(x) \/ Acquire(x) \/ Destroy(x) \/ Crash(x)
    \/ SweepStart \/ RestoreStart \/ Keep \/ BecomeDue \/ Collect
    \/ Cluster

Spec == Init /\ [][Next]_vars

(* Calls return, the kubelet and the namespace controller do their work,   *)
(* and the reconciler's loop goes on.                                      *)
FairSpec ==
    /\ Spec
    /\ \A x \in Sessions : WF_vars(Acquire(x))
    /\ WF_vars(SweepStart) /\ WF_vars(Keep) /\ WF_vars(Collect)
    /\ WF_vars(PodStarts) /\ WF_vars(PodGone) /\ WF_vars(NamespaceGone)

-----------------------------------------------------------------------------
(* Properties.                                                             *)

(* Nothing runs in a namespace that is not fenced in: neither a session    *)
(* that finds the namespace another is setting up, nor one that finds what *)
(* a failure or a crash has left half made.  What makes it so is that the  *)
(* claim, without which no pod of a workspace starts, is created last.     *)
Confined ==
    ns = "active" /\ phase = "running"
        => {"default-deny", "deny-metadata", "sandbox-quota", "sandbox-limits"} \subseteq made

(* An archive that is uploaded, and for which the claim is then deleted,   *)
(* was taken in a pod that mounts the claim, even if another session's     *)
(* pod has taken the throwaway pod's place.                                *)
ArchivedFromClaim == pc[Keeper] \in {"put", "delete"} => ran = Keeper

(* A namespace is set up "exactly once per workspace": one that exists and *)
(* that nobody is setting up has everything in it.                         *)
SetUpOnce ==
    ns = "active" /\ (\A a \in Actors : pc[a] # "setup")
        => made = {Setup[i] : i \in 1 .. Len(Setup)}

(* Sandboxes that are live at once have a pod each.                        *)
OwnPod == \A x \in Sessions : pc[x] = "live" => podOf = x /\ HasPod

(* A workspace past its retention time is archived unless somebody uses it.*)
ArchivedInTheEnd == due ~> row = "archived" \/ \E x \in Sessions : pc[x] # "idle"

(* What a failed acquire or a crash leaves of an ephemeral sandbox goes.   *)
LeftoverGoes ==
    ~Persistent /\ ns = "active" /\ (\A x \in Sessions : pc[x] = "idle") ~> ns = "none"

=============================================================================
