---------------------------- MODULE DockerSandbox ----------------------------
(***************************************************************************)
(* DockerProvisioner: a sandbox is a main container and its sidecars,      *)
(* which share main's network namespace.  acquire creates them one after   *)
(* the other, undoing what it has done when one fails; destroy removes     *)
(* sidecars first and main last; the orphan GC knows sandboxes by the      *)
(* labels of the containers that list_sandbox_refs finds.                  *)
(***************************************************************************)
EXTENDS Naturals

CONSTANTS
    Sandboxes,    \* sandbox ids; one is used again when nothing of it is left
    Sidecars,     \* how many sidecars each has, a number
    SlowAcquire,  \* an acquire may outlast orphan_grace_seconds: TRUE or FALSE
    Faults        \* some of "start", "health", "daemon", "delete", "crash", "list"

Main == 0
Parts == Main .. Sidecars
Containers == Sandboxes \X Parts

VARIABLES
    exists,    \* containers
    pc,        \* where the owner of each sandbox is
    at,        \* the sidecar it is at
    refs,      \* sidecar_refs
    aged,      \* sandboxes whose main is older than orphan_grace_seconds
    gcPc,      \* where the orphan GC is
    suspects,  \* the sandboxes that are old and in no row, when it starts
    unseen,    \* listed containers it has not inspected yet
    found,     \* containers it has inspected
    victim     \* the sandbox it is destroying, if any

ownerVars == <<pc, at, refs>>
gcVars == <<gcPc, suspects, unseen, found, victim>>
vars == <<exists, ownerVars, aged, gcVars>>

-----------------------------------------------------------------------------

TypeOK ==
    /\ exists \subseteq Containers
    /\ pc \in [Sandboxes -> {"idle", "starting", "sidecars", "health", "undo", "live", "destroy", "lost"}]
    /\ at \in [Sandboxes -> 1 .. Sidecars + 1]
    /\ refs \in [Sandboxes -> SUBSET (1 .. Sidecars)]
    /\ aged \subseteq Sandboxes
    /\ gcPc \in {"idle", "show", "destroy"}
    /\ suspects \subseteq Sandboxes
    /\ unseen \subseteq Containers /\ found \subseteq Containers
    /\ victim \subseteq Sandboxes /\ \A r, s \in victim : r = s

Init ==
    /\ exists = {}
    /\ pc = [s \in Sandboxes |-> "idle"]
    /\ at = [s \in Sandboxes |-> 1] /\ refs = [s \in Sandboxes |-> {}]
    /\ aged = {}
    /\ gcPc = "idle" /\ suspects = {} /\ unseen = {} /\ found = {} /\ victim = {}

Of(s) == {c \in exists : c[1] = s}

(* What the GC remembers of one.                                           *)
Known(s) == {c \in unseen \cup found : c[1] = s}

Go(s, where) == pc' = [pc EXCEPT ![s] = where]

(* Removing a container: one that is gone already counts as removed.  An   *)
(* error is suppressed or logged, except for main's in destroy.            *)
Remove(c) == exists' = exists \ {c}
MayRemain(c) == Remove(c) \/ ("delete" \in Faults /\ UNCHANGED exists)

-----------------------------------------------------------------------------
(* acquire.                                                                *)

(* containers.run creates and starts main.                                 *)
RunMain(s) ==
    /\ pc[s] = "idle" /\ Of(s) = {} /\ Known(s) = {}
    /\ exists' = exists \cup {<<s, Main>>}
    /\ at' = [at EXCEPT ![s] = 1] /\ refs' = [refs EXCEPT ![s] = {}]
    /\ Go(s, "starting")
    /\ UNCHANGED <<aged, gcVars>>

(* The next sidecar, or the handle is returned; its row is committed.      *)
Proceed(s) ==
    /\ at' = [at EXCEPT ![s] = IF pc[s] = "health" THEN @ + 1 ELSE @]
    /\ Go(s, IF at'[s] > Sidecars THEN "live" ELSE "sidecars")
    /\ UNCHANGED <<exists, refs, aged, gcVars>>

MainRuns(s) ==
    /\ pc[s] = "starting" /\ <<s, Main>> \in exists
    /\ Proceed(s)

(* It was created but not started, it does not reach the running state, or *)
(* its workspace cannot be chowned: it is removed.                         *)
MainFails(s) ==
    /\ "start" \in Faults \/ <<s, Main>> \notin exists
    /\ pc[s] = "starting"
    /\ MayRemain(<<s, Main>>)
    /\ Go(s, "idle")
    /\ UNCHANGED <<at, refs, aged, gcVars>>

(* _wait_container_running and _fix_workspace_ownership let the daemon's   *)
(* own errors through, which acquire does not catch.                       *)
DaemonFails(s) ==
    /\ "daemon" \in Faults
    /\ pc[s] = "starting"
    /\ Go(s, "idle")
    /\ UNCHANGED <<exists, at, refs, aged, gcVars>>

(* Mutant: a sidecar is recorded when it is healthy.                       *)
CreateSidecarUnrecorded(s) ==
    /\ pc[s] = "sidecars" /\ <<s, Main>> \in exists
    /\ exists' = exists \cup {<<s, at[s]>>}
    /\ refs' = [refs EXCEPT ![s] = 1 .. at[s] - 1]
    /\ Go(s, "health")
    /\ UNCHANGED <<at, aged, gcVars>>

CreateSidecar(s) ==
    /\ pc[s] = "sidecars" /\ <<s, Main>> \in exists
    /\ exists' = exists \cup {<<s, at[s]>>}
    /\ refs' = [refs EXCEPT ![s] = @ \cup {at[s]}]
    /\ Go(s, "health")
    /\ UNCHANGED <<at, aged, gcVars>>

SidecarHealthy(s) ==
    /\ pc[s] = "health" /\ <<s, at[s]>> \in exists
    /\ Proceed(s)

(* A sidecar that cannot be started (it has been removed again) or does    *)
(* not get healthy in time: everything is undone.                          *)
SidecarFails(s) ==
    /\ \/ pc[s] = "sidecars" /\ ("start" \in Faults \/ <<s, Main>> \notin exists)
       \/ pc[s] = "health" /\ ("health" \in Faults \/ <<s, at[s]>> \notin exists)
    /\ at' = [at EXCEPT ![s] = 1]
    /\ Go(s, "undo")
    /\ UNCHANGED <<exists, refs, aged, gcVars>>

(* The process dies in acquire or in destroy: what it has made is nobody's.*)
Crash(s) ==
    /\ "crash" \in Faults
    /\ pc[s] \notin {"idle", "live", "lost"}
    /\ Go(s, IF pc[s] = "destroy" THEN "live" ELSE "lost")
    /\ UNCHANGED <<exists, at, refs, aged, gcVars>>

-----------------------------------------------------------------------------
(* destroy, and acquire undoing itself.                                    *)

Destroy(s) ==
    /\ pc[s] = "live"
    /\ at' = [at EXCEPT ![s] = 1]
    /\ Go(s, "destroy")
    /\ UNCHANGED <<exists, refs, aged, gcVars>>

RemoveSidecar(s) ==
    /\ pc[s] \in {"undo", "destroy"} /\ at[s] <= Sidecars
    /\ IF at[s] \in refs[s] THEN MayRemain(<<s, at[s]>>) ELSE UNCHANGED exists
    /\ at' = [at EXCEPT ![s] = @ + 1]
    /\ UNCHANGED <<pc, refs, aged, gcVars>>

RemoveMain(s) ==
    /\ pc[s] \in {"undo", "destroy"} /\ at[s] > Sidecars
    /\ \/ Remove(<<s, Main>>)
       \/ "delete" \in Faults /\ pc[s] = "undo" /\ UNCHANGED exists
    /\ Go(s, "idle")
    /\ aged' = aged \ {s}
    /\ UNCHANGED <<at, refs, gcVars>>

(* destroy raises, and its caller's row stays.                             *)
DestroyFails(s) ==
    /\ "delete" \in Faults
    /\ pc[s] = "destroy" /\ at[s] > Sidecars
    /\ Go(s, "live")
    /\ UNCHANGED <<exists, at, refs, aged, gcVars>>

-----------------------------------------------------------------------------
(* reap_orphans.                                                           *)

Age(s) ==
    /\ <<s, Main>> \in exists /\ s \notin aged
    /\ pc[s] \in {"starting", "sidecars", "health", "undo"} => SlowAcquire
    /\ aged' = aged \cup {s}
    /\ UNCHANGED <<exists, ownerVars, gcVars>>

GcEnd == gcPc' = "idle" /\ suspects' = {} /\ unseen' = {} /\ found' = {} /\ victim' = {}

(* Mutant: there is no grace period.                                       *)
GcListYoung ==
    /\ gcPc = "idle"
    /\ gcPc' = "show"
    /\ suspects' = {s \in Sandboxes : pc[s] \notin {"live", "destroy"}}
    /\ unseen' = exists
    /\ UNCHANGED <<exists, ownerVars, aged, found, victim>>

(* The rows are read, then containers.list ...                             *)
GcList ==
    /\ gcPc = "idle"
    /\ gcPc' = "show"
    /\ suspects' = {s \in aged : pc[s] \notin {"live", "destroy"}}
    /\ unseen' = exists
    /\ UNCHANGED <<exists, ownerVars, aged, found, victim>>

(* ... and show, of each.                                                  *)
GcShow(c) ==
    /\ gcPc = "show" /\ c \in unseen \cap exists
    /\ unseen' = unseen \ {c} /\ found' = found \cup {c}
    /\ UNCHANGED <<exists, ownerVars, aged, gcPc, suspects, victim>>

(* One that is gone since it was listed makes the whole listing raise.     *)
GcShowFails(c) ==
    /\ gcPc = "show" /\ c \in unseen \ exists
    /\ GcEnd
    /\ UNCHANGED <<exists, ownerVars, aged>>

(* Mutant: it has a reference if all of it is there.                       *)
OrphanIfWhole(s) == (\A k \in Parts : <<s, k>> \in found) /\ s \in suspects

(* The reference of a sandbox is its main's: sidecars found without their  *)
(* main are in none.                                                       *)
Orphan(s) == <<s, Main>> \in found /\ s \in suspects

(* Mutant: all orphans are destroyed at once.                              *)
GcChooseAll ==
    /\ gcPc \in {"show", "destroy"} /\ unseen = {} /\ victim = {}
    /\ victim' = {s \in Sandboxes : Orphan(s)} /\ gcPc' = "destroy"
    /\ UNCHANGED <<suspects, unseen, found, exists, ownerVars, aged>>

GcChoose ==
    /\ gcPc \in {"show", "destroy"} /\ unseen = {} /\ victim = {}
    /\ IF \E s \in Sandboxes : Orphan(s)
       THEN /\ \E s \in Sandboxes : Orphan(s) /\ victim' = {s}
            /\ gcPc' = "destroy"
            /\ UNCHANGED <<suspects, unseen, found>>
       ELSE GcEnd
    /\ UNCHANGED <<exists, ownerVars, aged>>

GcRemoveSidecar(s, k) ==
    /\ s \in victim /\ <<s, k>> \in found
    /\ MayRemain(<<s, k>>)
    /\ found' = found \ {<<s, k>>}
    /\ UNCHANGED <<ownerVars, aged, gcPc, suspects, unseen, victim>>

GcRemoveMain(s) ==
    /\ s \in victim
    /\ \A k \in 1 .. Sidecars : <<s, k>> \notin found
    /\ Remove(<<s, Main>>)
    /\ found' = found \ {<<s, Main>>}
    /\ aged' = aged \ {s}
    /\ pc' = [pc EXCEPT ![s] = IF @ = "lost" THEN "idle" ELSE @]
    /\ victim' = {}
    /\ UNCHANGED <<at, refs, gcPc, suspects, unseen>>

(* A container that cannot be removed, or anything else, ends the tick.    *)
GcFails ==
    /\ gcPc # "idle"
    /\ {"delete", "list"} \cap Faults # {}
    /\ GcEnd
    /\ UNCHANGED <<exists, ownerVars, aged>>

-----------------------------------------------------------------------------

Work(s) ==
    \/ MainRuns(s) \/ MainFails(s) \/ DaemonFails(s) \/ CreateSidecar(s) \/ SidecarHealthy(s)
    \/ SidecarFails(s) \/ RemoveSidecar(s) \/ RemoveMain(s) \/ DestroyFails(s)

Gc ==
    \/ GcList \/ GcChoose \/ GcFails
    \/ \E c \in Containers : GcShow(c) \/ GcShowFails(c)
    \/ \E s \in Sandboxes : GcRemoveMain(s) \/ \E k \in 1 .. Sidecars : GcRemoveSidecar(s, k)

Next ==
    \/ \E s \in Sandboxes : RunMain(s) \/ Work(s) \/ Destroy(s) \/ Crash(s) \/ Age(s)
    \/ Gc

Spec == Init /\ [][Next]_vars

(* Calls return, containers age, the reconciler's loop goes on.            *)
FairSpec ==
    /\ Spec
    /\ \A s \in Sandboxes : WF_vars(Work(s)) /\ WF_vars(Age(s))
    /\ WF_vars(Gc)

-----------------------------------------------------------------------------
(* Properties.                                                             *)

(* A sidecar never outlives the main container whose network it shares,    *)
(* "left in a broken/orphaned state if main disappears out from under it": *)
(* not while it is created, destroyed, undone or collected, nor when the   *)
(* process that does it dies.  The GC would never find it again.           *)
SidecarsHaveMain == \A c \in exists : <<c[1], Main>> \in exists

(* "A failed sidecar must not leak the sidecars that DID start, or main":  *)
(* once acquire has raised, nothing of the sandbox is left.                *)
FailedLeavesNothing == \A s \in Sandboxes : pc[s] = "idle" => Of(s) = {}

(* The GC, which decides on what it has read before, never takes anything  *)
(* from a sandbox that is live by then.                                    *)
SparesLive == \A s \in Sandboxes : pc[s] = "live" /\ pc'[s] = "live" => Of(s) \subseteq exists'

LiveIsSpared == [][SparesLive]_vars

(* What a crash has left is removed in the end, sidecars and all.          *)
LostIsCollected == \A s \in Sandboxes : pc[s] = "lost" ~> Of(s) = {}

=============================================================================
