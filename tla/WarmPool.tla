------------------------------ MODULE WarmPool ------------------------------
(***************************************************************************)
(* The warm pool of one (image_ref, weight_class) key: how API requests    *)
(* claim, run in, recycle, and give up containers, how the reconciler tops *)
(* the pool up, and how its orphan GC removes containers.                  *)
(*                                                                         *)
(* Every request and every reconciler tick works in its own database       *)
(* transaction (READ COMMITTED).  `pool' and `live' hold committed rows    *)
(* only; what a transaction wrote and has not committed is in the          *)
(* request's own state (`claimed', `pc') or in the tick's (`topUp').       *)
(***************************************************************************)
EXTENDS Naturals, FiniteSets

CONSTANTS
    Requests,      \* request slots of all API replicas together
    Containers,    \* containers (Docker) or namespaces (Kubernetes) that can exist
    NoContainer,   \* held by a request that holds none
    PoolTarget,    \* pool.<weight_class>_pool_size
    Places,        \* where this instance keeps track of the files runs leave
    Faults,        \* which calls may fail in this instance
    PoolOutlives,  \* a pooled or claimed container may exceed orphan_grace_seconds
    SlowRuns       \* so may a container still being provisioned or run in

FaultKinds == {"acquire", "recycle", "wipe", "exec", "destroy", "commit", "crash", "tick"}

ASSUME ContainerAssumption == IsFiniteSet(Containers) /\ NoContainer \notin Containers
ASSUME RequestsAssumption == IsFiniteSet(Requests)
ASSUME PoolTargetAssumption == PoolTarget \in Nat
(* "workspace": what `rm -rf /workspace/* /workspace/.[!.]*' is to remove;  *)
(* "elsewhere": the rest, /tmp with the dump of the variables, and names   *)
(* like `..x' in /workspace.                                               *)
ASSUME PlacesAssumption == Places \subseteq {"workspace", "elsewhere"}
ASSUME FaultsAssumption == Faults \subseteq FaultKinds
ASSUME AgingAssumption == PoolOutlives \in BOOLEAN /\ SlowRuns \in BOOLEAN

VARIABLES
    up,         \* containers that exist in the provisioner
    aged,       \* existing containers older than orphan_grace_seconds
    dirty,      \* <<container, place>> where files of a run may be
    pool,       \* committed pool_members rows, by native_ref
    live,       \* requests whose create_sandbox committed a non-terminated row
    pc,         \* where each request is
    kind,       \* the operation it performs
    poolable,   \* PoolManager.is_poolable of its spec
    held,       \* the container behind its SandboxHandle
    claimed,    \* the handle came from try_claim
    outcome,    \* how exec_batch ended
    tickPc,     \* where the reconciler's tick is
    need,       \* acquire calls replenish_one still has to make
    topUp,      \* pool members the tick added and has not committed
    doomed      \* containers reap_orphans is going to destroy

requestVars == <<pc, kind, poolable, held, claimed, outcome>>
tickVars == <<tickPc, need, topUp, doomed>>
vars == <<up, aged, dirty, pool, live, requestVars, tickVars>>

-----------------------------------------------------------------------------

RequestPc == {"idle", "acquire", "missed", "held", "ran", "recycled", "disposed", "failed"}
TickPc == {"idle", "replenish", "list", "reap"}

TypeOK ==
    /\ up \subseteq Containers /\ aged \subseteq Containers
    /\ dirty \subseteq Containers \X Places
    /\ pool \subseteq Containers
    /\ live \subseteq Requests
    /\ pc \in [Requests -> RequestPc]
    /\ kind \in [Requests -> {"execute", "create"}]
    /\ poolable \in [Requests -> BOOLEAN]
    /\ held \in [Requests -> Containers \cup {NoContainer}]
    /\ claimed \in [Requests -> BOOLEAN]
    /\ outcome \in [Requests -> {"none", "clean", "unclean", "raised"}]
    /\ tickPc \in TickPc
    /\ need \in Nat
    /\ topUp \subseteq Containers /\ doomed \subseteq Containers

Init ==
    /\ up = {} /\ aged = {} /\ dirty = {} /\ pool = {} /\ live = {}
    /\ pc = [r \in Requests |-> "idle"]
    /\ kind = [r \in Requests |-> "execute"]
    /\ poolable = [r \in Requests |-> TRUE]
    /\ held = [r \in Requests |-> NoContainer]
    /\ claimed = [r \in Requests |-> FALSE]
    /\ outcome = [r \in Requests |-> "none"]
    /\ tickPc = "idle" /\ need = 0 /\ topUp = {} /\ doomed = {}

-----------------------------------------------------------------------------
(* The database and the provisioner, as requests and the tick see them.    *)

(* pool_members rows an open transaction has selected FOR UPDATE and       *)
(* deleted; SKIP LOCKED passes over them, READ COMMITTED still counts them. *)
Locked == {held[r] : r \in {q \in Requests : claimed[q] /\ pc[q] # "idle"}}

Claimable == pool \ Locked

InUse(c) == \E r \in Requests : held[r] = c

(* A container name nothing refers to any more stands for a new one.       *)
Unused == {c \in Containers \ (up \cup pool \cup topUp \cup doomed) : ~InUse(c)}

(* The labels reap_orphans finds in the sandboxes table.  A fresh sandbox's *)
(* id is its container's label; a claimed one's is a new uuid.             *)
LiveLabels == {held[r] : r \in {q \in live : ~claimed[q]}}

Appear(c) ==
    /\ up' = up \cup {c}
    /\ aged' = aged \ {c}
    /\ dirty' = dirty \ ({c} \X Places)

Remove(c) ==
    /\ up' = up \ {c}
    /\ aged' = aged \ {c}
    /\ dirty' = dirty \ ({c} \X Places)

(* The request's session ends: nothing of it stays in memory.              *)
Forget(r) ==
    /\ pc' = [pc EXCEPT ![r] = "idle"]
    /\ kind' = [kind EXCEPT ![r] = "execute"]
    /\ poolable' = [poolable EXCEPT ![r] = TRUE]
    /\ held' = [held EXCEPT ![r] = NoContainer]
    /\ claimed' = [claimed EXCEPT ![r] = FALSE]
    /\ outcome' = [outcome EXCEPT ![r] = "none"]

Goto(r, label) == pc' = [pc EXCEPT ![r] = label]

-----------------------------------------------------------------------------
(* Requests.                                                               *)

Start(r) ==
    /\ pc[r] = "idle" /\ r \notin live
    /\ \E k \in {"execute", "create"}, p \in BOOLEAN :
          /\ kind' = [kind EXCEPT ![r] = k]
          /\ poolable' = [poolable EXCEPT ![r] = p]
    /\ Goto(r, "acquire")
    /\ UNCHANGED <<up, aged, dirty, pool, live, held, claimed, outcome, tickVars>>

(* Mutant: SELECT without FOR UPDATE SKIP LOCKED.                          *)
ClaimWithoutLock(r) ==
    /\ pc[r] = "acquire" /\ poolable[r]
    /\ \E c \in pool : held' = [held EXCEPT ![r] = c]
    /\ claimed' = [claimed EXCEPT ![r] = TRUE]
    /\ Goto(r, "held")
    /\ UNCHANGED <<up, aged, dirty, pool, live, kind, poolable, outcome, tickVars>>

(* try_claim finds a row: locked and deleted in this transaction only.     *)
Claim(r) ==
    /\ pc[r] = "acquire" /\ poolable[r]
    /\ \E c \in Claimable : held' = [held EXCEPT ![r] = c]
    /\ claimed' = [claimed EXCEPT ![r] = TRUE]
    /\ Goto(r, "held")
    /\ UNCHANGED <<up, aged, dirty, pool, live, kind, poolable, outcome, tickVars>>

Miss(r) ==
    /\ pc[r] = "acquire"
    /\ poolable[r] => Claimable = {}
    /\ Goto(r, "missed")
    /\ UNCHANGED <<up, aged, dirty, pool, live, kind, poolable, held, claimed, outcome, tickVars>>

AcquireFresh(r) ==
    /\ pc[r] = "missed"
    /\ \E c \in Unused :
          /\ Appear(c)
          /\ held' = [held EXCEPT ![r] = c]
    /\ Goto(r, "held")
    /\ UNCHANGED <<pool, live, kind, poolable, claimed, outcome, tickVars>>

AcquireFails(r) ==
    /\ "acquire" \in Faults
    /\ pc[r] = "missed"
    /\ Goto(r, "failed")
    /\ UNCHANGED <<up, aged, dirty, pool, live, kind, poolable, held, claimed, outcome, tickVars>>

(* on_provision hooks and exec_batch.  A container that is gone, or a call *)
(* that fails, raises; a timeout or truncated output is not a clean run.   *)
Run(r) ==
    /\ pc[r] = "held" /\ kind[r] = "execute"
    /\ \E o \in {"clean", "unclean", "raised"} :
          /\ o = "raised" => "exec" \in Faults \/ held[r] \notin up
          /\ o # "raised" => held[r] \in up
          /\ outcome' = [outcome EXCEPT ![r] = o]
    /\ dirty' = dirty \cup (({held[r]} \cap up) \X Places)
    /\ Goto(r, "ran")
    /\ UNCHANGED <<up, aged, pool, live, kind, poolable, held, claimed, tickVars>>

Recyclable(r) == outcome[r] = "clean" /\ poolable[r]

(* The finally block of execute: _release_or_destroy.  The command wipes   *)
(* /workspace only; `2>/dev/null; true' and the unread exit status hide    *)
(* files it could not remove and a time-out ("wipe").                      *)
Recycle(r) ==
    /\ pc[r] = "ran" /\ Recyclable(r)
    /\ held[r] \in up
    /\ \/ dirty' = dirty \ {<<held[r], "workspace">>}
       \/ "wipe" \in Faults /\ UNCHANGED dirty
    /\ Goto(r, "recycled")
    /\ UNCHANGED <<up, aged, pool, live, kind, poolable, held, claimed, outcome, tickVars>>

(* Mutant: release() lists a container it could not recycle.               *)
RecycleFailsListed(r) ==
    /\ pc[r] = "ran" /\ Recyclable(r)
    /\ "recycle" \in Faults \/ held[r] \notin up
    /\ Remove(held[r])
    /\ Goto(r, "recycled")
    /\ UNCHANGED <<pool, live, kind, poolable, held, claimed, outcome, tickVars>>

(* recycle() itself raises: the container cannot be reached.               *)
RecycleFails(r) ==
    /\ pc[r] = "ran" /\ Recyclable(r)
    /\ "recycle" \in Faults \/ held[r] \notin up
    /\ Remove(held[r])
    /\ Goto(r, "disposed")
    /\ UNCHANGED <<pool, live, kind, poolable, held, claimed, outcome, tickVars>>

DestroyHeld(r) ==
    /\ pc[r] = "ran" /\ ~Recyclable(r)
    /\ Remove(held[r])
    /\ Goto(r, IF outcome[r] = "raised" THEN "failed" ELSE "disposed")
    /\ UNCHANGED <<pool, live, kind, poolable, held, claimed, outcome, tickVars>>

(* So may the destroy() after a failed recycle; or recycle() raises what   *)
(* release() does not catch.                                               *)
DestroyHeldFails(r) ==
    /\ "destroy" \in Faults
    /\ pc[r] = "ran"
    /\ Recyclable(r) => "recycle" \in Faults \/ held[r] \notin up
    /\ Goto(r, "failed")
    /\ UNCHANGED <<up, aged, dirty, pool, live, kind, poolable, held, claimed, outcome, tickVars>>

(* create_sandbox: an on_provision hook fails, the sandbox is destroyed.   *)
HookFails(r) ==
    /\ "exec" \in Faults
    /\ pc[r] = "held" /\ kind[r] = "create" /\ ~poolable[r]
    /\ \/ Remove(held[r])
       \/ "destroy" \in Faults /\ UNCHANGED <<up, aged, dirty>>
    /\ Goto(r, "failed")
    /\ UNCHANGED <<pool, live, kind, poolable, held, claimed, outcome, tickVars>>

(* execute commits the claim's delete, release's insert, and a Sandbox row *)
(* that is already terminated, all at once.                                *)
CommitExecute(r) ==
    /\ pc[r] \in {"recycled", "disposed"}
    /\ pool' = (pool \ (IF claimed[r] THEN {held[r]} ELSE {}))
                  \cup (IF pc[r] = "recycled" THEN {held[r]} ELSE {})
    /\ Forget(r)
    /\ UNCHANGED <<up, aged, dirty, live, tickVars>>

(* Mutant: the claim's DELETE is not part of create_sandbox's transaction. *)
CommitCreateKeepsRow(r) ==
    /\ pc[r] = "held" /\ kind[r] = "create"
    /\ live' = live \cup {r}
    /\ Goto(r, "idle")
    /\ UNCHANGED <<up, aged, dirty, pool, kind, poolable, held, claimed, outcome, tickVars>>

CommitCreate(r) ==
    /\ pc[r] = "held" /\ kind[r] = "create"
    /\ pool' = pool \ (IF claimed[r] THEN {held[r]} ELSE {})
    /\ live' = live \cup {r}
    /\ Goto(r, "idle")
    /\ UNCHANGED <<up, aged, dirty, kind, poolable, held, claimed, outcome, tickVars>>

(* The flush after acquire, or the commit at the end, raises.              *)
DbFails(r) ==
    /\ "commit" \in Faults
    /\ pc[r] \in {"held", "recycled", "disposed"}
    /\ Goto(r, "failed")
    /\ UNCHANGED <<up, aged, dirty, pool, live, kind, poolable, held, claimed, outcome, tickVars>>

(* An exception reaches get_session, which closes the session: rollback.   *)
Rollback(r) ==
    /\ pc[r] = "failed"
    /\ Forget(r)
    /\ UNCHANGED <<up, aged, dirty, pool, live, tickVars>>

(* The API process dies with the request in flight; the database rolls its *)
(* transaction back, and no finally block runs.                            *)
Crash(r) ==
    /\ "crash" \in Faults
    /\ pc[r] # "idle"
    /\ Forget(r)
    /\ UNCHANGED <<up, aged, dirty, pool, live, tickVars>>

(* destroy_sandbox, from DELETE or the TTL reaper (SandboxLifecycle has    *)
(* its steps): such a sandbox never goes back to the pool.                 *)
DestroySandbox(r) ==
    /\ r \in live
    /\ live' = live \ {r}
    /\ Remove(held[r])
    /\ Forget(r)
    /\ UNCHANGED <<pool, tickVars>>

-----------------------------------------------------------------------------
(* The reconciler's tick: replenish_pools, the commit that a later job of  *)
(* the tick makes, and reap_orphans.                                       *)

(* Mutants: no lower bound on the shortfall; the idle members not counted; *)
(* the grace period's comparison turned round.                             *)
TickStartUnbounded ==
    /\ tickPc = "idle"
    /\ need' = PoolTarget - Cardinality(pool)
    /\ doomed' = aged
    /\ tickPc' = "replenish"
    /\ UNCHANGED <<up, aged, dirty, pool, live, requestVars, topUp>>

TickStartUncounted ==
    /\ tickPc = "idle"
    /\ need' = PoolTarget
    /\ doomed' = aged
    /\ tickPc' = "replenish"
    /\ UNCHANGED <<up, aged, dirty, pool, live, requestVars, topUp>>

TickStartYoung ==
    /\ tickPc = "idle"
    /\ need' = IF Cardinality(pool) < PoolTarget THEN PoolTarget - Cardinality(pool) ELSE 0
    /\ doomed' = up \ aged
    /\ tickPc' = "replenish"
    /\ UNCHANGED <<up, aged, dirty, pool, live, requestVars, topUp>>

(* `now' is read once, when the tick starts: only what is past the grace   *)
(* period by then can be an orphan in this tick.                           *)
TickStart ==
    /\ tickPc = "idle"
    /\ need' = IF Cardinality(pool) < PoolTarget THEN PoolTarget - Cardinality(pool) ELSE 0
    /\ doomed' = aged
    /\ tickPc' = "replenish"
    /\ UNCHANGED <<up, aged, dirty, pool, live, requestVars, topUp>>

TickAcquire ==
    /\ tickPc = "replenish" /\ need > 0
    /\ \E c \in Unused :
          /\ Appear(c)
          /\ topUp' = topUp \cup {c}
    /\ need' = need - 1
    /\ UNCHANGED <<pool, live, requestVars, tickPc, doomed>>

TickAcquireFails ==
    /\ "acquire" \in Faults
    /\ tickPc = "replenish" /\ need > 0
    /\ need' = 0
    /\ UNCHANGED <<up, aged, dirty, pool, live, requestVars, tickPc, topUp, doomed>>

TickCommit ==
    /\ tickPc = "replenish" /\ need = 0
    /\ pool' = pool \cup topUp
    /\ topUp' = {}
    /\ tickPc' = "list"
    /\ UNCHANGED <<up, aged, dirty, live, requestVars, need, doomed>>

(* Mutant: live_ids is not consulted.                                      *)
GcListWithoutRows ==
    /\ tickPc = "list"
    /\ doomed' = doomed \cap up
    /\ tickPc' = "reap"
    /\ UNCHANGED <<up, aged, dirty, pool, live, requestVars, need, topUp>>

(* reap_orphans: live_ids and the native refs, then one destroy per ref.   *)
GcList ==
    /\ tickPc = "list"
    /\ doomed' = (doomed \cap up) \ LiveLabels
    /\ tickPc' = "reap"
    /\ UNCHANGED <<up, aged, dirty, pool, live, requestVars, need, topUp>>

GcDestroy(c) ==
    /\ tickPc = "reap" /\ c \in doomed
    /\ Remove(c)
    /\ doomed' = doomed \ {c}
    /\ UNCHANGED <<pool, live, requestVars, tickPc, need, topUp>>

TickDone ==
    /\ tickPc = "reap" /\ doomed = {}
    /\ tickPc' = "idle"
    /\ UNCHANGED <<up, aged, dirty, pool, live, requestVars, need, topUp, doomed>>

(* Any job raises: run_forever logs it, and the tick's session is closed.  *)
TickAborts ==
    /\ "tick" \in Faults
    /\ tickPc # "idle"
    /\ tickPc' = "idle" /\ need' = 0 /\ topUp' = {} /\ doomed' = {}
    /\ UNCHANGED <<up, aged, dirty, pool, live, requestVars>>

(* A container gets older than the grace period: one that nothing refers   *)
(* to, or a fresh sandbox with a committed row, always may; one that is or *)
(* was pooled when PoolOutlives; one still being acquired or run in for    *)
(* the first time when SlowRuns.                                           *)
MayAge(c) ==
    \/ c \notin pool \cup topUp /\ ~InUse(c)
    \/ c \in LiveLabels
    \/ PoolOutlives /\ (c \in pool \/ \E r \in Requests : held[r] = c /\ claimed[r])
    \/ SlowRuns

Age(c) ==
    /\ c \in up \ aged
    /\ MayAge(c)
    /\ aged' = aged \cup {c}
    /\ UNCHANGED <<up, dirty, pool, live, requestVars, tickVars>>

-----------------------------------------------------------------------------

Work(r) ==
    \/ Claim(r) \/ Miss(r) \/ AcquireFresh(r) \/ AcquireFails(r)
    \/ Run(r) \/ Recycle(r) \/ RecycleFails(r) \/ DestroyHeld(r) \/ DestroyHeldFails(r)
    \/ HookFails(r) \/ CommitExecute(r) \/ CommitCreate(r)
    \/ DbFails(r) \/ Rollback(r)

Request(r) == Start(r) \/ Work(r) \/ Crash(r) \/ DestroySandbox(r)

Tick ==
    \/ TickStart \/ TickAcquire \/ TickAcquireFails \/ TickCommit
    \/ GcList \/ (\E c \in Containers : GcDestroy(c)) \/ TickDone
    \/ TickAborts

Next ==
    \/ \E r \in Requests : Request(r)
    \/ Tick
    \/ \E c \in Containers : Age(c)

Spec == Init /\ [][Next]_vars

(* Requests run on, the tick's loop goes on, and time passes; nothing has  *)
(* to start, to be destroyed, or to crash.                                 *)
Fairness ==
    /\ \A r \in Requests : WF_vars(Work(r))
    /\ WF_vars(Tick)
    /\ \A c \in Containers : WF_vars(Age(c))

FairSpec == Spec /\ Fairness

-----------------------------------------------------------------------------
(* Safety.                                                                 *)

(* One container never serves two requests: neither two runs in flight nor *)
(* a run and a committed sandbox, whatever fails, crashes or is collected. *)
(* This is what SELECT ... FOR UPDATE SKIP LOCKED and deleting the row in  *)
(* the claiming transaction are for (try_claim).                           *)
ClaimExclusive ==
    \A r, s \in Requests : held[r] # NoContainer /\ held[r] = held[s] => r = s

(* A container somebody uses can only be claimable if it is the user's own *)
(* uncommitted claim: release() lists it again, replenish_one() lists new  *)
(* ones, and a rolled back claim comes back, but never under a user.       *)
NotOfferedInUse ==
    \A r \in Requests : held[r] \notin Claimable

(* The workspace a request can claim holds no files of an earlier run:     *)
(* release() lists a container only after recycle() wiped it.              *)
WorkspaceWiped == \A c \in Claimable : <<c, "workspace">> \notin dirty

(* What a request can claim exists: release() destroys what it cannot      *)
(* recycle "instead of leaking a broken entry into the pool".              *)
PoolBacked == Claimable \subseteq up

(* A claim hits a container that is there, with an empty workspace, as     *)
(* long as commits and the wipe succeed and nobody dies in between.        *)
MembersUsable == PoolBacked /\ WorkspaceWiped

(* Nothing of an earlier run is left in a container that can be claimed:   *)
(* pooling does not leak "dirty state".  The wipe does not give that,      *)
(* whatever the faults: /tmp keeps what a run left there.                  *)
NoLeftovers == \A c \in Claimable, place \in Places : <<c, place>> \notin dirty

(* A sandbox that was acquired fresh exists as long as its request works   *)
(* with it and as long as its row is not terminated: orphan GC spares it,  *)
(* because its row is listed before the grace period ends.                 *)
FreshSandboxUp ==
    \A r \in Requests :
        (r \in live \/ pc[r] \in {"held", "ran", "recycled"}) /\ ~claimed[r]
            => held[r] \in up

(* A sandbox with a committed, non-terminated row exists: orphan GC only   *)
(* removes resources "with no matching, non-terminated Sandbox row".       *)
LiveSandboxUp == \A r \in live : held[r] \in up

(* Every execute that misses leaves one more member behind, and a tick may *)
(* have counted before that; yet the idle pool never exceeds its target by *)
(* more than the number of requests that can be in flight at once.         *)
PoolBounded == Cardinality(pool) <= PoolTarget + Cardinality(Requests)

-----------------------------------------------------------------------------
(* Liveness and refinement.                                                *)

Lost(c) == c \in up /\ c \notin pool \cup topUp /\ ~InUse(c)

(* A container no row, request or tick refers to, left by a crash or by a  *)
(* failed commit or destroy, is removed in the end: that is what           *)
(* reap_orphans is for.                                                    *)
LostAreCollected == \A c \in Containers : Lost(c) ~> c \notin up

Owner(c) ==
    IF c \notin up THEN "nobody"
    ELSE IF InUse(c) THEN CHOOSE r \in Requests : held[r] = c
    ELSE IF c \in pool \cup topUp THEN "pool"
    ELSE "lost"

Ownership == INSTANCE ContainerOwnership
                WITH Users <- Requests, owner <- [c \in Containers |-> Owner(c)]

(* The code implements ContainerOwnership, whatever fails: no step moves a *)
(* container from one request to another, or a lost one back into use.     *)
OwnershipRefined == Ownership!OwnerSpec

=============================================================================
