------------------------------ MODULE Admission ------------------------------
(***************************************************************************)
(* What a tenant's execute and create requests pass before they get a      *)
(* sandbox: a connection of the database pool, QuotaService.check, the     *)
(* slot of the heavy weight class; and the audit entry of a refusal, which *)
(* is written in a second session while the first is still open.           *)
(*                                                                         *)
(* A session keeps its connection from its first query to its commit, and  *)
(* the quota counts committed rows.                                        *)
(***************************************************************************)
EXTENDS Naturals, FiniteSets

CONSTANTS
    Requests,
    Creates,      \* those that leave a sandbox behind, a subset of Requests
    Heavy,        \* those of the heavy weight class, a subset of Requests
    Connections,  \* pool_size and max_overflow
    HeavySlots,   \* heavy_max_concurrent
    Quota,        \* max_concurrent_sandboxes
    Faults        \* some of "timeout" (the pool's), "run", "commit"

VARIABLES
    pc,       \* where each request is
    live,     \* requests whose sandbox has a committed row that is not terminated
    holds,    \* connections each request has checked out
    slot,     \* requests in the heavy semaphore
    audited   \* refused requests whose audit entry is committed

vars == <<pc, live, holds, slot, audited>>

-----------------------------------------------------------------------------

TypeOK ==
    /\ pc \in [Requests -> {"new", "check", "refused", "audit", "slot", "running", "commit", "done", "error"}]
    /\ live \subseteq Creates /\ slot \subseteq Heavy /\ audited \subseteq Requests
    /\ holds \in [Requests -> 0 .. 2]

Init ==
    /\ pc = [r \in Requests |-> "new"]
    /\ live = {} /\ slot = {} /\ audited = {}
    /\ holds = [r \in Requests |-> 0]

Go(r, where) == pc' = [pc EXCEPT ![r] = where]
Give(r, n) == holds' = [holds EXCEPT ![r] = n]

InUse(n) == Cardinality({r \in Requests : holds[r] >= n})
Free == Connections - (InUse(1) + InUse(2))

-----------------------------------------------------------------------------

(* The request's first query.                                              *)
Connect(r) ==
    /\ pc[r] = "new" /\ Free > 0
    /\ Give(r, 1) /\ Go(r, "check")
    /\ UNCHANGED <<live, slot, audited>>

(* The pool gives up after its timeout.                                    *)
ConnectFails(r) ==
    /\ "timeout" \in Faults
    /\ pc[r] = "new" /\ Free = 0
    /\ Go(r, "error")
    /\ UNCHANGED <<live, holds, slot, audited>>

(* Mutant: one sandbox too many.                                           *)
ExceededStrictly(r) == Cardinality(live) > Quota

(* The pending sandbox is counted in.                                      *)
Exceeded(r) == Cardinality(live) + 1 > Quota

(* _check_quota; admitted runs of the other classes have no semaphore.     *)
Check(r) ==
    /\ pc[r] = "check"
    /\ Go(r, IF Exceeded(r) THEN "refused" ELSE IF r \in Heavy \ Creates THEN "slot" ELSE "running")
    /\ UNCHANGED <<live, holds, slot, audited>>

(* record_standalone: its own session, its own commit ...                  *)
AuditConnect(r) ==
    /\ pc[r] = "refused" /\ Free > 0
    /\ Give(r, 2) /\ Go(r, "audit")
    /\ UNCHANGED <<live, slot, audited>>

(* ... whose failure is logged and goes no further.                        *)
AuditFails(r) ==
    /\ "timeout" \in Faults
    /\ pc[r] = "refused" /\ Free = 0
    /\ Give(r, 0) /\ Go(r, "done")
    /\ UNCHANGED <<live, slot, audited>>

(* The exception then closes the request's session.                        *)
AuditCommit(r) ==
    /\ pc[r] = "audit"
    /\ audited' = audited \cup {r}
    /\ Give(r, 0) /\ Go(r, "done")
    /\ UNCHANGED <<live, slot>>

EnterSlot(r) ==
    /\ pc[r] = "slot" /\ Cardinality(slot) < HeavySlots
    /\ slot' = slot \cup {r}
    /\ Go(r, "running")
    /\ UNCHANGED <<live, holds, audited>>

(* Mutant: the slot is left when the run succeeds.                         *)
LeaveIfWell(r, well) == slot' = IF well THEN slot \ {r} ELSE slot

Leave(r, well) == slot' = slot \ {r}

(* acquire, run and release, or acquire only.                              *)
Run(r) ==
    /\ pc[r] = "running"
    /\ Leave(r, TRUE)
    /\ Go(r, "commit")
    /\ UNCHANGED <<live, holds, audited>>

RunFails(r) ==
    /\ "run" \in Faults
    /\ pc[r] = "running"
    /\ Leave(r, FALSE)
    /\ Give(r, 0) /\ Go(r, "error")
    /\ UNCHANGED <<live, audited>>

(* A run's row is committed as terminated, a sandbox's as active.          *)
Commit(r) ==
    /\ pc[r] = "commit"
    /\ live' = live \cup ({r} \cap Creates)
    /\ Give(r, 0) /\ Go(r, "done")
    /\ UNCHANGED <<slot, audited>>

CommitFails(r) ==
    /\ "commit" \in Faults
    /\ pc[r] = "commit"
    /\ Give(r, 0) /\ Go(r, "error")
    /\ UNCHANGED <<live, slot, audited>>

(* Its sandbox is destroyed, or reaped.                                    *)
Destroy(r) ==
    /\ r \in live
    /\ live' = live \ {r}
    /\ UNCHANGED <<pc, holds, slot, audited>>

(* The same client asks again.                                             *)
Again(r) ==
    /\ pc[r] \in {"done", "error"} /\ r \notin live
    /\ Go(r, "new")
    /\ audited' = audited \ {r}
    /\ UNCHANGED <<live, holds, slot>>

-----------------------------------------------------------------------------

Serve(r) ==
    \/ Connect(r) \/ ConnectFails(r) \/ Check(r) \/ AuditConnect(r) \/ AuditFails(r) \/ AuditCommit(r)
    \/ EnterSlot(r) \/ Run(r) \/ RunFails(r) \/ Commit(r) \/ CommitFails(r)

Next == \E r \in Requests : Serve(r) \/ Destroy(r) \/ Again(r)

Spec == Init /\ [][Next]_vars

(* The pool and the semaphore serve in the order of arrival, so that who   *)
(* waits is served if often enough somebody can be.                        *)
FairSpec == Spec /\ \A r \in Requests : SF_vars(Connect(r)) /\ SF_vars(EnterSlot(r)) /\ WF_vars(Serve(r))

-----------------------------------------------------------------------------
(* Properties.                                                             *)

Admitted == {r \in Requests : pc[r] \in {"slot", "running", "commit"}}

(* Concurrent requests are admitted on what is committed, so the quota is  *)
(* exceeded; but who has been checked holds a connection until its own     *)
(* row counts, so it is by less than the pool has connections.             *)
OverAdmissionBounded == Cardinality(live \cup (Admitted \cap Creates)) < Quota + Connections

(* The quota itself: "reject if creating one more sandbox would breach a   *)
(* ceiling".                                                               *)
QuotaKept == Cardinality(live) <= Quota

(* Heavy runs "must not starve light ones": a light request does not wait  *)
(* for a connection that a heavy one holds while it waits for a slot.      *)
LightNotStarved ==
    \A r \in Requests \ Heavy : pc[r] = "new" /\ Free = 0 => \A q \in Heavy : pc[q] # "slot"

(* Everybody is answered in the end.                                       *)
Answered == \A r \in Requests : pc[r] # "done" ~> pc[r] \in {"done", "error"}

=============================================================================
