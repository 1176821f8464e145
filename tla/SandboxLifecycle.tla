-------------------------- MODULE SandboxLifecycle --------------------------
(***************************************************************************)
(* Sandboxes that outlive a request: create_sandbox, destroy_sandbox,      *)
(* get_sandbox_status, run_in_sandbox and open_pty from the API, and the   *)
(* TTL reaper of the reconciler, on the same rows and containers.          *)
(*                                                                         *)
(* An API session reads the row once and acts on what it read; its commit  *)
(* overwrites the columns it changed.  The reaper reads all rows at the    *)
(* start of its pass and decides then what to destroy (`todo'): its later  *)
(* destroy_sandbox calls get the very objects it read (one session,        *)
(* expire_on_commit=False), however long ago that was.                     *)
(***************************************************************************)
EXTENDS Naturals, Sequences

CONSTANTS
    Sandboxes,
    Sessions,      \* concurrent API requests
    Broken,        \* sandboxes whose container the provisioner cannot remove
    IdleTTL,       \* idle_ttl_seconds of every row
    MaxTTL,        \* max_ttl_seconds of every row
    MaxTime,       \* the clock stops here (bound of the model)
    Faults         \* what else may go wrong in this instance

ASSUME SandboxAssumption == Sandboxes # {}
ASSUME TimeAssumption == IdleTTL \in Nat /\ MaxTTL \in Nat /\ MaxTime \in Nat
ASSUME LifecycleFaults == Faults \subseteq {"exit", "destroy", "commit", "crash", "probe"}
ASSUME BrokenAssumption == Broken \subseteq Sandboxes

VARIABLES
    clock,
    row,         \* Sandbox.state, committed; "none" before create_sandbox
    created,     \* Sandbox.created_at
    lastActive,  \* Sandbox.last_active_at, created_at while that is null
    up,          \* sandboxes whose container runs
    bills,       \* the lifetimes billed for each sandbox, in order
    pc,          \* where each API session is
    target,      \* its sandbox
    attachedAt,  \* when its PTY was opened
    reaper,      \* where the reaper is
    todo,        \* rows it found expired and has still to destroy
    tickNow,     \* the pass's `now'
    current      \* the sandbox destroy_sandbox is working on

rowVars == <<row, created, lastActive, bills>>
sessionVars == <<pc, target, attachedAt>>
reaperVars == <<reaper, todo, tickNow, current>>
vars == <<clock, rowVars, up, sessionVars, reaperVars>>

-----------------------------------------------------------------------------

Time == 0 .. MaxTime
SessionPc == {"idle", "teardown", "commit", "probe", "heal", "exec", "record", "open", "attached"}

TypeOK ==
    /\ clock \in Time
    /\ row \in [Sandboxes -> {"none", "active", "terminated"}]
    /\ created \in [Sandboxes -> Time] /\ lastActive \in [Sandboxes -> Time]
    /\ up \subseteq Sandboxes
    /\ bills \in [Sandboxes -> Seq(Time)]
    /\ pc \in [Sessions -> SessionPc]
    /\ target \in [Sessions -> Sandboxes]
    /\ attachedAt \in [Sessions -> Time]
    /\ reaper \in {"idle", "loop", "commit"}
    /\ todo \subseteq Sandboxes
    /\ tickNow \in Time
    /\ current \in Sandboxes

AnySandbox == CHOOSE s \in Sandboxes : TRUE

Init ==
    /\ clock = 0
    /\ row = [s \in Sandboxes |-> "none"]
    /\ created = [s \in Sandboxes |-> 0] /\ lastActive = [s \in Sandboxes |-> 0]
    /\ up = {}
    /\ bills = [s \in Sandboxes |-> <<>>]
    /\ pc = [x \in Sessions |-> "idle"]
    /\ target = [x \in Sessions |-> AnySandbox]
    /\ attachedAt = [x \in Sessions |-> 0]
    /\ reaper = "idle" /\ todo = {} /\ tickNow = 0
    /\ current = AnySandbox

Goto(x, label) ==
    /\ pc' = [pc EXCEPT ![x] = label]
    /\ UNCHANGED <<target, attachedAt>>

(* The request is over: nothing of it stays in memory.                     *)
Leave(x) ==
    /\ pc' = [pc EXCEPT ![x] = "idle"]
    /\ target' = [target EXCEPT ![x] = AnySandbox]
    /\ attachedAt' = [attachedAt EXCEPT ![x] = 0]

EndPass ==
    /\ reaper' = "idle" /\ todo' = {} /\ tickNow' = 0 /\ current' = AnySandbox

(* Billing a lifetime, terminating the row: one commit of destroy_sandbox. *)
Terminate(s, now) ==
    /\ bills' = [bills EXCEPT ![s] = Append(@, now - created[s])]
    /\ row' = [row EXCEPT ![s] = "terminated"]
    /\ UNCHANGED <<created, lastActive>>

-----------------------------------------------------------------------------
(* The API.                                                                *)

(* create_sandbox (WarmPool has its steps): the row is committed last.     *)
Create(s) ==
    /\ row[s] = "none"
    /\ row' = [row EXCEPT ![s] = "active"]
    /\ created' = [created EXCEPT ![s] = clock]
    /\ lastActive' = [lastActive EXCEPT ![s] = clock]
    /\ up' = up \cup {s}
    /\ UNCHANGED <<clock, bills, sessionVars, reaperVars>>

(* get_sandbox: every operation starts by reading the row, and is over if  *)
(* it says terminated (404, or nothing to do).                             *)
Read(x) ==
    /\ pc[x] = "idle"
    /\ \E s \in Sandboxes :
          /\ row[s] = "active"
          /\ target' = [target EXCEPT ![x] = s]
    /\ \E label \in {"teardown", "probe", "exec", "open"} : pc' = [pc EXCEPT ![x] = label]
    /\ UNCHANGED <<clock, rowVars, up, attachedAt, reaperVars>>

(* destroy_sandbox: remove the container, then bill and commit.            *)
Teardown(x) ==
    /\ pc[x] = "teardown"
    /\ target[x] \notin Broken
    /\ up' = up \ {target[x]}
    /\ Goto(x, "commit")
    /\ UNCHANGED <<clock, rowVars, reaperVars>>

(* Mutant: the provisioner's error is swallowed.                           *)
TeardownFailsSwallowed(x) ==
    /\ pc[x] = "teardown"
    /\ "destroy" \in Faults \/ target[x] \in Broken
    /\ Goto(x, "commit")
    /\ UNCHANGED <<clock, rowVars, up, reaperVars>>

TeardownFails(x) ==
    /\ pc[x] = "teardown"
    /\ "destroy" \in Faults \/ target[x] \in Broken
    /\ Leave(x)
    /\ UNCHANGED <<clock, rowVars, up, reaperVars>>

CommitDestroy(x) ==
    /\ pc[x] = "commit"
    /\ Terminate(target[x], clock)
    /\ Leave(x)
    /\ UNCHANGED <<clock, up, reaperVars>>

CommitFails(x) ==
    /\ "commit" \in Faults
    /\ pc[x] \in {"commit", "heal", "record"}
    /\ Leave(x)
    /\ UNCHANGED <<clock, rowVars, up, reaperVars>>

(* get_sandbox_status: ask the provisioner; heal the row if it is gone.    *)
Probe(x) ==
    /\ pc[x] = "probe"
    /\ IF target[x] \in up THEN Leave(x) ELSE Goto(x, "heal")
    /\ UNCHANGED <<clock, rowVars, up, reaperVars>>

(* Docker's status() takes every error of the daemon for "terminated".     *)
ProbeErrs(x) ==
    /\ "probe" \in Faults
    /\ pc[x] = "probe"
    /\ Goto(x, "heal")
    /\ UNCHANGED <<clock, rowVars, up, reaperVars>>

Heal(x) ==
    /\ pc[x] = "heal"
    /\ row' = [row EXCEPT ![target[x]] = "terminated"]
    /\ Leave(x)
    /\ UNCHANGED <<clock, created, lastActive, bills, up, reaperVars>>

(* run_in_sandbox: the run fails if the container is gone.                 *)
Exec(x) ==
    /\ pc[x] = "exec"
    /\ IF target[x] \in up THEN Goto(x, "record") ELSE Leave(x)
    /\ UNCHANGED <<clock, rowVars, up, reaperVars>>

Record(x) ==
    /\ pc[x] = "record"
    /\ lastActive' = [lastActive EXCEPT ![target[x]] = clock]
    /\ Leave(x)
    /\ UNCHANGED <<clock, row, created, bills, up, reaperVars>>

(* open_pty touches the workspace's last_access_at, not the sandbox's row. *)
Open(x) ==
    /\ pc[x] = "open"
    /\ IF target[x] \in up
       THEN /\ pc' = [pc EXCEPT ![x] = "attached"]
            /\ attachedAt' = [attachedAt EXCEPT ![x] = clock]
            /\ UNCHANGED target
       ELSE Leave(x)
    /\ UNCHANGED <<clock, rowVars, up, reaperVars>>

Detach(x) ==
    /\ pc[x] = "attached"
    /\ Leave(x)
    /\ UNCHANGED <<clock, rowVars, up, reaperVars>>

Crash(x) ==
    /\ "crash" \in Faults
    /\ pc[x] # "idle"
    /\ Leave(x)
    /\ UNCHANGED <<clock, rowVars, up, reaperVars>>

-----------------------------------------------------------------------------
(* reap_expired_sandboxes.                                                 *)

(* Mutants: idleness counted from creation; only idleness counts.          *)
PastIdleTTLOfCreation(s, now) == now >= created[s] + IdleTTL
OverdueByIdleness(s, now) == now >= lastActive[s] + IdleTTL

PastIdleTTL(s, now) == now >= lastActive[s] + IdleTTL
PastMaxTTL(s, now) == now >= created[s] + MaxTTL
Overdue(s, now) == PastIdleTTL(s, now) \/ PastMaxTTL(s, now)

ReapStart ==
    /\ reaper = "idle"
    /\ tickNow' = clock
    /\ todo' = {s \in Sandboxes : row[s] = "active" /\ Overdue(s, clock)}
    /\ reaper' = "loop"
    /\ UNCHANGED <<clock, rowVars, up, sessionVars, current>>

(* The SELECT has no ORDER BY: the rows come in any order.                 *)
ReapTeardown(s) ==
    /\ reaper = "loop" /\ s \in todo
    /\ s \notin Broken
    /\ up' = up \ {s}
    /\ todo' = todo \ {s}
    /\ current' = s
    /\ reaper' = "commit"
    /\ UNCHANGED <<clock, rowVars, sessionVars, tickNow>>

ReapCommit ==
    /\ reaper = "commit"
    /\ Terminate(current, tickNow)
    /\ reaper' = "loop"
    /\ UNCHANGED <<clock, up, sessionVars, todo, tickNow, current>>

ReapDone ==
    /\ reaper = "loop" /\ todo = {}
    /\ EndPass
    /\ UNCHANGED <<clock, rowVars, up, sessionVars>>

(* destroy_sandbox raises: so does the tick, and the rest has to wait.     *)
ReapFails ==
    /\ \/ reaper = "loop" /\ todo \cap Broken # {}
       \/ reaper = "loop" /\ todo # {} /\ "destroy" \in Faults
       \/ reaper = "commit" /\ "commit" \in Faults
       \/ reaper # "idle" /\ "crash" \in Faults
    /\ EndPass
    /\ UNCHANGED <<clock, rowVars, up, sessionVars>>

-----------------------------------------------------------------------------
(* The world.                                                              *)

(* A container stops on its own: killed for memory, or with its host.      *)
Exit(s) ==
    /\ "exit" \in Faults
    /\ s \in up
    /\ up' = up \ {s}
    /\ UNCHANGED <<clock, rowVars, sessionVars, reaperVars>>

TimePasses ==
    /\ clock < MaxTime
    /\ clock' = clock + 1
    /\ UNCHANGED <<rowVars, up, sessionVars, reaperVars>>

Finish(x) ==
    \/ Teardown(x) \/ TeardownFails(x) \/ CommitDestroy(x) \/ CommitFails(x)
    \/ Probe(x) \/ ProbeErrs(x) \/ Heal(x) \/ Exec(x) \/ Record(x) \/ Open(x)

Session(x) == Read(x) \/ Finish(x) \/ Detach(x) \/ Crash(x)

Reap ==
    \/ ReapStart \/ (\E s \in Sandboxes : ReapTeardown(s)) \/ ReapCommit
    \/ ReapDone \/ ReapFails

Next ==
    \/ \E s \in Sandboxes : Create(s) \/ Exit(s)
    \/ \E x \in Sessions : Session(x)
    \/ Reap
    \/ TimePasses

Spec == Init /\ [][Next]_vars

(* A request that was started goes on, so does the reaper's loop, and time. *)
FairSpec ==
    /\ Spec
    /\ \A x \in Sessions : WF_vars(Finish(x))
    /\ WF_vars(Reap)
    /\ WF_vars(TimePasses)

-----------------------------------------------------------------------------
(* Properties.                                                             *)

(* Who will still bill s: a destroy that has removed the container.        *)
BillPending(s) ==
    \/ \E x \in Sessions : pc[x] = "commit" /\ target[x] = s
    \/ reaper = "commit" /\ current = s

(* A row says terminated only when its container does not run: destroy and *)
(* status both ask the provisioner before they write it, and nothing       *)
(* brings a container back.                                                *)
TerminatedIsGone == \A s \in Sandboxes : row[s] = "terminated" => s \notin up

(* Every sandbox that ended was billed, or is about to be by the destroy   *)
(* that ended it, even when a status request wrote the row first.          *)
TerminatedIsBilled ==
    \A s \in Sandboxes : row[s] = "terminated" => bills[s] # <<>> \/ BillPending(s)

(* DELETE is idempotent: a sandbox is billed for its lifetime once.        *)
BilledOnce == \A s \in Sandboxes : Len(bills[s]) <= 1

(* authorize() was asked for max_ttl_seconds, "the reconciler guarantees   *)
(* it never outlives that TTL": no bill exceeds it.                        *)
BilledWithinEstimate ==
    \A s \in Sandboxes : \A i \in DOMAIN bills[s] : bills[s][i] <= MaxTTL

ReapedForIdleness(s) ==
    reaper = "loop" /\ reaper' = "commit" /\ current' = s /\ ~PastMaxTTL(s, tickNow)

(* A sandbox reaped for idleness has not been attached to within the idle  *)
(* TTL: "last time a batch run or attach touched this sandbox".            *)
IdleSparesAttached ==
    [][\A s \in Sandboxes, x \in Sessions :
          ReapedForIdleness(s) /\ pc[x] = "attached" /\ target[x] = s
             => tickNow >= attachedAt[x] + IdleTTL]_vars

(* Nor has it recorded a run within the idle TTL, unless only after the    *)
(* pass read the rows.                                                     *)
SparesRecent ==
    \A s \in Sandboxes :
        ReapedForIdleness(s) /\ lastActive[s] < tickNow => tickNow >= lastActive[s] + IdleTTL

IdleSparesRecent == [][SparesRecent]_vars

(* A sandbox past its max TTL is terminated in the end, whatever requests  *)
(* do with it.                                                             *)
Expired(s) == row[s] = "active" /\ clock >= created[s] + MaxTTL

ExpiredIsReaped ==
    \A s \in Sandboxes \ Broken : Expired(s) ~> row[s] = "terminated"

=============================================================================
