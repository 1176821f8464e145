# KubeSandbox in TLA+

KubeSandbox runs untrusted code in containers (Docker) or pods (Kubernetes). A
FastAPI control plane, in any number of replicas, and one reconciler process
share a Postgres database and a provisioner; neither knows what the other is
doing except through rows and containers. That is where this code is hard: an
operation is a sequence of awaits over a database transaction *and* a
provisioner that has no transactions, and requests, reconciler ticks, crashes
and errors interleave between any two of them. These modules model those
interleavings and check them with TLC; what is safety is also proved with TLAPS, for any number
of requests.

All paths below are relative to the repository's root.

## 1. Inventory

| Component | State | Operations | Talks to | What makes it correct |
|---|---|---|---|---|
| Warm pool (`app/services/pool_manager.py`) | `pool_members`, `pool_state` | `try_claim`, `release`, `replenish_one` | database, provisioner; called by sandbox service and reconciler | a container serves one request at a time; members exist and their workspace is empty; the pool stays near its target |
| Sandbox service (`app/services/sandbox_service.py`) | `sandboxes`, `runs` | `execute`, `create_sandbox`, `get_sandbox_status`, `destroy_sandbox`, `run_in_sandbox`, `open_pty`, files, async runs | everything below | rows and containers agree; a sandbox that ends is billed once; async runs end |
| Reconciler (`app/reconciler/loop.py`) | none but its session | one tick of five jobs: TTL reaping, replenishing, workspace retention, storage billing with audit pruning, orphan GC | database, provisioner, object storage | what is expired, idle or orphaned goes in the end, and nothing else does |
| Workspaces (`app/services/workspace_service.py`) | `workspaces`, volumes, archives | `get_or_create`, `touch`, `sweep_retention`, `restore` | provisioner, object storage | no file is lost before its retention time; a workspace in use stays |
| Billing (`app/services/billing_service.py`) | `credit_wallets`, `credit_ledger`, `usage_records`, `credit_requests`, `billing_accounts` | `authorize`, `record_usage`, `adjust_credit`, `review_credit_request`, `set_mode`, `settle` | called around runs and destroys | the ledger explains the balance; overdrafts are bounded; a request is paid out once |
| Quotas (`quota_service.py`) | `quotas` | `check`, `usage`, `set_quota` | counts `sandboxes` and `usage_records` | admission stays within limits |
| Weight-class scheduler | a semaphore | `slot` | held by `execute` | no starvation of light runs |
| Database sessions (`persistence/db.py`) | connections | session per request and per tick, `expire_on_commit=False` | Postgres, READ COMMITTED | requests that hold a connection do not wait for each other for ever |
| Provisioners (`provisioners/docker.py`, `kubernetes.py`) | containers, namespaces, volumes | `acquire`, `recycle`, `destroy`, `status`, exec, attach, archive, restore | Docker daemon, API server | idempotent destroy; failures leave nothing behind |
| Image builds (`build_manager.py`, `build/`) | `builds`, the registry's image refs | `trigger_build`, `run_build`, `hydrate_built_images` | background tasks | one build in flight per component; a restart strands none |
| Attach gateway (`streaming/ws_gateway.py`) | one Redis key per sandbox | lock, heartbeat, PTY pumps | Redis, sandbox service | one viewer at a time |
| Rate limiter (`rate_limiter.py`) | one Redis sorted set per caller | `check` | Redis, fails open | the window's bound and the announced reset |
| Entitlements (`entitlement_service.py`), registry, templates | grants, manifests | visibility, publish, resolve, render | pure functions over rows and files | who sees what; upserts |
| Auth (`auth_service.py`, `api/v1/auth.py`, `api_keys.py`) | users, API keys, tokens | verify, issue, revoke | OIDC provider | a token means what its holder may still do |
| Audit log (`audit_service.py`) | `audit_logs` | `record` in the caller's transaction, `record_standalone` in its own | database | denials are recorded without blocking |
| Python SDK, CLI, configuration, metrics, migrations | none shared | | | |

The hard behaviours:

* **A claim lives in the claimer's transaction.** `try_claim` deletes the pool row under
  `FOR UPDATE SKIP LOCKED`, and only the commit at the end of `execute` makes
  that final. Whatever ends the request otherwise brings the row back, while the
  container has been used or destroyed.
* **A row is committed late, a container exists early.** Between `acquire` and the
  commit only the grace period tells the orphan GC from whom a container is.
* **Read, await, write.** `destroy_sandbox`, `get_sandbox_status`, `authorize`, `record_usage`,
  `review_credit_request`, `get_or_create` and `sweep_retention` all act on what they read
  before they awaited something.
* **One commit for many irreversible steps**: the retention sweep deletes volumes one by
  one and commits their rows at the end; a tick is one `try` for five jobs.
* **Shared names**: every Kubernetes pod of a workspace has the same name.
* **Set up in many calls**: a namespace, a container with its sidecars, a published component, an approved credit request
  are several calls or commits, any of which may be the last that happens.
* **Waiting with something in hand**: requests wait for a second connection or a semaphore while they hold a connection.
* **Get, then set**: Redis locks, build deduplication and upserts without a constraint look first and write later.

PROJECT.json lists each hazard at its line, with the properties that are about it.

## 2. Modules

| Module | Models | Composes with |
|---|---|---|
| `ContainerOwnership` | what the control plane promises about a container: it belongs to one user, the pool, nobody who remembers it, or does not exist | abstract; refined by `WarmPool` |
| `WarmPool` | requests (`execute`, `create_sandbox`), the pool of one key, the reconciler's replenishing and orphan GC | `INSTANCE ContainerOwnership` |
| `SandboxLifecycle` | requests on sandboxes that outlive a request, and the TTL reaper | `DestroySandbox` of `WarmPool` stands for its destroys |
| `AsyncRuns` | a run's row, the background task that drives it, a restart, the SDK's poller | its `Run` and `Commit` are `execute` of `WarmPool` |
| `Admission` | what a request holds while it waits: a database connection, the quota's answer, the heavy-class slot, a second session for the audit entry | around `WarmPool`'s requests |
| `CreditWallet` | one credit-mode wallet under concurrent transactions | charges come from runs and destroys |
| `PaygAccount` | one pay-as-you-go account: cap, charges, reviews, prices, storage, drafts of invoices | likewise |
| `Accounts` | tenants, users, roles, session tokens, the audit trail of role changes | |
| `ApiKeys` | one tenant's keys: minted, used, revoked | |
| `Entitlements` | who sees a public component, from rows that admins upsert | |
| `Catalog` | the registry of components and templates: files, memory, rows, the images builds add, and what sandboxes remember of it | reads as `Entitlements` decides; its `Build` is `Builds`' outcome |
| `Builds` | build rows, background builds, tags in the daemon and the image registry, `built_images` | images that `Catalog`'s components resolve to |
| `RateLimiter` | one caller's sorted set in Redis | before every request |
| `ViewerLock` | one sandbox's viewer lock in Redis, its heartbeat, the streams | attaches of `SandboxLifecycle` |
| `WorkspaceRetention` | workspaces, volumes, archives, the retention sweep, on either backend | its `CommitCreate` and `Destroy` stand for the lifecycle's |
| `KubernetesNamespace` | one sandbox namespace and all who work on it by name | `acquire`, `destroy` of the modules above, on Kubernetes |
| `DockerSandbox` | a sandbox's main container and sidecars, and the orphan GC's listing | the same on Docker |
| `BatchExec` | batch executions one after the other (or, `Kept`, several at a time) in one container: output limit, time limit, exit code, variable dump | `WarmPool`'s `Run`, in detail |
| `MCWarmPool`, `MCCreditWallet` | instances for TLC | extend the module of that name |
| `MCPoolMembers` | two instances of `WarmPool` with different faults | extends `MCWarmPool`, `INSTANCE WarmPool` |
| `MCSandboxLifecycle`, `MCWorkspaceRetention` | several instances of one module | the same |
| `MCAccounts`, `MCProvision`, `MCRequests`, `MCLiveness` | instances of several modules | `INSTANCE` them |
| `WarmPool_proofs`, `WorkspaceRetention_proofs`, `SandboxLifecycle_proofs` | theorems about the module of that name | extend it, the last through its `MC` module |
| `Provision_proofs` | theorems about `DockerSandbox` and `BatchExec` | extends the one, `INSTANCE` of the other |
| `MCAccounts_proofs`, `MCProvision_proofs`, `MCRequests_proofs`, `MCWorkspaceRetention_proofs` | theorems about the modules that the `MC` module composes, and about its own specification | extend it |

How they correspond to the code. An action is what happens between two awaits that
another process can be seen at: a provisioner call, a flush that takes a lock, a
commit. The state of a request (`pc`, `held`, ...) is its Python locals and its
uncommitted writes; variables such as `pool`, `row`, `balance` and `rowState` hold
committed rows only, so rolling back is forgetting. Bodies of containers, specs,
prices and manifests are left out, and identifiers are model values. What may go
wrong is in a constant `Faults`, one string per kind of failure, so that a property can be
checked with those the code handles and refuted with the one it does not.

`MCPoolMembers` and the six modules that follow it in the table, proofs aside, check several small instances in one state
space. A variable `part` (or `instance`), which the initial state chooses and no step changes, says
which of them is being explored; the others stay in their initial
state. The parts share no variable, so a state of one says nothing about another, and
interleaving their steps would only multiply the states. Everything that does
interact is in one module.

The sets, bounds and prices of `MCAccounts` and `MCRequests` are constants, which the `.cfg` files give
values (`X <- MCX` where a record is needed), so that the theorems about their
specifications are about any number of callers, runs, keys, components and so on. Which faults a part has is fixed
in its `INSTANCE` (`AsyncRuns`, which `MCRequests` extends, has its own `Faults`). `MCAccounts` has two instances of `PaygAccount` in one, `Payg(plan)`, a plan being
the prices, how many runs a caller has and how long they take, the months, the storage charges, the drafts and the faults.

### WarmPool

* `Claim`, `Miss`, `AcquireFresh`, `Run`, `Recycle`, `DestroyHeld`, `CommitExecute` follow
  `execute`: `_acquire_for_execute`, `_run_instrumented`, `_release_or_destroy`, the final commit.
  `CommitCreate` ends `create_sandbox`. Failures are actions of their own:
  `AcquireFails`, `RecycleFails`, `DestroyHeldFails`, `HookFails`, `DbFails`, `Rollback`, `Crash`.
* `Locked` is what SKIP LOCKED skips: rows that an open transaction claimed. They are
  still in `pool` because READ COMMITTED still counts them.
* `LiveLabels` is the point of contact with the orphan GC. A fresh sandbox's id is its
  container's label; a claimed one gets a new uuid, so its label is in no row.
* `TickStart` reads the tick's `now`: the containers that are `aged` then are the only
  ones this tick may destroy. `TickCommit` is the commit of a later job of the tick;
  `replenish_pools` makes none itself.
* `dirty` says where files of a run may be. `Recycle` wipes `/workspace` (`"workspace"`) but for names like `..x`, and neither
  `/tmp` nor the rest (`"elsewhere"`); with `"wipe"` it wipes nothing and does not say so, which is what the command's
  `2>/dev/null; true` makes of an `rm` that fails. `Places` are the places an instance keeps track of.
* Time is one bit per container, older than `orphan_grace_seconds` or not. The constants
  `PoolOutlives` and `SlowRuns` say which containers may get that old while in use.
* A container name that nothing refers to stands for a new container, so a finite
  set of names suffices for unboundedly many containers.

### SandboxLifecycle

* `Read` is `get_sandbox`; each operation then proceeds on its own: `Teardown`,
  `CommitDestroy`; `Probe` or `ProbeErrs`, `Heal`; `Exec`, `Record`; `Open`, `Detach`.
* `ReapStart` reads all rows and decides (`todo`); `ReapTeardown` and `ReapCommit` are one
  `destroy_sandbox` of the pass, which gets the object the pass has read already
  (one session, `expire_on_commit=False`); `ReapFails` is any exception: the tick is over.
* Times are whole units; `lastActive` is `last_active_at or created_at`.
* `Broken` are sandboxes whose container can never be removed.

### CreditWallet

* The balance is read by a plain SELECT and written as an absolute value by the
  flush, which takes the row lock until the transaction ends: `lock`, `loaded`, `Visible`.
* `Authorize`, `EndRun`, then `LoadForUsage` and `FlushUsage` per usage event, `CommitUsage`; `LoadForAdjust`,
  `Adjust`; `Approve`, `Grant`, `MarkApproved`, `Deny`.
* An event costs any of `Costs` and a run is authorized for any of `Estimates`, and neither bounds the other: what is billed is what the run took, which a
  time-out or a late destroy lets exceed the estimate, at the price of that moment.

### WorkspaceRetention

* `Find`/`FindNone`, `Mount`, `CommitCreate` are `create_sandbox(persistent=True)`; `Work` is
  `run_in_sandbox` with `_touch_workspace`; `Destroy` leaves the volume.
* `SweepStart` reads rows and decides; per row `SweepSkip`, or `SweepArchive`, `SweepPut`, `SweepDelete`, or
  `SweepPurge`; `SweepCommit` writes all states; `SweepFails` loses them.
* On Kubernetes `WithoutPod` is a delete of the workspace's pod, whoever's it is, and
  `SweepCollides` is a measuring or archiving pod whose name is taken.
* A unit of time is of the order of a day, so no request or sweep lasts one
  (`TimePasses`). `Overlaps` says what may happen during a sweep.
* Nothing in the service calls `restore`; `Restoring` turns it on.

### AsyncRuns

* `Accept` commits the pending row and queues the task in one step of the event loop; `Begin`,
  `Run`, `Commit` are `run_async` around `execute`; a failure is written by a session of its own
  (`MarkFailed`), which may fail too. `Restart` ends all tasks of the process, and none is resumed.
* `CommitLost` is a commit whose answer the client never gets.
* `Poll` is the SDK's `wait_for_run`, the only part of the SDK that spans several requests.

### Admission

* A session checks a connection out at its first query and keeps it until its commit or its
  end, so `holds` is 1 from `Connect` on and 2 while a refusal is audited in a session of its own
  (`AuditConnect`, `AuditCommit`).
* `Check` counts committed rows; `Commit` makes a request's own row count. Only heavy runs,
  not creates, wait for a slot (`EnterSlot`), and they do so with a connection in hand.
* The pool's time-out is a fault, `"timeout"`, at the two places where a request waits for a connection.

### PaygAccount

* `Begin` opens the transaction, which fixes the month its usage is stamped with; `Insert` is the
  account's first row, whose flush waits for another transaction's insert of the same key.
* `Authorize` compares the cap with what is committed for the month and the price of the estimate; `Record` charges any of `Durations`, longer
  than the estimate or not, at the price of the time, and commits. `BeginStorage` and `BillStorage` are the reconciler's transaction.
* A review computes the new cap from the one it has read, commits it, and commits the
  approval after that (`Review`, `SetCap`, `MarkApproved`). `Settle` drafts any period, over or not, and
  again if it is called again; a draft remembers its rows, and for the properties what was under way (`open`).

### Accounts, ApiKeys, Entitlements

* A login's steps are its queries and inserts (`FindTenant`, `InsertTenant`, `FindUser`, `InsertUser`,
  `CommitLogin`); an insert that conflicts waits for the other transaction. `RoleOf` is the bootstrap
  rule. The ORM writes a column only if its value differs from the loaded one, which is what `Stored` and
  `CommitRole` say. `had` is history: when each user last had each role.
* `Authenticate` reads the key; `Touch` writes `last_used_at`, a whole transaction later and only
  if the stored one is stale. `LoadKey` and `CommitRevoked` revoke.
* `Select` looks for the row of a target, `Commit` writes it or inserts one; nothing in the database keeps
  two apart. `Sees` is `is_entitled` over versions and ranges.

### Catalog and Builds

* An entry is its owner and version, as there is one name of each kind. `Check` resolves and checks what a template
  refers to, in the memory of the replica that serves the request; `Publish` writes the file and the memory, and
  `Commit` the row. `Loads` is everything that makes `load_registry` raise.
* A component that names no image has one in a replica's memory once `Build` succeeded there, whose row may be committed or
  not, and a restart reads the rows (`images`, `ImageOf`). `Renders` asks for one image among the components that have one.
  What a component `requires` of others is left out: it is checked at publishing and at the start as a template's references are, and read nowhere else.
* A sandbox remembers its source as the row does, by the manifest's own key without the owner (`Bare`, `BareKey`).
* `Trigger` looks for duplicates and `Insert` commits the row; the build's steps follow `run_build`. An image's tag has
  the component's name and no owner, so `daemon` and `pushed` say whose image is there.

### RateLimiter and ViewerLock

* The limiter's time stamp is read before the pipeline is sent (`Send`, `Check`), and up to `Delay` ticks pass in
  between. `log` is history: the answers in the order of the pipelines; `kept` is what the sorted set still has.
* The viewer lock's tick is a heartbeat's interval. `GetLock` and `SetLock`, and likewise `GetForBeat` and `Refresh`, are
  separate Redis calls. `InTime` says which of them may be outrun by a tick; with `"race"`, `"late"` and `"slow"`
  they all may, and with `"race"` another handshake may get what this one is about to set. `overwritten` is history: a claim has replaced
  another viewer's lock. The lock stays when a viewer leaves: that is the grace window.

### KubernetesNamespace

* `CreatePart` creates the elements of `Setup` one API call at a time. The claim of a workspace comes last, and a pod
  that mounts it does not start before it exists (`PodStarts`).
* `podOf` says whose call created the one pod; `Ready`, `DeletePod` and the throwaway pods find it by its name only.
* The keeper is the reconciler's sweep or a restore. `Running` and `Then` order its three jobs.
* `PodGone` and `NamespaceGone` are the cluster's, at the end of grace periods.

### DockerSandbox and BatchExec

* `at` is the sidecar the owner is at, `refs` what it would undo. `Remove` of what is gone counts as removed;
  `MayRemain` is an error that the code suppresses.
* The GC lists (`GcList`), inspects each container (`GcShow`) and only then groups them by sandbox (`GcChoose`).
* `Output` is a message on the stream, `Finish` its end and the exit status, `TimeOut` the wall clock; what
  becomes of the process is `End` or `Kill`, in any order with those. `Release` is `execute`'s recycling or
  destroying of a pooled container, which a sandbox of its own (`Kept`) does not have.
* A process that ends has written the dump, broken off, or not touched it (`Exits`): the runner swallows `OSError`, and `os._exit` skips it. The file is in
  `/tmp`, so an earlier run's stays through `Release` (`Earlier`: of a run that has been answered). With `"fork"` a program leaves another process
  behind, which writes the file at any later time (`ChildWrites`).

## 3. Runs

Every run that passes explores its instance completely. The bounds are the
sizes of the sets and the clocks, counts and messages named in the constants (`MaxTime`, `MaxCalls`, `MaxTrail`,
`MaxBuilds`, `MaxProduced`, `MaxDrafts`, `Months`, `Each`, `StorageTicks`); there is no other state constraint.

| Run | Instance | Shows |
|---|---|---|
| `pool_faults` | 2 requests, 2 containers, target 1, all faults, all ageing | `TypeOK`; `ClaimExclusive`: one container never serves two requests; `NotOfferedInUse`: nor is it on offer; `OwnershipRefined`: the model implements `ContainerOwnership` |
| `pool_reuse` | 2 requests, 4 containers; `"failing"`: acquires, recycles, runs and commits fail, pooled containers may outlive the grace period, no run does; `"handled"`: acquires, recycles and ticks fail, nothing outlives it | `FreshSandboxUp`: fresh sandboxes in use exist; `PoolBounded`: at most target plus requests; `HandledUsable` (of `"handled"`): claimable containers exist and have an empty workspace |
| `pool_leaks` | 1 request, 3 containers, all faults of requests, fairness | `LostAreCollected` |
| `pool_gc_live` | no faults, pooled containers may outlive the grace period | violated: `LiveSandboxUp` |
| `life` | `"faults"`: 2 sandboxes, one of them unremovable, 1 session; `"reaping"`: 1 sandbox, 2 sessions, fairness, containers that exit, status errors | `GoneOnceTerminated`: what is terminated does not run; `RecentSpared`: idle reaping respects recorded runs; `ReapedInTheEnd` |
| `accounts` | wallet: 4 sessions, 1 credit request, crashes; pay-as-you-go: 2 callers in 2 months, twice each, shorter and longer than estimated, or once each with rising prices, storage and crashes, and a draft of any period; 2 logins and 1 role change; 1 key, 2 uses, 2 revocations; 2 admins | `DebtBounded`: no charge counts twice, an overdraft is less than what was charged, and overspending is one run of each caller and storage; `ApprovedTakesEffect`; `DraftsMissOpenOnly`: a draft of a period that is over misses only what was under way; `RolesAreTold`: tenants have users, tokens carry a recent role, the trail is right; `KeysAreHonest`: revoked for good, `last_used_at` is recent; `SeesWhatWasSet`; `TypeCorrect` |
| `wallet_lost_update` | 2 sessions | violated: `LedgerExplainsBalance` |
| `workspaces` | Docker with 2 sessions, 2 files and restores, nothing overlaps a sweep; Kubernetes with creates that overlap sweeps and sweeps that abort; Docker with fairness | `NothingLostOnDocker`; `DeletedOnlyPastGrace`; `ArchivedInTheEnd`; `TypeCorrect` |
| `ws_sweep_abort` | 2 users, nothing fails, nothing overlaps | violated: `NothingLostOnDocker` |
| `provision` | Kubernetes: 2 sessions and the keeper on one workspace, all faults; Docker: 2 sandboxes with 2 sidecars and crashes, and 1 with failing deletes; 2 batch runs, pooled or in a shared sandbox | `Confined`: no pod runs unfenced; `ArchivedFromClaim`; `NothingStranded`: no sidecar without its main, nothing after a failed acquire; `LiveIsSpared`; `ResultHonest`: output and exit code are the process's, and so are the variables of a pooled run that wrote them; `TypeCorrect` |
| `requests` | 2 async runs, all faults but a lost answer; 5 requests, 2 connections, 1 slot, quota 1; 2 callers of a limit of 2; 3 sockets of 2 viewers; 2 publications on 1 replica; 2 triggers of 3 components | `RunsHonest`; `OverAdmissionBounded`; `LimitIsKept`; `ViewersTakeTurns`: unless one has overwritten another's claim; `PublishedStays`; `PinnedRunsWhatRuns`: what is pinned runs as nothing else; `RestartsWhole`; `TypeCorrect` |
| `liveness` | an ephemeral namespace; 1 Docker sandbox; 2 async runs; 2 builds; 3 queued requests with 2 connections; 2 sockets; fairness | `LeftoversGo`; `JobsEnd`; `Answered`; `LockPasses` |

Properties of the composite runs are conjunctions of those of the modules they are named after; the
`MC...` modules say of which.

Why the bounds are enough. Exclusion in the pool is a matter of two requests and one
container; a second container lets a request hold one while another is
offered, a third and fourth let two requests miss while the pool is being filled. The
reaper's races need one sandbox and one other actor; the order of a pass needs two
sandboxes. Wallet races need two writers; four sessions are
a top-up and three runs that it lets in together. Two callers
overspend a cap together, by runs longer than estimated or at a price that rises between a check and its charge; two months are enough for usage that began in
one and is committed in the other, and one draft for what it misses. A workspace's life of idle, archived and
purged needs four days at `IdleRetention` = `ArchiveGrace` = 1. Admission needs as many requests
as there are connections, one of them waiting for the slot, and others behind them; over-admission is at its bound with two connections. The limiter's window
of 3 with a delay of 1 fits two windows into the clock of 6. Two identities compete for a viewer lock, and a third
connection is one of them coming back. In a namespace the races are between two sessions, or a session and the
keeper. Two sidecars are one that is there and one that fails. Two
publications conflict over one key or refer to each other.

Requests are mostly slots that start again and again, so the length of a behaviour is not bounded,
except by clocks and counts, by one operation per session in `CreditWallet`, and by one run per
request in `AsyncRuns`. Where nothing starts again the models stop, and `CHECK_DEADLOCK` is off:
in `accounts` (the clocks and months run out), `requests` (the limiter's calls and
the builds are used up) and `liveness` (builds and async runs end). It is on everywhere else.

Symmetry is declared for requests, containers, sessions, sandboxes, runs, callers and publications where the
modules only compare them; runs of liveness properties use none.

Each property has a mutant in PROJECT.json, an operator beside the one it replaces
("Mutant:" in its comment) that makes a mistake one can make there, and
that the property catches.

## 4. Fairness

* `WarmPool`: a request that has started takes its next step, because nothing waits for
  anything but the provisioner and the database, whose calls return or raise; the reconciler's
  loop goes on after every exception (`run_forever`); containers age. Nobody has to start,
  destroy or crash. `TickAborts` is not among the faults of `pool_leaks`: a tick that fails
  every time would never reach its last job, the orphan GC.
* `SandboxLifecycle`: the same for the next step of an operation, the reaper and the
  clock; a viewer need not detach.
* `WorkspaceRetention`: also sandboxes are destroyed in the end, which is what their TTLs are for.
  A sweep that raises every time would archive nothing, so that instance has no external faults.
* `AsyncRuns`, `Builds`: the event loop runs a task that was created, and its calls end; the
  poller sleeps between polls and goes on.
* `KubernetesNamespace`, `DockerSandbox`: calls return, the kubelet and the namespace controller do
  their work, the reconciler's loop goes on.
* `ViewerLock`: time passes; a handshake and a heartbeat that have begun go on. Nobody has to leave.
* `Admission`: strong fairness of `Connect` and `EnterSlot`: both are disabled and enabled again by others,
  and SQLAlchemy's queue pool and `asyncio.Semaphore` serve whoever waits in the order of arrival. Everything else there, and all of the
  above, is weak fairness: no other actor disables the step for ever.

## 5. Proofs

Eight modules hold theorems; PROJECT.json lists the results. Every safety property of every run that passes is
proved, for all values of the constants that the assumptions in the modules (and, where named here, a
hypothesis) allow. Every proof has an inductive invariant, a lemma that it holds initially, and one
lemma or case per action. Cardinalities are counted with the library's theorems about finite sets.

**`WarmPool_proofs`**: any sets of requests and containers (finite ones, where something is counted), any target.

* `ExclusiveClaims`, `HeldAreNotOffered`, `TypeCorrect`: no further hypothesis, any faults. Exclusion alone is not inductive: a claim is
  exclusive because the row it took is in `pool` and locked, because nobody else lists a container
  somebody holds, and because what the tick has acquired but not committed is
  neither held nor listed. `IInv` says so: `HeldAgrees` ties `held` to `pc`, `RowsAreClaims` says
  a listed container is held only by the request that claimed it and is then locked,
  `TopUpFresh` keeps the tick's containers apart.
* `CleanPool` (`WorkspaceWiped`), if nobody crashes, no destroy fails and the wipe removes what it is asked to (`Wiped`): a container whose workspace has files of
  a run is held by a request that is between its run and its `_release_or_destroy` (`DirtyIsRunning`). It is about `/workspace` only: `NoLeftovers`, about all of
  the container, does not hold (section 6).
* `FreshStaysUp`, unless `SlowRuns`: what the GC has chosen to destroy is nobody's fresh sandbox (`FreshSpared`), as only
  `aged` containers are chosen, and a fresh one in use gets old only with a row.
* `MembersExist` (`PoolBacked`) and `LiveStayUp` (`LiveSandboxUp`), if no run raises, no commit fails, no process dies and nothing pooled or
  claimed outlives the grace period (`Handled`): `MembersKept` says that idle members, what the tick has acquired, and claims
  exist and are out of reach of the clock and the GC, until the claimer has disposed of its container, when all it can still do is
  commit the deletion of the row. Section 6 has the counterexamples without the hypotheses. `ClaimsAreUsable` (`MembersUsable`) puts `MembersExist` and `CleanPool` together.
* `PoolIsBounded`, at most the target plus one per request, any faults: `BoundInv` counts the members, what the tick has acquired and
  still needs, and the requests that may put one more container in (`Comers`). The tick's count is stale when it
  acts, but whoever has put something in since was a comer when it counted.
* `ImplementsOwnership`: every step is a step of `ContainerOwnership` under the mapping `Owner`, or changes no owner.

**`SandboxLifecycle_proofs`**: any number of sandboxes and sessions.

* `TerminatedAreGone`, if the provisioner's status can be believed (`"probe"` not among the faults): whoever is about to
  write that a sandbox has ended knows that its container is gone (`EndedIsGone`), and works on a sandbox that has a row
  (`WorkHasRow`), which is not created again.
* `RecentAreSpared`, any faults: `PassInv`, a sandbox on the reaper's list was overdue when the pass began, or has been
  active since.
* The two again, of the specification that the run explores.

**`WorkspaceRetention_proofs`**, and `MCWorkspaceRetention_proofs` for its instances: any users, rows, files and sessions.

* `VariablesAreTyped`: either backend, any overlaps and faults.
* `DeletionsAreLate`, if no sandbox ends during a sweep: what is purged was past its grace when the sweep read it (`DeletionInv`).
* `FilesAreKept`, under `Undisturbed`: Docker, nothing overlaps a sweep, no sweep is aborted from outside, and a user has one sandbox
  at a time (or there is one workspace). `KeptInv` has three parts: what sessions may be at while a sweep is or is
  not going on; that what the sweep has read is still so and that its tarball is the volume; and where a workspace's
  files are in every state of its row and of the sweep. Without the last hypothesis the invariant fails where
  `ws_sweep_abort` finds its counterexample.

**`Provision_proofs`**: any number of sandboxes and sidecars, runs and limits.

* `LiveIsSparedAlways`, if no acquire is slower than the grace period, any faults: the GC decides on listings made before. `GcInv` says that
  what it suspects, has listed or is about to remove belongs to a sandbox nobody uses (`SuspectsAreNobodys`,
  `VictimWasFound`), old enough that its id is not used before the GC is done with it (`AgedIsThere`).
* `NothingIsStranded`, under `Sound`: besides, neither the daemon itself nor a delete fails. `WholeInv` says what there is of a sandbox
  at each step of its owner and of the GC (`MainIsThere`, `SidecarsAreKnown`, `AllIsListed`).
* `OutputIsHonest`, `ExitIsHonest` (not Docker, whose missing exit status counts as 0), `VariablesAreOwn` (`WrittenVariablesOwn`, under `Solo`: a pooled
  container, whose programs leave no process behind): there is one run and one process at a time, so nobody writes the file between a
  run that wrote it and its reading (`SoloInv`). Nothing is said of a run that did not write it: it gets what is there (`EndedVariablesOwn`, section 6).

**`MCProvision_proofs`**: any number of sessions and any faults.

* `ConfinedPods`: whoever is in the middle of a setup is alone with it, and the namespace has what it has put there so far
  (`SetupOwned`, `SetupAlone`); the claim comes last (`ClaimIsLast`) and no pod of a workspace runs without it; the keeper
  deletes only a namespace with a claim, which nobody is setting up (`KeeperHasClaim`); an ephemeral namespace
  belongs to one acquire (`OneAcquire`).
* `ArchivesAreOfTheClaim`: the pod that is archived from mounts the claim, although it is found by name.
* `NothingStrandedHolds`, `LiveIsSparedHolds`, `ResultHonestHolds`, `PartsAreTyped`: the results above for the instances of the run.

**`MCRequests_proofs`**, one invariant per part.

* `RunsAreHonest`, if `"lost"` is not among the faults: a poller's answer stays true because a row that is done has no task any
  more (`DoneIsOver`), and a task exists exactly for the rows that were accepted.
* `OverAdmissionIsBounded`: whoever is admitted holds a connection until its own row counts (`ConnectionsHeld`), and connections are
  never more than the pool has (`NoMoreThanPool`); so at a check that still finds room the others that are
  admitted are fewer than the connections.
* `LimitsAreKept`, any limit, window and delay: the calls that were allowed within the last window are in the sorted set when the
  next pipeline counts (`LogIsTrue`) and are at most the limit (`Recent`); the pipelines' order is the log's
  (`LogIsOrdered`); what an answer promised is still free (`PromiseIsOpen`).
* `OneViewerAtATime`: handshakes race, with each other and with time, between get and set. As long as none has overwritten a lock that another viewer
  set in between, who is attached owns the lock, which is refreshed before it can expire. After that two may be attached, and the theorem says nothing;
  nor does it where heartbeats are late, the stream opens slowly or Redis fails, which its instance excludes.
* `PublishedStaysPublished` and `PinsHold`, one replica whose files outlive it: memory is the files, keys are unique, what a
  published template refers to is found, rows are of files, and a sandbox is what its source gives (`CatalogInv`). Files
  only grow, and by new keys, so a pinned reference finds the same for ever, and no other component can be run. That it does render is proved for
  components that name their images; an image that a build adds may differ from the others' (`PinnedStillRuns`, section 6).
* `RestartsAreWhole`, one replica: a build's row follows its task (`RowFollowsTask`), and an image is remembered before its row can succeed.

**`MCAccounts_proofs`**, likewise.

* `ApprovalsTakeEffect`: a review is two commits. Who is between them has made the grant (`GrantComesFirst`) or raised the cap
  (`RaisedFirst`), and neither is taken back.
* `DebtIsBounded`, any number of sessions, callers, prices and amounts, any costs and durations. In the wallet every session that has loaded the balance has what it was
  once, less its own charges; what it writes back is above both bounds, whoever has committed meanwhile,
  because the bounds only go down: `Floor`, the first balance less all that was charged, and `Debt`, what was charged less the smallest estimate, for somebody
  found that much when it was authorized (`Afloat`). A sum of charges is the number of its units, a finite set, because an induction over the
  rows is out of the provers' reach while the cardinality of a union is not (`UnitsAppended`, `UnitsJoined`). In the account the runs charged this month are those that somebody saw when
  the cap was last found to have room for an estimate, and since then at most one late run of each caller that is no longer running (`SpendInv`).
* `OnlyOpenIsMissed`: a row that is added to the current month, or to an earlier one, is of a transaction that has begun in it; one that began before a draft was among those under
  way then (`DraftsSee`).
* `KeysStayHonest`: who has read a stale `last_used_at` writes it within the time of a slow request, or fails (`WritesSoon`).
* `WhatIsSetIsSeen`, unless upserts of one target overlap: one row and one upsert per target (`OneRow`, `OneUpsert`), and who
  is between select and commit still sees what it selected (`SeesItsRow`).
* `RolesStayTold`, unless role changes overlap: a login knows its user's tenant and a role the user has had since it began
  (`KnowsItsUser`), a user has its role now (`HasRoleNow`), and every entry of the trail is of a user.

Assumptions on constants are as weak as the proofs allow: quotas, windows and times are naturals, sets that are counted are finite,
reserved words ("none", "nobody", "storage") name nothing else, there is a price and an estimate, and costs, durations and estimates are naturals that are not compared with each other.

Only model-checked: `LostAreCollected`, `ReapedInTheEnd`, `ArchivedInTheEnd`, `LeftoversGo`, `JobsEnd`, `Answered` and `LockPasses`,
all of them liveness; fairness and ENABLED are beyond the prover. The three runs that find violations refute, and have nothing to prove.

## 6. Where the code and its documentation differ

Three disagreements have a run (see "findings" in PROJECT.json): the orphan GC
destroys live sandboxes that were claimed from the pool (`pool_gc_live`), racing updates
of a wallet are lost (`wallet_lost_update`), and a sweep that aborts after deleting a
volume makes the next sweep archive an empty one over the good copy (`ws_sweep_abort`).

The modules state further promises that the code does not keep. Each definition below is
violated when TLC checks it with the constants given, those of the nearest
run, with the smallest sets that have the actors named, otherwise. Some are bugs, some are limits
that the code or its documentation admits.

| Definition | Constants | What happens |
|---|---|---|
| `PoolBacked` (WarmPool) | `Faults = {"exec"}` | a claimed container whose run raises is destroyed in the `finally`, and the rollback lists it again (`sandbox_service.py:806`) |
| `PoolBacked` | `PoolOutlives = TRUE` | idle members have no `sandboxes` row: the orphan GC destroys them and leaves their `pool_members` rows (`loop.py:143`) |
| `FreshSandboxUp` | `SlowRuns = TRUE` | `execute` commits its row after the run: a run longer than the grace period loses its container (`loop.py:145`) |
| `NoLeftovers` | `Faults = {}`, `Places = {"workspace", "elsewhere"}` | `recycle` wipes `/workspace`, and not `/tmp` with the variable dump nor names like `..x` (`docker.py:469`, `kubernetes.py:661`, against "to avoid leaking dirty state", `docs/ARCHITECTURE_AND_PLAN.md:319`) |
| `WorkspaceWiped` | `Faults = {"wipe"}`, `Places = {"workspace"}` | the wipe's errors and exit status are ignored (`docker.py:469`) |
| `WorkspaceWiped` | `Faults = {"crash"}`, `Places = {"workspace"}` | a crash gives a used container back to the pool unwiped (`pool_manager.py:74`) |
| `BilledOnce` (SandboxLifecycle) | `Faults = {}` | overlapping destroys both bill (`sandbox_service.py:976`) |
| `TerminatedIsBilled` | `Faults = {"exit"}` | a status request heals the row of a container that exited; nobody bills it (`sandbox_service.py:963`). It holds with `Faults = {"destroy"}` |
| `BilledWithinEstimate` | `Faults = {}` | the reaper comes after the TTL that was authorized (`loop.py:99`) |
| `IdleSparesAttached` | `Faults = {}` | `open_pty` does not set `last_active_at` (`sandbox_service.py:1038`) |
| `ExpiredIsReaped` | 2 sandboxes, one in `Broken` | a sandbox that cannot be removed keeps the reaper from the other (`loop.py:104`) |
| `TerminatedIsGone` | `Faults = {"probe"}` | Docker's `status` takes any daemon error for terminated (`docker.py:450`) |
| `EstimateIsCeiling` (CreditWallet) | 3 sessions, usage only, `InitialBalance = Events = 1`, `Costs = {2}`, `Estimates = {1}` | the billed duration is not clamped to what was authorized: a run that timed out, or a late destroy, costs more than its estimate (`sandbox_service.py:827`, against "A pre-authorization ceiling", `domain/billing.py:26`) |
| `GrantedOnce` (CreditWallet) | 2 sessions, reviews only | two reviewers both see "pending" (`billing_service.py:328`) |
| `LiveIsActive` (WorkspaceRetention) | 1 session, `Overlaps = {"create", "destroy"}` | a sandbox created after the live check has its workspace archived (`workspace_service.py:145`) |
| `NothingLost` (WorkspaceRetention) | Kubernetes, `Overlaps = {"create"}` | the sweep deletes the namespace with a live pod in it (`kubernetes.py:821`) |
| `NothingLost` | `Faults = {"sweep"}` | a crash between a volume's deletion and the commit (`workspace_service.py:150`) |
| `LiveIsUp` | Kubernetes, 2 sessions | a user's second persistent sandbox deletes the first one's pod (`kubernetes.py:349`) |
| `OneWorkspacePerUser` | `Rows = {1, 2}`, 2 sessions | two first creates insert two rows (`workspace_service.py:60`) |
| `QuotaKept` (Admission) | `Faults = {}` | concurrent creates are admitted on committed rows (`sandbox_service.py:307`) |
| `LightNotStarved` | 2 heavy requests, 1 slot | a heavy request waits for its slot with a connection that a light one needs (`sandbox_service.py:772`) |
| `Answered` | `Faults = {}` | refused requests hold all connections, and each waits for a second one for its audit entry; only the pool's time-out, `"timeout"`, answers them (`audit_service.py:162`) |
| `RecordedInTheEnd` (AsyncRuns) | `Faults = {"first"}` | marking the row running comes before the `try`, so that its failure is recorded nowhere (`sandbox_service.py:708`, against its docstring, 695) |
| `RecordedInTheEnd` | `Faults = {"restart"}` | nothing resumes a run, as the docstring admits (`sandbox_service.py:698`) |
| `RunsHonest` | `Faults = {"lost"}` | a commit that was made but not acknowledged is recorded as a failure: charged, then failed |
| `FirstAreServed` (PaygAccount) | `Faults = {"absent"}` | two first requests both insert the account; one fails (`billing_service.py:55`) |
| `ApprovalGivesHeadroom` | `Cap <- NoCap` | approving a request of a tenant without a cap gives it one (`billing_service.py:341`) |
| `ApprovalGivesHeadroom` | 2 reviews | the second review writes the cap it has computed from what it read (`billing_service.py:341`) |
| `EstimateIsCeiling` (PaygAccount) | 2 runs, `Estimate = 2`, `Durations = {1, 3}` | the same of the spend cap: a month is overspent by more than the other runs' estimates |
| `InvoicedOnce` | 2 runs, `MaxDrafts = 2` | `settle` takes any period as often as it is called, and nothing keeps the drafts of two apart (`billing_service.py:121`, against "rolls up into a draft `Invoice`", line 12) |
| `InvoiceComplete` | 2 months | a run that began before a period's end and is committed after its settlement is in no invoice (`billing_service.py:122`) |
| `TrailTellsRole` (Accounts) | 2 changes, 2 entries, `Faults = {"overlap"}` | the ORM writes no role that equals the one loaded, while another change has been committed (`admin.py:568`) |
| `OneRowPerTarget`, `SeesWhatWasSet` (Entitlements) | `Faults = {"overlap"}` | two upserts both insert, and a later one changes only one of the rows (`entitlement_service.py:196`) |
| `RunsWhatRuns` (Catalog) | `Faults = {}` | a tenant's own component is looked up without its owner, and a template that pins nothing is rendered with newer versions (`sandbox_service.py:515`) |
| `PinnedStillRuns` | a template of two pinned components, one not yet built, `Faults = {}` | a component without an image is skipped, and a build that succeeds after the sandbox was created adds an image: re-rendering for a run raises (`template_render.py:109`, `sandbox_service.py:519`, against its docstring, `template_render.py:6`: what is composed and what is run "can never drift apart") |
| `PublishedRenders` | `Faults = {}` | a template is published if its references resolve; whether their images agree is found out when it is used (`template_render.py:3`) |
| `Immutable` | 2 replicas | each replica knows only its own memory and files, so both publish one key with different contents (`registry_service.py:120`, against `docs/ARCHITECTURE_AND_PLAN.md:228`) |
| `PublishedIsServed` | `Durable = FALSE`, `Faults = {"crash"}` | rows outlive the files from which a replica loads; also with 2 replicas (`registry_service.py:124`) |
| `StartsAgain` | `Faults = {"torn"}` | a crash within `write_text` leaves a file that no start gets past (`registry_service.py:124`) |
| `BuildEnds` (Builds) | `Faults = {"restart"}` or `{"commit"}`, `FairSpec` | nothing resumes a build or repeats its last commit, and its row stays in flight (`build_manager.py:105`) |
| `NeverTwice` | 2 triggers | both look before either inserts (`build_manager.py:101`) |
| `BuiltIsRunnable` | a tenant's own component | its image is remembered under the owner's key and looked up under the bare one (`loader.py:90`) |
| `ImageOfComponent` | two owners of one name | tags do not have the owner, so one's build replaces the other's image |
| `RestartForgetsNothing` | 2 replicas | a replica learns of the others' builds at its next start (`build_manager.py:105`) |
| `RetryAfterIsGranted` (RateLimiter) | `Faults = {}` | rejected calls occupy slots too: after Retry-After the oldest member has gone, but as many younger ones may be left (`rate_limiter.py:57`) |
| `OneViewer` (ViewerLock) | `"race"`, `"late"`, `"slow"` or `"redis"` | get and set are not atomic; or the lock expires during a slow handshake, under a late heartbeat, or after the heartbeat died of a Redis error (`ws_gateway.py:54`, against `docs/ARCHITECTURE_AND_PLAN.md:369`) |
| `RefreshesOwn` | `Faults = {"late"}` | the lock passes on between a heartbeat's get and expire (`ws_gateway.py:69`) |
| `GraceIsKept` | any of these | who leaves no longer has the lock |
| `OneViewerUnlessOverwritten`, `GraceKeptUnlessOverwritten` | `"late"`, `"slow"` or `"redis"` | the lock is lost without having been overwritten by a claim |
| `ClosedAtEnd` | `Faults = {"redis"}` | awaiting a heartbeat that died raises before `pty.close()` (`ws_gateway.py:110`) |
| `OwnPod` (KubernetesNamespace) | 2 sessions | the second one deletes the first one's pod (`kubernetes.py:349`) |
| `SetUpOnce` | `Faults = {"api"}` | a namespace whose setup failed half-way is taken for set up ever after (`kubernetes.py:314`) |
| `ArchivedInTheEnd` | 1 session, `Faults = {}`, `FairSpec` | a measuring pod in its grace period makes the archiving pod collide, in each sweep again (`kubernetes.py:764`) |
| `SidecarsHaveMain` (DockerSandbox) | `SlowAcquire = TRUE`, or `Faults = {"delete"}` | the GC removes main while sidecars are being created; or a sidecar's removal fails and main's does not |
| `FailedLeavesNothing` | `Faults = {"daemon"}` | errors of the daemon itself pass `acquire`'s handlers (`docker.py:281`); the GC finds the container later |
| `EndedVariablesOwn`, `VariablesOwn` (BatchExec) | `Kept = FALSE`, `Faults = {}` | a program that ends without writing its dump (`os._exit`, or a file it cannot open, `runner.py:67`) is reported with that of an earlier run, in a pooled container another tenant's: `recycle` does not wipe `/tmp` (`docker.py:469`, 921, against "absent/unparsable → `null`", `docs/ARCHITECTURE_AND_PLAN.md:389`) |
| `WrittenVariablesOwn` | `Kept = FALSE`, `Faults = {"fork"}`; or 2 runs, `Kept = TRUE` | a process that an earlier program left behind, or another run, writes the file between this run's end and its reading |
| `ExitHonest` | Docker, `Faults = {"status"}` | an exit status that is not there counts as 0 (`docker.py:876`) |

`PoolBacked` and `LiveSandboxUp` hold with `Faults = {"acquire", "recycle", "destroy", "tick"}` as long as
nothing outlives the grace period, which is what `release` and `replenish_one` provide for: section 5 has the theorems,
which no run repeats.

## 7. Plan

Done: the modules of section 2 and the proofs of section 5. Left, the most useful first:

1. `PoolCounter`: `_sync_pool_state`, the row lock it holds for a whole run, its drift and first insert.
   Extend `WarmPool` with an `acquire` that fails and leaves its container.
2. `ReconcilerTick`: the five jobs in order with storage billing and audit pruning, who commits what, and what an exception costs the later
   ones; composed of the abstract effects of `WarmPool`, `SandboxLifecycle` and `WorkspaceRetention`.
3. The workspace quota and the other ceilings of `QuotaService`, which are sums over committed rows like `Admission`'s.
4. Publish grants, and entitlements in `Catalog` as the rows of `Entitlements` instead of the constant `Entitled`.
5. The wallet's first insert in `CreditWallet`, as `PaygAccount` has the account's.
6. Theorems: refinements of abstract specifications for the workspace's files and for the viewer lock, as `ContainerOwnership` is for the pool.

## 8. Not modelled

* Configuration, errors, metrics, tracing, logging, the CLI, migrations: they keep no state the properties are about;
  settings become constants of the models.
* The SDK but for `wait_for_run`: its other calls are one HTTP request each. Its models and those of the API are declarations.
* I/O against the daemon or the cluster: exec framing, the PTY's frames, file transfer, the cached Kubernetes client. What
  they may answer is in the models, how it is encoded is not.
* Cryptography and the OIDC exchange, which libraries do.
* Parsing of manifests, and what a rendered specification contains beyond images and components.
* The admin API's listings and the audit log's queries, which change nothing.
* Pricing rules: `PaygAccount` has a price that changes, `CreditWallet` a set of what an event may cost and one of what a run may be authorized for.
* Publish grants, and what a component `requires`.

PROJECT.json gives the status of each component and the reason.
