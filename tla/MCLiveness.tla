----------------------------- MODULE MCLiveness -----------------------------
(* What must happen in the end, one module after the other in one state    *)
(* space: `part' says which is being explored, and the others stay in      *)
(* their initial state.  The parts share no state.                         *)
EXTENDS Naturals

CONSTANTS Sandbox, Requests, Quick, Long, Sockets

VARIABLES
    part,
    ns, made, podOf, phase, deleting, clusterPc, step, ran, due, state,
    exists, dockerPc, at, refs, aged, gcPc, suspects, unseen, found, victim,
    status, result, charged, task, program, client, polls, seen,
    trigger, build, job, host, daemon, pushed, cache, built,
    queuePc, live, holds, slot, audited,
    row, lock, who, viewerPc, got, beat, pty, overwritten

onlyCluster == <<ns, made, podOf, phase, deleting, clusterPc, step, ran, due, state>>
onlyDocker == <<exists, dockerPc, at, refs, aged, gcPc, suspects, unseen, found, victim>>
onlyRuns == <<status, result, charged, task, program, client, polls, seen>>
onlyBuilds == <<trigger, build, job, host, daemon, pushed, cache, built>>
onlyQueue == <<queuePc, live, holds, slot, audited>>
onlyViewers == <<row, lock, who, viewerPc, got, beat, pty, overwritten>>
mcVars == <<part, onlyCluster, onlyDocker, onlyRuns, onlyBuilds, onlyQueue, onlyViewers>>

-----------------------------------------------------------------------------

(* The namespace of an ephemeral sandbox.                                  *)
Cluster == INSTANCE KubernetesNamespace WITH
    pc <- clusterPc, row <- state, Sessions <- {Sandbox}, Persistent <- FALSE, Faults <- {"pod", "timeout", "crash"}

Docker == INSTANCE DockerSandbox WITH
    pc <- dockerPc, Sandboxes <- {Sandbox}, Sidecars <- 2, SlowAcquire <- FALSE, Faults <- {"start", "health", "crash"}

Async == INSTANCE AsyncRuns WITH
    Patience <- 2, Faults <- {"run", "commit", "lost"}

Building == INSTANCE Builds WITH
    Components <- {[owner |-> "public", name |-> "jq"], [owner |-> "acme", name |-> "tool"]},
    Callers <- {[tenant |-> "acme", admin |-> TRUE]}, Triggers <- Requests, Replicas <- {"a"},
    MaxBuilds <- 2, Charts <- {}, Cached <- {"jq"}, Faults <- {"build", "push"}

Queue == INSTANCE Admission WITH
    pc <- queuePc, Requests <- Quick \cup Long, Creates <- {"c1"}, Heavy <- Long, Connections <- 2, HeavySlots <- 1,
    Quota <- 1, Faults <- {"timeout", "run", "commit"}

Viewing == INSTANCE ViewerLock WITH
    pc <- viewerPc, Sessions <- Sockets, Viewers <- {"u", "v"}, TTL <- 2,
    Faults <- {"open", "crash", "race", "late", "slow", "redis"}

-----------------------------------------------------------------------------

MCInit ==
    /\ part \in {"cluster", "docker", "runs", "builds", "queue", "viewers"}
    /\ Cluster!Init /\ Docker!Init /\ Async!Init /\ Building!Init /\ Queue!Init /\ Viewing!Init
    /\ part # "viewers" => \A s \in Sockets : who[s] = "u"

Now(p, others) == part = p /\ UNCHANGED <<part, others>>

InCluster == Now("cluster", <<onlyDocker, onlyRuns, onlyBuilds, onlyQueue, onlyViewers>>)
InDocker == Now("docker", <<onlyCluster, onlyRuns, onlyBuilds, onlyQueue, onlyViewers>>)
InRuns == Now("runs", <<onlyCluster, onlyDocker, onlyBuilds, onlyQueue, onlyViewers>>)
InBuilds == Now("builds", <<onlyCluster, onlyDocker, onlyRuns, onlyQueue, onlyViewers>>)
InQueue == Now("queue", <<onlyCluster, onlyDocker, onlyRuns, onlyBuilds, onlyViewers>>)
InViewers == Now("viewers", <<onlyCluster, onlyDocker, onlyRuns, onlyBuilds, onlyQueue>>)

MCNext ==
    \/ InCluster /\ Cluster!Next
    \/ InDocker /\ Docker!Next
    \/ InRuns /\ Async!Next
    \/ InBuilds /\ Building!Next
    \/ InQueue /\ Queue!Next
    \/ InViewers /\ Viewing!Next

(* The fairness of each module's FairSpec.                                 *)
Fairness ==
    /\ WF_mcVars(InCluster /\ Cluster!Acquire(Sandbox)) /\ WF_mcVars(InCluster /\ Cluster!Collect)
    /\ WF_mcVars(InCluster /\ Cluster!PodStarts) /\ WF_mcVars(InCluster /\ Cluster!PodGone)
    /\ WF_mcVars(InCluster /\ Cluster!NamespaceGone)
    /\ WF_mcVars(InDocker /\ Docker!Work(Sandbox)) /\ WF_mcVars(InDocker /\ Docker!Age(Sandbox))
    /\ WF_mcVars(InDocker /\ Docker!Gc)
    /\ \A r \in Requests : WF_mcVars(InRuns /\ Async!Work(r)) /\ WF_mcVars(InRuns /\ Async!Poll(r))
    /\ \A b \in 1 .. 2 : WF_mcVars(InBuilds /\ Building!Work(b))
    /\ \A r \in Quick \cup Long :
           /\ SF_mcVars(InQueue /\ Queue!Connect(r)) /\ SF_mcVars(InQueue /\ Queue!EnterSlot(r))
           /\ WF_mcVars(InQueue /\ Queue!Serve(r))
    /\ WF_mcVars(InViewers /\ Viewing!Tick)
    /\ \A s \in Sockets :
           WF_mcVars(InViewers /\ Viewing!Handshake(s)) /\ WF_mcVars(InViewers /\ Viewing!Heartbeat(s))

MCSpec == MCInit /\ [][MCNext]_mcVars /\ Fairness

-----------------------------------------------------------------------------
(* The properties of the modules.  (In the other parts nobody is answered.)*)

(* KubernetesNamespace, DockerSandbox: what a failure or a crash leaves    *)
(* goes.                                                                   *)
LeftoversGo == Cluster!LeftoverGoes /\ Docker!LostIsCollected

(* AsyncRuns, Builds: nobody waits for a row that never moves.             *)
JobsEnd == Async!RecordedInTheEnd /\ Building!BuildEnds

(* Admission: every request is answered, though connections are scarce.    *)
Answered == part = "queue" => Queue!Answered

(* ViewerLock: the lock of a viewer that is gone passes on.                *)
LockPasses == Viewing!LockPasses
=============================================================================
