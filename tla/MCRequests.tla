----------------------------- MODULE MCRequests -----------------------------
(* What a request meets, one module after the other in one state space:    *)
(* `part' says which is being explored, and the others stay in their       *)
(* initial state.  The parts share no state, so interleaving them would    *)
(* show nothing.                                                           *)
EXTENDS AsyncRuns, FiniteSets, TLC

CONSTANTS
    Askers, Creating, Heavy, Connections, HeavySlots, Quota,            \* Admission
    Limited, Limit, Window, Delay, MaxTime, MaxCalls,                   \* RateLimiter
    Sockets, Viewers, TTL,                                              \* ViewerLock
    Publications, Boxes, Components, Templates, Entitled,               \* Catalog
    Triggers, Buildable, Callers, MaxBuilds, Charts, Cached             \* Builds

ASSUME QueueAssumption ==
    /\ IsFiniteSet(Askers) /\ Creating \subseteq Askers
    /\ Connections \in Nat \ {0} /\ Quota \in Nat
ASSUME CallsAssumption ==
    /\ Limit \in Nat \ {0} /\ Window \in Nat \ {0} /\ Delay \in Nat /\ MaxTime \in Nat
ASSUME ViewersAssumption == Viewers # {} /\ "nobody" \notin Viewers /\ TTL \in Nat \ {0, 1}
ASSUME CatalogAssumption ==
    /\ \A c \in Components : c.kind = "component" /\ c.version \in Nat \ {0}
    /\ \A t \in Templates : t.kind = "template" /\ 1 \in DOMAIN t.refs
ASSUME BuildsAssumption ==
    /\ Buildable # {} /\ Callers # {} /\ MaxBuilds \in Nat
    /\ \A c \in Buildable : c.owner \in {"public"} \cup {k.tenant : k \in Callers}

VARIABLES
    part,
    queuePc, live, holds, slot, audited,
    now, stamp, log, kept, expires,
    row, lock, who, viewerPc, got, beat, pty, overwritten,
    up, files, torn, registry, images, builds, rows, request, box,
    trigger, build, job, host, daemon, pushed, cache, built

onlyRuns == <<status, result, charged, task, program, client, polls, seen>>
onlyQueue == <<queuePc, live, holds, slot, audited>>
onlyCalls == <<now, stamp, log, kept, expires>>
onlyViewers == <<row, lock, who, viewerPc, got, beat, pty, overwritten>>
onlyCatalog == <<up, files, torn, registry, images, builds, rows, request, box>>
onlyBuilds == <<trigger, build, job, host, daemon, pushed, cache, built>>
mcVars == <<part, onlyRuns, onlyQueue, onlyCalls, onlyViewers, onlyCatalog, onlyBuilds>>

-----------------------------------------------------------------------------

Queue == INSTANCE Admission WITH
    pc <- queuePc, Requests <- Askers, Creates <- Creating, Faults <- {"timeout", "run", "commit"}

Calling == INSTANCE RateLimiter WITH Requests <- Limited, Faults <- {"redis"}

Viewing == INSTANCE ViewerLock WITH pc <- viewerPc, Sessions <- Sockets, Faults <- {"race", "open", "crash"}

Publishing == INSTANCE Catalog WITH
    Replicas <- {"p"}, Requests <- Publications, Durable <- TRUE, Faults <- {"db", "crash", "torn"}

Building == INSTANCE Builds WITH
    Components <- Buildable, Replicas <- {"a"}, Faults <- {"build", "push", "commit", "restart"}

-----------------------------------------------------------------------------
(* What the configuration cannot write down.                               *)

Component(owner, version, image) ==
    [kind |-> "component", owner |-> owner, version |-> version, image |-> image]
Ref(owner, version) == [owner |-> owner, version |-> version]
Template(owner, refs) == [kind |-> "template", owner |-> owner, version |-> 1, refs |-> refs]

(* Two manifests of one key, one without an image, a private component,    *)
(* and templates that pin or float their references.  0 is @latest.        *)
Image(name) == [repository |-> name]
Unbuilt == [of |-> "no image"]    \* Publishing!NoImage
MCComponents ==
    {Component("public", 1, Image("i")), Component("public", 2, Image("i")),
     Component("public", 2, Unbuilt), Component("t", 1, Image("j"))}
MCTemplates ==
    {Template("public", <<Ref("public", 1)>>), Template("public", <<Ref("public", 0)>>),
     Template("public", <<Ref("public", 1), Ref("public", 2)>>),
     Template("t", <<Ref("public", 0), Ref("t", 1)>>)}

MCBuildable ==
    {[owner |-> "public", name |-> "jq"], [owner |-> "public", name |-> "chart"], [owner |-> "acme", name |-> "tool"]}
MCCallers == {[tenant |-> "ops", admin |-> TRUE], [tenant |-> "acme", admin |-> FALSE]}

-----------------------------------------------------------------------------

MCInit ==
    /\ part \in {"runs", "queue", "calls", "viewers", "catalog", "builds"}
    /\ Init /\ Queue!Init /\ Calling!Init /\ Viewing!Init /\ Publishing!Init /\ Building!Init
    /\ part # "viewers" => who = [s \in Sockets |-> CHOOSE v \in Viewers : TRUE]

Now(p, others) == part = p /\ UNCHANGED <<part, others>>

MCNext ==
    \/ Now("runs", <<onlyQueue, onlyCalls, onlyViewers, onlyCatalog, onlyBuilds>>) /\ Next
    \/ Now("queue", <<onlyRuns, onlyCalls, onlyViewers, onlyCatalog, onlyBuilds>>) /\ Queue!Next
    \/ Now("calls", <<onlyRuns, onlyQueue, onlyViewers, onlyCatalog, onlyBuilds>>) /\ Calling!Next
    \/ Now("viewers", <<onlyRuns, onlyQueue, onlyCalls, onlyCatalog, onlyBuilds>>) /\ Viewing!Next
    \/ Now("catalog", <<onlyRuns, onlyQueue, onlyCalls, onlyViewers, onlyBuilds>>) /\ Publishing!Next
    \/ Now("builds", <<onlyRuns, onlyQueue, onlyCalls, onlyViewers, onlyCatalog>>) /\ Building!Next

MCSpec == MCInit /\ [][MCNext]_mcVars

Symmetry == Permutations(Limited) \cup Permutations(Publications)

-----------------------------------------------------------------------------
(* The properties of the modules; RunsHonest is AsyncRuns'.                *)

TypeCorrect ==
    /\ TypeOK /\ Queue!TypeOK /\ Calling!TypeOK
    /\ Viewing!TypeOK /\ Publishing!TypeOK /\ Building!TypeOK

(* Admission: the quota is exceeded by less than the connections.          *)
OverAdmissionBounded == Queue!OverAdmissionBounded

(* RateLimiter: the limit is kept, and not kept more than promised.        *)
LimitIsKept == Calling!WithinLimit /\ Calling!RejectedForCause /\ Calling!RemainingIsGranted

(* ViewerLock: one viewer at a time, and after it its grace window, unless *)
(* two claims came between each other's get and set.                       *)
ViewersTakeTurns == []Viewing!OneViewerUnlessOverwritten /\ Viewing!GraceKeptUnlessOverwritten

(* Catalog: keys are for ever, rows are served, and pins hold.             *)
PublishedStays == Publishing!Immutable /\ Publishing!PublishedIsServed
PinnedRunsWhatRuns == Publishing!PinnedRunsWhatRuns

(* Catalog, Builds: a replica can start again, and forgets no image.       *)
RestartsWhole == Publishing!Restartable /\ Building!RestartForgetsNothing
=============================================================================
