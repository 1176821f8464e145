-------------------------------- MODULE Builds --------------------------------
(***************************************************************************)
(* BuildManager: a trigger looks for a build of the component in flight    *)
(* and else inserts one; a background task of the replica that served the  *)
(* trigger builds the image in the local daemon, pushes it, remembers it   *)
(* in the replica's Registry.built_images and commits the outcome; a       *)
(* replica that starts reads built_images from the builds table.           *)
(*                                                                         *)
(* A component is its owner ("public" or a tenant) and its name@version.   *)
(* Images are tagged by name@version only.                                 *)
(***************************************************************************)
EXTENDS Naturals

CONSTANTS
    Components,  \* records [owner, name] of the registry
    Callers,     \* records [tenant, admin]
    Triggers,    \* requests
    Replicas,
    MaxBuilds,   \* rows of the builds table (bound of the model)
    Charts,      \* names of components whose artifact is a manifest, not an image
    Cached,      \* names of components whose pipeline declares a cache
    Faults       \* some of "build", "push", "commit", "restart"

Public == "public"
Nothing == [owner |-> "nobody", name |-> "nothing"]
Names == {c.name : c \in Components}
Ids == 1 .. MaxBuilds
Keys == [owner : {Public} \cup {k.tenant : k \in Callers}, name : Names]

VARIABLES
    trigger,   \* each request: where it is, its component and its caller
    build,     \* the builds table
    job,       \* where the background task of each row is
    host,      \* the replica that runs it
    daemon,    \* whose image each name is tagged with in the local daemon ...
    pushed,    \* ... and in the image registry
    cache,     \* names with a pipeline-cache object
    built      \* each replica's built_images: the names it has a reference to

imageVars == <<daemon, pushed, cache>>
vars == <<trigger, build, job, host, imageVars, built>>

-----------------------------------------------------------------------------

InFlight == {"pending", "running"}

TypeOK ==
    /\ trigger \in [Triggers -> [at : {"idle"}] \cup
                        [at : {"insert", "answered", "refused"}, key : Components, caller : Callers]]
    /\ build \in [Ids -> [status : {"none", "pending", "running", "succeeded", "failed"}, key : Keys]]
    /\ job \in [Ids -> {"none", "queued", "build", "push", "commit", "over"}]
    /\ host \in [Ids -> Replicas]
    /\ daemon \in [Names -> Components \cup {Nothing}] /\ pushed \in [Names -> Components \cup {Nothing}]
    /\ cache \subseteq Cached
    /\ built \in [Replicas -> SUBSET Keys]

Init ==
    /\ trigger = [t \in Triggers |-> [at |-> "idle"]]
    /\ build = [b \in Ids |-> [status |-> "none", key |-> CHOOSE k \in Keys : TRUE]]
    /\ job = [b \in Ids |-> "none"] /\ host = [b \in Ids |-> CHOOSE r \in Replicas : TRUE]
    /\ daemon = [n \in Names |-> Nothing] /\ pushed = [n \in Names |-> Nothing] /\ cache = {}
    /\ built = [r \in Replicas |-> {}]

-----------------------------------------------------------------------------
(* trigger_build.                                                          *)

CanBuild(c, caller) == caller.admin \/ c.owner = caller.tenant

(* _tenant_id_for: the row's tenant is the caller's, not the component's;  *)
(* _registry_key_for_build makes the key of it.                            *)
RowKey(c, caller) == [owner |-> IF c.owner = Public THEN Public ELSE caller.tenant, name |-> c.name]

Duplicates(key) == {b \in Ids : build[b].key = key /\ build[b].status \in InFlight}

Trigger(t, c, caller) ==
    /\ trigger[t].at = "idle"
    /\ trigger' = [trigger EXCEPT ![t] =
           [key |-> c, caller |-> caller,
            at |-> IF ~CanBuild(c, caller) THEN "refused"
                   ELSE IF Duplicates(RowKey(c, caller)) # {} THEN "answered" ELSE "insert"]]
    /\ UNCHANGED <<build, job, host, imageVars, built>>

(* The commit of the new row, and the background task.                     *)
Insert(t, r) ==
    /\ trigger[t].at = "insert"
    /\ \E b \in Ids :
        /\ build[b].status = "none" /\ \A a \in 1 .. b - 1 : build[a].status # "none"
        /\ build' = [build EXCEPT ![b] =
               [status |-> "pending", key |-> RowKey(trigger[t].key, trigger[t].caller)]]
        /\ job' = [job EXCEPT ![b] = "queued"]
        /\ host' = [host EXCEPT ![b] = r]
    /\ trigger' = [trigger EXCEPT ![t].at = "answered"]
    /\ UNCHANGED <<imageVars, built>>

-----------------------------------------------------------------------------
(* run_build.                                                              *)

Ends(b, outcome) ==
    /\ build' = [build EXCEPT ![b].status = outcome]
    /\ job' = [job EXCEPT ![b] = "over"]

Begin(b) ==
    /\ job[b] = "queued"
    /\ IF build[b].key \in Components
       THEN build' = [build EXCEPT ![b].status = "running"] /\ job' = [job EXCEPT ![b] = "build"]
       ELSE Ends(b, "failed")
    /\ UNCHANGED <<trigger, host, imageVars, built>>

(* A strategy that makes an image; a pipeline with a cache object skips its *)
(* steps, and with them the image.                                         *)
Build(b) ==
    /\ job[b] = "build" /\ build[b].key.name \notin Charts
    /\ LET n == build[b].key.name
       IN  IF n \in cache THEN UNCHANGED imageVars
           ELSE /\ daemon' = [daemon EXCEPT ![n] = build[b].key]
                /\ cache' = cache \cup ({n} \cap Cached)
                /\ UNCHANGED pushed
    /\ job' = [job EXCEPT ![b] = "push"]
    /\ UNCHANGED <<trigger, build, host, built>>

(* Helm's renders the chart and stores the manifest: there is no image, and *)
(* so nothing to push.                                                     *)
Render(b) ==
    /\ job[b] = "build" /\ build[b].key.name \in Charts
    /\ job' = [job EXCEPT ![b] = "commit"]
    /\ UNCHANGED <<trigger, build, host, imageVars, built>>

(* The tag is pushed, whatever it is on by now, and remembered.            *)
Push(b) ==
    /\ job[b] = "push"
    /\ pushed' = [pushed EXCEPT ![build[b].key.name] = daemon[build[b].key.name]]
    /\ built' = [built EXCEPT ![host[b]] = @ \cup {build[b].key}]
    /\ job' = [job EXCEPT ![b] = "commit"]
    /\ UNCHANGED <<trigger, build, host, daemon, cache>>

(* Mutant: the commit is left to the success path's caller.                *)
CommitForgotten(b) ==
    /\ job[b] = "commit"
    /\ job' = [job EXCEPT ![b] = "over"]
    /\ UNCHANGED <<trigger, build, host, imageVars, built>>

Commit(b) ==
    /\ job[b] = "commit"
    /\ Ends(b, "succeeded")
    /\ UNCHANGED <<trigger, host, imageVars, built>>

BuildFails(b) ==
    /\ job[b] \in {"build", "push"} \cap Faults
    /\ Ends(b, "failed")
    /\ UNCHANGED <<trigger, host, imageVars, built>>

(* Any of the task's commits.                                              *)
CommitFails(b) ==
    /\ "commit" \in Faults
    /\ job[b] \in {"queued", "build", "push", "commit"}
    /\ job' = [job EXCEPT ![b] = "over"]
    /\ UNCHANGED <<trigger, build, host, imageVars, built>>

(* The rows whose image_ref is not null.                                   *)
Imaged == {b \in Ids : build[b].status = "succeeded" /\ build[b].key.name \notin Charts}

(* Mutant: only builds of public components are read.                      *)
HydratedPublic == {build[b].key : b \in {c \in Imaged : build[c].key.owner = Public}}

(* hydrate_built_images.  All images of a component have the same tag, so  *)
(* it does not matter here that the latest wins.                           *)
Hydrated == {build[b].key : b \in Imaged}

(* A replica's tasks die with it.                                          *)
Restart(r) ==
    /\ "restart" \in Faults
    /\ job' = [b \in Ids |-> IF host[b] = r /\ job[b] # "none" THEN "over" ELSE job[b]]
    /\ built' = [built EXCEPT ![r] = Hydrated]
    /\ UNCHANGED <<trigger, build, host, imageVars>>

-----------------------------------------------------------------------------

Work(b) == Begin(b) \/ Build(b) \/ Render(b) \/ Push(b) \/ Commit(b) \/ BuildFails(b) \/ CommitFails(b)

Next ==
    \/ \E t \in Triggers :
        \/ \E c \in Components, caller \in Callers : Trigger(t, c, caller)
        \/ \E r \in Replicas : Insert(t, r)
    \/ \E b \in Ids : Work(b)
    \/ \E r \in Replicas : Restart(r)

Spec == Init /\ [][Next]_vars

FairSpec == Spec /\ \A b \in Ids : WF_vars(Work(b))

-----------------------------------------------------------------------------
(* Reading.                                                                *)

(* resolve_component_image, which looks up component.key, the bare one.    *)
Resolved(r, c) ==
    IF [owner |-> Public, name |-> c.name] \in built[r] THEN pushed[c.name] ELSE Nothing

CanGet(b, caller) == caller.admin \/ build[b].key.owner \in {Public, caller.tenant}
Listed(caller) == {b \in Ids : build[b].status # "none"
                                 /\ (caller.admin \/ build[b].key.owner \in {Public, caller.tenant})}

-----------------------------------------------------------------------------
(* Properties.                                                             *)

Owned(b) == job[b] \in {"build", "push", "commit"}

(* A restart loses no image and invents none: what a replica remembers is  *)
(* what it would read from the table, but for its builds that are about to *)
(* commit or could not.                                                    *)
RestartForgetsNothing ==
    \A r \in Replicas :
        /\ Hydrated \subseteq built[r]
        /\ \A k \in built[r] \ Hydrated :
               \E b \in Ids : build[b] = [key |-> k, status |-> "running"] /\ job[b] \in {"commit", "over"}

(* An image that a component resolves to was built from that component.    *)
ImageOfComponent ==
    \A r \in Replicas, c \in Components : Resolved(r, c) \in {c, Nothing}

(* built_images has "the runnable image ref" of every component that has   *)
(* been built with success.                                                *)
BuiltIsRunnable ==
    \A r \in Replicas, b \in Imaged : Resolved(r, build[b].key) = build[b].key

(* "A duplicate request never causes the same build to run twice."         *)
NeverTwice ==
    \A a, b \in Ids : a # b /\ build[a].key = build[b].key => ~(Owned(a) /\ Owned(b))

(* A trigger that is answered with a build in flight is right to wait for  *)
(* it: a build ends.                                                       *)
BuildEnds == \A b \in Ids : build[b].status \in InFlight ~> build[b].status \in {"succeeded", "failed"}

=============================================================================
