------------------------------- MODULE Catalog -------------------------------
(***************************************************************************)
(* The registry of components and templates: every API replica loads it    *)
(* from its files when it starts, publishing writes a file, the replica's  *)
(* registry and a row; templates are rendered, and sandboxes remember by   *)
(* keys what they were made of.  A component whose manifest does not name  *)
(* an image has one once a build of it succeeded.                          *)
(*                                                                         *)
(* There is one component name and one template name; an entry is told     *)
(* from others by owner and version, and an owner is Public or a tenant.   *)
(***************************************************************************)
EXTENDS Naturals, Sequences, Functions

CONSTANTS
    Replicas,
    Requests,      \* publications under way
    Boxes,         \* sandboxes
    Components,    \* manifests: [kind, owner, version, image], image may be NoImage
    Templates,     \* manifests: [kind, owner, version, refs], refs a sequence of [owner, version]
    Entitled,      \* versions of Public components that tenants may see
    Durable,       \* do a replica's files survive its restart?
    Faults         \* some of "db", "crash", "torn"

Public == "public"
Latest == 0
Entries == Components \cup Templates

VARIABLES
    up,        \* replicas that serve
    files,     \* entries in each replica's directories
    torn,      \* replicas that have half a file
    registry,  \* entries in each replica's memory
    images,    \* keys in each replica's built_images
    builds,    \* keys with a committed, succeeded Build row
    rows,      \* keys of the committed ComponentRecord and TemplateRecord rows
    request,   \* NoRequest or [step, at, entry]
    box        \* of each sandbox: NoBox or [source, component]

replica == <<up, files, torn, registry, images>>
vars == <<replica, builds, rows, request, box>>

NoImage == [of |-> "no image"]
NoRequest == [step |-> "none"]
NoBox == [source |-> "none"]

Key(e) == [kind |-> e.kind, owner |-> e.owner, version |-> e.version]

-----------------------------------------------------------------------------

TypeOK ==
    /\ up \subseteq Replicas /\ torn \subseteq Replicas
    /\ files \in [Replicas -> SUBSET Entries] /\ registry \in [Replicas -> SUBSET Entries]
    /\ \A p \in up : registry[p] \subseteq files[p] /\ p \notin torn
    /\ images \in [Replicas -> SUBSET {Key(c) : c \in Components}]
    /\ builds \subseteq {Key(c) : c \in Components}
    /\ rows \subseteq {Key(e) : e \in Entries}
    /\ request \in [Requests -> [step : {"check", "publish", "commit"}, at : up, entry : Entries] \cup {NoRequest}]
    /\ box \in [Boxes -> [source : Entries, component : Components] \cup {NoBox}]

Init ==
    /\ up = Replicas /\ torn = {}
    /\ files = [p \in Replicas |-> {}] /\ registry = [p \in Replicas |-> {}]
    /\ images = [p \in Replicas |-> {}] /\ builds = {} /\ rows = {}
    /\ request = [r \in Requests |-> NoRequest] /\ box = [b \in Boxes |-> NoBox]

-----------------------------------------------------------------------------
(* Resolving and rendering, over the entries of one registry.              *)

Of(reg, owner) == {e \in reg : e.kind = "component" /\ e.owner = owner}

(* resolve_component_ref: the set of the entry, or the empty set.          *)
Resolve(reg, ref) ==
    {e \in Of(reg, ref.owner) :
        IF ref.version = Latest
        THEN \A f \in Of(reg, ref.owner) : f.version <= e.version
        ELSE e.version = ref.version}

Found(reg, ref) == Resolve(reg, ref) # {}
RefsOf(e) == IF e.kind = "template" THEN Range(e.refs) ELSE {}

(* is_ref_visible: a tenant's own, and the public ones it is entitled to;  *)
(* an admin's are all.                                                     *)
Visible(reg, ref, owner) ==
    \/ owner = Public
    \/ ref.owner = owner
    \/ ref.owner = Public /\ \E e \in Resolve(reg, ref) : e.version \in Entitled

(* The key that a manifest makes of itself, which does not name the owner. *)
BareKey(e) == [Key(e) EXCEPT !.owner = Public]

(* resolve_component_image: one image, or none yet; the tag of a built one *)
(* is the version.                                                         *)
ImageOf(known, c) ==
    IF c.image # NoImage THEN {c.image}
    ELSE IF BareKey(c) \in known THEN {[tag |-> c.version]} ELSE {}

Images(reg, known, t) == UNION {ImageOf(known, c) : c \in UNION {Resolve(reg, ref) : ref \in RefsOf(t)}}

(* render_template: one image among those the main container's components  *)
(* have; a component without one is skipped.                               *)
Renders(reg, known, t) ==
    /\ \A ref \in RefsOf(t) : Found(reg, ref)
    /\ \E i \in Images(reg, known, t) : Images(reg, known, t) = {i}

(* _pick_template_component: the first that provides the language.         *)
Picked(reg, t) == Resolve(reg, t.refs[1])

-----------------------------------------------------------------------------
(* register_component and create_template.                                 *)

To(r, step) == request' = [request EXCEPT ![r].step = step]
Refuse(r) == request' = [request EXCEPT ![r] = NoRequest]

Begin(r, p, e) ==
    /\ request[r] = NoRequest /\ p \in up
    /\ request' = [request EXCEPT ![r] = [step |-> "check", at |-> p, entry |-> e]]
    /\ UNCHANGED <<replica, builds, rows, box>>

Acceptable(reg, e) == \A ref \in RefsOf(e) : Found(reg, ref) /\ Visible(reg, ref, e.owner)

Check(r) ==
    /\ request[r].step = "check"
    /\ IF Acceptable(registry[request[r].at], request[r].entry) THEN To(r, "publish") ELSE Refuse(r)
    /\ UNCHANGED <<replica, builds, rows, box>>

Unused(reg, e) == \A f \in reg : Key(f) # Key(e)

(* Mutant: the registry is left to the next restart.                       *)
PublishFile(r) ==
    /\ request[r].step = "publish"
    /\ IF Unused(registry[request[r].at], request[r].entry)
       THEN files' = [files EXCEPT ![request[r].at] = @ \cup {request[r].entry}] /\ To(r, "commit")
       ELSE Refuse(r) /\ UNCHANGED files
    /\ UNCHANGED <<up, torn, registry, images, builds, rows, box>>

(* Between here and the commit nothing is awaited.                         *)
Publish(r) ==
    /\ request[r].step = "publish"
    /\ LET p == request[r].at
           e == request[r].entry IN
           IF Unused(registry[p], e)
           THEN /\ files' = [files EXCEPT ![p] = @ \cup {e}]
                /\ registry' = [registry EXCEPT ![p] = @ \cup {e}]
                /\ To(r, "commit")
           ELSE Refuse(r) /\ UNCHANGED <<files, registry>>
    /\ UNCHANGED <<up, torn, images, builds, rows, box>>

(* Name and version are unique: if they are taken the request fails, and   *)
(* its file and its entry stay.                                            *)
Commit(r) ==
    /\ request[r].step = "commit"
    /\ rows' = rows \cup {Key(request[r].entry)}
    /\ Refuse(r)
    /\ UNCHANGED <<replica, builds, box>>

CommitFails(r) ==
    /\ "db" \in Faults
    /\ request[r].step = "commit"
    /\ Refuse(r)
    /\ UNCHANGED <<replica, builds, rows, box>>

-----------------------------------------------------------------------------
(* run_build: what it pushed is remembered, and then its row is committed, *)
(* or not.                                                                 *)

Build(p, c) ==
    /\ p \in up /\ c \in registry[p] /\ c.kind = "component" /\ c.image = NoImage
    /\ images' = [images EXCEPT ![p] = @ \cup {Key(c)}]
    /\ \/ builds' = builds \cup {Key(c)}
       \/ "db" \in Faults /\ UNCHANGED builds
    /\ UNCHANGED <<up, files, torn, registry, rows, request, box>>

-----------------------------------------------------------------------------
(* Sandboxes: created from an entry, run by what the row remembers of it.  *)

Create(b, p, source) ==
    /\ box[b] = NoBox /\ p \in up /\ source \in registry[p]
    /\ IF source.kind = "template" THEN Renders(registry[p], images[p], source)
       ELSE ImageOf(images[p], source) # {}
    /\ \E c \in IF source.kind = "template" THEN Picked(registry[p], source) ELSE {source} :
           box' = [box EXCEPT ![b] = [source |-> source, component |-> c]]
    /\ UNCHANGED <<replica, builds, rows, request>>

(* The row has the manifest's own key.                                     *)
Bare(reg, source) == {e \in reg : Key(e) = BareKey(source)}

(* Mutant: the newest version.                                             *)
NewestForRun(reg, known, b) ==
    IF box[b].source.kind = "component"
    THEN Resolve(reg, [owner |-> Public, version |-> Latest])
    ELSE UNION {Picked(reg, t) : t \in Bare(reg, box[b].source)}

(* _resolve_component_for_run: a template is rendered anew.                *)
ForRun(reg, known, b) ==
    IF box[b].source.kind = "component"
    THEN Bare(reg, box[b].source)
    ELSE UNION {Picked(reg, t) : t \in {k \in Bare(reg, box[b].source) : Renders(reg, known, k)}}

Destroy(b) ==
    /\ box[b] # NoBox
    /\ box' = [box EXCEPT ![b] = NoBox]
    /\ UNCHANGED <<replica, builds, rows, request>>

-----------------------------------------------------------------------------
(* The process ends, with its requests.                                    *)

Interrupted(p) ==
    request' = [r \in Requests |-> IF request[r] # NoRequest /\ request[r].at = p THEN NoRequest ELSE request[r]]

Crash(p) ==
    /\ "crash" \in Faults
    /\ p \in up
    /\ up' = up \ {p}
    /\ Interrupted(p)
    /\ files' = [files EXCEPT ![p] = IF Durable THEN @ ELSE {}]
    /\ registry' = [registry EXCEPT ![p] = {}] /\ images' = [images EXCEPT ![p] = {}]
    /\ UNCHANGED <<torn, builds, rows, box>>

(* write_text is not atomic.                                               *)
CrashInWrite(r) ==
    /\ "torn" \in Faults /\ request[r].step = "publish"
    /\ up' = up \ {request[r].at}
    /\ Interrupted(request[r].at)
    /\ torn' = IF Durable THEN torn \cup {request[r].at} ELSE torn
    /\ registry' = [registry EXCEPT ![request[r].at] = {}]
    /\ images' = [images EXCEPT ![request[r].at] = {}]
    /\ UNCHANGED <<files, builds, rows, box>>

(* load_registry and validate_registry_semantics raise, or do not.         *)
Loads(p) ==
    /\ p \notin torn
    /\ \A e \in files[p] : \A ref \in RefsOf(e) : Found(files[p], ref)
    /\ \A e, f \in files[p] : Key(e) = Key(f) => e = f

(* And hydrate_built_images.                                               *)
Restart(p) ==
    /\ p \notin up /\ Loads(p)
    /\ up' = up \cup {p}
    /\ registry' = [registry EXCEPT ![p] = files[p]]
    /\ images' = [images EXCEPT ![p] = builds]
    /\ UNCHANGED <<files, torn, builds, rows, request, box>>

-----------------------------------------------------------------------------

Next ==
    \/ \E r \in Requests :
           \/ \E p \in Replicas, e \in Entries : Begin(r, p, e)
           \/ Check(r) \/ Publish(r) \/ Commit(r) \/ CommitFails(r) \/ CrashInWrite(r)
    \/ \E b \in Boxes :
           \/ \E p \in Replicas, e \in Entries : Create(b, p, e)
           \/ Destroy(b)
    \/ \E p \in Replicas :
           \/ \E c \in Components : Build(p, c)
           \/ Crash(p) \/ Restart(p)

Spec == Init /\ [][Next]_vars

-----------------------------------------------------------------------------
(* Properties.                                                             *)

(* Whatever was published, and whenever the process ends, the replica      *)
(* starts again; unless it ended inside write_text, whose half-written     *)
(* file load_registry refuses for ever (StartsAgain, with "torn").         *)
Restartable == \A p \in Replicas \ torn : Loads(p)
StartsAgain == \A p \in Replicas : Loads(p)

(* "Each name@version is immutable once published".                        *)
Immutable ==
    \A p, q \in Replicas : \A e \in files[p], f \in files[q] : Key(e) = Key(f) => e = f

(* What was answered with 201, and so has a row, every replica that is up  *)
(* serves.                                                                 *)
PublishedIsServed == \A p \in up : rows \subseteq {Key(e) : e \in registry[p]}

(* "not a fresh registry lookup [...] that could silently drift from what  *)
(* is actually running": a run in a sandbox resolves to the component the  *)
(* sandbox was created with.                                               *)
RunsWhatRuns ==
    \A p \in up, b \in Boxes : box[b] # NoBox => ForRun(registry[p], images[p], b) = {box[b].component}

(* Those whose rows can name them: public components, and public templates *)
(* that pin their versions.                                                *)
RunsPinned(b) ==
    /\ box[b] # NoBox /\ box[b].source.owner = Public
    /\ \A ref \in RefsOf(box[b].source) : ref.version # Latest

(* All components that it is made of name their images themselves.         *)
Declared(reg, t) == \A ref \in RefsOf(t) : \A c \in Resolve(reg, ref) : c.image # NoImage

(* The same for those: a run resolves to no other component, whatever is   *)
(* published, built, forgotten or loaded in between, and it does resolve   *)
(* if no image had to be built.                                            *)
PinnedRunsWhatRuns ==
    \A p \in up, b \in Boxes :
        RunsPinned(b) =>
            /\ ForRun(registry[p], images[p], b) \subseteq {box[b].component}
            /\ Declared(registry[p], box[b].source) =>
                   ForRun(registry[p], images[p], b) = {box[b].component}

(* What is composed and what is run "can never drift apart": once created, *)
(* it runs.  But a build that succeeds later adds an image, and a restart  *)
(* after one that was not committed takes one away.                        *)
PinnedStillRuns ==
    \A p \in up, b \in Boxes : RunsPinned(b) => ForRun(registry[p], images[p], b) # {}

(* What is published can be rendered.                                      *)
PublishedRenders ==
    \A p \in up : \A e \in registry[p] : e.kind = "template" => Renders(registry[p], images[p], e)

=============================================================================
