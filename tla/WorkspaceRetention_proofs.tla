---------------------- MODULE WorkspaceRetention_proofs ----------------------
(***************************************************************************)
(* Proofs about WorkspaceRetention, for every choice of its constants: the *)
(* variables keep their types; a row is deleted only past its grace; and   *)
(* on Docker nothing a user wrote is lost, under the hypotheses that the   *)
(* theorem names.                                                          *)
(***************************************************************************)
EXTENDS WorkspaceRetention, TLAPS

LEMMA AnyIsWorkspace == AnyWorkspace \in Workspaces
<1>1. PICK u \in Users, r \in Rows : TRUE
  BY SomeWorkspace
<1>2. <<u, r>> \in Workspaces
  BY <1>1 DEF Workspaces
<1>3. \E w : w \in Workspaces
  BY <1>2
<1> HIDE DEF Workspaces
<1> QED BY <1>3 DEF AnyWorkspace

(* Every step keeps the variables' types.                                  *)
LEMMA NextTypeOK == TypeOK /\ [Next]_vars => TypeOK'
<1> SUFFICES ASSUME TypeOK, [Next]_vars PROVE TypeOK'
  OBVIOUS
<1> USE DEF TypeOK
<1>1. ASSUME NEW x \in Sessions, Session(x) PROVE TypeOK'
  <2> USE DEF rowVars, dataVars, sessionVars, sweepVars
  <2>1. ASSUME NEW u \in Users, Find(x, u) \/ FindNone(x, u) PROVE TypeOK'
    <3>1. PICK w \in {u} \X Rows : Begin(x, w)
      BY <2>1 DEF Find, FindNone, RowsOf
    <3>2. w \in Workspaces
      BY <3>1 DEF Workspaces
    <3> QED BY <3>1, <3>2 DEF Begin
  <2>2. CASE Mount(x)
    BY <2>2 DEF Mount, WithoutPod, Mounting
  <2>3. CASE CommitCreate(x)
    BY <2>3 DEF CommitCreate
  <2>4. CASE End(x)
    BY <2>4, AnyIsWorkspace DEF End, WithoutPod, Mounting
  <2>5. CASE Work(x)
    BY <2>5 DEF Work
  <2> QED BY <1>1, <2>1, <2>2, <2>3, <2>4, <2>5 DEF Session, Finish, CreateFails, Destroy
<1>2. ASSUME NEW w \in Workspaces, Restore(w) PROVE TypeOK'
  BY <1>2 DEF Restore, sessionVars, sweepVars
<1>3. CASE Sweep
  <2> USE DEF rowVars, dataVars, sessionVars
  <2>1. CASE SweepStart
    BY <2>1 DEF SweepStart, Due, Purgeable
  <2>2. CASE SweepPut
    BY <2>2 DEF SweepPut
  <2>3. CASE SweepDelete
    BY <2>3, AnyIsWorkspace DEF SweepDelete
  <2>4. CASE SweepDeleteSuppressed
    BY <2>4, AnyIsWorkspace DEF SweepDeleteSuppressed
  <2>5. CASE SweepCommit
    BY <2>5, AnyIsWorkspace DEF SweepCommit, SweepEnd
  <2>6. CASE SweepFails
    BY <2>6, AnyIsWorkspace DEF SweepFails, SweepEnd
  <2>7. ASSUME NEW w \in Workspaces, SweepSkip(w) PROVE TypeOK'
    BY <2>7 DEF SweepSkip
  <2>8. ASSUME NEW w \in Workspaces, SweepCollides(w) PROVE TypeOK'
    BY <2>8, AnyIsWorkspace DEF SweepCollides, SweepEnd, WithoutPod, sweepVars
  <2>9. ASSUME NEW w \in Workspaces, SweepArchive(w) PROVE TypeOK'
    BY <2>9 DEF SweepArchive
  <2>10. ASSUME NEW w \in Workspaces, SweepPurge(w) PROVE TypeOK'
    BY <2>10 DEF SweepPurge
  <2> QED BY <1>3, <2>1, <2>2, <2>3, <2>4, <2>5, <2>6, <2>7, <2>8, <2>9, <2>10 DEF Sweep
<1>4. CASE TimePasses
  BY <1>4, RetentionAssumption DEF TimePasses, rowVars, dataVars, sessionVars, sweepVars
<1>5. CASE UNCHANGED vars
  BY <1>5 DEF vars, rowVars, dataVars, sessionVars, sweepVars
<1> QED BY <1>1, <1>2, <1>3, <1>4, <1>5 DEF Next

LEMMA InitTypeOK == Init => TypeOK
BY AnyIsWorkspace, RetentionAssumption DEF Init, TypeOK

(* Every variable has its type.                                            *)
THEOREM VariablesAreTyped == Spec => []TypeOK
BY InitTypeOK, NextTypeOK, PTL DEF Spec

-----------------------------------------------------------------------------
(* Rows are deleted only past their grace.  What the sweep decided at its  *)
(* start stays true until its commit, because no time passes; only a       *)
(* sandbox that starts in between makes a row it will delete a used one,   *)
(* and such a sandbox outlives the sweep.                                  *)

DeletionInv ==
    /\ sweepPc = "idle" => overdue = {} /\ purged = {}
    /\ \A w \in overdue \cup purged : PastGrace(w) \/ Live(w) # {}

LEMMA InitDeletionInv == Init => DeletionInv
BY DEF Init, DeletionInv

(* A step that leaves the sweep's decisions, the clock and the accesses of *)
(* workspaces without a live sandbox alone, and ends no live sandbox.      *)
LEMMA DeletionInvKept ==
    ASSUME DeletionInv, UNCHANGED <<clock, sweepPc>>,
           (overdue \cup purged)' \subseteq overdue \cup purged,
           \A w \in Workspaces : lastAccess'[w] = lastAccess[w] \/ Live(w)' # {},
           \A w \in Workspaces : Live(w) # {} => Live(w)' # {},
           overdue \subseteq Workspaces, purged \subseteq Workspaces,
           sweepPc = "idle" => UNCHANGED <<overdue, purged>>
    PROVE  DeletionInv'
<1> HIDE DEF Workspaces, Live
<1> QED BY DEF DeletionInv, PastGrace, IdleFor

LEMMA NextDeletionInv ==
    ASSUME "destroy" \notin Overlaps, TypeOK, DeletionInv, [Next]_vars
    PROVE  DeletionInv'
<1> USE DEF TypeOK
<1> DEFINE LiveStay == \A w \in Workspaces : Live(w) # {} => Live(w)' # {}
<1>1. ASSUME NEW x \in Sessions, Session(x) PROVE DeletionInv'
  <2>1. CASE \E u \in Users : Find(x, u) \/ FindNone(x, u)
    <3>1. PICK w : Begin(x, w) /\ pc[x] = "idle"
      BY <2>1 DEF Find, FindNone, MayBegin
    <3>2. LiveStay
      BY <3>1 DEF Begin, Live, On
    <3> QED BY <3>1, <3>2, DeletionInvKept DEF Begin, rowVars, sweepVars
  <2>2. CASE Mount(x)
    <3>1. LiveStay
      BY <2>2 DEF Mount, Live, On
    <3> QED BY <2>2, <3>1, DeletionInvKept DEF Mount, rowVars, sweepVars
  <2>3. CASE CommitCreate(x)
    <3>1. LiveStay
      BY <2>3 DEF CommitCreate, Live, On
    <3>2. x \in Live(using[x])'
      BY <2>3 DEF CommitCreate, Live, On
    <3>3. \A w \in Workspaces : lastAccess'[w] = lastAccess[w] \/ Live(w)' # {}
      <4>1. \A w \in Workspaces : w # using[x] => lastAccess'[w] = lastAccess[w]
        BY <2>3 DEF CommitCreate
      <4>2. Live(using[x])' # {}
        BY <3>2
      <4>3. using' = using
        BY <2>3 DEF CommitCreate
      <4> QED BY <4>1, <4>2, <4>3 DEF Live, On
    <3> QED BY <2>3, <3>1, <3>3, DeletionInvKept DEF CommitCreate, sweepVars
  <2>4. CASE CreateFails(x)
    <3>1. LiveStay
      BY <2>4 DEF CreateFails, End, Live, On
    <3> QED BY <2>4, <3>1, DeletionInvKept DEF CreateFails, End, rowVars, sweepVars
  <2>5. CASE Destroy(x)
    BY <2>5 DEF Destroy, End, DeletionInv, sweepVars
  <2>6. CASE Work(x)
    <3>1. LiveStay
      BY <2>6 DEF Work, Live, On, sessionVars
    <3>2. x \in Live(using[x])'
      BY <2>6 DEF Work, Live, On, sessionVars
    <3>3. \A w \in Workspaces : lastAccess'[w] = lastAccess[w] \/ Live(w)' # {}
      <4>1. \A w \in Workspaces : w # using[x] => lastAccess'[w] = lastAccess[w]
        BY <2>6 DEF Work
      <4>2. Live(using[x])' # {}
        BY <3>2
      <4>3. using' = using
        BY <2>6 DEF Work, sessionVars
      <4> QED BY <4>1, <4>2, <4>3 DEF Live, On
    <3> QED BY <2>6, <3>1, <3>3, DeletionInvKept DEF Work, sweepVars
  <2> QED BY <1>1, <2>1, <2>2, <2>3, <2>4, <2>5, <2>6 DEF Session, Finish
<1>2. ASSUME NEW w \in Workspaces, Restore(w) PROVE DeletionInv'
  BY <1>2 DEF Restore, DeletionInv, sweepVars
<1>3. CASE Sweep
  <2>1. CASE SweepStart
    BY <2>1 DEF SweepStart, DeletionInv, Purgeable, PastGrace, IdleFor, rowVars
  <2>2. CASE SweepCommit \/ SweepFails
    BY <2>2 DEF SweepCommit, SweepFails, SweepEnd, DeletionInv
  <2>3. CASE SweepPut \/ SweepDelete \/ SweepDeleteSuppressed
    <3>1. LiveStay /\ sweepPc # "idle" /\ sweepPc' # "idle" /\ UNCHANGED <<clock, lastAccess, overdue, purged, pc, using>>
      BY <2>3 DEF SweepPut, SweepDelete, SweepDeleteSuppressed, Live, On, rowVars, sessionVars
    <3> QED BY <3>1 DEF DeletionInv, PastGrace, IdleFor, Live, On
  <2>4. ASSUME NEW w \in Workspaces, SweepSkip(w) \/ SweepArchive(w) \/ SweepPurge(w) PROVE DeletionInv'
    <3>1. /\ sweepPc # "idle" /\ sweepPc' # "idle" /\ UNCHANGED <<clock, lastAccess, pc, using>>
          /\ (overdue \cup purged)' \subseteq overdue \cup purged
      BY <2>4 DEF SweepSkip, SweepArchive, SweepPurge, rowVars, sessionVars
    <3> QED BY <3>1 DEF DeletionInv, PastGrace, IdleFor, Live, On
  <2>5. ASSUME NEW w \in Workspaces, SweepCollides(w) PROVE DeletionInv'
    BY <2>5 DEF SweepCollides, SweepEnd, DeletionInv, PastGrace, IdleFor, Live, On, rowVars, sweepVars
  <2> QED BY <1>3, <2>1, <2>2, <2>3, <2>4, <2>5 DEF Sweep
<1>4. CASE TimePasses
  BY <1>4 DEF TimePasses, DeletionInv, sweepVars
<1>5. CASE UNCHANGED vars
  BY <1>5 DEF vars, DeletionInv, PastGrace, IdleFor, Live, On, rowVars, sessionVars, sweepVars
<1> QED BY <1>1, <1>2, <1>3, <1>4, <1>5 DEF Next

(* Only a sweep's commit deletes rows, those it has purged.                *)
LEMMA NextDeletes == TypeOK /\ DeletionInv /\ [Next]_vars => DeletesOnlyPastGrace
<1> SUFFICES ASSUME TypeOK, DeletionInv, [Next]_vars,
                    NEW w \in Workspaces, rowState[w] # "deleted", rowState'[w] = "deleted"
             PROVE  w \in purged
  BY DEF DeletesOnlyPastGrace, DeletionInv
<1>1. SweepCommit
  BY DEF TypeOK, Next, Session, Finish, Find, FindNone, Begin, Mount, CommitCreate, CreateFails,
         Destroy, End, Work, Restore, Sweep, SweepStart, SweepCollides, SweepSkip, SweepArchive,
         SweepPut, SweepDelete, SweepDeleteSuppressed, SweepPurge, SweepFails, TimePasses,
         vars, rowVars
<1> QED BY <1>1 DEF SweepCommit

(* A row is set to "deleted" only past its grace or in use, when no        *)
(* sandbox ends during a sweep: see DeletesOnlyPastGrace.                  *)
THEOREM DeletionsAreLate ==
    "destroy" \notin Overlaps /\ Spec => [][DeletesOnlyPastGrace]_vars
<1> SUFFICES ASSUME "destroy" \notin Overlaps PROVE Spec => [][DeletesOnlyPastGrace]_vars
  OBVIOUS
<1>1. TypeOK /\ DeletionInv /\ [Next]_vars => (TypeOK /\ DeletionInv)'
  BY NextTypeOK, NextDeletionInv
<1> QED BY <1>1, InitTypeOK, InitDeletionInv, NextDeletes, PTL DEF Spec

-----------------------------------------------------------------------------
(* Nothing is lost on Docker.  The hypothesis: no request and no end of a  *)
(* sandbox overlaps with a sweep, no sweep fails half-way for a reason     *)
(* outside the model, and no sweep meets two live sandboxes on one         *)
(* workspace after it has archived another (the finding of the run         *)
(* sweep_abort), which a user with one sandbox at a time rules out.        *)

Undisturbed ==
    /\ Backend = "docker" /\ Overlaps = {} /\ "sweep" \notin Faults
    /\ OnePerUser \/ \A v, w \in Workspaces : v = w

(* Sessions use active workspaces (or are about to create the row), never  *)
(* one that the sweep has archived.                                        *)
SessionsAre ==
    /\ sweepPc # "idle" => \A x \in Sessions : pc[x] \in {"idle", "live"}
    /\ \A x \in up : pc[x] \in {"mounted", "live"}
    /\ \A x \in Sessions : pc[x] # "idle" =>
          /\ rowState[using[x]] \in {"none", "active"} /\ using[x] \notin archived
          /\ pc[x] = "live" => rowState[using[x]] = "active"
    /\ OnePerUser => \A x, y \in Sessions :
          pc[x] # "idle" /\ pc[y] # "idle" /\ using[x] = using[y] => x = y

(* What the sweep read at its start is still so, the tarball is the volume *)
(* and, once it is put, the archive.                                       *)
SweepIs ==
    /\ sweepPc = "idle" => actives = {} /\ due = {} /\ overdue = {} /\ archived = {} /\ purged = {}
    /\ \A w \in actives \cup archived : rowState[w] = "active"
    /\ actives \cap archived = {}
    /\ \A w \in overdue \cup purged : rowState[w] = "archived" /\ PastGrace(w)
    /\ sweepPc \in {"put", "delete"} =>
          /\ subject \in due /\ tarball = volume[subject]
          /\ \A x \in Sessions : pc[x] # "idle" => using[x] # subject
    /\ sweepPc = "delete" => archive[subject] = tarball /\ subject \in stored

(* Where w's files are, in each state of its row and of the sweep.         *)
Kept(w) ==
    /\ rowState[w] = "none" => written[w] = {}
    /\ rowState[w] = "active" /\ w \notin archived => written[w] \subseteq volume[w]
    /\ rowState[w] = "archived" \/ w \in archived =>
          IF w \in stored THEN written[w] \subseteq archive[w] ELSE PastGrace(w)
    /\ w \in archived => w \in stored
    /\ rowState[w] = "deleted" => PastGrace(w)

KeptInv == SessionsAre /\ SweepIs /\ \A w \in Workspaces : Kept(w)

LEMMA InitKeptInv == Init => KeptInv
<1> SUFFICES ASSUME Init PROVE KeptInv
  OBVIOUS
<1>1. SessionsAre
  BY DEF Init, SessionsAre
<1>2. SweepIs
  BY DEF Init, SweepIs
<1>3. \A w \in Workspaces : Kept(w)
  BY DEF Init, Kept
<1> QED BY <1>1, <1>2, <1>3 DEF KeptInv

LEMMA SessionKeptInv ==
    ASSUME Undisturbed, TypeOK, KeptInv, NEW x \in Sessions, Session(x)
    PROVE  KeptInv'
<1> USE DEF TypeOK, KeptInv
<1>1. CASE \E u \in Users : Find(x, u) \/ FindNone(x, u)
  <2>1. PICK u \in Users : Find(x, u) \/ FindNone(x, u)
    BY <1>1
  <2>2. PICK w \in {u} \X Rows : Begin(x, w) /\ rowState[w] \in {"none", "active"}
    BY <2>1 DEF Find, FindNone, RowsOf
  <2>3. w \in Workspaces /\ pc[x] = "idle" /\ sweepPc = "idle" /\ (OnePerUser => On(w) = {})
    BY <2>1, <2>2 DEF Find, FindNone, MayBegin, Workspaces, Undisturbed
  <2>4. SessionsAre'
    BY <2>2, <2>3 DEF Begin, SessionsAre, SweepIs, On, rowVars, sweepVars
  <2>5. SweepIs'
    BY <2>2, <2>3 DEF Begin, SweepIs, PastGrace, IdleFor, rowVars, dataVars, sweepVars
  <2>6. \A v \in Workspaces : Kept(v)'
    BY <2>2 DEF Begin, Kept, PastGrace, IdleFor, rowVars, dataVars, sweepVars
  <2> QED BY <2>4, <2>5, <2>6
<1>2. CASE Mount(x)
  <2>1. SessionsAre'
    BY <1>2 DEF Mount, SessionsAre, WithoutPod, Mounting, rowVars, sweepVars
  <2>2. SweepIs'
    BY <1>2 DEF Mount, SweepIs, PastGrace, IdleFor, rowVars, sweepVars
  <2>3. \A v \in Workspaces : Kept(v)'
    BY <1>2 DEF Mount, Kept, PastGrace, IdleFor, rowVars, sweepVars
  <2> QED BY <2>1, <2>2, <2>3
<1>3. CASE CommitCreate(x)
  <2>1. sweepPc = "idle"
    BY <1>3 DEF CommitCreate, SessionsAre
  <2>2. SessionsAre'
    BY <1>3 DEF CommitCreate, SessionsAre, sweepVars
  <2>3. SweepIs'
    BY <1>3, <2>1 DEF CommitCreate, SweepIs, sweepVars
  <2>4. \A v \in Workspaces : Kept(v)'
    BY <1>3, <2>1 DEF CommitCreate, SessionsAre, SweepIs, Kept, PastGrace, IdleFor, dataVars, sweepVars
  <2> QED BY <2>2, <2>3, <2>4
<1>4. CASE CreateFails(x) \/ Destroy(x)
  <2>1. End(x)
    BY <1>4 DEF CreateFails, Destroy
  <2>2. sweepPc = "idle"
    BY <1>4 DEF CreateFails, Destroy, SessionsAre, Undisturbed
  <2>3. SessionsAre'
    BY <2>1, <2>2 DEF End, SessionsAre, SweepIs, WithoutPod, Mounting, rowVars, sweepVars
  <2>4. SweepIs'
    BY <2>1, <2>2 DEF End, SweepIs, sweepVars
  <2>5. \A v \in Workspaces : Kept(v)'
    BY <2>1 DEF End, Kept, PastGrace, IdleFor, rowVars, dataVars, sweepVars
  <2> QED BY <2>3, <2>4, <2>5
<1>5. CASE Work(x)
  <2> DEFINE w == using[x]
  <2>1. rowState[w] = "active" /\ w \notin archived /\ pc[x] # "idle"
    BY <1>5 DEF Work, SessionsAre
  <2>2. \A v \in Workspaces : v # w =>
           volume'[v] = volume[v] /\ written'[v] = written[v] /\ lastAccess'[v] = lastAccess[v]
    BY <1>5 DEF Work
  <2>3. written[w] \subseteq volume[w] => written'[w] \subseteq volume'[w]
    BY <1>5 DEF Work
  <2>4. SessionsAre'
    BY <1>5 DEF Work, SessionsAre, sessionVars, sweepVars
  <2>5. SweepIs'
    BY <1>5, <2>1, <2>2 DEF Work, SweepIs, PastGrace, IdleFor, sessionVars, sweepVars
  <2>6. \A v \in Workspaces : Kept(v)'
    BY <1>5, <2>1, <2>2, <2>3 DEF Work, Kept, PastGrace, IdleFor, sessionVars, sweepVars
  <2> QED BY <2>4, <2>5, <2>6
<1> QED BY <1>1, <1>2, <1>3, <1>4, <1>5 DEF Session, Finish

LEMMA SweepKeptInv ==
    ASSUME Undisturbed, TypeOK, KeptInv, Sweep
    PROVE  KeptInv'
<1> USE DEF TypeOK, KeptInv
<1>1. CASE SweepStart
  <2>1. SessionsAre'
    BY <1>1 DEF SweepStart, SessionsAre, Undisturbed, rowVars, sessionVars
  <2>2. SweepIs'
    BY <1>1 DEF SweepStart, SweepIs, Due, Purgeable, PastGrace, IdleFor, rowVars, dataVars, sessionVars
  <2>3. \A v \in Workspaces : Kept(v)'
    BY <1>1 DEF SweepStart, Kept, PastGrace, IdleFor, rowVars, dataVars
  <2> QED BY <2>1, <2>2, <2>3
<1>2. CASE SweepPut
  <2>1. subject \in due /\ rowState[subject] = "active" /\ subject \notin archived /\ subject \in Workspaces
    BY <1>2 DEF SweepPut, SweepIs
  <2>2. SessionsAre'
    BY <1>2 DEF SweepPut, SessionsAre, rowVars, sessionVars
  <2>3. SweepIs'
    BY <1>2, <2>1 DEF SweepPut, SweepIs, PastGrace, IdleFor, rowVars, sessionVars
  <2>4. \A v \in Workspaces : Kept(v)'
    BY <1>2, <2>1 DEF SweepPut, Kept, PastGrace, IdleFor, rowVars
  <2> QED BY <2>2, <2>3, <2>4
<1>3. CASE SweepDelete
  <2>1. /\ subject \in due /\ rowState[subject] = "active" /\ subject \notin archived /\ subject \in Workspaces
        /\ archive[subject] = volume[subject] /\ subject \in stored
        /\ \A x \in Sessions : pc[x] # "idle" => using[x] # subject
    BY <1>3 DEF SweepDelete, SweepIs
  <2>2. SessionsAre'
    BY <1>3, <2>1 DEF SweepDelete, SessionsAre, rowVars
  <2>3. SweepIs'
    BY <1>3, <2>1 DEF SweepDelete, SweepIs, PastGrace, IdleFor, rowVars
  <2>4. \A v \in Workspaces : Kept(v)'
    BY <1>3, <2>1 DEF SweepDelete, Kept, PastGrace, IdleFor, rowVars
  <2> QED BY <2>2, <2>3, <2>4
<1>4. CASE SweepCommit
  <2>1. SessionsAre'
    BY <1>4 DEF SweepCommit, SweepEnd, SessionsAre, SweepIs, sessionVars
  <2>2. SweepIs'
    BY <1>4 DEF SweepCommit, SweepEnd, SweepIs
  <2>3. \A v \in Workspaces : Kept(v)'
    BY <1>4 DEF SweepCommit, SweepEnd, SweepIs, Kept, PastGrace, IdleFor, dataVars
  <2> QED BY <2>1, <2>2, <2>3
<1>5. CASE SweepFails
  <2>1. sweepPc = "rows" /\ \E w \in actives : TwoLive(w)
    BY <1>5 DEF SweepFails, Undisturbed, SweepIs, SessionsAre, Mounting
  <2>2. archived = {}
    BY <2>1 DEF Undisturbed, SessionsAre, SweepIs, TwoLive, Live, On
  <2>3. SessionsAre'
    BY <1>5 DEF SweepFails, SweepEnd, SessionsAre, rowVars, sessionVars
  <2>4. SweepIs'
    BY <1>5 DEF SweepFails, SweepEnd, SweepIs
  <2>5. \A v \in Workspaces : Kept(v)'
    BY <1>5, <2>2 DEF SweepFails, SweepEnd, Kept, PastGrace, IdleFor, rowVars, dataVars
  <2> QED BY <2>3, <2>4, <2>5
<1>6. ASSUME NEW w \in Workspaces, SweepSkip(w) \/ SweepCollides(w)
      PROVE  KeptInv'
  <2>1. ~SweepCollides(w)
    BY DEF SweepCollides, PodFree, Undisturbed
  <2>2. SweepSkip(w)
    BY <1>6, <2>1
  <2>3. SessionsAre'
    BY <2>2 DEF SweepSkip, SessionsAre, rowVars, sessionVars
  <2>4. SweepIs'
    BY <2>2 DEF SweepSkip, SweepIs, PastGrace, IdleFor, rowVars, sessionVars
  <2>5. \A v \in Workspaces : Kept(v)'
    BY <2>2 DEF SweepSkip, Kept, PastGrace, IdleFor, rowVars
  <2> QED BY <2>3, <2>4, <2>5
<1>7. ASSUME NEW w \in Workspaces, SweepArchive(w) PROVE KeptInv'
  <2>1. SessionsAre'
    BY <1>7 DEF SweepArchive, SessionsAre, rowVars, sessionVars
  <2>2. \A x \in Sessions : pc[x] # "idle" => using[x] # w
    BY <1>7 DEF SweepArchive, SessionsAre, Live, On
  <2>3. SweepIs'
    BY <1>7, <2>2 DEF SweepArchive, SweepIs, PastGrace, IdleFor, rowVars, sessionVars
  <2>4. \A v \in Workspaces : Kept(v)'
    BY <1>7 DEF SweepArchive, Kept, PastGrace, IdleFor, rowVars
  <2> QED BY <2>1, <2>3, <2>4
<1>8. ASSUME NEW w \in Workspaces, SweepPurge(w) PROVE KeptInv'
  <2>1. rowState[w] = "archived" /\ PastGrace(w) /\ w \notin archived /\ w \notin actives
    BY <1>8 DEF SweepPurge, SweepIs
  <2>2. SessionsAre'
    BY <1>8 DEF SweepPurge, SessionsAre, rowVars, sessionVars
  <2>3. SweepIs'
    BY <1>8, <2>1 DEF SweepPurge, SweepIs, PastGrace, IdleFor, rowVars, sessionVars
  <2>4. \A v \in Workspaces : Kept(v)'
    BY <1>8, <2>1 DEF SweepPurge, Kept, PastGrace, IdleFor, rowVars
  <2> QED BY <2>2, <2>3, <2>4
<1>9. ~SweepDeleteSuppressed
  BY DEF SweepDeleteSuppressed, Undisturbed
<1> QED BY <1>1, <1>2, <1>3, <1>4, <1>5, <1>6, <1>7, <1>8, <1>9 DEF Sweep

LEMMA NextKeptInv ==
    ASSUME Undisturbed, TypeOK, KeptInv, [Next]_vars
    PROVE  KeptInv'
<1>1. ASSUME NEW w \in Workspaces, Restore(w) PROVE KeptInv'
  <2> USE DEF TypeOK, KeptInv
  <2>1. SessionsAre'
    BY <1>1 DEF Restore, SessionsAre, sessionVars, sweepVars
  <2>2. SweepIs'
    BY <1>1 DEF Restore, SweepIs, sweepVars
  <2>3. \A v \in Workspaces : Kept(v)'
    <3>1. written[w] \subseteq archive[w] /\ w \notin archived
      BY <1>1 DEF Restore, Kept, SweepIs
    <3> QED BY <1>1, <3>1 DEF Restore, Kept, PastGrace, IdleFor, sweepVars
  <2> QED BY <2>1, <2>2, <2>3
<1>2. CASE TimePasses
  <2> USE DEF TypeOK, KeptInv
  <2>1. SessionsAre'
    BY <1>2 DEF TimePasses, SessionsAre, rowVars, sessionVars, sweepVars
  <2>2. SweepIs'
    BY <1>2 DEF TimePasses, SweepIs, sweepVars
  <2>3. \A v \in Workspaces : Kept(v)'
    <3>1. \A v \in Workspaces : PastGrace(v) => PastGrace(v)'
      BY <1>2, RetentionAssumption DEF TimePasses, PastGrace, IdleFor, rowVars
    <3> QED BY <1>2, <3>1 DEF TimePasses, Kept, rowVars, dataVars, sweepVars
  <2> QED BY <2>1, <2>2, <2>3
<1>3. CASE UNCHANGED vars
  <2> USE DEF vars, rowVars, dataVars, sessionVars, sweepVars, KeptInv, PastGrace, IdleFor
  <2>1. SessionsAre'
    BY <1>3 DEF SessionsAre
  <2>2. SweepIs'
    BY <1>3 DEF SweepIs
  <2>3. \A v \in Workspaces : Kept(v)'
    BY <1>3 DEF Kept
  <2> QED BY <2>1, <2>2, <2>3
<1> QED BY <1>1, <1>2, <1>3, SessionKeptInv, SweepKeptInv DEF Next

LEMMA KeptInvImplies == TypeOK /\ KeptInv => NothingLost
BY DEF TypeOK, KeptInv, Kept, NothingLost

(* Whatever a user wrote into a workspace is on its volume or in its       *)
(* archive until the retention time has passed: see NothingLost.           *)
THEOREM FilesAreKept == Undisturbed /\ Spec => []NothingLost
<1> SUFFICES ASSUME Undisturbed PROVE Spec => []NothingLost
  OBVIOUS
<1>1. TypeOK /\ KeptInv /\ [Next]_vars => (TypeOK /\ KeptInv)'
  BY NextTypeOK, NextKeptInv
<1> QED BY <1>1, InitTypeOK, InitKeptInv, KeptInvImplies, PTL DEF Spec

=============================================================================
