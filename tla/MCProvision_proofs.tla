-------------------------- MODULE MCProvision_proofs --------------------------
(***************************************************************************)
(* Theorems about KubernetesNamespace, for any number of sessions, either  *)
(* kind of namespace and any faults; and what MCProvision's runs check of  *)
(* the other modules, from Provision_proofs.                               *)
(*                                                                         *)
(* Confined alone says nothing of the actor that is in the middle of a     *)
(* setup.  IInv does: it is alone, the namespace is its own and has what   *)
(* it has created so far; the claim, without which no pod of a workspace   *)
(* runs, comes last; and the keeper deletes only what has a claim, so that *)
(* nobody's namespace is exchanged under its setup.                        *)
(***************************************************************************)
EXTENDS MCProvision, SequenceTheorems, TLAPS

FenceNames == {"default-deny", "deny-metadata", "sandbox-quota", "sandbox-limits"}
Fenced == FenceNames \subseteq made

(* Who sets the namespace up finds in it what it has put there.            *)
SetupOwned ==
    \A a \in Actors :
        pc[a] = "setup" => /\ ns = "active" /\ "claim" \notin made
                           /\ step[a] <= Len(Setup)
                           /\ \A i \in 1 .. 4 : i < step[a] => Fences[i] \in made

SetupAlone == \A a, b \in Actors : pc[a] = "setup" /\ pc[b] = "setup" => a = b

NewIsEmpty == ns = "none" => made = {}

ClaimIsLast == "claim" \in made => Fenced

(* No pod of a workspace runs without the claim.                           *)
RunningHasClaim == Persistent /\ phase = "running" => "claim" \in made

(* From its throwaway pod on the keeper has the namespace, and before it   *)
(* deletes it, a claim in it.                                              *)
KeeperHasClaim ==
    /\ Persistent /\ pc[Keeper] \in {"measuring", "archiving", "restoring", "put", "delete"} => ns = "active"
    /\ Persistent /\ pc[Keeper] \in {"put", "delete"} => "claim" \in made

(* An ephemeral namespace is that of one acquire.                          *)
OneAcquire ==
    ~Persistent =>
        /\ pc[Keeper] = "idle" /\ row = "none"
        /\ \A x, y \in Sessions : x # y /\ pc[x] # "idle" => pc[y] = "idle"
        /\ \A x \in Sessions : pc[x] \notin {"check", "stale", "gone"}
        /\ \A x \in Sessions : pc[x] \in {"create", "ready", "live"} => ns = "active" /\ Fenced
        /\ HasPod => Fenced

SetupInv == SetupOwned /\ SetupAlone /\ NewIsEmpty /\ ClaimIsLast
IInv == TypeOK /\ SetupInv /\ RunningHasClaim /\ KeeperHasClaim /\ OneAcquire

-----------------------------------------------------------------------------
(* The parts of a namespace.                                               *)

LEMMA FencesAre ==
  /\ Len(Fences) = 4 /\ Fences \in Seq(FenceNames)
  /\ Fences[1] = "default-deny" /\ Fences[2] = "deny-metadata"
  /\ Fences[3] = "sandbox-quota" /\ Fences[4] = "sandbox-limits"
  /\ "claim" \notin FenceNames
  BY DEF Fences, FenceNames

LEMMA SetupIs ==
  /\ \A i \in 1 .. 4 : Setup[i] = Fences[i]
  /\ Persistent => Len(Setup) = 5 /\ Setup[5] = "claim"
  /\ ~Persistent => Len(Setup) = 4
<1>1. CASE Persistent
  <2>1. Setup = Append(Fences, "claim")
    BY <1>1 DEF Setup
  <2>2. Fences \in Seq(FenceNames \cup {"claim"})
    BY DEF Fences, FenceNames
  <2>3. "claim" \in FenceNames \cup {"claim"}
    OBVIOUS
  <2>4. /\ Len(Setup) = Len(Fences) + 1
        /\ \A i \in 1 .. Len(Fences) : Setup[i] = Fences[i]
        /\ Setup[Len(Fences) + 1] = "claim"
    BY <2>1, <2>2, <2>3, AppendProperties
  <2>5. QED BY <1>1, <2>4, FencesAre
<1>2. CASE ~Persistent
  BY <1>2, FencesAre DEF Setup
<1>3. QED BY <1>1, <1>2

-----------------------------------------------------------------------------
(* The initial state, and what the steps of one kind have in common.       *)

LEMMA InitIInv == Init => IInv
<1> SUFFICES ASSUME Init PROVE IInv
  OBVIOUS
<1>1. \A a \in Actors : pc[a] = "idle"
  BY DEF Init
<1>2. Keeper \in Actors /\ Sessions \subseteq Actors
  BY DEF Actors
<1>3. TypeOK
  <2>1. step \in [Actors -> 1 .. 6]
    <3>1. 1 \in 1 .. 6
      OBVIOUS
    <3>2. QED BY <3>1 DEF Init
  <2>2. pc \in [Actors -> SessionPcs \cup KeeperPcs]
    BY DEF Init, SessionPcs
  <2>3. QED BY <1>2, <2>1, <2>2 DEF Init, TypeOK
<1>4. SetupInv
  BY <1>1 DEF Init, SetupInv, SetupOwned, SetupAlone, NewIsEmpty, ClaimIsLast
<1>5. RunningHasClaim /\ KeeperHasClaim /\ OneAcquire
  BY <1>1, <1>2 DEF Init, RunningHasClaim, KeeperHasClaim, OneAcquire, HasPod
<1>6. QED BY <1>3, <1>4, <1>5 DEF IInv

(* A step of an actor that neither begins a setup nor changes what there   *)
(* is of the namespace.                                                    *)
LEMMA MoveKeepsSetup ==
  ASSUME TypeOK, SetupInv, NEW a \in Actors, NEW where, where # "setup",
         Go(a, where), UNCHANGED <<ns, made, step>>
  PROVE  SetupInv'
<1>1. \A b \in Actors : pc'[b] = "setup" => pc[b] = "setup"
  BY DEF Go, TypeOK
<1>2. SetupOwned' /\ SetupAlone'
  BY <1>1 DEF SetupInv, SetupOwned, SetupAlone
<1>3. NewIsEmpty' /\ ClaimIsLast'
  BY DEF SetupInv, NewIsEmpty, ClaimIsLast, Fenced
<1>4. QED BY <1>2, <1>3 DEF SetupInv

(* A step of the namespace while nobody sets it up.                        *)
LEMMA NobodySetsUp ==
  ASSUME SetupInv, \A a \in Actors : pc'[a] # "setup",
         made' \in {made, {}}, ns' = "none" => made' = {}
  PROVE  SetupInv'
<1>1. SetupOwned' /\ SetupAlone' /\ NewIsEmpty'
  BY DEF SetupOwned, SetupAlone, NewIsEmpty
<1>2. ClaimIsLast'
  BY DEF SetupInv, ClaimIsLast, Fenced
<1>3. QED BY <1>1, <1>2 DEF SetupInv

-----------------------------------------------------------------------------
(* The sessions.                                                           *)

(* Where a session goes that neither creates anything nor deletes the      *)
(* namespace.                                                              *)
LEMMA SessionMoves ==
  ASSUME IInv, NEW x \in Sessions,
         \/ Begin(x) \/ CheckNamespace(x) \/ ClearStalePod(x) \/ StalePodGone(x)
         \/ CreatePod(x) \/ Ready(x) \/ AcquireFails(x) \/ Crash(x)
  PROVE  IInv'
<1> USE DEF IInv
<1>1. x \in Actors /\ Keeper \in Actors /\ x # Keeper
  BY KeeperAssumption DEF Actors
<1>2. PICK where \in {"check", "make", "stale", "gone", "create", "ready", "live", "cleanup", "idle"} :
        Go(x, where)
  BY <1>1 DEF Begin, CheckNamespace, ClearStalePod, StalePodGone, CreatePod, Ready, AcquireFails, Crash
<1>3. UNCHANGED <<ns, made, step>>
  BY DEF Begin, CheckNamespace, ClearStalePod, StalePodGone, CreatePod, Ready, AcquireFails, Crash, clusterVars
<1>4. pc'[Keeper] = pc[Keeper] /\ pc'[x] = where /\ \A y \in Sessions \ {x} : pc'[y] = pc[y]
  BY <1>1, <1>2 DEF Go, TypeOK, Actors
<1>5. TypeOK'
  <2>1. pc' \in [Actors -> SessionPcs \cup KeeperPcs]
    BY <1>1, <1>2 DEF Go, TypeOK, SessionPcs
  <2>2. podOf' \in Actors /\ phase' \in {"none", "pending", "running", "failed"} /\ deleting' \in BOOLEAN
    BY <1>1 DEF TypeOK, Begin, CheckNamespace, ClearStalePod, StalePodGone, CreatePod, Ready,
           AcquireFails, Crash, clusterVars, NewPod, DeletePod, HasPod
  <2>3. ran' \in Actors \cup {"nobody"} /\ due' \in BOOLEAN /\ row' \in {"none", "active", "archived"}
    BY DEF TypeOK, Begin, CheckNamespace, ClearStalePod, StalePodGone, CreatePod, Ready,
           AcquireFails, Crash, workspaceVars
  <2>4. QED BY <1>3, <2>1, <2>2, <2>3 DEF TypeOK
<1>6. SetupInv'
  BY <1>1, <1>2, <1>3, MoveKeepsSetup
<1>7. phase' = "running" => phase = "running"
  BY DEF Begin, CheckNamespace, ClearStalePod, StalePodGone, CreatePod, Ready, AcquireFails, Crash,
         clusterVars, NewPod
<1>8. RunningHasClaim' /\ KeeperHasClaim'
  BY <1>3, <1>4, <1>7 DEF RunningHasClaim, KeeperHasClaim
<1>9. OneAcquire'
  <2> SUFFICES ASSUME ~Persistent PROVE OneAcquire'
    BY DEF OneAcquire
  <2>1. /\ pc'[Keeper] = "idle" /\ row' = "none"
    BY <1>4 DEF OneAcquire, Begin, CheckNamespace, ClearStalePod, StalePodGone, CreatePod, Ready,
           AcquireFails, Crash, workspaceVars
  <2>2. \A y \in Sessions \ {x} : pc[y] = "idle"
    <3>1. CASE Begin(x)
      BY <3>1 DEF Begin, Actors
    <3>2. CASE ~Begin(x)
      <4>1. pc[x] # "idle"
        BY <3>2 DEF CheckNamespace, ClearStalePod, StalePodGone, CreatePod, Ready, AcquireFails, Refused, Crash
      <4>2. QED BY <4>1 DEF OneAcquire
    <3>3. QED BY <3>1, <3>2
  <2>3. where \notin {"check", "stale", "gone"}
    BY <1>1, <1>2, <1>4 DEF OneAcquire, Begin, CheckNamespace, ClearStalePod, StalePodGone, CreatePod, Ready,
           AcquireFails, Crash, Go, TypeOK
  <2>4. where \in {"create", "ready", "live"} => pc[x] \in {"create", "ready"}
    BY <1>1, <1>2, <1>4 DEF OneAcquire, Begin, CheckNamespace, ClearStalePod, StalePodGone, CreatePod, Ready,
           AcquireFails, Crash, Go, TypeOK
  <2>5. HasPod' => Fenced'
    BY <1>3 DEF OneAcquire, HasPod, Fenced, Begin, CheckNamespace, ClearStalePod, StalePodGone, CreatePod,
           Ready, AcquireFails, Crash, clusterVars
  <2>6. QED BY <1>3, <1>4, <2>1, <2>2, <2>3, <2>4, <2>5 DEF OneAcquire, Fenced
<1>10. QED BY <1>5, <1>6, <1>8, <1>9

(* A cleanup or a destroy deletes the pod of a workspace, or its own       *)
(* ephemeral namespace.                                                    *)
LEMMA TearDownStep ==
  ASSUME IInv, NEW x \in Sessions, CleanUp(x) \/ Destroy(x)
  PROVE  IInv'
<1> USE DEF IInv
<1>1. x \in Actors /\ Keeper \in Actors /\ x # Keeper
  BY KeeperAssumption DEF Actors
<1>2. /\ Go(x, "idle") /\ pc[x] \in {"cleanup", "live"}
      /\ UNCHANGED <<made, podOf, phase, step, ran, due, row>>
      /\ Persistent => UNCHANGED ns
      /\ ns' = ns \/ (ns = "active" /\ ns' = "terminating")
      /\ deleting' \in BOOLEAN
  <2>1. /\ Go(x, "idle") /\ pc[x] \in {"cleanup", "live"}
        /\ UNCHANGED <<made, podOf, phase, step, ran, due, row>>
        /\ TearDown \/ UNCHANGED <<ns, deleting>>
    BY DEF CleanUp, Destroy, workspaceVars
  <2>2. CASE UNCHANGED <<ns, deleting>>
    BY <2>1, <2>2 DEF TypeOK
  <2>3. CASE TearDown
    <3>1. deleting' \in BOOLEAN
      BY <2>3 DEF TearDown, DeleteNamespace, DeletePod, HasPod
    <3>2. Persistent => ns' = ns
      BY <2>3 DEF TearDown
    <3>3. ns' = ns \/ (ns = "active" /\ ns' = "terminating")
      BY <2>3 DEF TearDown, DeleteNamespace
    <3>4. QED BY <2>1, <3>1, <3>2, <3>3
  <2>4. QED BY <2>1, <2>2, <2>3
<1>3. pc'[Keeper] = pc[Keeper] /\ pc'[x] = "idle" /\ \A y \in Sessions \ {x} : pc'[y] = pc[y]
  BY <1>1, <1>2 DEF Go, TypeOK, Actors
<1>4. TypeOK'
  <2>1. pc' \in [Actors -> SessionPcs \cup KeeperPcs]
    BY <1>1, <1>2 DEF Go, TypeOK, SessionPcs
  <2>2. QED BY <1>2, <2>1 DEF TypeOK
<1>5. SetupInv'
  <2>1. CASE Persistent
    BY <1>1, <1>2, <2>1, MoveKeepsSetup
  <2>2. CASE ~Persistent
    <3>1. \A a \in Actors : pc'[a] # "setup"
      BY <1>1, <1>2, <1>3, <2>2 DEF OneAcquire, Actors
    <3>2. QED BY <1>2, <3>1, NobodySetsUp DEF SetupInv, NewIsEmpty
  <2>3. QED BY <2>1, <2>2
<1>6. RunningHasClaim' /\ KeeperHasClaim'
  BY <1>2, <1>3 DEF RunningHasClaim, KeeperHasClaim
<1>7. OneAcquire'
  BY <1>2, <1>3 DEF OneAcquire, HasPod, Fenced
<1>8. QED BY <1>4, <1>5, <1>6, <1>7

(* Who creates the namespace is the first to set it up.                    *)
LEMMA CreateNamespaceStep ==
  ASSUME IInv, NEW a \in Actors, CreateNamespace(a)
  PROVE  IInv'
<1> USE DEF IInv
<1>1. /\ pc[a] = "make" /\ ns = "none" /\ ns' = "active" /\ made = {}
      /\ step' = [step EXCEPT ![a] = 1] /\ Go(a, "setup")
      /\ UNCHANGED <<made, podOf, phase, deleting, ran, due, row>>
  BY DEF CreateNamespace, workspaceVars, SetupInv, NewIsEmpty
<1>2. pc'[a] = "setup" /\ step'[a] = 1 /\ \A b \in Actors \ {a} : pc'[b] = pc[b]
  BY <1>1 DEF Go, TypeOK
<1>3. \A b \in Actors : pc[b] # "setup"
  BY <1>1 DEF SetupInv, SetupOwned
<1>4. TypeOK'
  <2>1. pc' \in [Actors -> SessionPcs \cup KeeperPcs] /\ step' \in [Actors -> 1 .. 6]
    BY <1>1 DEF Go, TypeOK, SessionPcs
  <2>2. QED BY <1>1, <2>1 DEF TypeOK
<1>5. SetupInv'
  <2>1. 1 <= Len(Setup) /\ ~ \E i \in 1 .. 4 : i < 1
    BY SetupIs
  <2>2. SetupOwned' /\ SetupAlone'
    BY <1>1, <1>2, <1>3, <2>1 DEF SetupOwned, SetupAlone
  <2>3. QED BY <1>1, <2>2 DEF SetupInv, NewIsEmpty, ClaimIsLast
<1>6. RunningHasClaim' /\ KeeperHasClaim'
  BY <1>1, <1>2 DEF RunningHasClaim, KeeperHasClaim, Actors
<1>7. OneAcquire'
  <2> SUFFICES ASSUME ~Persistent PROVE OneAcquire'
    BY DEF OneAcquire
  <2>1. a \in Sessions /\ a # Keeper /\ \A y \in Sessions \ {a} : pc'[y] = "idle"
    BY <1>1, <1>2, KeeperAssumption DEF OneAcquire, Actors
  <2>2. QED BY <1>1, <1>2, <2>1 DEF OneAcquire, HasPod, Fenced, Actors
<1>8. QED BY <1>4, <1>5, <1>6, <1>7

(* Of the steps of a setup only the last, with everything else in place,   *)
(* creates the claim, and only that leaves the setup.                      *)
LEMMA CreatePartStep ==
  ASSUME IInv, NEW a \in Actors, CreatePart(a)
  PROVE  IInv'
<1> USE DEF IInv
<1> DEFINE n == step[a]
           next == IF a = Keeper THEN "restore" ELSE "create"
<1>1. /\ pc[a] = "setup" /\ ns = "active" /\ made' = made \cup {Setup[n]}
      /\ step' = [step EXCEPT ![a] = n + 1]
      /\ IF n < Len(Setup) THEN UNCHANGED pc ELSE Go(a, next)
      /\ UNCHANGED <<ns, podOf, phase, deleting, ran, due, row>>
  BY DEF CreatePart, workspaceVars
<1>2. /\ "claim" \notin made /\ n <= Len(Setup)
      /\ \A i \in 1 .. 4 : i < n => Fences[i] \in made
      /\ \A b \in Actors : pc[b] = "setup" => b = a
  BY <1>1 DEF SetupInv, SetupOwned, SetupAlone
<1>3. n \in 1 .. 6 /\ n <= 5 /\ Len(Setup) \in {4, 5}
  <2>1. Len(Setup) \in {4, 5} /\ n \in 1 .. 6
    BY SetupIs DEF TypeOK
  <2>2. n <= Len(Setup)
    BY <1>2
  <2>3. ASSUME NEW k \in {4, 5}, NEW j \in 1 .. 6, j <= k PROVE j <= 5
    BY <2>3
  <2>4. QED BY <2>1, <2>2, <2>3
<1>4. \A i \in 1 .. 4 : i <= n => Fences[i] \in made'
  <2> SUFFICES ASSUME NEW i \in 1 .. 4, i <= n PROVE Fences[i] \in made'
    OBVIOUS
  <2>1. CASE i < n
    BY <1>1, <1>2, <2>1
  <2>2. CASE i = n
    BY <1>1, <2>2, SetupIs
  <2>3. QED BY <1>3, <2>1, <2>2
<1>5. /\ n <= 4 => "claim" \notin made' /\ Setup[n] \in FenceNames
      /\ n >= 4 => Fenced'
  <2>1. n <= 4 => Setup[n] \in FenceNames
    <3> SUFFICES ASSUME n <= 4 PROVE Setup[n] \in FenceNames
      OBVIOUS
    <3>1. n \in {1, 2, 3, 4}
      BY <1>3
    <3>2. Setup[n] = Fences[n]
      BY <1>3, SetupIs
    <3>3. QED BY <3>1, <3>2, FencesAre DEF FenceNames
  <2>2. n <= 4 => "claim" \notin made'
    BY <1>1, <1>2, <2>1, FencesAre
  <2>3. ASSUME n >= 4 PROVE Fenced'
    <3>1. Fences[1] \in made' /\ Fences[2] \in made' /\ Fences[3] \in made' /\ Fences[4] \in made'
      BY <1>3, <1>4, <2>3
    <3>2. QED BY <3>1, FencesAre DEF Fenced, FenceNames
  <2>4. QED BY <2>1, <2>2, <2>3
<1>6. /\ n < Len(Setup) => pc' = pc
      /\ n = Len(Setup) => pc'[a] = next /\ \A b \in Actors \ {a} : pc'[b] = pc[b]
  BY <1>1, <1>3 DEF Go, TypeOK
<1>7. TypeOK'
  <2>1. step' \in [Actors -> 1 .. 6]
    <3>1. n + 1 \in 1 .. 6
      BY <1>3
    <3>2. step \in [Actors -> 1 .. 6]
      BY DEF TypeOK
    <3>3. QED BY <1>1, <3>1, <3>2
  <2>2. pc' \in [Actors -> SessionPcs \cup KeeperPcs]
    BY <1>1 DEF Go, TypeOK, SessionPcs, KeeperPcs
  <2>3. Setup[n] \in FenceNames \cup {"claim"}
    BY <1>2, <1>3, <1>5, SetupIs
  <2>4. made' \subseteq {"default-deny", "deny-metadata", "sandbox-quota", "sandbox-limits", "claim"}
    BY <1>1, <2>3 DEF TypeOK, FenceNames
  <2>5. QED BY <1>1, <2>1, <2>2, <2>4 DEF TypeOK
<1>8. SetupInv'
  <2>1. NewIsEmpty'
    BY <1>1 DEF NewIsEmpty
  <2>2. ClaimIsLast'
    BY <1>3, <1>5 DEF ClaimIsLast
  <2>3. CASE n < Len(Setup)
    <3>0. Len(Setup) \in {4, 5} /\ n \in 1 .. 6 /\ n < Len(Setup)
      BY <1>3, <2>3
    <3> ASSUME NEW k \in {4, 5}, NEW j \in 1 .. 6, j < k PROVE j <= 4 /\ j + 1 <= k
      OBVIOUS
    <3>1. n <= 4 /\ n + 1 <= Len(Setup)
      BY <3>0
    <3>2. step'[a] = n + 1
      BY <1>1 DEF TypeOK
    <3>3. \A i \in 1 .. 4 : i < n + 1 => Fences[i] \in made'
      BY <1>3, <1>4
    <3>4. \A b \in Actors : pc'[b] = "setup" => b = a
      BY <1>2, <1>6, <2>3
    <3>5. "claim" \notin made' /\ ns' = "active"
      BY <1>1, <1>5, <3>1
    <3>6. SetupOwned'
      BY <3>1, <3>2, <3>3, <3>4, <3>5 DEF SetupOwned
    <3>7. SetupAlone'
      BY <3>4 DEF SetupAlone
    <3>8. QED BY <2>1, <2>2, <3>6, <3>7 DEF SetupInv
  <2>4. CASE n = Len(Setup)
    <3>1. \A b \in Actors : pc'[b] # "setup"
      BY <1>2, <1>6, <2>4
    <3>2. QED BY <2>1, <2>2, <3>1 DEF SetupInv, SetupOwned, SetupAlone
  <2>5. QED BY <1>2, <1>3, <2>3, <2>4
<1>9. RunningHasClaim'
  BY <1>1 DEF RunningHasClaim
<1>10. KeeperHasClaim'
  <2>1. pc'[Keeper] \in {pc[Keeper], "restore"}
    BY <1>2, <1>3, <1>6 DEF Actors
  <2>2. QED BY <1>1, <2>1 DEF KeeperHasClaim
<1>11. OneAcquire'
  <2> SUFFICES ASSUME ~Persistent PROVE OneAcquire'
    BY DEF OneAcquire
  <2>1. a \in Sessions /\ a # Keeper /\ Keeper \in Actors
    BY <1>1, KeeperAssumption DEF OneAcquire, Actors
  <2>2. /\ pc'[Keeper] = pc[Keeper] /\ \A y \in Sessions \ {a} : pc[y] = "idle" /\ pc'[y] = pc[y]
        /\ pc'[a] = "setup" \/ (pc'[a] = "create" /\ n = 4)
    <3>1. n < Len(Setup) \/ (n = Len(Setup) /\ n = 4)
      BY <1>2, <1>3, SetupIs
    <3>2. \A y \in Sessions \ {a} : pc[y] = "idle"
      BY <1>1, <2>1 DEF OneAcquire
    <3>3. CASE n < Len(Setup)
      BY <1>1, <1>6, <3>2, <3>3
    <3>4. CASE n = Len(Setup) /\ n = 4
      BY <1>6, <2>1, <3>2, <3>4 DEF Actors
    <3>5. QED BY <3>1, <3>3, <3>4
  <2>3. HasPod' => Fenced'
    BY <1>1 DEF OneAcquire, HasPod, Fenced
  <2>4. QED BY <1>1, <1>5, <2>1, <2>2, <2>3 DEF OneAcquire
<1>12. QED BY <1>7, <1>8, <1>9, <1>10, <1>11

-----------------------------------------------------------------------------
(* The keeper.                                                             *)

KeeperMove ==
    \/ CheckNamespace(Keeper) \/ SweepStart \/ RestoreStart \/ RestoreFails \/ Decide \/ Put
    \/ \E job \in {"measure", "archive", "restore"} :
          ThrowawayPod(job) \/ ThrowawayRuns(job) \/ ThrowawayFails(job)

(* A throwaway pod is created in a namespace that is there, and an archive *)
(* that was taken in it shows that there is a claim.                       *)
LEMMA KeeperMoves == ASSUME IInv, KeeperMove PROVE IInv'
<1> USE DEF IInv
<1>1. Keeper \in Actors
  BY DEF Actors
<1>2. PICK where \in KeeperPcs \ {"setup"} :
        /\ Go(Keeper, where)
        /\ where \in {"measuring", "archiving", "restoring"} => ns = "active"
        /\ where = "put" => pc[Keeper] = "archiving" /\ phase = "running"
        /\ where = "delete" => pc[Keeper] = "put"
  <2>1. CASE CheckNamespace(Keeper) \/ SweepStart \/ RestoreStart \/ RestoreFails \/ Decide \/ Put
    BY <2>1 DEF CheckNamespace, SweepStart, RestoreStart, RestoreFails, Decide, Put, KeeperPcs
  <2>2. ASSUME NEW job \in {"measure", "archive", "restore"},
               ThrowawayPod(job) \/ ThrowawayRuns(job) \/ ThrowawayFails(job)
        PROVE  \E where \in KeeperPcs \ {"setup"} :
                 /\ Go(Keeper, where)
                 /\ where \in {"measuring", "archiving", "restoring"} => ns = "active"
                 /\ where = "put" => pc[Keeper] = "archiving" /\ phase = "running"
                 /\ where = "delete" => pc[Keeper] = "put"
    <3>1. CASE ThrowawayPod(job)
      BY <3>1 DEF ThrowawayPod, Running, KeeperPcs
    <3>2. CASE ThrowawayRuns(job)
      BY <3>2 DEF ThrowawayRuns, Running, Then, KeeperPcs
    <3>3. CASE ThrowawayFails(job)
      BY <3>3 DEF ThrowawayFails, KeeperPcs
    <3>4. QED BY <2>2, <3>1, <3>2, <3>3
  <2>3. QED BY <2>1, <2>2 DEF KeeperMove
<1>3. UNCHANGED <<ns, made, step>>
  BY DEF KeeperMove, CheckNamespace, SweepStart, RestoreStart, RestoreFails, Decide, Put, ThrowawayPod,
         ThrowawayRuns, ThrowawayFails, clusterVars
<1>4. phase' = "running" => phase = "running"
  BY DEF KeeperMove, CheckNamespace, SweepStart, RestoreStart, RestoreFails, Decide, Put, ThrowawayPod,
         ThrowawayRuns, ThrowawayFails, clusterVars, NewPod
<1>5. pc'[Keeper] = where
  BY <1>1, <1>2 DEF Go, TypeOK
<1>6. Persistent
  <2>1. pc[Keeper] # "idle" \/ row # "none"
    <3>1. CASE CheckNamespace(Keeper) \/ SweepStart \/ RestoreStart \/ RestoreFails \/ Decide \/ Put
      BY <3>1 DEF CheckNamespace, SweepStart, RestoreStart, RestoreFails, Decide, Put
    <3>2. ASSUME NEW job \in {"measure", "archive", "restore"},
                 ThrowawayPod(job) \/ ThrowawayRuns(job) \/ ThrowawayFails(job)
          PROVE  pc[Keeper] # "idle"
      BY <3>2 DEF ThrowawayPod, ThrowawayRuns, ThrowawayFails, Running
    <3>3. QED BY <3>1, <3>2 DEF KeeperMove
  <2>2. QED BY <2>1 DEF OneAcquire
<1>7. TypeOK'
  <2>1. pc' \in [Actors -> SessionPcs \cup KeeperPcs]
    BY <1>1, <1>2 DEF Go, TypeOK
  <2>2. podOf' \in Actors /\ phase' \in {"none", "pending", "running", "failed"} /\ deleting' \in BOOLEAN
    BY <1>1 DEF TypeOK, KeeperMove, CheckNamespace, SweepStart, RestoreStart, RestoreFails, Decide, Put,
           ThrowawayPod, ThrowawayRuns, ThrowawayFails, clusterVars, NewPod, DeletePod, HasPod
  <2>3. ran' \in Actors \cup {"nobody"} /\ due' \in BOOLEAN /\ row' \in {"none", "active", "archived"}
    BY DEF TypeOK, KeeperMove, CheckNamespace, SweepStart, RestoreStart, RestoreFails, Decide, Put,
           ThrowawayPod, ThrowawayRuns, ThrowawayFails, workspaceVars
  <2>4. QED BY <1>3, <2>1, <2>2, <2>3 DEF TypeOK
<1>8. SetupInv'
  BY <1>1, <1>2, <1>3, MoveKeepsSetup
<1>9. RunningHasClaim' /\ OneAcquire'
  BY <1>3, <1>4, <1>6 DEF RunningHasClaim, OneAcquire
<1>10. KeeperHasClaim'
  BY <1>2, <1>3, <1>5 DEF KeeperHasClaim, RunningHasClaim
<1>11. QED BY <1>7, <1>8, <1>9, <1>10

(* Who deletes a workspace's namespace has seen its claim: nobody is still *)
(* setting it up.                                                          *)
LEMMA DeleteVolumeStep == ASSUME IInv, DeleteVolume PROVE IInv'
<1> USE DEF IInv
<1>1. /\ pc[Keeper] = "delete" /\ row' = "archived" /\ Go(Keeper, "idle")
      /\ UNCHANGED <<made, podOf, phase, step, ran, due>>
  BY DEF DeleteVolume
<1>2. Keeper \in Actors /\ Persistent /\ ns = "active" /\ "claim" \in made
  BY <1>1 DEF Actors, OneAcquire, KeeperHasClaim
<1>3. ns' \in {"active", "terminating"} /\ deleting' \in BOOLEAN
  <2>1. CASE DeleteNamespace
    BY <1>2, <2>1 DEF DeleteNamespace, DeletePod, HasPod
  <2>2. CASE UNCHANGED <<ns, deleting>>
    BY <1>2, <2>2 DEF TypeOK
  <2>3. QED BY <2>1, <2>2 DEF DeleteVolume
<1>4. pc'[Keeper] = "idle" /\ \A b \in Actors \ {Keeper} : pc'[b] = pc[b]
  BY <1>1, <1>2 DEF Go, TypeOK
<1>5. TypeOK'
  <2>1. pc' \in [Actors -> SessionPcs \cup KeeperPcs]
    BY <1>1, <1>2 DEF Go, TypeOK, SessionPcs
  <2>2. QED BY <1>1, <1>3, <2>1 DEF TypeOK
<1>6. SetupInv'
  <2>1. \A b \in Actors : pc'[b] # "setup"
    BY <1>2, <1>4 DEF SetupInv, SetupOwned
  <2>2. QED BY <1>1, <1>3, <2>1, NobodySetsUp
<1>7. RunningHasClaim' /\ KeeperHasClaim' /\ OneAcquire'
  BY <1>1, <1>2, <1>4 DEF RunningHasClaim, KeeperHasClaim, OneAcquire
<1>8. QED BY <1>5, <1>6, <1>7

-----------------------------------------------------------------------------
(* Time, the collection of orphans and the cluster.                        *)

LEMMA CollectStep == ASSUME IInv, Collect PROVE IInv'
<1> USE DEF IInv
<1>1. /\ ~Persistent /\ ns = "active" /\ ns' = "terminating" /\ deleting' \in BOOLEAN
      /\ \A x \in Sessions : pc[x] = "idle"
      /\ UNCHANGED <<made, podOf, phase, pc, step, ran, due, row>>
  BY DEF Collect, DeleteNamespace, DeletePod, HasPod, workspaceVars
<1>2. TypeOK'
  BY <1>1 DEF TypeOK
<1>3. SetupInv'
  <2>1. \A a \in Actors : pc'[a] # "setup"
    BY <1>1 DEF OneAcquire, Actors
  <2>2. QED BY <1>1, <2>1, NobodySetsUp
<1>4. RunningHasClaim' /\ KeeperHasClaim' /\ OneAcquire'
  BY <1>1 DEF RunningHasClaim, KeeperHasClaim, OneAcquire, HasPod, Fenced
<1>5. QED BY <1>2, <1>3, <1>4

LEMMA PodSteps == ASSUME IInv, PodStarts \/ PodDies \/ PodGone PROVE IInv'
<1> USE DEF IInv
<1>1. /\ UNCHANGED <<ns, made, pc, step, ran, due, row>>
      /\ phase' = "running" => phase = "running" \/ (Persistent => "claim" \in made)
      /\ HasPod' => HasPod
  BY DEF PodStarts, PodDies, PodGone, HasPod, workspaceVars
<1>2. TypeOK'
  <2>1. podOf' \in Actors /\ phase' \in {"none", "pending", "running", "failed"} /\ deleting' \in BOOLEAN
    BY DEF TypeOK, PodStarts, PodDies, PodGone, Actors
  <2>2. QED BY <1>1, <2>1 DEF TypeOK
<1>3. SetupInv'
  BY <1>1 DEF SetupInv, SetupOwned, SetupAlone, NewIsEmpty, ClaimIsLast, Fenced
<1>4. RunningHasClaim' /\ KeeperHasClaim' /\ OneAcquire'
  BY <1>1 DEF RunningHasClaim, KeeperHasClaim, OneAcquire, Fenced
<1>5. QED BY <1>2, <1>3, <1>4

LEMMA NamespaceGoneStep == ASSUME IInv, NamespaceGone PROVE IInv'
<1> USE DEF IInv
<1>1. /\ ns = "terminating" /\ ~HasPod /\ ns' = "none" /\ made' = {}
      /\ UNCHANGED <<podOf, phase, deleting, pc, step, ran, due, row>>
  BY DEF NamespaceGone, workspaceVars
<1>2. TypeOK'
  BY <1>1 DEF TypeOK
<1>3. SetupInv'
  <2>1. \A a \in Actors : pc'[a] # "setup"
    BY <1>1 DEF SetupInv, SetupOwned
  <2>2. QED BY <1>1, <2>1, NobodySetsUp
<1>4. RunningHasClaim' /\ KeeperHasClaim' /\ OneAcquire'
  BY <1>1 DEF RunningHasClaim, KeeperHasClaim, OneAcquire, HasPod
<1>5. QED BY <1>2, <1>3, <1>4

LEMMA BecomeDueOrStutter == ASSUME IInv, BecomeDue \/ UNCHANGED vars PROVE IInv'
<1> USE DEF IInv
<1>1. /\ UNCHANGED <<ns, made, podOf, phase, deleting, pc, step, ran, row>>
      /\ due' \in BOOLEAN
  BY DEF BecomeDue, vars, clusterVars, workspaceVars, TypeOK
<1>2. TypeOK'
  BY <1>1 DEF TypeOK
<1>3. SetupInv'
  BY <1>1 DEF SetupInv, SetupOwned, SetupAlone, NewIsEmpty, ClaimIsLast, Fenced
<1>4. RunningHasClaim' /\ KeeperHasClaim' /\ OneAcquire'
  BY <1>1 DEF RunningHasClaim, KeeperHasClaim, OneAcquire, HasPod, Fenced
<1>5. QED BY <1>2, <1>3, <1>4

-----------------------------------------------------------------------------

LEMMA NextIInv == IInv /\ [Next]_vars => IInv'
<1> SUFFICES ASSUME IInv, [Next]_vars PROVE IInv'
  OBVIOUS
<1>1. Keeper \in Actors /\ Sessions \subseteq Actors
  BY DEF Actors
<1>2. ASSUME NEW x \in Sessions, Begin(x) \/ Acquire(x) \/ Destroy(x) \/ Crash(x)
      PROVE  IInv'
  BY <1>1, <1>2, SessionMoves, TearDownStep, CreateNamespaceStep, CreatePartStep DEF Acquire
<1>3. CASE SweepStart \/ RestoreStart \/ Keep
  BY <1>1, <1>3, KeeperMoves, DeleteVolumeStep, CreateNamespaceStep, CreatePartStep DEF Keep, KeeperMove
<1>4. CASE Collect \/ Cluster
  BY <1>4, CollectStep, PodSteps, NamespaceGoneStep DEF Cluster
<1>5. CASE BecomeDue \/ UNCHANGED vars
  BY <1>5, BecomeDueOrStutter
<1>6. QED BY <1>2, <1>3, <1>4, <1>5 DEF Next

(* Who is in the middle of the setup of a namespace, whether a session or  *)
(* the keeper, is alone with it, and what it has created is all there      *)
(* before the claim: _ensure_namespace needs no lock.                      *)
THEOREM IInvHolds == Spec => []IInv
  BY InitIInv, NextIInv, PTL DEF Spec

(* No pod runs in a namespace that lacks a policy, the quota or the limits,*)
(* however many sessions find it half made, fail in it or crash in it.     *)
THEOREM ConfinedPods == Spec => []Confined
<1>1. IInv => Confined
  <2> SUFFICES ASSUME IInv, phase = "running" PROVE Fenced
    BY DEF Confined, Fenced, FenceNames
  <2>1. CASE Persistent
    BY <2>1 DEF IInv, RunningHasClaim, SetupInv, ClaimIsLast
  <2>2. CASE ~Persistent
    BY <2>2 DEF IInv, OneAcquire, HasPod
  <2>3. QED BY <2>1, <2>2
<1>2. QED BY <1>1, IInvHolds, PTL

-----------------------------------------------------------------------------
(* The keeper's archive: the command that is answered ran in the pod that  *)
(* is the keeper's own, and until the claim is deleted no other command of *)
(* the keeper is.                                                          *)

LEMMA NextArchived == ASSUME IInv, ArchivedFromClaim, [Next]_vars PROVE ArchivedFromClaim'
<1> USE DEF ArchivedFromClaim
<1>1. Keeper \in Actors /\ pc \in [Actors -> SessionPcs \cup KeeperPcs]
  BY DEF IInv, TypeOK, Actors
<1>2. ASSUME NEW x \in Sessions, Begin(x) \/ Acquire(x) \/ Destroy(x) \/ Crash(x)
      PROVE  ArchivedFromClaim'
  <2>1. x # Keeper
    BY KeeperAssumption
  <2>2. ran' = ran /\ pc'[Keeper] = pc[Keeper]
    BY <1>1, <1>2, <2>1 DEF Acquire, Begin, CheckNamespace, CreateNamespace, CreatePart, ClearStalePod,
           StalePodGone, CreatePod, Ready, AcquireFails, CleanUp, Destroy, Crash, Go
  <2>3. QED BY <2>2
<1>3. ASSUME NEW job \in {"measure", "archive", "restore"}, ThrowawayRuns(job)
      PROVE  ArchivedFromClaim'
  BY <1>3 DEF ThrowawayRuns
<1>4. ASSUME NEW job \in {"measure", "archive", "restore"}, ThrowawayPod(job) \/ ThrowawayFails(job)
      PROVE  ArchivedFromClaim'
  <2>1. pc'[Keeper] \notin {"put", "delete"}
    BY <1>1, <1>4 DEF ThrowawayPod, ThrowawayFails, Running, Go
  <2>2. QED BY <2>1
<1>5. CASE CheckNamespace(Keeper) \/ CreateNamespace(Keeper) \/ RestoreFails \/ Decide \/ SweepStart
           \/ RestoreStart \/ DeleteVolume
  <2>1. pc'[Keeper] \notin {"put", "delete"}
    BY <1>1, <1>5 DEF CheckNamespace, CreateNamespace, RestoreFails, Decide, SweepStart, RestoreStart,
           DeleteVolume, Go
  <2>2. QED BY <2>1
<1>6. CASE CreatePart(Keeper) \/ Put
  <2>1. ran' = ran /\ (pc'[Keeper] \in {"put", "delete"} => pc[Keeper] = "put")
    BY <1>1, <1>6 DEF CreatePart, Put, Go
  <2>2. QED BY <2>1
<1>7. CASE BecomeDue \/ Collect \/ Cluster \/ UNCHANGED vars
  BY <1>7 DEF BecomeDue, Collect, Cluster, PodStarts, PodDies, PodGone, NamespaceGone, vars
<1>8. QED BY <1>2, <1>3, <1>4, <1>5, <1>6, <1>7 DEF Next, Keep

(* An archive that is uploaded, and for which the claim is deleted then,   *)
(* was taken in a pod that mounts the claim, whoever else creates, finds   *)
(* or deletes a pod of its name.                                           *)
THEOREM ArchivesAreOfTheClaim == Spec => []ArchivedFromClaim
<1>1. Init => ArchivedFromClaim
  BY DEF Init, ArchivedFromClaim, Actors
<1>2. IInv /\ ArchivedFromClaim /\ [Next]_vars => ArchivedFromClaim'
  BY NextArchived
<1>3. QED BY <1>1, <1>2, IInvHolds, PTL DEF Spec

-----------------------------------------------------------------------------
(* The parts of MCProvision.                                               *)

(* DockerSandbox and the pooled BatchExec, then the others.                *)
DE == INSTANCE Provision_proofs WITH
    pc <- dockerPc, Sidecars <- 2, SlowAcquire <- FALSE, Faults <- {"start", "health", "crash", "list"},
    Backend <- "kubernetes", Kept <- FALSE, MaxOutput <- 2, MaxMessage <- 2, MaxProduced <- 4,
    ExecFaults <- {"timeout", "killed", "start", "status", "dump"}

DS == INSTANCE Provision_proofs WITH
    pc <- dockerPc, Sandboxes <- {"s"}, Sidecars <- 2, SlowAcquire <- FALSE,
    Faults <- {"start", "health", "daemon", "delete", "crash", "list"},
    Backend <- "docker", Kept <- TRUE, MaxOutput <- 1, MaxMessage <- 1, MaxProduced <- 2,
    ExecFaults <- {"timeout", "status", "fork"}

MCInv ==
    /\ part \in {"kubernetes", "docker", "daemon", "exec", "shared"}
    /\ part = "kubernetes" => IInv
    /\ part = "docker" => DE!GcInv /\ DE!WholeInv
    /\ part = "daemon" => DS!GcInv
    /\ part = "exec" => DE!BatchInv
    /\ part = "shared" => DS!BatchInv

LEMMA InitIsDE ==
  /\ DE!Sound /\ DE!Bounded
  /\ Docker!Init => DE!Init
  /\ Exec!Init => DE!Batch!Init
  BY DEF DE!Sound, DE!Bounded, Docker!Init, DE!Init, Exec!Init, DE!Batch!Init, Exec!Nobody, DE!Batch!Nobody,
     Exec!Unknown, DE!Batch!Unknown

LEMMA InitIsDS ==
  /\ DS!Bounded
  /\ Daemon!Init => DS!Init
  /\ Shared!Init => DS!Batch!Init
  BY DEF DS!Bounded, Daemon!Init, DS!Init, Shared!Init, DS!Batch!Init, Shared!Nobody, DS!Batch!Nobody,
     Shared!Unknown, DS!Batch!Unknown

LEMMA DockerIsDE == Docker!Next \/ UNCHANGED Docker!vars => [DE!Next]_DE!vars
  BY DEF
     Docker!Next, DE!Next, Docker!Gc, DE!Gc, Docker!Work, DE!Work, Docker!RunMain, DE!RunMain, Docker!MainRuns,
     DE!MainRuns, Docker!MainFails, DE!MainFails, Docker!DaemonFails, DE!DaemonFails, Docker!CreateSidecar,
     DE!CreateSidecar, Docker!SidecarHealthy, DE!SidecarHealthy, Docker!SidecarFails, DE!SidecarFails,
     Docker!RemoveSidecar, DE!RemoveSidecar, Docker!RemoveMain, DE!RemoveMain, Docker!DestroyFails,
     DE!DestroyFails, Docker!Destroy, DE!Destroy, Docker!Crash, DE!Crash, Docker!Age, DE!Age, Docker!GcList,
     DE!GcList, Docker!GcChoose, DE!GcChoose, Docker!GcFails, DE!GcFails, Docker!GcShow, DE!GcShow,
     Docker!GcShowFails, DE!GcShowFails, Docker!GcRemoveMain, DE!GcRemoveMain, Docker!GcRemoveSidecar,
     DE!GcRemoveSidecar, Docker!GcEnd, DE!GcEnd, Docker!Proceed, DE!Proceed, Docker!Go, DE!Go, Docker!MayRemain,
     DE!MayRemain, Docker!Remove, DE!Remove, Docker!Of, DE!Of, Docker!Known, DE!Known, Docker!Orphan, DE!Orphan,
     Docker!Main, DE!Main, Docker!Parts, DE!Parts, Docker!Containers, DE!Containers, Docker!ownerVars,
     DE!ownerVars, Docker!gcVars, DE!gcVars, Docker!vars, DE!vars

LEMMA DaemonIsDS == Daemon!Next \/ UNCHANGED Daemon!vars => [DS!Next]_DS!vars
  BY DEF
     Daemon!Next, DS!Next, Daemon!Gc, DS!Gc, Daemon!Work, DS!Work, Daemon!RunMain, DS!RunMain, Daemon!MainRuns,
     DS!MainRuns, Daemon!MainFails, DS!MainFails, Daemon!DaemonFails, DS!DaemonFails, Daemon!CreateSidecar,
     DS!CreateSidecar, Daemon!SidecarHealthy, DS!SidecarHealthy, Daemon!SidecarFails, DS!SidecarFails,
     Daemon!RemoveSidecar, DS!RemoveSidecar, Daemon!RemoveMain, DS!RemoveMain, Daemon!DestroyFails,
     DS!DestroyFails, Daemon!Destroy, DS!Destroy, Daemon!Crash, DS!Crash, Daemon!Age, DS!Age, Daemon!GcList,
     DS!GcList, Daemon!GcChoose, DS!GcChoose, Daemon!GcFails, DS!GcFails, Daemon!GcShow, DS!GcShow,
     Daemon!GcShowFails, DS!GcShowFails, Daemon!GcRemoveMain, DS!GcRemoveMain, Daemon!GcRemoveSidecar,
     DS!GcRemoveSidecar, Daemon!GcEnd, DS!GcEnd, Daemon!Proceed, DS!Proceed, Daemon!Go, DS!Go, Daemon!MayRemain,
     DS!MayRemain, Daemon!Remove, DS!Remove, Daemon!Of, DS!Of, Daemon!Known, DS!Known, Daemon!Orphan, DS!Orphan,
     Daemon!Main, DS!Main, Daemon!Parts, DS!Parts, Daemon!Containers, DS!Containers, Daemon!ownerVars,
     DS!ownerVars, Daemon!gcVars, DS!gcVars, Daemon!vars, DS!vars

LEMMA ExecIsDE == Exec!Next \/ UNCHANGED Exec!vars => [DE!Batch!Next]_DE!Batch!vars
  BY DEF
     Exec!Next, DE!Batch!Next, Exec!Start, DE!Batch!Start, Exec!StartFails, DE!Batch!StartFails, Exec!Output,
     DE!Batch!Output, Exec!End, DE!Batch!End, Exec!Exits, DE!Batch!Exits, Exec!ChildWrites, DE!Batch!ChildWrites, Exec!Kill, DE!Batch!Kill, Exec!Finish, DE!Batch!Finish,
     Exec!NoStatus, DE!Batch!NoStatus, Exec!TimeOut, DE!Batch!TimeOut, Exec!ReadDump, DE!Batch!ReadDump,
     Exec!Release, DE!Batch!Release, Exec!Clean, DE!Batch!Clean, Exec!Go, DE!Batch!Go, Exec!container,
     DE!Batch!container, Exec!outputVars, DE!Batch!outputVars, Exec!resultVars, DE!Batch!resultVars, Exec!vars,
     DE!Batch!vars, Exec!Killed, DE!Batch!Killed, Exec!TimeoutCode, DE!Batch!TimeoutCode, Exec!Unknown,
     DE!Batch!Unknown, Exec!Nobody, DE!Batch!Nobody, Exec!Earlier, DE!Batch!Earlier

LEMMA SharedIsDS == Shared!Next \/ UNCHANGED Shared!vars => [DS!Batch!Next]_DS!Batch!vars
  BY DEF
     Shared!Next, DS!Batch!Next, Shared!Start, DS!Batch!Start, Shared!StartFails, DS!Batch!StartFails,
     Shared!Output, DS!Batch!Output, Shared!End, DS!Batch!End, Shared!Exits, DS!Batch!Exits, Shared!ChildWrites, DS!Batch!ChildWrites, Shared!Kill, DS!Batch!Kill, Shared!Finish,
     DS!Batch!Finish, Shared!NoStatus, DS!Batch!NoStatus, Shared!TimeOut, DS!Batch!TimeOut, Shared!ReadDump,
     DS!Batch!ReadDump, Shared!Release, DS!Batch!Release, Shared!Clean, DS!Batch!Clean, Shared!Go, DS!Batch!Go,
     Shared!container, DS!Batch!container, Shared!outputVars, DS!Batch!outputVars, Shared!resultVars,
     DS!Batch!resultVars, Shared!vars, DS!Batch!vars, Shared!Killed, DS!Batch!Killed, Shared!TimeoutCode,
     DS!Batch!TimeoutCode, Shared!Unknown, DS!Batch!Unknown, Shared!Nobody, DS!Batch!Nobody, Shared!Earlier, DS!Batch!Earlier

LEMMA InitMC == MCInit => MCInv /\ (part = "kubernetes" => ArchivedFromClaim)
<1> SUFFICES ASSUME MCInit PROVE MCInv /\ (part = "kubernetes" => ArchivedFromClaim)
  OBVIOUS
<1>1. IInv /\ ArchivedFromClaim
  BY InitIInv DEF MCInit, Init, ArchivedFromClaim, Actors
<1>2. part = "docker" => DE!GcInv /\ DE!WholeInv
  BY InitIsDE, DE!InitGc, DE!InitWhole DEF MCInit, DE!Sound
<1>3. part = "daemon" => DS!GcInv
  BY InitIsDS, DS!InitGc DEF MCInit
<1>4. part = "exec" => DE!BatchInv
  BY InitIsDE, DE!InitBatch DEF MCInit
<1>5. part = "shared" => DS!BatchInv
  BY InitIsDS, DS!InitBatch DEF MCInit
<1>6. QED BY <1>1, <1>2, <1>3, <1>4, <1>5 DEF MCInv, MCInit

LEMMA NextMC == MCInv /\ [MCNext]_mcVars => MCInv'
<1> SUFFICES ASSUME MCInv, [MCNext]_mcVars PROVE MCInv'
  OBVIOUS
<1>1. part' = part
  BY DEF MCNext, Now, mcVars
<1>2. CASE part = "kubernetes"
  <2>1. [Next]_vars
    BY <1>2 DEF MCNext, Now, mcVars
  <2>2. QED BY <1>1, <1>2, <2>1, NextIInv DEF MCInv
<1>3. CASE part = "docker"
  <2>1. Docker!Next \/ UNCHANGED Docker!vars
    BY <1>3 DEF MCNext, Now, mcVars, onlyDocker, Docker!vars, Docker!ownerVars, Docker!gcVars
  <2>2. [DE!Next]_DE!vars
    BY <2>1, DockerIsDE
  <2>3. DE!GcInv' /\ DE!WholeInv'
    BY <1>3, <2>2, InitIsDE, DE!NextGc, DE!NextWhole DEF MCInv, DE!Sound
  <2>4. QED BY <1>1, <1>3, <2>3 DEF MCInv
<1>4. CASE part = "daemon"
  <2>1. Daemon!Next \/ UNCHANGED Daemon!vars
    BY <1>4 DEF MCNext, Now, mcVars, onlyDocker, Daemon!vars, Daemon!ownerVars, Daemon!gcVars
  <2>2. [DS!Next]_DS!vars
    BY <2>1, DaemonIsDS
  <2>3. DS!GcInv'
    BY <1>4, <2>2, DS!NextGc DEF MCInv
  <2>4. QED BY <1>1, <1>4, <2>3 DEF MCInv
<1>5. CASE part = "exec"
  <2>1. Exec!Next \/ UNCHANGED Exec!vars
    BY <1>5 DEF MCNext, Now, mcVars, onlyExec, Exec!vars, Exec!container, Exec!outputVars, Exec!resultVars
  <2>2. DE!BatchInv'
    BY <1>5, <2>1, ExecIsDE, InitIsDE, DE!NextBatch DEF MCInv
  <2>3. QED BY <1>1, <1>5, <2>2 DEF MCInv
<1>6. CASE part = "shared"
  <2>1. Shared!Next \/ UNCHANGED Shared!vars
    BY <1>6 DEF MCNext, Now, mcVars, onlyExec, Shared!vars, Shared!container, Shared!outputVars, Shared!resultVars
  <2>2. DS!BatchInv'
    BY <1>6, <2>1, SharedIsDS, InitIsDS, DS!NextBatch DEF MCInv
  <2>3. QED BY <1>1, <1>6, <2>2 DEF MCInv
<1>7. QED BY <1>2, <1>3, <1>4, <1>5, <1>6 DEF MCInv

THEOREM MCInvHolds == MCSpec => []MCInv
  BY InitMC, NextMC, PTL DEF MCSpec

(* The type invariants of KubernetesNamespace, DockerSandbox and BatchExec.*)
THEOREM PartsAreTyped == MCSpec => []TypeCorrect
<1>1. MCInv => TypeCorrect
  <2> SUFFICES ASSUME MCInv PROVE TypeCorrect
    OBVIOUS
  <2>1. part = "kubernetes" => TypeOK
    BY DEF MCInv, IInv
  <2>2. part = "docker" => Docker!TypeOK
    <3>1. DE!Containers = Docker!Containers
      BY DEF DE!Containers, Docker!Containers, DE!Parts, Docker!Parts, DE!Main, Docker!Main
    <3>2. DE!TypeOK => Docker!TypeOK
      BY <3>1 DEF DE!TypeOK, Docker!TypeOK
    <3>3. QED BY <3>2 DEF MCInv, DE!GcInv
  <2>3. part = "daemon" => Daemon!TypeOK
    <3>1. DS!Containers = Daemon!Containers
      BY DEF DS!Containers, Daemon!Containers, DS!Parts, Daemon!Parts, DS!Main, Daemon!Main
    <3>2. DS!TypeOK => Daemon!TypeOK
      BY <3>1 DEF DS!TypeOK, Daemon!TypeOK
    <3>3. QED BY <3>2 DEF MCInv, DS!GcInv
  <2>4. part = "exec" => Exec!TypeOK
    BY DEF MCInv, DE!BatchInv, DE!OutputInv, DE!Batch!TypeOK, Exec!TypeOK, DE!Batch!Nobody, Exec!Nobody,
       DE!Batch!Codes, Exec!Codes, DE!Batch!Unknown, Exec!Unknown, DE!Batch!Killed, Exec!Killed,
       DE!Batch!TimeoutCode, Exec!TimeoutCode, DE!Batch!Earlier, Exec!Earlier
  <2>5. part = "shared" => Shared!TypeOK
    BY DEF MCInv, DS!BatchInv, DS!OutputInv, DS!Batch!TypeOK, Shared!TypeOK, DS!Batch!Nobody, Shared!Nobody,
       DS!Batch!Codes, Shared!Codes, DS!Batch!Unknown, Shared!Unknown, DS!Batch!Killed, Shared!Killed,
       DS!Batch!TimeoutCode, Shared!TimeoutCode, DS!Batch!Earlier, Shared!Earlier
  <2>6. QED BY <2>1, <2>2, <2>3, <2>4, <2>5 DEF MCInv, TypeCorrect
<1>2. QED BY <1>1, MCInvHolds, PTL

(* NothingIsStranded, of what the run explores.                            *)
THEOREM NothingStrandedHolds == MCSpec => []NothingStranded
<1>1. MCInv => NothingStranded
  <2> SUFFICES ASSUME MCInv, part = "docker" PROVE Docker!SidecarsHaveMain /\ Docker!FailedLeavesNothing
    BY DEF NothingStranded
  <2>1. DE!SidecarsHaveMain /\ DE!FailedLeavesNothing
    BY InitIsDE, DE!WholeIsStranded DEF MCInv
  <2>2. QED BY <2>1 DEF DE!SidecarsHaveMain, DE!FailedLeavesNothing, Docker!SidecarsHaveMain,
            Docker!FailedLeavesNothing, DE!Of, Docker!Of, DE!Main, Docker!Main
<1>2. QED BY <1>1, MCInvHolds, PTL

(* LiveIsSparedAlways, of what the run explores.                           *)
THEOREM LiveIsSparedHolds == MCSpec => LiveIsSpared
<1>1. MCInv /\ [MCNext]_mcVars => [part = "daemon" => Daemon!SparesLive]_mcVars
  <2> SUFFICES ASSUME MCInv, MCNext, part = "daemon" PROVE Daemon!SparesLive
    BY DEF mcVars
  <2>1. [DS!Next]_DS!vars
    BY DaemonIsDS DEF MCNext, Now
  <2>2. [DS!SparesLive]_DS!vars
    BY <2>1, DS!NextSparesLive DEF MCInv
  <2>3. DS!SparesLive
    BY <2>2 DEF DS!SparesLive, DS!vars, DS!Of
  <2>4. QED BY <2>3 DEF DS!SparesLive, Daemon!SparesLive, DS!Of, Daemon!Of
<1>2. QED BY <1>1, MCInvHolds, PTL DEF MCSpec, LiveIsSpared

(* OutputIsHonest, ExitIsHonest and VariablesAreOwn, of what the run       *)
(* explores: variables of a run that has written them, in a container      *)
(* whose programs leave no process behind.                                 *)
THEOREM ResultHonestHolds == MCSpec => []ResultHonest
<1>1. MCInv => ResultHonest
  <2> SUFFICES ASSUME MCInv PROVE ResultHonest
    OBVIOUS
  <2>1. ASSUME part = "exec" PROVE Exec!OutputHonest /\ Exec!ExitHonest /\ Exec!WrittenVariablesOwn
    <3>1. DE!Batch!OutputHonest /\ DE!Batch!ExitHonest /\ DE!Batch!WrittenVariablesOwn
      BY <2>1 DEF MCInv, DE!BatchInv, DE!OutputInv, DE!ExitInv, DE!SoloInv, DE!Solo
    <3>2. QED BY <3>1 DEF DE!Batch!OutputHonest, DE!Batch!ExitHonest, DE!Batch!WrittenVariablesOwn, Exec!OutputHonest,
              Exec!ExitHonest, Exec!WrittenVariablesOwn, DE!Batch!TimeoutCode, Exec!TimeoutCode, DE!Batch!Killed,
              Exec!Killed, DE!Batch!Nobody, Exec!Nobody
  <2>2. part = "shared" => Shared!OutputHonest
    BY DEF MCInv, DS!BatchInv, DS!OutputInv, DS!Batch!OutputHonest, Shared!OutputHonest
  <2>3. QED BY <2>1, <2>2 DEF ResultHonest
<1>2. QED BY <1>1, MCInvHolds, PTL
==============================================================================
