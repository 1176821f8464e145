--------------------------- MODULE Provision_proofs ---------------------------
(***************************************************************************)
(* Theorems about DockerSandbox, for any number of sandboxes and sidecars, *)
(* and about BatchExec (as Batch), for any number of runs and any limits.  *)
(*                                                                         *)
(* The orphan GC decides on what it has read before.  It is right because  *)
(* a sandbox that is old and in no row when it starts is nobody's until    *)
(* all that was listed of it is gone: its id is not used before.  An       *)
(* acquire that is slower than the grace period would break that, and is   *)
(* excluded.                                                               *)
(***************************************************************************)
EXTENDS DockerSandbox, TLAPS

Working == {"starting", "sidecars", "health", "undo"}

(* What is old has a main container and is in nobody's acquire.            *)
AgedIsThere == \A s \in aged : <<s, Main>> \in exists /\ pc[s] \notin Working

GcAtRest == gcPc = "idle" => suspects = {} /\ unseen = {} /\ found = {} /\ victim = {}

(* A suspect of which a container is listed is nobody's.                   *)
SuspectsAreNobodys ==
    \A s \in suspects, k \in Parts : <<s, k>> \in unseen \cup found => pc[s] \in {"idle", "lost"}

VictimWasFound == \A s \in victim : s \in suspects /\ unseen = {} /\ <<s, Main>> \in found

SidecarIsOne == \A s \in Sandboxes : pc[s] \in {"sidecars", "health"} => at[s] <= Sidecars

GcInv == TypeOK /\ AgedIsThere /\ GcAtRest /\ SuspectsAreNobodys /\ VictimWasFound /\ SidecarIsOne

-----------------------------------------------------------------------------

LEMMA InitGc == ASSUME Sidecars \in Nat, Init PROVE GcInv
<1>1. 1 \in 1 .. Sidecars + 1
  OBVIOUS
<1>2. TypeOK
  BY <1>1 DEF Init, TypeOK
<1>3. QED
  BY <1>2 DEF Init, GcInv, AgedIsThere, GcAtRest, SuspectsAreNobodys, VictimWasFound, SidecarIsOne

(* The owner's steps leave what the GC knows as it is.                     *)
Owner(s) == RunMain(s) \/ Work(s) \/ Destroy(s) \/ Crash(s) \/ Age(s)

LEMMA OwnerType == ASSUME Sidecars \in Nat, GcInv, NEW s \in Sandboxes, Owner(s) PROVE TypeOK'
<1> USE DEF GcInv
<1>1. \A k \in Parts : <<s, k>> \in Containers
  BY DEF Containers
<1>2. Main \in Parts /\ 1 \in 1 .. Sidecars + 1
  BY DEF Main, Parts
<1>3. pc[s] \in {"sidecars", "health"} => at[s] \in 1 .. Sidecars /\ at[s] \in Parts /\ at[s] + 1 \in 1 .. Sidecars + 1
  BY DEF SidecarIsOne, TypeOK, Parts, Main
<1>4. QED
  BY <1>1, <1>2, <1>3 DEF TypeOK, Owner, RunMain, Work, MainRuns, Proceed, MainFails, DaemonFails, CreateSidecar,
     SidecarHealthy, SidecarFails, RemoveSidecar, RemoveMain, DestroyFails, Destroy, Crash, Age, Go, MayRemain, Remove,
     gcVars, ownerVars

LEMMA OwnerKeepsGc ==
  ASSUME Sidecars \in Nat, ~SlowAcquire, GcInv, NEW s \in Sandboxes, Owner(s)
  PROVE  GcInv'
<1> USE DEF GcInv
<1>1. TypeOK'
  BY OwnerType
<1>2. gcVars' = gcVars /\ \A r \in Sandboxes \ {s} : pc'[r] = pc[r] /\ at'[r] = at[r]
  BY DEF TypeOK, Owner, RunMain, Work, MainRuns, Proceed, MainFails, DaemonFails, CreateSidecar, SidecarHealthy,
     SidecarFails, RemoveSidecar, RemoveMain, DestroyFails, Destroy, Crash, Age, Go, ownerVars
<1>3. AgedIsThere'
  <2>1. \A r \in Sandboxes \ {s} : <<r, Main>> \in exists => <<r, Main>> \in exists'
    BY DEF Owner, RunMain, Work, MainRuns, Proceed, MainFails, DaemonFails, CreateSidecar, SidecarHealthy,
       SidecarFails, RemoveSidecar, RemoveMain, DestroyFails, Destroy, Crash, Age, MayRemain, Remove
  <2>2. aged' \subseteq aged \cup {s} /\ (s \in aged' => <<s, Main>> \in exists' /\ pc'[s] \notin Working)
    BY DEF TypeOK, AgedIsThere, Owner, RunMain, Work, MainRuns, Proceed, MainFails, DaemonFails, CreateSidecar,
       SidecarHealthy, SidecarFails, RemoveSidecar, RemoveMain, DestroyFails, Destroy, Crash, Age, MayRemain, Remove,
       Go, Of, Working, Main, Parts, ownerVars
  <2>3. QED BY <1>2, <2>1, <2>2 DEF AgedIsThere, TypeOK
<1>4. SuspectsAreNobodys'
  <2>1. pc[s] \in {"idle", "lost"} => pc'[s] \in {"idle", "lost"} \/ Known(s) = {}
    BY DEF TypeOK, Owner, RunMain, Work, MainRuns, Proceed, MainFails, DaemonFails, CreateSidecar, SidecarHealthy,
       SidecarFails, RemoveSidecar, RemoveMain, DestroyFails, Destroy, Crash, Age, Go, ownerVars
  <2>2. Known(s) = {} => \A k \in Parts : <<s, k>> \notin unseen \cup found
    BY DEF Known
  <2>3. QED BY <1>2, <2>1, <2>2 DEF SuspectsAreNobodys, TypeOK, gcVars
<1>5. GcAtRest' /\ VictimWasFound'
  BY <1>2 DEF GcAtRest, VictimWasFound, gcVars
<1>6. SidecarIsOne'
  <2>1. pc'[s] \in {"sidecars", "health"} => at'[s] <= Sidecars
    BY DEF TypeOK, SidecarIsOne, Owner, RunMain, Work, MainRuns, Proceed, MainFails, DaemonFails, CreateSidecar,
       SidecarHealthy, SidecarFails, RemoveSidecar, RemoveMain, DestroyFails, Destroy, Crash, Age, Go, ownerVars
  <2>2. QED BY <1>2, <2>1 DEF SidecarIsOne
<1>7. QED BY <1>1, <1>3, <1>4, <1>5, <1>6

(* The GC's own steps.  What it remembers of a suspect only gets less.     *)
LEMMA GcKeepsGc == ASSUME Sidecars \in Nat, GcInv, Gc PROVE GcInv'
<1> USE DEF GcInv
<1>1. CASE GcList
  <2>1. SuspectsAreNobodys'
    BY <1>1 DEF GcList, SuspectsAreNobodys, AgedIsThere, TypeOK, Working, ownerVars
  <2>2. QED BY <1>1, <2>1 DEF GcList, TypeOK, AgedIsThere, GcAtRest, VictimWasFound, SidecarIsOne, ownerVars
<1>2. ASSUME GcEnd, UNCHANGED <<exists, ownerVars, aged>> PROVE GcInv'
  BY <1>2 DEF GcEnd, TypeOK, AgedIsThere, GcAtRest, SuspectsAreNobodys, VictimWasFound, SidecarIsOne, ownerVars
<1>3. CASE GcChoose
  <2>1. CASE \E s \in Sandboxes : Orphan(s)
    <3>1. PICK s \in Sandboxes : Orphan(s) /\ victim' = {s}
      BY <1>3, <2>1 DEF GcChoose
    <3>2. QED
      BY <1>3, <2>1, <3>1 DEF GcChoose, Orphan, TypeOK, AgedIsThere, GcAtRest, SuspectsAreNobodys, VictimWasFound,
         SidecarIsOne, ownerVars
  <2>2. QED BY <1>2, <1>3, <2>1 DEF GcChoose
<1>4. CASE GcFails
  BY <1>2, <1>4 DEF GcFails
<1>5. ASSUME NEW c \in Containers, GcShow(c) \/ GcShowFails(c) PROVE GcInv'
  <2>1. CASE GcShow(c)
    BY <2>1 DEF GcShow, TypeOK, AgedIsThere, GcAtRest, SuspectsAreNobodys, VictimWasFound, SidecarIsOne, ownerVars
  <2>2. QED BY <1>2, <1>5, <2>1 DEF GcShowFails
<1>6. ASSUME NEW s \in Sandboxes, NEW k \in 1 .. Sidecars, GcRemoveSidecar(s, k) PROVE GcInv'
  <2>1. \A r \in Sandboxes : <<r, Main>> # <<s, k>>
    BY DEF Main
  <2>2. QED
    BY <1>6, <2>1 DEF GcRemoveSidecar, MayRemain, Remove, TypeOK, AgedIsThere, GcAtRest, SuspectsAreNobodys,
       VictimWasFound, SidecarIsOne, ownerVars
<1>7. ASSUME NEW s \in Sandboxes, GcRemoveMain(s) PROVE GcInv'
  <2>1. pc' = [pc EXCEPT ![s] = IF @ = "lost" THEN "idle" ELSE @] /\ UNCHANGED <<at, refs, gcPc, suspects, unseen>>
        /\ exists' = exists \ {<<s, Main>>} /\ found' = found \ {<<s, Main>>} /\ aged' = aged \ {s} /\ victim' = {}
    BY <1>7 DEF GcRemoveMain, Remove
  <2>2. TypeOK'
    BY <2>1 DEF TypeOK
  <2>3. AgedIsThere' /\ SidecarIsOne' /\ SuspectsAreNobodys'
    BY <2>1 DEF TypeOK, AgedIsThere, SidecarIsOne, SuspectsAreNobodys, Working
  <2>4. GcAtRest' /\ VictimWasFound'
    BY <2>1 DEF GcAtRest, VictimWasFound
  <2>5. QED BY <2>2, <2>3, <2>4
<1>8. QED BY <1>1, <1>3, <1>4, <1>5, <1>6, <1>7 DEF Gc

LEMMA NextGc == Sidecars \in Nat /\ ~SlowAcquire /\ GcInv /\ [Next]_vars => GcInv'
<1> SUFFICES ASSUME Sidecars \in Nat, ~SlowAcquire, GcInv, [Next]_vars PROVE GcInv'
  OBVIOUS
<1>1. CASE UNCHANGED vars
  BY <1>1 DEF vars, ownerVars, gcVars, GcInv, TypeOK, AgedIsThere, GcAtRest, SuspectsAreNobodys, VictimWasFound,
     SidecarIsOne
<1>2. QED BY <1>1, OwnerKeepsGc, GcKeepsGc DEF Next, Owner

(* Only the GC takes anything from a sandbox that stays live, and it does  *)
(* so only to its victim.                                                  *)
LEMMA NextSparesLive == ASSUME Sidecars \in Nat, GcInv, Next PROVE SparesLive
<1> SUFFICES ASSUME NEW s \in Sandboxes, pc[s] = "live", pc'[s] = "live" PROVE Of(s) \subseteq exists'
  BY DEF SparesLive
<1> USE DEF GcInv
<1>1. ASSUME NEW r \in Sandboxes, Owner(r) PROVE Of(s) \subseteq exists'
  <2>1. CASE r # s
    BY <1>1, <2>1 DEF Of, Owner, RunMain, Work, MainRuns, Proceed, MainFails, DaemonFails, CreateSidecar, SidecarHealthy,
       SidecarFails, RemoveSidecar, RemoveMain, DestroyFails, Destroy, Crash, Age, MayRemain, Remove
  <2>2. CASE r = s
    BY <1>1, <2>2 DEF Of, Owner, RunMain, Work, MainRuns, Proceed, MainFails, DaemonFails, CreateSidecar, SidecarHealthy,
       SidecarFails, RemoveSidecar, RemoveMain, DestroyFails, Destroy, Crash, Age
  <2>3. QED BY <2>1, <2>2
<1>2. s \notin victim
  <2>1. Main \in Parts
    BY DEF Main, Parts
  <2>2. QED BY <2>1 DEF VictimWasFound, SuspectsAreNobodys
<1>3. CASE Gc
  <2>1. CASE UNCHANGED exists
    BY <2>1 DEF Of
  <2>2. ASSUME NEW r \in victim, NEW k, exists' = exists \ {<<r, k>>} PROVE Of(s) \subseteq exists'
    BY <1>2, <2>2 DEF Of
  <2>3. QED
    BY <1>3, <2>1, <2>2 DEF Gc, GcList, GcChoose, GcFails, GcShow, GcShowFails, GcRemoveMain, GcRemoveSidecar,
       MayRemain, Remove
<1>4. QED BY <1>1, <1>3 DEF Next, Owner

-----------------------------------------------------------------------------
(* Where neither the daemon nor a removal fails.                           *)

(* An owner who is done has left nothing.                                  *)
IdleIsBare == \A s \in Sandboxes : pc[s] = "idle" => \A k \in Parts : <<s, k>> \notin exists

(* An owner knows its sidecars, and removes them from the first to the     *)
(* last.                                                                   *)
SidecarsAreKnown ==
    \A s \in Sandboxes, k \in 1 .. Sidecars :
        <<s, k>> \in exists =>
            /\ pc[s] # "lost" => k \in refs[s]
            /\ pc[s] \in {"undo", "destroy"} => at[s] <= k

StartsBare == \A s \in Sandboxes : pc[s] = "starting" => refs[s] = {}

MainIsThere == \A s \in Sandboxes, k \in Parts : <<s, k>> \in exists => <<s, Main>> \in exists

(* Of a suspect everything was listed.                                     *)
AllIsListed ==
    \A s \in suspects : Known(s) # {} =>
        \A k \in Parts : <<s, k>> \in exists => <<s, k>> \in unseen \cup found

WholeInv == IdleIsBare /\ SidecarsAreKnown /\ StartsBare /\ MainIsThere /\ AllIsListed

Sound == Sidecars \in Nat /\ ~SlowAcquire /\ {"daemon", "delete"} \cap Faults = {}

LEMMA InitWhole == ASSUME Sidecars \in Nat, Init PROVE WholeInv
  BY DEF Init, WholeInv, IdleIsBare, SidecarsAreKnown, StartsBare, MainIsThere, AllIsListed

LEMMA PartsAre ==
  ASSUME Sidecars \in Nat
  PROVE  /\ Main \in Parts /\ Parts = {Main} \cup 1 .. Sidecars /\ Main \notin 1 .. Sidecars
  BY DEF Main, Parts

(* An owner removes main when no sidecar is left.                          *)
LEMMA OwnerKeepsWhole ==
  ASSUME Sound, GcInv, WholeInv, NEW s \in Sandboxes, Owner(s)
  PROVE  WholeInv'
<1> USE DEF GcInv, WholeInv, Sound
<1>1. /\ gcVars' = gcVars
      /\ \A r \in Sandboxes \ {s} : pc'[r] = pc[r] /\ at'[r] = at[r] /\ refs'[r] = refs[r]
      /\ \A r \in Sandboxes \ {s}, k \in Parts : <<r, k>> \in exists' <=> <<r, k>> \in exists
  BY DEF TypeOK, Owner, RunMain, Work, MainRuns, Proceed, MainFails, DaemonFails, CreateSidecar, SidecarHealthy,
     SidecarFails, RemoveSidecar, RemoveMain, DestroyFails, Destroy, Crash, Age, Go, MayRemain, Remove, ownerVars
<1>2. StartsBare'
  <2>1. pc'[s] = "starting" => refs'[s] = {}
    BY DEF TypeOK, StartsBare, Owner, RunMain, Work, MainRuns, Proceed, MainFails, DaemonFails, CreateSidecar,
       SidecarHealthy, SidecarFails, RemoveSidecar, RemoveMain, DestroyFails, Destroy, Crash, Age, Go, ownerVars
  <2>2. QED BY <1>1, <2>1 DEF StartsBare
<1>3. /\ pc'[s] = "idle" => \A k \in Parts : <<s, k>> \notin exists'
      /\ \A k \in 1 .. Sidecars :
            <<s, k>> \in exists' => (pc'[s] # "lost" => k \in refs'[s]) /\ (pc'[s] \in {"undo", "destroy"} => at'[s] <= k)
      /\ \A k \in Parts : <<s, k>> \in exists' => <<s, Main>> \in exists'
  <2>0. \A k \in 1 .. Sidecars : <<s, Main>> # <<s, k>>
    BY PartsAre
  <2>1. CASE RunMain(s)
    <3>1. \A k \in Parts : <<s, k>> \notin exists
      BY <2>1 DEF RunMain, IdleIsBare
    <3>2. pc'[s] = "starting" /\ exists' = exists \cup {<<s, Main>>}
      BY <2>1 DEF RunMain, Go, TypeOK
    <3>3. QED BY <2>0, <3>1, <3>2, PartsAre
  <2>2. CASE MainRuns(s) \/ SidecarHealthy(s) \/ SidecarFails(s) \/ Destroy(s) \/ Crash(s) \/ Age(s) \/ DestroyFails(s)
    <3>1. exists' = exists /\ refs' = refs
      BY <2>2 DEF MainRuns, SidecarHealthy, Proceed, SidecarFails, Destroy, Crash, Age, DestroyFails, ownerVars
    <3>2. /\ pc'[s] = "idle" => pc[s] = "idle"
          /\ pc[s] = "lost" => pc'[s] = "lost"
          /\ pc'[s] \in {"undo", "destroy"} => at'[s] = 1 \/ (at'[s] = at[s] /\ pc'[s] = pc[s])
      BY <2>2 DEF MainRuns, SidecarHealthy, Proceed, SidecarFails, Destroy, Crash, Age, DestroyFails, ownerVars, Go, TypeOK
    <3>3. QED BY <3>1, <3>2 DEF IdleIsBare, SidecarsAreKnown, MainIsThere
  <2>3. CASE MainFails(s)
    <3>1. pc[s] = "starting" /\ exists' = exists \ {<<s, Main>>} /\ refs[s] = {}
      BY <2>3 DEF MainFails, MayRemain, Remove, StartsBare
    <3>2. \A k \in Parts : <<s, k>> \notin exists'
      BY <3>1, PartsAre DEF SidecarsAreKnown
    <3>3. QED BY <3>2, PartsAre
  <2>4. CASE CreateSidecar(s)
    <3>1. /\ <<s, Main>> \in exists /\ exists' = exists \cup {<<s, at[s]>>}
          /\ refs'[s] = refs[s] \cup {at[s]} /\ pc'[s] = "health" /\ pc[s] = "sidecars"
      BY <2>4 DEF CreateSidecar, Go, TypeOK
    <3>2. QED BY <3>1 DEF SidecarsAreKnown
  <2>5. CASE RemoveSidecar(s)
    <3>1. /\ pc[s] \in {"undo", "destroy"} /\ at[s] \in 1 .. Sidecars /\ at'[s] = at[s] + 1 /\ pc' = pc /\ refs' = refs
          /\ exists' = exists \ {<<s, at[s]>>}
      BY <2>5 DEF RemoveSidecar, TypeOK, MayRemain, Remove, SidecarsAreKnown
    <3>2. \A k \in 1 .. Sidecars : <<s, k>> \in exists' => k # at[s] /\ <<s, k>> \in exists
      BY <3>1
    <3>3. ASSUME NEW k \in 1 .. Sidecars, <<s, k>> \in exists' PROVE at[s] + 1 <= k
      <4>1. at[s] <= k /\ k # at[s]
        BY <3>1, <3>2, <3>3 DEF SidecarsAreKnown
      <4>2. QED BY <3>1, <4>1
    <3>4. QED BY <2>0, <3>1, <3>2, <3>3 DEF SidecarsAreKnown, MainIsThere
  <2>6. CASE RemoveMain(s)
    <3>1. /\ pc[s] \in {"undo", "destroy"} /\ at[s] > Sidecars /\ at[s] \in Nat
          /\ exists' = exists \ {<<s, Main>>} /\ pc'[s] = "idle"
      BY <2>6 DEF RemoveMain, Remove, Go, TypeOK
    <3>2. \A k \in 1 .. Sidecars : <<s, k>> \notin exists
      BY <3>1 DEF SidecarsAreKnown
    <3>3. \A k \in Parts : <<s, k>> \notin exists'
      BY <3>1, <3>2, PartsAre
    <3>4. QED BY <3>3, PartsAre
  <2>7. ~DaemonFails(s)
    BY DEF DaemonFails
  <2>8. QED BY <2>1, <2>2, <2>3, <2>4, <2>5, <2>6, <2>7 DEF Owner, Work
<1>4. IdleIsBare' /\ SidecarsAreKnown' /\ MainIsThere'
  <2>1. IdleIsBare' /\ MainIsThere'
    BY <1>1, <1>3, PartsAre DEF IdleIsBare, MainIsThere
  <2>2. ASSUME NEW r \in Sandboxes \ {s}, NEW k \in 1 .. Sidecars, <<r, k>> \in exists'
        PROVE  (pc'[r] # "lost" => k \in refs'[r]) /\ (pc'[r] \in {"undo", "destroy"} => at'[r] <= k)
    <3>1. k \in Parts
      BY PartsAre
    <3>2. <<r, k>> \in exists /\ pc'[r] = pc[r] /\ at'[r] = at[r] /\ refs'[r] = refs[r]
      BY <1>1, <2>2, <3>1
    <3>3. QED BY <3>2 DEF SidecarsAreKnown
  <2>3. ASSUME NEW k \in 1 .. Sidecars, <<s, k>> \in exists'
        PROVE  (pc'[s] # "lost" => k \in refs'[s]) /\ (pc'[s] \in {"undo", "destroy"} => at'[s] <= k)
    BY <1>3, <2>3, Zenon
  <2>4. SidecarsAreKnown'
    BY <2>2, <2>3 DEF SidecarsAreKnown
  <2>5. QED BY <2>1, <2>4
<1>5. AllIsListed'
  <2>1. s \in suspects /\ Known(s) # {} => exists' = exists
    BY DEF Known, SuspectsAreNobodys, TypeOK, Containers, Owner, RunMain, Work, MainRuns, MainFails, DaemonFails, CreateSidecar,
       SidecarHealthy, SidecarFails, RemoveSidecar, RemoveMain, DestroyFails, Destroy, Crash, Age
  <2>2. \A r \in Sandboxes : Known(r)' = Known(r)
    BY <1>1 DEF Known, gcVars
  <2>3. suspects' = suspects /\ unseen' = unseen /\ found' = found
    BY <1>1 DEF gcVars
  <2>4. QED BY <1>1, <2>1, <2>2, <2>3 DEF AllIsListed, TypeOK
<1>6. QED BY <1>2, <1>4, <1>5

(* The GC removes the containers of a suspect, and main when it has found  *)
(* no other.                                                               *)
LEMMA GcKeepsWhole == ASSUME Sound, GcInv, WholeInv, Gc PROVE WholeInv'
<1> USE DEF GcInv, WholeInv, Sound
<1>1. CASE GcList
  <2>1. \A s \in suspects', k \in Parts : <<s, k>> \in exists' => <<s, k>> \in unseen' \cup found'
    BY <1>1 DEF GcList
  <2>2. AllIsListed'
    BY <2>1 DEF AllIsListed
  <2>3. QED BY <1>1, <2>2 DEF GcList, ownerVars, IdleIsBare, SidecarsAreKnown, StartsBare, MainIsThere
<1>2. ASSUME GcEnd \/ GcChoose, UNCHANGED <<exists, ownerVars, aged>> PROVE WholeInv'
  <2>1. suspects' = {} \/ (suspects' = suspects /\ unseen' = unseen /\ found' = found)
    BY <1>2 DEF GcEnd, GcChoose
  <2>2. AllIsListed'
    BY <1>2, <2>1 DEF AllIsListed, Known
  <2>3. QED BY <1>2, <2>2 DEF ownerVars, IdleIsBare, SidecarsAreKnown, StartsBare, MainIsThere
<1>3. CASE GcChoose \/ GcFails
  BY <1>2, <1>3 DEF GcChoose, GcFails
<1>4. ASSUME NEW c \in Containers, GcShow(c) \/ GcShowFails(c) PROVE WholeInv'
  <2>1. CASE GcShow(c)
    <3>1. unseen' \cup found' = unseen \cup found /\ suspects' = suspects /\ exists' = exists /\ ownerVars' = ownerVars
      BY <2>1 DEF GcShow
    <3>2. \A s \in Sandboxes : Known(s)' = Known(s)
      BY <3>1 DEF Known
    <3>3. AllIsListed'
      BY <3>1, <3>2 DEF AllIsListed, TypeOK
    <3>4. QED BY <3>1, <3>3 DEF ownerVars, IdleIsBare, SidecarsAreKnown, StartsBare, MainIsThere
  <2>2. QED BY <1>2, <1>4, <2>1 DEF GcShowFails
<1>5. ASSUME NEW s \in Sandboxes, NEW k \in 1 .. Sidecars, GcRemoveSidecar(s, k) PROVE WholeInv'
  <2>1. /\ exists' = exists \ {<<s, k>>} /\ found' = found \ {<<s, k>>}
        /\ UNCHANGED <<ownerVars, suspects, unseen, victim>>
    BY <1>5 DEF GcRemoveSidecar, MayRemain, Remove
  <2>2. IdleIsBare' /\ SidecarsAreKnown' /\ StartsBare'
    BY <2>1 DEF ownerVars, IdleIsBare, SidecarsAreKnown, StartsBare
  <2>3. MainIsThere'
    BY <2>1, PartsAre DEF MainIsThere
  <2>4. AllIsListed'
    <3>1. \A r : Known(r)' \subseteq Known(r)
      BY <2>1 DEF Known
    <3>2. QED BY <2>1, <3>1 DEF AllIsListed
  <2>5. QED BY <2>2, <2>3, <2>4
<1>6. ASSUME NEW s \in Sandboxes, GcRemoveMain(s) PROVE WholeInv'
  <2>1. /\ exists' = exists \ {<<s, Main>>} /\ found' = found \ {<<s, Main>>} /\ s \in victim
        /\ UNCHANGED <<at, refs, suspects, unseen>>
        /\ pc' = [pc EXCEPT ![s] = IF @ = "lost" THEN "idle" ELSE @]
        /\ \A k \in 1 .. Sidecars : <<s, k>> \notin found
    BY <1>6 DEF GcRemoveMain, Remove
  <2>2. s \in suspects /\ unseen = {} /\ <<s, Main>> \in found /\ pc[s] \in {"idle", "lost"}
    BY <2>1, PartsAre DEF VictimWasFound, SuspectsAreNobodys
  <2>3. \A k \in Parts : <<s, k>> \notin exists'
    <3>1. <<s, Main>> \in Known(s)
      BY <2>2 DEF Known
    <3>2. \A k \in 1 .. Sidecars : <<s, k>> \notin exists
      BY <2>1, <2>2, <3>1, PartsAre DEF AllIsListed
    <3>3. QED BY <2>1, <3>2, PartsAre
  <2>4. pc'[s] = "idle" /\ \A r \in Sandboxes \ {s} : pc'[r] = pc[r]
    BY <2>1, <2>2 DEF TypeOK
  <2>5. IdleIsBare' /\ StartsBare' /\ MainIsThere'
    BY <2>1, <2>3, <2>4 DEF IdleIsBare, StartsBare, MainIsThere
  <2>6. SidecarsAreKnown'
    BY <2>1, <2>3, <2>4, PartsAre DEF SidecarsAreKnown
  <2>7. AllIsListed'
    <3>1. \A r : Known(r)' \subseteq Known(r)
      BY <2>1 DEF Known
    <3>2. QED BY <2>1, <2>3, <3>1 DEF AllIsListed
  <2>8. QED BY <2>5, <2>6, <2>7
<1>7. QED BY <1>1, <1>3, <1>4, <1>5, <1>6 DEF Gc

LEMMA NextWhole == Sound /\ GcInv /\ WholeInv /\ [Next]_vars => WholeInv'
<1> SUFFICES ASSUME Sound, GcInv, WholeInv, [Next]_vars PROVE WholeInv'
  OBVIOUS
<1>1. CASE UNCHANGED vars
  BY <1>1 DEF vars, ownerVars, gcVars, WholeInv, IdleIsBare, SidecarsAreKnown, StartsBare, MainIsThere, AllIsListed, Known
<1>2. QED BY <1>1, OwnerKeepsWhole, GcKeepsWhole DEF Next, Owner

LEMMA WholeIsStranded == ASSUME Sound, GcInv, WholeInv PROVE SidecarsHaveMain /\ FailedLeavesNothing
<1>1. ASSUME NEW c \in exists PROVE <<c[1], Main>> \in exists /\ pc[c[1]] # "idle"
  <2>1. c[1] \in Sandboxes /\ c[2] \in Parts /\ <<c[1], c[2]>> \in exists
    BY DEF GcInv, TypeOK, Containers
  <2>2. QED BY <2>1 DEF WholeInv, MainIsThere, IdleIsBare
<1>2. QED BY <1>1 DEF SidecarsHaveMain, FailedLeavesNothing, Of

(* Where all that can go wrong is an acquire, the listing or the process,  *)
(* no sidecar is ever without its main, and a failed acquire leaves        *)
(* nothing.                                                                *)
THEOREM NothingIsStranded == Sound => (Spec => [](SidecarsHaveMain /\ FailedLeavesNothing))
<1> SUFFICES ASSUME Sound PROVE Spec => [](SidecarsHaveMain /\ FailedLeavesNothing)
  OBVIOUS
<1>1. Init => GcInv /\ WholeInv
  BY InitGc, InitWhole DEF Sound
<1>2. GcInv /\ WholeInv /\ [Next]_vars => GcInv' /\ WholeInv'
  BY NextGc, NextWhole DEF Sound
<1>3. GcInv /\ WholeInv => SidecarsHaveMain /\ FailedLeavesNothing
  BY WholeIsStranded
<1>4. QED BY <1>1, <1>2, <1>3, PTL DEF Spec

(* Whatever fails, the orphan GC takes nothing from a live sandbox, which  *)
(* it may have listed as a suspect's before.                               *)
THEOREM LiveIsSparedAlways == Sidecars \in Nat /\ ~SlowAcquire => (Spec => LiveIsSpared)
<1> SUFFICES ASSUME Sidecars \in Nat, ~SlowAcquire PROVE Spec => LiveIsSpared
  OBVIOUS
<1>1. Init => GcInv
  BY InitGc
<1>2. GcInv /\ [Next]_vars => GcInv'
  BY NextGc
<1>3. GcInv /\ [Next]_vars => [SparesLive]_vars
  BY NextSparesLive
<1>4. QED BY <1>1, <1>2, <1>3, PTL DEF Spec, LiveIsSpared

-----------------------------------------------------------------------------
(* exec_batch.                                                             *)

CONSTANTS Runs, Backend, Kept, MaxOutput, MaxMessage, MaxProduced, ExecFaults

VARIABLES dump, wrote, alive, children, ended, execPc, produced, buffered, truncated, timedOut, exit, variables

Batch == INSTANCE BatchExec WITH pc <- execPc, Faults <- ExecFaults

Bounded == MaxOutput \in Nat /\ MaxMessage \in Nat \ {0} /\ MaxProduced \in Nat

OutputInv == Batch!TypeOK /\ Batch!OutputHonest /\ \A r \in Runs : buffered[r] <= produced[r]

(* A run that is being answered and has not timed out has no process.      *)
ExitInv ==
    /\ \A r \in Runs : execPc[r] \in {"idle", "exec"} => ~timedOut[r]
    /\ \A r \in Runs : execPc[r] \in {"dump", "done"} /\ ~timedOut[r] => r \notin alive
    /\ Backend # "docker" => Batch!ExitHonest

(* In a pooled container: one run at a time, whose process is the only     *)
(* one, and whose file stays as it wrote it.                               *)
SoloInv ==
    /\ \A q, r \in Runs : execPc[q] # "idle" /\ execPc[r] # "idle" => q = r
    /\ \A r \in alive : execPc[r] # "idle"
    /\ children = {} /\ alive \cap wrote = {}
    /\ \A r \in wrote : execPc[r] \in {"exec", "dump", "done"} => dump = r
    /\ Batch!WrittenVariablesOwn

Solo == ~Kept /\ "fork" \notin ExecFaults

BatchInv == OutputInv /\ ExitInv /\ (Solo => SoloInv)

LEMMA InitBatch == ASSUME Bounded, Batch!Init PROVE BatchInv
  BY DEF Bounded, Batch!Init, BatchInv, OutputInv, ExitInv, SoloInv, Batch!TypeOK, Batch!OutputHonest, Batch!ExitHonest,
     Batch!WrittenVariablesOwn, Batch!Unknown

BatchStep(r) ==
    \/ Batch!Start(r) \/ Batch!StartFails(r) \/ (\E n \in 1 .. MaxMessage : Batch!Output(r, n))
    \/ Batch!End(r) \/ Batch!Kill(r) \/ Batch!Finish(r) \/ Batch!NoStatus(r) \/ Batch!TimeOut(r)
    \/ Batch!ReadDump(r) \/ Batch!Release(r)

LEMMA BatchType == ASSUME Bounded, OutputInv, NEW r \in Runs, BatchStep(r) PROVE Batch!TypeOK'
<1> USE DEF Bounded, OutputInv, Batch!TypeOK, Batch!container, Batch!outputVars, Batch!resultVars, Batch!Go, Batch!Codes,
        Batch!Killed, Batch!TimeoutCode, Batch!Unknown
<1>1. CASE \E n \in 1 .. MaxMessage : Batch!Output(r, n)
  <2>1. PICK n \in 1 .. MaxMessage : Batch!Output(r, n)
    BY <1>1
  <2>2. produced[r] + n \in 0 .. MaxProduced /\ buffered[r] + n \in 0 .. MaxProduced
    BY <2>1 DEF Batch!Output
  <2>3. UNCHANGED <<dump, wrote, alive, children, ended, execPc, timedOut, exit, variables>>
    BY <2>1 DEF Batch!Output
  <2>4. produced' \in [Runs -> 0 .. MaxProduced]
    BY <2>1, <2>2 DEF Batch!Output
  <2>5. buffered' \in [Runs -> 0 .. MaxProduced] /\ truncated' \in [Runs -> BOOLEAN]
    <3>1. \/ buffered' = [buffered EXCEPT ![r] = buffered[r] + n] /\ truncated' = truncated
          \/ truncated' = [truncated EXCEPT ![r] = TRUE] /\ buffered' = buffered
      BY <2>1 DEF Batch!Output
    <3>2. CASE truncated' = truncated
      BY <2>2, <3>1, <3>2
    <3>3. CASE buffered' = buffered /\ truncated' = [truncated EXCEPT ![r] = TRUE]
      <4>1. truncated \in [Runs -> BOOLEAN] /\ buffered \in [Runs -> 0 .. MaxProduced]
        OBVIOUS
      <4>2. QED BY <3>3, <4>1
    <3>4. QED BY <3>1, <3>2, <3>3
  <2>6. QED BY <2>3, <2>4, <2>5
<1>2. CASE Batch!Release(r)
  BY <1>2 DEF Batch!Release
<1>3. CASE Batch!Start(r) \/ Batch!StartFails(r) \/ Batch!End(r) \/ Batch!Kill(r)
  BY <1>3 DEF Batch!Start, Batch!StartFails, Batch!End, Batch!Kill, Batch!Exits
<1>4. CASE Batch!Finish(r) \/ Batch!TimeOut(r)
  <2>1. CASE Batch!Finish(r)
    BY <2>1 DEF Batch!Finish
  <2>2. CASE Batch!TimeOut(r)
    BY <2>2 DEF Batch!TimeOut
  <2>3. QED BY <1>4, <2>1, <2>2
<1>5. CASE Batch!NoStatus(r)
  BY <1>5 DEF Batch!NoStatus
<1>6. CASE Batch!ReadDump(r)
  BY <1>6 DEF Batch!ReadDump
<1>7. QED BY <1>1, <1>2, <1>3, <1>4, <1>5, <1>6 DEF BatchStep

(* A message is kept whole or not at all.                                  *)
LEMMA BatchOutput ==
  ASSUME Bounded, OutputInv, NEW r \in Runs, BatchStep(r)
  PROVE  Batch!OutputHonest' /\ \A q \in Runs : buffered'[q] <= produced'[q]
<1> USE DEF Bounded, OutputInv, Batch!TypeOK, Batch!OutputHonest, Batch!outputVars
<1>1. CASE \E n \in 1 .. MaxMessage : Batch!Output(r, n)
  BY <1>1 DEF Batch!Output
<1>2. CASE Batch!Release(r)
  BY <1>2 DEF Batch!Release
<1>3. QED
  BY <1>1, <1>2 DEF BatchStep, Batch!Start, Batch!StartFails, Batch!End, Batch!Kill, Batch!Finish, Batch!NoStatus,
     Batch!TimeOut, Batch!ReadDump

LEMMA BatchExit == ASSUME OutputInv, ExitInv, NEW r \in Runs, BatchStep(r) PROVE ExitInv'
<1> USE DEF OutputInv, Batch!TypeOK, ExitInv, Batch!ExitHonest, Batch!container, Batch!resultVars, Batch!Go
<1>1. CASE Batch!Start(r) \/ Batch!StartFails(r) \/ (\E n \in 1 .. MaxMessage : Batch!Output(r, n))
  BY <1>1 DEF Batch!Start, Batch!StartFails, Batch!Output
<1>2. CASE Batch!End(r) \/ Batch!Kill(r)
  BY <1>2 DEF Batch!End, Batch!Kill, Batch!Exits
<1>3. CASE Batch!Finish(r) \/ Batch!NoStatus(r) \/ Batch!TimeOut(r) \/ Batch!ReadDump(r)
  BY <1>3 DEF Batch!Finish, Batch!NoStatus, Batch!TimeOut, Batch!ReadDump
<1>4. CASE Batch!Release(r)
  BY <1>4 DEF Batch!Release
<1>5. QED BY <1>1, <1>2, <1>3, <1>4 DEF BatchStep

LEMMA BatchSolo ==
  ASSUME OutputInv, ExitInv, SoloInv, Solo, NEW r \in Runs, BatchStep(r)
  PROVE  SoloInv'
<1> USE DEF Solo, OutputInv, Batch!TypeOK, ExitInv, SoloInv, Batch!WrittenVariablesOwn, Batch!container, Batch!resultVars,
        Batch!Go
<1>1. CASE Batch!Start(r) \/ Batch!StartFails(r)
  BY <1>1 DEF Batch!Start, Batch!StartFails
<1>2. CASE (\E n \in 1 .. MaxMessage : Batch!Output(r, n)) \/ Batch!End(r) \/ Batch!Kill(r)
  <2>1. UNCHANGED <<execPc, timedOut, variables, children>>
    BY <1>2 DEF Batch!Output, Batch!End, Batch!Kill
  <2>2. \/ UNCHANGED <<dump, wrote, alive>>
        \/ /\ r \in alive /\ alive' = alive \ {r}
           /\ \/ dump' = r /\ wrote' = wrote \cup {r}
              \/ wrote' = wrote
    BY <1>2 DEF Batch!Output, Batch!End, Batch!Kill, Batch!Exits
  <2>3. QED BY <2>1, <2>2
<1>3. CASE Batch!Finish(r) \/ Batch!NoStatus(r) \/ Batch!TimeOut(r)
  BY <1>3 DEF Batch!Finish, Batch!NoStatus, Batch!TimeOut
<1>4. CASE Batch!ReadDump(r)
  BY <1>4 DEF Batch!ReadDump
<1>5. CASE Batch!Release(r)
  <2>1. execPc' = [execPc EXCEPT ![r] = "idle"] /\ \A q \in Runs : execPc'[q] = "idle"
    BY <1>5 DEF Batch!Release
  <2>2. alive' = {} /\ children' = {}
    BY <1>5 DEF Batch!Release, Batch!Clean
  <2>3. \A q \in Runs : execPc'[q] \notin {"exec", "dump", "done"}
    BY <2>1
  <2>4. \A q \in wrote' : q \in Runs
    BY <1>5 DEF Batch!Release
  <2>5. QED BY ONLY <2>1, <2>2, <2>3, <2>4 DEF SoloInv, Batch!WrittenVariablesOwn
<1>6. QED BY <1>1, <1>2, <1>3, <1>4, <1>5 DEF BatchStep

LEMMA NextBatch == Bounded /\ BatchInv /\ [Batch!Next]_Batch!vars => BatchInv'
<1> SUFFICES ASSUME Bounded, BatchInv, [Batch!Next]_Batch!vars PROVE BatchInv'
  OBVIOUS
<1>1. ASSUME NEW r \in Runs, BatchStep(r) PROVE BatchInv'
  BY <1>1, BatchType, BatchOutput, BatchExit, BatchSolo DEF BatchInv, OutputInv
<1>2. CASE UNCHANGED Batch!vars
  BY <1>2 DEF Batch!vars, Batch!container, Batch!outputVars, Batch!resultVars, BatchInv, OutputInv, ExitInv, SoloInv,
     Batch!TypeOK, Batch!OutputHonest, Batch!ExitHonest, Batch!WrittenVariablesOwn
<1>3. ASSUME NEW r \in Runs \cup {Batch!Earlier}, Batch!ChildWrites(r) PROVE BatchInv'
  <2>1. /\ r \in children /\ dump' = r
        /\ UNCHANGED <<wrote, alive, children, ended, execPc, produced, buffered, truncated, timedOut, exit, variables>>
    BY <1>3 DEF Batch!ChildWrites, Batch!outputVars, Batch!resultVars
  <2>2. OutputInv' /\ ExitInv'
    BY <2>1 DEF BatchInv, OutputInv, ExitInv, Batch!TypeOK, Batch!OutputHonest, Batch!ExitHonest
  <2>3. ~Solo
    BY <2>1 DEF BatchInv, SoloInv
  <2>4. QED BY <2>2, <2>3 DEF BatchInv, Solo
<1>4. QED BY <1>1, <1>2, <1>3 DEF Batch!Next, BatchStep

(* Whatever the limits and however many runs share the sandbox, a result   *)
(* that is not marked truncated has all the output.                        *)
THEOREM OutputIsHonest == Bounded => (Batch!Spec => []Batch!OutputHonest)
<1> SUFFICES ASSUME Bounded PROVE Batch!Spec => []Batch!OutputHonest
  OBVIOUS
<1>1. BatchInv => Batch!OutputHonest
  BY DEF BatchInv, OutputInv
<1>2. QED BY <1>1, InitBatch, NextBatch, PTL DEF Batch!Spec

(* On Kubernetes, whose lost exit status is an error, the reported exit    *)
(* code is the process's own, or the timeout's.                            *)
THEOREM ExitIsHonest == Bounded /\ Backend # "docker" => (Batch!Spec => []Batch!ExitHonest)
<1> SUFFICES ASSUME Bounded, Backend # "docker" PROVE Batch!Spec => []Batch!ExitHonest
  OBVIOUS
<1>1. BatchInv => Batch!ExitHonest
  BY DEF BatchInv, ExitInv
<1>2. QED BY <1>1, InitBatch, NextBatch, PTL DEF Batch!Spec

(* In a pooled container, whose programs leave no process behind, a run    *)
(* that has written its variables is reported with them or with none: no   *)
(* process of an earlier run is there to write the file in between.  A run *)
(* that has not written the file is reported with an earlier run's:        *)
(* EndedVariablesOwn does not hold.                                        *)
THEOREM VariablesAreOwn == Bounded /\ Solo => (Batch!Spec => []Batch!WrittenVariablesOwn)
<1> SUFFICES ASSUME Bounded, Solo PROVE Batch!Spec => []Batch!WrittenVariablesOwn
  OBVIOUS
<1>1. BatchInv => Batch!WrittenVariablesOwn
  BY DEF BatchInv, SoloInv
<1>2. QED BY <1>1, InitBatch, NextBatch, PTL DEF Batch!Spec
==============================================================================
