--------------------- MODULE MCWorkspaceRetention_proofs ---------------------
(***************************************************************************)
(* The theorems of WorkspaceRetention_proofs, carried over to the          *)
(* instances that the run explores; P is that module for the constants of  *)
(* the instance "purge".                                                   *)
(***************************************************************************)
EXTENDS MCWorkspaceRetention, WorkspaceRetention_proofs

P == INSTANCE WorkspaceRetention_proofs WITH
    Files <- OneFile, Backend <- "kubernetes", Restoring <- FALSE,
    Overlaps <- {"create"}, Faults <- {"acquire", "sweep", "delete"}

LEMMA PurgingIsP ==
  /\ Purging!vars = P!vars
  /\ Purging!Next => P!Next
<1>1. Purging!vars = P!vars
  BY DEF Purging!vars, P!vars, Purging!rowVars, P!rowVars, Purging!dataVars, P!dataVars,
     Purging!sessionVars, P!sessionVars, Purging!sweepVars, P!sweepVars
<1>2. Purging!Next => P!Next
  BY DEF Purging!Next, P!Next, Purging!Session, P!Session, Purging!Find, P!Find, Purging!FindNone,
     P!FindNone, Purging!Begin, P!Begin, Purging!MayBegin, P!MayBegin, Purging!Mount, P!Mount,
     Purging!CommitCreate, P!CommitCreate, Purging!CreateFails, P!CreateFails, Purging!End, P!End,
     Purging!Destroy, P!Destroy, Purging!Work, P!Work, Purging!Finish, P!Finish, Purging!Restore, P!Restore,
     Purging!Sweep, P!Sweep, Purging!SweepStart, P!SweepStart, Purging!SweepCollides, P!SweepCollides,
     Purging!SweepSkip, P!SweepSkip, Purging!SweepArchive, P!SweepArchive, Purging!SweepPut, P!SweepPut,
     Purging!SweepDelete, P!SweepDelete, Purging!SweepDeleteSuppressed, P!SweepDeleteSuppressed,
     Purging!SweepPurge, P!SweepPurge, Purging!SweepCommit, P!SweepCommit, Purging!SweepFails, P!SweepFails,
     Purging!SweepEnd, P!SweepEnd, Purging!TimePasses, P!TimePasses, Purging!Workspaces, P!Workspaces,
     Purging!AnyWorkspace, P!AnyWorkspace, Purging!RowsOf, P!RowsOf, Purging!On, P!On, Purging!Mounting,
     P!Mounting, Purging!WithoutPod, P!WithoutPod, Purging!Live, P!Live, Purging!TwoLive, P!TwoLive,
     Purging!IdleFor, P!IdleFor, Purging!RetentionOver, P!RetentionOver, Purging!PastGrace, P!PastGrace,
     Purging!Due, P!Due, Purging!Purgeable, P!Purgeable, Purging!PodFree, P!PodFree, Purging!rowVars,
     P!rowVars, Purging!dataVars, P!dataVars, Purging!sessionVars, P!sessionVars, Purging!sweepVars,
     P!sweepVars, Purging!vars, P!vars
<1> QED BY <1>1, <1>2

(* The inductive invariants, each in its instance.                         *)
MCInv ==
    /\ instance = "docker" => TypeOK /\ (Undisturbed => KeptInv)
    /\ instance = "purge" => P!TypeOK /\ P!DeletionInv

LEMMA InitMCInv == MCInit => MCInv
<1> SUFFICES ASSUME Init PROVE TypeOK /\ KeptInv /\ P!TypeOK /\ P!DeletionInv
  BY DEF MCInit, MCInv
<1>1. P!Init
  BY DEF Init, P!Init, Workspaces, P!Workspaces, AnyWorkspace, P!AnyWorkspace
<1> QED BY <1>1, InitTypeOK, InitKeptInv, P!InitTypeOK, P!InitDeletionInv,
         SomeWorkspace, SwitchAssumption, RetentionAssumption

LEMMA NextMCInv == MCInv /\ [MCNext]_mcVars => MCInv'
<1> SUFFICES ASSUME MCInv, [MCNext]_mcVars PROVE MCInv'
  OBVIOUS
<1>1. ASSUME instance = "docker" PROVE MCInv'
  <2>1. [Next]_vars /\ instance' = "docker"
    BY <1>1 DEF MCNext, In, mcVars
  <2>2. TypeOK /\ (Undisturbed => KeptInv)
    BY <1>1 DEF MCInv
  <2>3. TypeOK' /\ (Undisturbed => KeptInv')
    BY <2>1, <2>2, NextTypeOK, NextKeptInv
  <2> QED BY <2>1, <2>3 DEF MCInv, Undisturbed, Workspaces
<1>2. ASSUME instance = "purge" PROVE MCInv'
  <2>1. [P!Next]_P!vars /\ instance' = "purge"
    <3>1. CASE MCNext
      BY <1>2, <3>1, PurgingIsP DEF MCNext, In
    <3>2. CASE UNCHANGED mcVars
      BY <1>2, <3>2 DEF mcVars, vars, P!vars, rowVars, P!rowVars, dataVars, P!dataVars,
         sessionVars, P!sessionVars, sweepVars, P!sweepVars
    <3> QED BY <3>1, <3>2
  <2>2. P!TypeOK /\ P!DeletionInv
    BY <1>2 DEF MCInv
  <2>3. P!TypeOK' /\ P!DeletionInv'
    BY <2>1, <2>2, P!NextTypeOK, P!NextDeletionInv, SomeWorkspace, SwitchAssumption, RetentionAssumption
  <2> QED BY <2>1, <2>3 DEF MCInv
<1>3. ASSUME instance \notin {"docker", "purge"} PROVE MCInv'
  <2>1. instance' = instance
    BY <1>3 DEF MCNext, In, mcVars
  <2> QED BY <1>3, <2>1 DEF MCInv
<1> QED BY <1>1, <1>2, <1>3

LEMMA MCInvHolds == MCSpec => []MCInv
BY InitMCInv, NextMCInv, PTL DEF MCSpec

(* VariablesAreTyped, of what the run explores.                            *)
THEOREM TypesHold == MCSpec => []TypeCorrect
<1>1. MCInv => TypeCorrect
  BY DEF MCInv, TypeCorrect, P!TypeOK, Purging!TypeOK, P!Workspaces, Purging!Workspaces
<1> QED BY <1>1, MCInvHolds, PTL

(* FilesAreKept, of what the run explores.                                 *)
THEOREM NothingLostHolds == Undisturbed /\ MCSpec => []NothingLostOnDocker
<1> SUFFICES ASSUME Undisturbed PROVE MCSpec => []NothingLostOnDocker
  OBVIOUS
<1>1. MCInv => NothingLostOnDocker
  BY KeptInvImplies DEF MCInv, NothingLostOnDocker
<1> QED BY <1>1, MCInvHolds, PTL

(* DeletionsAreLate, of what the run explores.                             *)
THEOREM DeletedOnlyPastGraceHolds == MCSpec => DeletedOnlyPastGrace
<1>1. MCInv /\ [MCNext]_mcVars => [instance = "purge" => Purging!DeletesOnlyPastGrace]_mcVars
  <2> SUFFICES ASSUME MCInv, MCNext, instance = "purge" PROVE Purging!DeletesOnlyPastGrace
    BY DEF mcVars
  <2>1. [P!Next]_P!vars
    BY PurgingIsP DEF MCNext, In
  <2>2. P!DeletesOnlyPastGrace
    BY <2>1, P!NextDeletes, SomeWorkspace, SwitchAssumption, RetentionAssumption DEF MCInv
  <2> QED BY <2>2 DEF P!DeletesOnlyPastGrace, Purging!DeletesOnlyPastGrace, P!PastGrace, Purging!PastGrace,
       P!IdleFor, Purging!IdleFor, P!Live, Purging!Live, P!On, Purging!On, P!Workspaces, Purging!Workspaces
<1> QED BY <1>1, MCInvHolds, PTL DEF MCSpec, DeletedOnlyPastGrace

==============================================================================
