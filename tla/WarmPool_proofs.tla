--------------------------- MODULE WarmPool_proofs ---------------------------
(***************************************************************************)
(* Theorems about WarmPool, for any number of requests and containers, any *)
(* pool target, and any of the faults.                                     *)
(*                                                                         *)
(* ClaimExclusive is not inductive: that a claim cannot hit a container    *)
(* somebody holds follows from what the rows say about the holders, so the *)
(* invariant IInv adds how `held' agrees with `pc' and `live', which of    *)
(* the held containers still have a row, and that nobody holds what the    *)
(* tick has acquired.                                                      *)
(*                                                                         *)
(* That what is on offer exists needs to know what the clock and the GC    *)
(* have in their sights.  The pool's bound counts what is in flight to it  *)
(* as well, and the last section shows that the steps are those of         *)
(* ContainerOwnership.                                                     *)
(***************************************************************************)
EXTENDS WarmPool, FiniteSetTheorems, TLAPS

(* Where a request is decides whether it holds a container.                *)
HeldAgrees ==
    \A r \in Requests :
        /\ pc[r] \in {"held", "ran", "recycled", "disposed"} => held[r] \in Containers
        /\ pc[r] \in {"acquire", "missed"} => held[r] = NoContainer /\ ~claimed[r]
        /\ pc[r] = "idle" /\ r \notin live => held[r] = NoContainer /\ ~claimed[r]
        /\ r \in live => pc[r] = "idle" /\ held[r] \in Containers

(* A held container that still has a row is its holder's open claim.       *)
RowsAreClaims ==
    \A r \in Requests : held[r] \in pool => claimed[r] /\ pc[r] # "idle"

(* What the tick has acquired and not committed, nobody has.               *)
TopUpFresh ==
    /\ topUp \cap pool = {}
    /\ \A r \in Requests : held[r] \notin topUp

IInv == TypeOK /\ ClaimExclusive /\ HeldAgrees /\ RowsAreClaims /\ TopUpFresh

InWorkspace(c) == <<c, "workspace">> \in dirty

(* What a run left in a workspace is in the container of a request that is *)
(* between its run and its _release_or_destroy.                            *)
DirtyIsRunning ==
    \A c \in Containers : InWorkspace(c) => \E r \in Requests : pc[r] = "ran" /\ held[r] = c

InFlightFresh(r) == pc[r] \in {"held", "ran", "recycled"} /\ ~claimed[r]
LiveFresh(r) == r \in live /\ ~claimed[r]

(* Neither the clock nor the orphan GC has a fresh container in its sights *)
(* before its row is committed, nor the GC after it listed the rows.       *)
FreshSpared ==
    \A r \in Requests :
        /\ InFlightFresh(r) => held[r] \in up /\ held[r] \notin aged \cup doomed
        /\ LiveFresh(r) => /\ held[r] \in up
                           /\ tickPc = "reap" => held[r] \notin doomed

-----------------------------------------------------------------------------
(* The initial state, and one lemma per group of actions.                  *)

LEMMA InitIInv == Init => IInv
  BY ContainerAssumption
  DEF Init, IInv, TypeOK, ClaimExclusive, HeldAgrees, RowsAreClaims, TopUpFresh, RequestPc, TickPc

(* A committed set of members is finite, so counting it gives a number.    *)
LEMMA PoolFinite == TypeOK => IsFiniteSet(pool) /\ Cardinality(pool) \in Nat
  BY ContainerAssumption, FS_Subset, FS_CardinalityType DEF TypeOK

(* Steps of a request that change neither what it holds nor any row.       *)
LEMMA QuietSteps ==
  ASSUME IInv, NEW r \in Requests,
         \/ Start(r) \/ Miss(r) \/ AcquireFails(r) \/ Run(r) \/ Recycle(r)
         \/ RecycleFails(r) \/ DestroyHeld(r) \/ DestroyHeldFails(r)
         \/ HookFails(r) \/ DbFails(r)
  PROVE  IInv'
<1>1. /\ UNCHANGED <<pool, live, held, claimed, tickVars>>
      /\ \E label \in RequestPc : Goto(r, label)
  BY DEF Start, Miss, AcquireFails, Run, Recycle, RecycleFails, DestroyHeld, DestroyHeldFails,
         HookFails, DbFails, RequestPc
<1>2. TypeOK'
  BY <1>1 DEF IInv, TypeOK, Goto, tickVars, Start, Miss, AcquireFails, Run, Recycle,
         RecycleFails, DestroyHeld, DestroyHeldFails, HookFails, DbFails, Remove, RequestPc
<1>3. ClaimExclusive'
  BY <1>1 DEF IInv, ClaimExclusive
<1>4. HeldAgrees'
  BY <1>1 DEF IInv, TypeOK, HeldAgrees, Goto, Start, Miss, AcquireFails, Run, Recycle,
         RecycleFails, DestroyHeld, DestroyHeldFails, HookFails, DbFails
<1>5. RowsAreClaims'
  BY <1>1 DEF IInv, TypeOK, RowsAreClaims, HeldAgrees, Goto, Start, Miss, AcquireFails, Run,
         Recycle, RecycleFails, DestroyHeld, DestroyHeldFails, HookFails, DbFails
<1>6. TopUpFresh'
  BY <1>1 DEF IInv, TopUpFresh, tickVars
<1>7. QED BY <1>2, <1>3, <1>4, <1>5, <1>6 DEF IInv

(* try_claim takes a row nobody has locked: its container has no holder.   *)
LEMMA ClaimStep ==
  ASSUME IInv, NEW r \in Requests, Claim(r)
  PROVE  IInv'
<1> USE DEF IInv
<1>1. PICK c \in Claimable : held' = [held EXCEPT ![r] = c]
  BY DEF Claim
<1>2. c \in pool /\ c \in Containers /\ c # NoContainer
  BY ContainerAssumption DEF Claimable, TypeOK
<1>3. \A q \in Requests : held[q] # c
  BY <1>1, <1>2 DEF Claimable, Locked, RowsAreClaims
<1>4. TypeOK'
  BY <1>1, <1>2 DEF TypeOK, Claim, Goto, RequestPc, tickVars
<1>5. ClaimExclusive'
  BY <1>1, <1>2, <1>3 DEF ClaimExclusive, TypeOK
<1>6. HeldAgrees'
  BY <1>1, <1>2 DEF HeldAgrees, TypeOK, Claim, Goto
<1>7. RowsAreClaims'
  BY <1>1, <1>2 DEF RowsAreClaims, TypeOK, Claim, Goto
<1>8. TopUpFresh'
  BY <1>1, <1>2 DEF TopUpFresh, TypeOK, Claim, tickVars
<1>9. QED BY <1>4, <1>5, <1>6, <1>7, <1>8

LEMMA AcquireFreshStep ==
  ASSUME IInv, NEW r \in Requests, AcquireFresh(r)
  PROVE  IInv'
<1> USE DEF IInv
<1>1. PICK c \in Unused : Appear(c) /\ held' = [held EXCEPT ![r] = c]
  BY DEF AcquireFresh
<1>2. /\ c \in Containers /\ c # NoContainer /\ c \notin pool /\ c \notin topUp
      /\ \A q \in Requests : held[q] # c
  BY <1>1, ContainerAssumption DEF Unused, InUse
<1>3. TypeOK'
  BY <1>1, <1>2 DEF TypeOK, AcquireFresh, Appear, Goto, RequestPc, tickVars
<1>4. ClaimExclusive'
  BY <1>1, <1>2 DEF ClaimExclusive, TypeOK
<1>5. HeldAgrees'
  BY <1>1, <1>2 DEF HeldAgrees, TypeOK, AcquireFresh, Goto
<1>6. RowsAreClaims'
  BY <1>1, <1>2 DEF RowsAreClaims, TypeOK, AcquireFresh, Goto
<1>7. TopUpFresh'
  BY <1>1, <1>2 DEF TopUpFresh, TypeOK, AcquireFresh, tickVars
<1>8. QED BY <1>3, <1>4, <1>5, <1>6, <1>7

(* execute's commit lists r's container and r lets go of it in one step.   *)
LEMMA CommitExecuteStep ==
  ASSUME IInv, NEW r \in Requests, CommitExecute(r)
  PROVE  IInv'
<1> USE DEF IInv
<1>1. held[r] \in Containers /\ held[r] # NoContainer
  BY ContainerAssumption DEF HeldAgrees, CommitExecute
<1>2. pool' \subseteq pool \cup {held[r]}
  BY DEF CommitExecute
<1>3. TypeOK'
  BY <1>1, <1>2 DEF TypeOK, CommitExecute, Forget, RequestPc, tickVars
<1>4. /\ held' = [held EXCEPT ![r] = NoContainer]
      /\ claimed' = [claimed EXCEPT ![r] = FALSE]
      /\ pc' = [pc EXCEPT ![r] = "idle"]
      /\ UNCHANGED <<live, topUp>>
  BY DEF CommitExecute, Forget, tickVars
<1>5. ClaimExclusive'
  BY <1>4 DEF ClaimExclusive, TypeOK
<1>6. HeldAgrees'
  BY <1>4 DEF HeldAgrees, TypeOK, CommitExecute
<1>7. RowsAreClaims'
  BY <1>1, <1>2, <1>4, <1>3, ContainerAssumption DEF RowsAreClaims, TypeOK, ClaimExclusive
<1>8. TopUpFresh'
  <2>1. topUp' \cap pool' = {}
    BY <1>2, <1>4 DEF TopUpFresh
  <2>2. \A q \in Requests : held'[q] \notin topUp'
    BY <1>4, ContainerAssumption DEF TopUpFresh, TypeOK
  <2>3. QED BY <2>1, <2>2 DEF TopUpFresh
<1>9. QED BY <1>3, <1>5, <1>6, <1>7, <1>8

(* create_sandbox's commit deletes the row of what it claimed, if it did.  *)
LEMMA CommitCreateStep ==
  ASSUME IInv, NEW r \in Requests, CommitCreate(r)
  PROVE  IInv'
<1> USE DEF IInv, CommitCreate
<1>1. TypeOK'
  BY DEF TypeOK, Goto, RequestPc, tickVars
<1>2. ClaimExclusive'
  BY DEF ClaimExclusive
<1>3. HeldAgrees'
  BY DEF HeldAgrees, TypeOK, Goto
<1>4. RowsAreClaims'
  BY ContainerAssumption DEF RowsAreClaims, TypeOK, Goto, HeldAgrees
<1>5. TopUpFresh'
  BY DEF TopUpFresh, tickVars
<1>6. QED BY <1>1, <1>2, <1>3, <1>4, <1>5

(* Rollback, a crash and destroy_sandbox end with r holding nothing.       *)
LEMMA ForgetSteps ==
  ASSUME IInv, NEW r \in Requests,
         Rollback(r) \/ Crash(r) \/ DestroySandbox(r)
  PROVE  IInv'
<1> USE DEF IInv, Rollback, Crash, DestroySandbox, Forget
<1>1. TypeOK'
  BY DEF TypeOK, RequestPc, Remove, tickVars
<1>2. ClaimExclusive'
  BY DEF ClaimExclusive, TypeOK
<1>3. HeldAgrees'
  BY DEF HeldAgrees, TypeOK
<1>4. RowsAreClaims'
  BY ContainerAssumption DEF RowsAreClaims, TypeOK
<1>5. TopUpFresh'
  BY ContainerAssumption DEF TopUpFresh, TypeOK, tickVars
<1>6. QED BY <1>1, <1>2, <1>3, <1>4, <1>5

LEMMA TickSteps ==
  ASSUME IInv, Tick
  PROVE  IInv'
<1> USE DEF IInv
<1>1. UNCHANGED <<live, pc, kind, poolable, held, claimed, outcome>>
  BY DEF Tick, TickStart, TickAcquire, TickAcquireFails, TickCommit, GcList, GcDestroy,
         TickDone, TickAborts, requestVars
<1>2. pool' = pool \/ (TickCommit /\ pool' = pool \cup topUp)
  BY DEF Tick, TickStart, TickAcquire, TickAcquireFails, TickCommit, GcList, GcDestroy,
         TickDone, TickAborts
<1>3. topUp' \subseteq topUp \/ \E c \in Unused : topUp' = topUp \cup {c} /\ pool' = pool
  BY DEF Tick, TickStart, TickAcquire, TickAcquireFails, TickCommit, GcList, GcDestroy,
         TickDone, TickAborts, requestVars
<1>4. TypeOK'
  <2>1. need' \in Nat
    BY PoolFinite, PoolTargetAssumption
    DEF TypeOK, Tick, TickStart, TickAcquire, TickAcquireFails, TickCommit, GcList, GcDestroy,
        TickDone, TickAborts
  <2>2. tickPc' \in TickPc /\ topUp' \subseteq Containers /\ doomed' \subseteq Containers
        /\ pool' \subseteq Containers
    BY <1>2, <1>3 DEF TypeOK, TickPc, Unused, Tick, TickStart, TickAcquire, TickAcquireFails, TickCommit,
        GcList, GcDestroy, TickDone, TickAborts
  <2>3. up' \subseteq Containers /\ aged' \subseteq Containers /\ dirty' \subseteq Containers \X Places
    BY DEF TypeOK, Unused, Appear, Remove, Tick, TickStart, TickAcquire, TickAcquireFails,
        TickCommit, GcList, GcDestroy, TickDone, TickAborts
  <2>4. QED BY <1>1, <2>1, <2>2, <2>3 DEF TypeOK
<1>5. ClaimExclusive'
  BY <1>1 DEF ClaimExclusive
<1>6. HeldAgrees'
  BY <1>1 DEF HeldAgrees
<1>7. RowsAreClaims'
  BY <1>1, <1>2 DEF RowsAreClaims, TopUpFresh
<1>8. TopUpFresh'
  <2>1. \A r \in Requests : held'[r] \notin topUp'
    BY <1>1, <1>3 DEF TopUpFresh, Unused, InUse
  <2>2. topUp' \cap pool' = {}
    BY <1>2, <1>3 DEF TopUpFresh, Unused, TickCommit
  <2>3. QED BY <2>1, <2>2 DEF TopUpFresh
<1>9. QED BY <1>4, <1>5, <1>6, <1>7, <1>8

LEMMA Inductive == IInv /\ [Next]_vars => IInv'
<1> SUFFICES ASSUME IInv, [Next]_vars PROVE IInv'
  OBVIOUS
<1>1. ASSUME NEW r \in Requests, Request(r) PROVE IInv'
  BY <1>1, QuietSteps, ClaimStep, AcquireFreshStep, CommitExecuteStep, CommitCreateStep, ForgetSteps
  DEF Request, Work
<1>2. CASE Tick
  BY <1>2, TickSteps
<1>3. ASSUME NEW c \in Containers, Age(c) PROVE IInv'
  BY <1>3 DEF Age, IInv, TypeOK, ClaimExclusive, HeldAgrees, RowsAreClaims, TopUpFresh,
              requestVars, tickVars
<1>4. CASE UNCHANGED vars
  BY <1>4 DEF vars, IInv, TypeOK, ClaimExclusive, HeldAgrees, RowsAreClaims, TopUpFresh,
              requestVars, tickVars
<1>5. QED BY <1>1, <1>2, <1>3, <1>4 DEF Next

-----------------------------------------------------------------------------
(* The theorems.                                                           *)

(* The invariant behind the theorems holds in every reachable state.       *)
THEOREM IInvHolds == Spec => []IInv
  BY InitIInv, Inductive, PTL DEF Spec

(* Every variable keeps its type.                                          *)
THEOREM TypeCorrect == Spec => []TypeOK
<1>1. IInv => TypeOK BY DEF IInv
<1>2. QED BY <1>1, IInvHolds, PTL

(* No container ever serves two requests, for any number of requests and   *)
(* containers and whatever fails: try_claim's row locks suffice.           *)
THEOREM ExclusiveClaims == Spec => []ClaimExclusive
<1>1. IInv => ClaimExclusive BY DEF IInv
<1>2. QED BY <1>1, IInvHolds, PTL

(* No container somebody holds can be claimed by somebody else.            *)
THEOREM HeldAreNotOffered == Spec => []NotOfferedInUse
<1>1. IInv => NotOfferedInUse
  BY DEF IInv, NotOfferedInUse, RowsAreClaims, Claimable, Locked
<1>2. QED BY <1>1, IInvHolds, PTL

-----------------------------------------------------------------------------
(* Files of an earlier run.  Three things may leave a member whose         *)
(* workspace is not empty: a crash between the run and the recycle, which  *)
(* rolls the claim back, a destroy that fails, and a wipe that removes not *)
(* everything and does not say so.                                         *)

Wiped == Faults \cap {"crash", "destroy", "wipe"} = {}

LEMMA DirtyRequest ==
  ASSUME Wiped, IInv, DirtyIsRunning, NEW r \in Requests, Request(r)
  PROVE  DirtyIsRunning'
<1> USE DEF IInv, DirtyIsRunning
<1>1. ASSUME UNCHANGED held, dirty' \subseteq dirty, NEW label \in RequestPc, Goto(r, label),
             pc[r] # "ran" \/ ~InWorkspace(held[r])'
      PROVE  DirtyIsRunning'
  BY <1>1 DEF Goto, TypeOK, InWorkspace
<1>2. CASE Start(r) \/ Miss(r) \/ AcquireFails(r) \/ HookFails(r) \/ DbFails(r) \/ CommitCreate(r)
  BY <1>1, <1>2 DEF Start, Miss, AcquireFails, HookFails, DbFails, CommitCreate, Remove, RequestPc
<1>3. CASE Recycle(r)
  BY <1>1, <1>3 DEF Recycle, RequestPc, Wiped, InWorkspace
<1>4. CASE RecycleFails(r) \/ DestroyHeld(r)
  <2>1. ~InWorkspace(held[r])'
    BY <1>4 DEF RecycleFails, DestroyHeld, Remove, InWorkspace, TypeOK
  <2>2. QED BY <1>1, <1>4, <2>1 DEF RecycleFails, DestroyHeld, Remove, RequestPc
<1>5. CASE Run(r)
  BY <1>5 DEF Run, Goto, TypeOK, InWorkspace
<1>6. CASE Claim(r)
  BY <1>6 DEF Claim, Goto, TypeOK, InWorkspace
<1>7. CASE AcquireFresh(r)
  BY <1>7 DEF AcquireFresh, Appear, Goto, TypeOK, InWorkspace
<1>8. CASE CommitExecute(r) \/ Rollback(r)
  BY <1>8 DEF CommitExecute, Rollback, Forget, TypeOK, InWorkspace
<1>9. CASE DestroySandbox(r)
  BY <1>9 DEF DestroySandbox, Remove, Forget, TypeOK, HeldAgrees, InWorkspace
<1>10. ~Crash(r) /\ ~DestroyHeldFails(r)
  BY DEF Wiped, Crash, DestroyHeldFails
<1>11. QED
  BY <1>2, <1>3, <1>4, <1>5, <1>6, <1>7, <1>8, <1>9, <1>10 DEF Request, Work

LEMMA DirtyInductive ==
  ASSUME Wiped
  PROVE  IInv /\ DirtyIsRunning /\ [Next]_vars => DirtyIsRunning'
<1> SUFFICES ASSUME IInv, DirtyIsRunning, [Next]_vars PROVE DirtyIsRunning'
  OBVIOUS
<1>1. ASSUME NEW r \in Requests, Request(r) PROVE DirtyIsRunning'
  BY <1>1, DirtyRequest
<1>2. ASSUME UNCHANGED <<pc, held>>, dirty' \subseteq dirty PROVE DirtyIsRunning'
  BY <1>2 DEF DirtyIsRunning, InWorkspace
<1>3. CASE Tick
  BY <1>2, <1>3 DEF Tick, TickStart, TickAcquire, TickAcquireFails, TickCommit, GcList, GcDestroy,
                    TickDone, TickAborts, Appear, Remove, requestVars
<1>4. ASSUME NEW c \in Containers, Age(c) PROVE DirtyIsRunning'
  BY <1>2, <1>4 DEF Age, requestVars
<1>5. CASE UNCHANGED vars
  BY <1>2, <1>5 DEF vars, requestVars
<1>6. QED BY <1>1, <1>3, <1>4, <1>5 DEF Next

(* As long as no API process dies in mid-request, destroy() does not fail  *)
(* and the `rm' in /workspace removes what it is asked to, the workspace   *)
(* of what is offered to a request is empty, whichever acquire, recycle,   *)
(* exec, commit or tick fails.  Of the rest of the container, /tmp first   *)
(* of all, this is not so: NoLeftovers does not hold.                      *)
THEOREM CleanPool ==
  ASSUME Wiped
  PROVE  Spec => []WorkspaceWiped
<1>1. Init => DirtyIsRunning
  BY DEF Init, DirtyIsRunning, InWorkspace
<1>2. IInv /\ DirtyIsRunning /\ [Next]_vars => DirtyIsRunning'
  BY DirtyInductive
<1>3. IInv /\ DirtyIsRunning => WorkspaceWiped
  <2> SUFFICES ASSUME IInv, DirtyIsRunning, NEW c \in Claimable PROVE ~InWorkspace(c)
    BY DEF WorkspaceWiped, InWorkspace
  <2>1. c \in Containers
    BY DEF IInv, TypeOK, Claimable
  <2>2. ASSUME NEW r \in Requests, pc[r] = "ran", held[r] = c PROVE FALSE
    BY <2>2 DEF IInv, RowsAreClaims, Claimable, Locked
  <2>3. QED BY <2>1, <2>2 DEF DirtyIsRunning
<1>4. QED BY <1>1, <1>2, <1>3, IInvHolds, PTL DEF Spec

-----------------------------------------------------------------------------
(* The orphan GC and fresh sandboxes.                                      *)

LEMMA FreshRequest ==
  ASSUME IInv, FreshSpared, NEW r \in Requests, Request(r)
  PROVE  FreshSpared'
<1> USE DEF IInv, FreshSpared, InFlightFresh, LiveFresh
<1>1. ASSUME UNCHANGED <<live, held, claimed, tickVars>>, aged' \subseteq aged,
             NEW label \in RequestPc, Goto(r, label),
             up \subseteq up' \cup {held[r]}, r \notin live,
             label \in {"held", "ran", "recycled"} /\ ~claimed[r] => InFlightFresh(r) /\ held[r] \in up'
      PROVE  FreshSpared'
  <2>1. /\ r \notin live'
        /\ ~LiveFresh(r)'
        /\ InFlightFresh(r)' => held'[r] \in up' /\ held'[r] \notin aged' \cup doomed'
    BY <1>1 DEF Goto, TypeOK, tickVars
  <2>2. ASSUME NEW q \in Requests, q # r
        PROVE  /\ InFlightFresh(q)' => held'[q] \in up' /\ held'[q] \notin aged' \cup doomed'
               /\ LiveFresh(q)' => held'[q] \in up' /\ (tickPc' = "reap" => held'[q] \notin doomed')
    <3>1. (InFlightFresh(q)' <=> InFlightFresh(q)) /\ (LiveFresh(q)' <=> LiveFresh(q))
      BY <1>1, <2>2 DEF Goto, TypeOK
    <3>2. InFlightFresh(q) \/ LiveFresh(q) => held[q] # held[r]
      BY <2>2, ContainerAssumption DEF ClaimExclusive, HeldAgrees, TypeOK
    <3>3. QED BY <1>1, <3>1, <3>2 DEF tickVars
  <2>3. QED BY <2>1, <2>2
<1>2. CASE Start(r) \/ Miss(r) \/ AcquireFails(r) \/ HookFails(r) \/ DbFails(r)
           \/ Run(r) \/ Recycle(r) \/ RecycleFails(r) \/ DestroyHeld(r) \/ DestroyHeldFails(r)
  <2>1. r \notin live
    BY <1>2 DEF HeldAgrees, Start, Miss, AcquireFails, HookFails, DbFails, Run, Recycle,
                RecycleFails, DestroyHeld, DestroyHeldFails
  <2>2. QED BY <1>1, <1>2, <2>1 DEF Start, Miss, AcquireFails, HookFails, DbFails, Run, Recycle,
                RecycleFails, DestroyHeld, DestroyHeldFails, Remove, RequestPc
<1>3. CASE Claim(r)
  BY <1>3 DEF Claim, Goto, TypeOK, HeldAgrees, tickVars
<1>4. CASE AcquireFresh(r)
  BY <1>4 DEF AcquireFresh, Appear, Unused, Goto, TypeOK, HeldAgrees, tickVars
<1>5. CASE CommitCreate(r)
  BY <1>5 DEF CommitCreate, Goto, TypeOK, tickVars
<1>6. CASE CommitExecute(r) \/ Rollback(r) \/ Crash(r)
  BY <1>6 DEF CommitExecute, Rollback, Crash, Forget, TypeOK, HeldAgrees, tickVars
<1>7. CASE DestroySandbox(r)
  <2>1. \A q \in Requests : q # r /\ (InFlightFresh(q) \/ LiveFresh(q)) => held[q] # held[r]
    BY ContainerAssumption DEF ClaimExclusive, HeldAgrees, TypeOK
  <2>2. QED BY <1>7, <2>1 DEF DestroySandbox, Remove, Forget, TypeOK, tickVars
<1>8. QED BY <1>2, <1>3, <1>4, <1>5, <1>6, <1>7 DEF Request, Work

(* GcDestroy only happens after GcList took the listed rows out of doomed. *)
LEMMA FreshTick ==
  ASSUME IInv, FreshSpared, Tick
  PROVE  FreshSpared'
<1> USE DEF IInv, FreshSpared, InFlightFresh, LiveFresh
<1>1. UNCHANGED <<live, pc, held, claimed>>
  BY DEF Tick, TickStart, TickAcquire, TickAcquireFails, TickCommit, GcList, GcDestroy,
         TickDone, TickAborts, requestVars
<1>2. CASE TickStart
  BY <1>1, <1>2 DEF TickStart
<1>3. CASE TickAcquire \/ TickAcquireFails \/ TickCommit \/ TickDone \/ TickAborts
  BY <1>1, <1>3 DEF TickAcquire, TickAcquireFails, TickCommit, TickDone, TickAborts, Appear
<1>4. CASE GcList
  BY <1>1, <1>4 DEF GcList, LiveLabels
<1>5. ASSUME NEW c \in Containers, GcDestroy(c) PROVE FreshSpared'
  BY <1>1, <1>5 DEF GcDestroy, Remove
<1>6. QED BY <1>2, <1>3, <1>4, <1>5 DEF Tick

(* Without SlowRuns, what ages is not a fresh container still worked on.   *)
LEMMA FreshAge ==
  ASSUME ~SlowRuns, IInv, FreshSpared, NEW c \in Containers, Age(c)
  PROVE  FreshSpared'
<1>1. ASSUME NEW r \in Requests, InFlightFresh(r) PROVE held[r] # c
  <2>1. held[r] \notin pool /\ r \notin live /\ InUse(held[r])
    BY <1>1 DEF IInv, RowsAreClaims, HeldAgrees, InFlightFresh, InUse
  <2>2. held[r] \notin LiveLabels
    BY <1>1, <2>1, ContainerAssumption
    DEF IInv, TypeOK, LiveLabels, ClaimExclusive, HeldAgrees, InFlightFresh
  <2>3. \A q \in Requests : held[q] = held[r] => ~claimed[q]
    BY <1>1, ContainerAssumption DEF IInv, ClaimExclusive, HeldAgrees, InFlightFresh
  <2>4. QED BY <2>1, <2>2, <2>3 DEF Age, MayAge
<1>2. QED BY <1>1 DEF FreshSpared, Age, InFlightFresh, LiveFresh, requestVars, tickVars

(* FreshSpared is kept whenever nothing in its first use gets old.         *)
LEMMA FreshInductive ==
  ASSUME ~SlowRuns
  PROVE  IInv /\ FreshSpared /\ [Next]_vars => FreshSpared'
<1> SUFFICES ASSUME IInv, FreshSpared, [Next]_vars PROVE FreshSpared'
  OBVIOUS
<1>1. CASE UNCHANGED vars
  BY <1>1 DEF vars, requestVars, tickVars, FreshSpared, InFlightFresh, LiveFresh
<1>2. QED BY <1>1, FreshRequest, FreshTick, FreshAge DEF Next

(* If no acquire and run takes longer than orphan_grace_seconds, a fresh   *)
(* sandbox is there as long as its request works with it and as long as    *)
(* its row is not terminated, whatever else fails.                         *)
THEOREM FreshStaysUp ==
  ASSUME ~SlowRuns
  PROVE  Spec => []FreshSandboxUp
<1>1. Init => FreshSpared
  BY DEF Init, FreshSpared, InFlightFresh, LiveFresh
<1>2. IInv /\ FreshSpared /\ [Next]_vars => FreshSpared'
  BY FreshInductive
<1>3. FreshSpared => FreshSandboxUp
  BY DEF FreshSpared, FreshSandboxUp, InFlightFresh, LiveFresh
<1>4. QED BY <1>1, <1>2, <1>3, IInvHolds, PTL DEF Spec

-----------------------------------------------------------------------------
(* What is on offer exists.  A destroy whose transaction is not committed  *)
(* breaks this, and so does the orphan GC once a member is past the grace  *)
(* period: the theorems are about what release() does handle.              *)

Handled == Faults \cap {"exec", "commit", "crash"} = {} /\ ~PoolOutlives /\ ~SlowRuns

(* It exists, and neither the clock nor the GC has it in its sights.       *)
Kept(c) == c \in up /\ c \notin aged \cup doomed

(* Idle members are kept and so are claims, until the request is rid of    *)
(* its container: from there on it commits the deletion of the row.        *)
MembersKept ==
    /\ \A c \in pool : InUse(c) \/ Kept(c)
    /\ \A c \in topUp : Kept(c)
    /\ \A r \in Requests : claimed[r] /\ pc[r] # "disposed" => Kept(held[r])
    /\ \A r \in Requests : pc[r] = "ran" => outcome[r] # "raised"

BackedInv == IInv /\ FreshSpared /\ MembersKept

(* Steps that keep r at what it holds, and remove nothing but that.        *)
LEMMA StayingKeeps ==
  ASSUME BackedInv, NEW r \in Requests, NEW label \in RequestPc, Goto(r, label),
         UNCHANGED <<pool, held, claimed, tickVars>>,
         up \ {held[r]} \subseteq up', aged' \subseteq aged,
         claimed[r] /\ label # "disposed" => pc[r] # "disposed" /\ held[r] \in up',
         \A q \in Requests : q # r => outcome'[q] = outcome[q],
         label = "ran" => outcome'[r] # "raised"
  PROVE  MembersKept'
<1> USE DEF BackedInv, MembersKept, Kept, tickVars
<1>1. \A c : InUse(c)' <=> InUse(c)
  BY DEF InUse
<1>2. \A c \in pool' : InUse(c)' \/ Kept(c)'
  BY <1>1 DEF InUse
<1>3. \A c \in topUp' : Kept(c)'
  BY DEF IInv, TopUpFresh
<1>4. \A q \in Requests : (claimed[q] /\ pc[q] # "disposed" => Kept(held[q]))'
  <2>1. SUFFICES ASSUME NEW q \in Requests, claimed[q], pc'[q] # "disposed" PROVE Kept(held[q])'
    OBVIOUS
  <2>2. CASE q = r
    BY <2>1, <2>2 DEF Goto, IInv, TypeOK
  <2>3. CASE q # r
    <3>1. Kept(held[q])
      BY <2>1, <2>3 DEF Goto, IInv, TypeOK
    <3>2. held[q] # held[r]
      BY <2>3, <3>1, ContainerAssumption DEF IInv, ClaimExclusive, TypeOK
    <3>3. QED BY <3>1, <3>2
  <2>4. QED BY <2>2, <2>3
<1>5. \A q \in Requests : pc'[q] = "ran" => outcome'[q] # "raised"
  BY DEF Goto, IInv, TypeOK
<1>6. QED BY <1>2, <1>3, <1>4, <1>5

(* A request that ends lets go of its container; one that it leaves in the *)
(* pool is one it had kept.                                                *)
LEMMA EndingKeeps ==
  ASSUME BackedInv, NEW r \in Requests, Forget(r),
         UNCHANGED tickVars, aged' \subseteq aged, up \ {held[r]} \subseteq up',
         pool' \subseteq pool \cup {held[r]},
         held[r] \in pool' => Kept(held[r]) /\ held[r] \in up'
  PROVE  MembersKept'
<1> USE DEF BackedInv, MembersKept, Kept, tickVars
<1>1. /\ held' = [held EXCEPT ![r] = NoContainer]
      /\ claimed' = [claimed EXCEPT ![r] = FALSE]
      /\ pc' = [pc EXCEPT ![r] = "idle"]
      /\ outcome' = [outcome EXCEPT ![r] = "none"]
  BY DEF Forget
<1>2. \A c \in pool' : InUse(c)' \/ Kept(c)'
  <2>1. SUFFICES ASSUME NEW c \in pool' PROVE InUse(c)' \/ Kept(c)'
    OBVIOUS
  <2>2. CASE c = held[r]
    BY <2>1, <2>2
  <2>3. CASE c # held[r]
    <3>1. InUse(c) \/ Kept(c)
      BY <2>1, <2>3
    <3>2. InUse(c) => InUse(c)'
      BY <1>1, <2>3 DEF InUse, IInv, TypeOK
    <3>3. QED BY <2>3, <3>1, <3>2
  <2>4. QED BY <2>2, <2>3
<1>3. \A c \in topUp' : Kept(c)'
  BY DEF IInv, TopUpFresh
<1>4. \A q \in Requests : (claimed[q] /\ pc[q] # "disposed" => Kept(held[q]))'
  <2>1. SUFFICES ASSUME NEW q \in Requests, claimed'[q], pc'[q] # "disposed"
                 PROVE  Kept(held[q])'
    OBVIOUS
  <2>2. q # r /\ claimed[q] /\ pc[q] # "disposed" /\ held'[q] = held[q]
    BY <1>1, <2>1 DEF IInv, TypeOK
  <2>3. Kept(held[q]) /\ held[q] # held[r]
    BY <2>2, ContainerAssumption DEF IInv, ClaimExclusive, TypeOK
  <2>4. QED BY <2>2, <2>3
<1>5. \A q \in Requests : pc'[q] = "ran" => outcome'[q] # "raised"
  BY <1>1 DEF IInv, TypeOK
<1>6. QED BY <1>2, <1>3, <1>4, <1>5

LEMMA BackedRequest ==
  ASSUME Handled, BackedInv, NEW r \in Requests, Request(r)
  PROVE  MembersKept'
<1> USE DEF BackedInv
<1>1. ~HookFails(r) /\ ~DbFails(r) /\ ~Crash(r)
  BY DEF Handled, HookFails, DbFails, Crash
<1>2. CASE Start(r) \/ Miss(r) \/ AcquireFails(r) \/ CommitCreate(r)
  <2>1. CASE CommitCreate(r)
    <3>1. /\ Goto(r, "idle") /\ UNCHANGED <<up, aged, held, claimed, outcome, tickVars>>
          /\ pool' \subseteq pool /\ pc[r] = "held"
      BY <2>1 DEF CommitCreate
    <3>2. QED BY <3>1 DEF MembersKept, Kept, InUse, Goto, tickVars, IInv, TypeOK
  <2>2. CASE Start(r) \/ Miss(r) \/ AcquireFails(r)
    <3>1. \E label \in {"acquire", "missed", "failed"} : Goto(r, label) /\ ~claimed[r]
      BY <2>2 DEF Start, Miss, AcquireFails, IInv, HeldAgrees
    <3>2. /\ UNCHANGED <<pool, held, claimed, tickVars, up, aged, outcome>>
      BY <2>2 DEF Start, Miss, AcquireFails
    <3>3. QED BY <3>1, <3>2 DEF MembersKept, Kept, InUse, Goto, tickVars, IInv, TypeOK
  <2>3. QED BY <1>2, <2>1, <2>2
<1>3. CASE Claim(r)
  <2>1. PICK c \in Claimable : held' = [held EXCEPT ![r] = c]
    BY <1>3 DEF Claim
  <2>2. c \in pool /\ ~InUse(c)
    BY <2>1 DEF Claimable, Locked, InUse, IInv, RowsAreClaims
  <2>3. Kept(c) /\ held[r] = NoContainer /\ NoContainer \notin pool
    BY <1>3, <2>2, ContainerAssumption DEF MembersKept, Claim, IInv, HeldAgrees, TypeOK
  <2>4. UNCHANGED <<up, aged, doomed, pool, topUp, outcome>>
    BY <1>3 DEF Claim, tickVars
  <2>5. \A d \in pool : InUse(d) => InUse(d)'
    BY <2>1, <2>3 DEF InUse, IInv, TypeOK
  <2>6. QED BY <1>3, <2>1, <2>3, <2>4, <2>5 DEF MembersKept, Kept, Claim, Goto, IInv, TypeOK
<1>4. CASE AcquireFresh(r)
  <2>1. PICK c \in Unused : Appear(c) /\ held' = [held EXCEPT ![r] = c]
    BY <1>4 DEF AcquireFresh
  <2>2. /\ held[r] = NoContainer /\ NoContainer \notin pool /\ ~claimed[r]
        /\ UNCHANGED <<doomed, pool, topUp, outcome, claimed>>
        /\ up \subseteq up' /\ aged' \subseteq aged
    BY <1>4, <2>1, ContainerAssumption DEF AcquireFresh, Appear, IInv, HeldAgrees, TypeOK, tickVars
  <2>3. \A d \in pool : InUse(d) => InUse(d)'
    BY <2>1, <2>2 DEF InUse, IInv, TypeOK
  <2>4. QED BY <1>4, <2>1, <2>2, <2>3 DEF MembersKept, Kept, AcquireFresh, Goto, IInv, TypeOK
<1>5. CASE Run(r)
  <2>1. held[r] \in up
    BY <1>5 DEF Run, FreshSpared, InFlightFresh, MembersKept, Kept
  <2>2. outcome'[r] # "raised" /\ \A q \in Requests : q # r => outcome'[q] = outcome[q]
    BY <1>5, <2>1 DEF Run, Handled, IInv, TypeOK
  <2>3. QED BY <1>5, <2>1, <2>2, StayingKeeps DEF Run, RequestPc
<1>6. CASE Recycle(r)
  BY <1>6, StayingKeeps DEF Recycle, RequestPc
<1>7. CASE RecycleFails(r) \/ DestroyHeld(r)
  <2>1. Goto(r, "disposed") /\ held[r] \in Containers
    BY <1>7 DEF RecycleFails, DestroyHeld, MembersKept, IInv, HeldAgrees
  <2>2. QED BY <1>7, <2>1, StayingKeeps DEF RecycleFails, DestroyHeld, Remove, RequestPc
<1>8. CASE DestroyHeldFails(r)
  <2>1. claimed[r] => held[r] \in up
    BY <1>8 DEF DestroyHeldFails, MembersKept, Kept
  <2>2. /\ Goto(r, "failed") /\ pc[r] = "ran"
        /\ UNCHANGED <<up, aged, pool, held, claimed, outcome, tickVars>>
    BY <1>8 DEF DestroyHeldFails
  <2>3. QED BY <2>1, <2>2, StayingKeeps DEF RequestPc, IInv, HeldAgrees
<1>9. CASE CommitExecute(r)
  <2>1. held[r] \in pool' => pc[r] = "recycled"
    BY <1>9 DEF CommitExecute, IInv, RowsAreClaims
  <2>2. pc[r] = "recycled" => Kept(held[r])
    BY DEF MembersKept, FreshSpared, InFlightFresh, Kept
  <2>3. /\ Forget(r) /\ UNCHANGED <<up, aged, tickVars>>
        /\ pool' \subseteq pool \cup {held[r]}
    BY <1>9 DEF CommitExecute
  <2>4. QED BY <2>1, <2>2, <2>3, EndingKeeps DEF Kept
<1>10. CASE Rollback(r)
  <2>1. held[r] \in pool => Kept(held[r])
    BY <1>10 DEF Rollback, IInv, RowsAreClaims, MembersKept
  <2>2. Forget(r) /\ UNCHANGED <<up, aged, pool, tickVars>>
    BY <1>10 DEF Rollback
  <2>3. QED BY <2>1, <2>2, EndingKeeps DEF Kept
<1>11. CASE DestroySandbox(r)
  <2>1. held[r] \notin pool /\ held[r] \in Containers
    BY <1>11 DEF DestroySandbox, IInv, RowsAreClaims, HeldAgrees
  <2>2. QED BY <1>11, <2>1, EndingKeeps DEF DestroySandbox, Remove
<1>12. QED
  BY <1>1, <1>2, <1>3, <1>4, <1>5, <1>6, <1>7, <1>8, <1>9, <1>10, <1>11 DEF Request, Work

LEMMA BackedTick ==
  ASSUME BackedInv, Tick
  PROVE  MembersKept'
<1> USE DEF BackedInv, MembersKept, Kept
<1>1. UNCHANGED <<pc, held, claimed, outcome>> /\ \A c : InUse(c)' <=> InUse(c)
  BY DEF Tick, TickStart, TickAcquire, TickAcquireFails, TickCommit, GcList, GcDestroy,
         TickDone, TickAborts, requestVars, InUse
<1>2. CASE TickStart
  BY <1>1, <1>2 DEF TickStart
<1>3. CASE TickAcquireFails \/ TickCommit \/ GcList \/ TickDone \/ TickAborts
  BY <1>1, <1>3 DEF TickAcquireFails, TickCommit, GcList, TickDone, TickAborts
<1>4. CASE TickAcquire
  BY <1>1, <1>4 DEF TickAcquire, Appear, Unused
<1>5. ASSUME NEW c \in Containers, GcDestroy(c) PROVE MembersKept'
  BY <1>1, <1>5 DEF GcDestroy, Remove
<1>6. QED BY <1>2, <1>3, <1>4, <1>5 DEF Tick

(* What ages is nobody's, or a fresh sandbox's with a row: no member.      *)
LEMMA BackedAge ==
  ASSUME Handled, BackedInv, NEW c \in Containers, Age(c)
  PROVE  MembersKept'
<1> USE DEF BackedInv, Handled
<1>1. PICK old : aged' = aged \cup {old} /\ old = c /\ MayAge(c)
  BY DEF Age
<1>2. UNCHANGED <<up, pool, topUp, doomed, pc, held, claimed, outcome>>
  BY DEF Age, requestVars, tickVars
<1>3. \/ c \notin pool \cup topUp /\ ~InUse(c)
      \/ \E q \in Requests : q \in live /\ ~claimed[q] /\ held[q] = c
  BY <1>1 DEF MayAge, LiveLabels, IInv, TypeOK
<1>4. c \notin pool \cup topUp /\ \A r \in Requests : claimed[r] => held[r] # c
  <2>1. CASE c \notin pool \cup topUp /\ ~InUse(c)
    BY <2>1 DEF InUse
  <2>2. ASSUME NEW q \in Requests, q \in live, ~claimed[q], held[q] = c
        PROVE  c \notin pool \cup topUp /\ \A r \in Requests : claimed[r] => held[r] # c
    BY <2>2, ContainerAssumption DEF IInv, RowsAreClaims, TopUpFresh, ClaimExclusive
  <2>3. QED BY <1>3, <2>1, <2>2
<1>5. QED BY <1>1, <1>2, <1>4 DEF MembersKept, Kept, InUse

(* The invariant behind the two theorems that follow.                      *)
THEOREM MembersStay ==
  ASSUME Handled
  PROVE  Spec => []BackedInv
<1>1. Init => BackedInv
  BY InitIInv
  DEF Init, BackedInv, FreshSpared, InFlightFresh, LiveFresh, MembersKept
<1>2. BackedInv /\ [Next]_vars => BackedInv'
  <2> SUFFICES ASSUME BackedInv, [Next]_vars PROVE BackedInv'
    OBVIOUS
  <2>1. IInv' /\ FreshSpared'
    BY Inductive, FreshInductive DEF BackedInv, Handled
  <2>2. UNCHANGED vars => MembersKept'
    BY DEF vars, requestVars, tickVars, BackedInv, MembersKept, Kept, InUse
  <2>3. MembersKept'
    BY <2>2, BackedRequest, BackedTick, BackedAge DEF Next
  <2>4. QED BY <2>1, <2>3 DEF BackedInv
<1>3. QED BY <1>1, <1>2, PTL DEF Spec

(* Where no run raises, no commit fails and no process dies, and members   *)
(* are claimed before the grace period is over, what a request can claim   *)
(* exists, though acquire, recycle and destroy may fail: release() never   *)
(* lists what it could not recycle.                                        *)
THEOREM MembersExist ==
  ASSUME Handled
  PROVE  Spec => []PoolBacked
<1>1. BackedInv => PoolBacked
  BY DEF BackedInv, IInv, MembersKept, Kept, RowsAreClaims, PoolBacked, Claimable, Locked, InUse
<1>2. QED BY <1>1, MembersStay, PTL

(* If the wipe does what it is asked to as well, a claim hits a container  *)
(* that exists and whose workspace is empty.                               *)
THEOREM ClaimsAreUsable ==
  ASSUME Handled, Wiped
  PROVE  Spec => []MembersUsable
<1>1. PoolBacked /\ WorkspaceWiped => MembersUsable
  BY DEF MembersUsable
<1>2. QED BY <1>1, MembersExist, CleanPool, PTL

(* There the orphan GC spares every sandbox with a row, the claimed ones   *)
(* because they are never past the grace period, and the fresh ones        *)
(* however old they are.                                                   *)
THEOREM LiveStayUp ==
  ASSUME Handled
  PROVE  Spec => []LiveSandboxUp
<1>1. BackedInv => LiveSandboxUp
  BY DEF BackedInv, IInv, TypeOK, HeldAgrees, MembersKept, Kept, FreshSpared, LiveFresh, LiveSandboxUp
<1>2. QED BY <1>1, MembersStay, PTL

-----------------------------------------------------------------------------
(* The size of the pool.                                                   *)

(* Requests that may put one more container into it.                       *)
Comers == {r \in Requests : poolable[r] /\ ~claimed[r] /\ pc[r] \in {"missed", "held", "ran", "recycled"}}

Committed == Cardinality(pool) + Cardinality(topUp) + need + Cardinality(Comers)

(* Who recycles may; who has claimed a member has not removed its row yet. *)
ComersAreSound ==
    \A r \in Requests :
        /\ pc[r] = "recycled" => poolable[r]
        /\ claimed[r] /\ pc[r] # "idle" => held[r] \in pool

(* Members, those the tick acquires, and those who may come.               *)
BoundInv ==
    /\ Committed <= PoolTarget + Cardinality(Requests)
    /\ Cardinality(topUp) + need <= PoolTarget
    /\ ComersAreSound
    /\ tickPc # "replenish" => topUp = {} /\ need = 0

Counted ==
    /\ IsFiniteSet(pool) /\ Cardinality(pool) \in Nat /\ IsFiniteSet(topUp) /\ Cardinality(topUp) \in Nat
    /\ IsFiniteSet(Comers) /\ Cardinality(Comers) \in Nat /\ Cardinality(Requests) \in Nat
    /\ need \in Nat /\ PoolTarget \in Nat

LEMMA Counts == TypeOK => Counted
<1> SUFFICES ASSUME TypeOK PROVE Counted
  OBVIOUS
<1>1. pool \in SUBSET Containers /\ topUp \in SUBSET Containers /\ Comers \in SUBSET Requests
  BY DEF TypeOK, Comers
<1>2. QED
  BY <1>1, ContainerAssumption, RequestsAssumption, PoolTargetAssumption, FS_Subset, FS_CardinalityType DEF TypeOK, Counted

LEMMA CountsNext == TypeOK' => Counted'
  BY Counts, PTL

(* Members are locked by requests that hold no more than one each.         *)
LEMMA LockedAreFew ==
  ASSUME TypeOK, pool \subseteq Locked
  PROVE  \E Holders \in SUBSET Requests :
            /\ \A r \in Holders : claimed[r]
            /\ Cardinality(pool) <= Cardinality(Holders)
<1> DEFINE Holders == {q \in Requests : claimed[q] /\ pc[q] # "idle"}
           f == [q \in Holders |-> held[q]]
<1>1. Holders \in SUBSET Requests /\ IsFiniteSet(Holders) /\ Cardinality(Holders) \in Nat
  BY RequestsAssumption, FS_Subset, FS_CardinalityType
<1>2. f \in Surjection(Holders, Locked)
  BY DEF Surjection, Locked
<1>3. IsFiniteSet(Locked) /\ Cardinality(Locked) <= Cardinality(Holders)
  BY <1>1, <1>2, FS_Surjection
<1>4. pool \in SUBSET Locked /\ Cardinality(Locked) \in Nat /\ Cardinality(pool) \in Nat
  BY <1>3, PoolFinite, FS_CardinalityType
<1>5. Cardinality(pool) <= Cardinality(Locked)
  BY <1>3, <1>4, FS_Subset
<1>6. Cardinality(pool) <= Cardinality(Holders)
  BY <1>1, <1>3, <1>4, <1>5
<1>7. QED BY <1>1, <1>6

(* Whoever misses has found every member locked: the members and those who *)
(* may come are then no more than the requests.                            *)
LEMMA MissIsCounted ==
  ASSUME IInv, IInv', BoundInv, ComersAreSound', NEW r \in Requests, Miss(r)
  PROVE  BoundInv'
<1>1. UNCHANGED <<pool, topUp, need, tickPc, held, claimed, poolable>> /\ pc' = [pc EXCEPT ![r] = "missed"]
  BY DEF Miss, Goto, tickVars
<1>2. TypeOK /\ TypeOK'
  BY DEF IInv
<1>3. CASE ~poolable[r]
  <2>1. Comers' = Comers
    BY <1>1, <1>2, <1>3 DEF Comers, TypeOK, Miss
  <2>2. QED BY <1>1, <2>1 DEF BoundInv, Committed
<1>4. CASE poolable[r]
  <2>1. pool \subseteq Locked
    BY <1>4 DEF Miss, Claimable
  <2>2. PICK Holders \in SUBSET Requests :
           (\A q \in Holders : claimed[q]) /\ Cardinality(pool) <= Cardinality(Holders)
    BY <1>2, <2>1, LockedAreFew
  <2>3. Comers' \in SUBSET Requests /\ Holders \cap Comers' = {}
    BY <1>1, <2>2 DEF Comers
  <2>4. IsFiniteSet(Holders) /\ IsFiniteSet(Comers') /\ Cardinality(Holders) \in Nat /\ Cardinality(Comers') \in Nat
    BY <2>2, <2>3, RequestsAssumption, FS_Subset, FS_CardinalityType
  <2>5. Cardinality(Holders \cup Comers') = Cardinality(Holders) + Cardinality(Comers')
    <3>1. Cardinality(Holders \cup Comers') =
             Cardinality(Holders) + Cardinality(Comers') - Cardinality(Holders \cap Comers')
      BY <2>4, FS_Union
    <3>2. Cardinality(Holders \cap Comers') = 0
      BY <2>3, FS_EmptySet, Zenon
    <3>3. QED BY <2>4, <3>1, <3>2
  <2>6. Holders \cup Comers' \in SUBSET Requests
    BY <2>2, <2>3
  <2>7. Cardinality(Holders \cup Comers') <= Cardinality(Requests)
    BY <2>6, RequestsAssumption, FS_Subset
  <2>8. Cardinality(pool) + Cardinality(Comers') <= Cardinality(Requests)
    BY <1>2, <2>2, <2>4, <2>5, <2>7, Counts DEF Counted
  <2>9. Committed' <= PoolTarget + Cardinality(Requests)
    BY <1>1, <1>2, <2>4, <2>8, Counts DEF Counted, Committed, BoundInv
  <2>10. QED BY <1>1, <2>9 DEF BoundInv
<1>5. QED BY <1>2, <1>3, <1>4 DEF TypeOK

(* A request that leaves the pool alone and does not begin to miss.        *)
LEMMA FewerCome ==
  ASSUME IInv, IInv', BoundInv, Comers' \subseteq Comers, Cardinality(pool') <= Cardinality(pool),
         UNCHANGED <<topUp, need, tickPc>>, ComersAreSound'
  PROVE  BoundInv'
<1>1. TypeOK /\ TypeOK'
  BY DEF IInv
<1>2. Cardinality(Comers') <= Cardinality(Comers)
  BY <1>1, Counts, FS_Subset DEF Counted
<1>3. Cardinality(Comers') \in Nat /\ Cardinality(pool') \in Nat
  BY <1>1, CountsNext DEF Counted
<1>4. Committed' <= Committed
  BY <1>1, <1>2, <1>3, Counts DEF Counted, Committed
<1>5. Committed \in Nat /\ Committed' \in Nat
  BY <1>1, <1>3, Counts DEF Counted, Committed
<1>6. QED BY <1>1, <1>4, <1>5, Counts DEF Counted, BoundInv

(* A request's other steps.                                                *)
LEMMA RequestComers ==
  ASSUME IInv, BoundInv, NEW r \in Requests, Request(r), ~Miss(r)
  PROVE  /\ Comers' \subseteq Comers
         /\ UNCHANGED <<topUp, need, tickPc>>
         /\ CommitExecute(r) \/ CommitCreate(r) \/ pool' = pool
<1>1. CASE Start(r) \/ Claim(r) \/ AcquireFresh(r) \/ AcquireFails(r) \/ Run(r) \/ Recycle(r)
  BY <1>1 DEF IInv, TypeOK, Comers, Start, Claim, AcquireFresh, AcquireFails, Run, Recycle, Goto, tickVars
<1>2. CASE RecycleFails(r) \/ DestroyHeld(r) \/ DestroyHeldFails(r) \/ HookFails(r) \/ DbFails(r) \/ CommitCreate(r)
  BY <1>2 DEF IInv, TypeOK, Comers, RecycleFails, DestroyHeld, DestroyHeldFails, HookFails, DbFails, CommitCreate, Goto,
     tickVars
<1>3. CASE CommitExecute(r) \/ Rollback(r) \/ Crash(r) \/ DestroySandbox(r)
  BY <1>3 DEF IInv, TypeOK, Comers, CommitExecute, Rollback, Crash, DestroySandbox, Forget, tickVars
<1>4. QED BY <1>1, <1>2, <1>3 DEF Request, Work

LEMMA RequestSound ==
  ASSUME IInv, IInv', BoundInv, NEW r \in Requests, Request(r)
  PROVE  ComersAreSound'
<1> USE DEF ComersAreSound
<1>1. \A q \in Requests \ {r} :
         /\ pc'[q] = pc[q] /\ poolable'[q] = poolable[q] /\ claimed'[q] = claimed[q] /\ held'[q] = held[q]
  BY DEF IInv, TypeOK, Request, Work, Start, Claim, Miss, AcquireFresh, AcquireFails, Run, Recycle, RecycleFails,
     DestroyHeld, DestroyHeldFails, HookFails, CommitExecute, CommitCreate, DbFails, Rollback, Crash, DestroySandbox,
     Goto, Forget
<1>2. \A q \in Requests \ {r} : claimed[q] /\ pc[q] # "idle" => held[q] \in pool'
  <2>1. \A q \in Requests \ {r} : held[q] \in pool => held[q] # held[r]
    BY ContainerAssumption DEF IInv, TypeOK, ClaimExclusive
  <2>2. pool \ {held[r]} \subseteq pool'
    BY DEF Request, Work, Start, Claim, Miss, AcquireFresh, AcquireFails, Run, Recycle, RecycleFails,
     DestroyHeld, DestroyHeldFails, HookFails, CommitExecute, CommitCreate, DbFails, Rollback, Crash, DestroySandbox
  <2>3. QED BY <2>1, <2>2 DEF BoundInv
<1>3. pc'[r] = "recycled" => poolable'[r]
  BY DEF IInv, TypeOK, Request, Work, Start, Claim, Miss, AcquireFresh, AcquireFails, Run, Recycle, RecycleFails,
     DestroyHeld, DestroyHeldFails, HookFails, CommitExecute, CommitCreate, DbFails, Rollback, Crash, DestroySandbox,
     Goto, Forget, Recyclable
<1>4. claimed'[r] /\ pc'[r] # "idle" => held'[r] \in pool'
  <2>1. CASE Claim(r)
    BY <2>1 DEF IInv, TypeOK, Claim, Claimable
  <2>2. CASE CommitExecute(r) \/ CommitCreate(r) \/ Rollback(r) \/ Crash(r) \/ DestroySandbox(r)
    BY <2>2 DEF IInv, TypeOK, CommitExecute, CommitCreate, Rollback, Crash, DestroySandbox, Forget, Goto
  <2>3. CASE Start(r) \/ Miss(r) \/ AcquireFresh(r) \/ AcquireFails(r)
    BY <2>3 DEF IInv, TypeOK, HeldAgrees, Start, Miss, AcquireFresh, AcquireFails
  <2>4. CASE Run(r) \/ Recycle(r) \/ RecycleFails(r) \/ DestroyHeld(r) \/ DestroyHeldFails(r) \/ HookFails(r) \/ DbFails(r)
    BY <2>4 DEF IInv, TypeOK, BoundInv, Run, Recycle, RecycleFails, DestroyHeld, DestroyHeldFails, HookFails, DbFails
  <2>5. QED BY <2>1, <2>2, <2>3, <2>4 DEF Request, Work
<1>5. QED BY <1>1, <1>2, <1>3, <1>4 DEF BoundInv

LEMMA RequestBound ==
  ASSUME IInv, IInv', BoundInv, NEW r \in Requests, Request(r)
  PROVE  BoundInv'
<1>1. TypeOK /\ Counted /\ Counted' /\ ComersAreSound'
  BY Counts, CountsNext, RequestSound DEF IInv
<1>2. CASE CommitExecute(r) /\ pc[r] = "recycled" /\ ~claimed[r]
  <2>1. /\ pool' = pool \cup {held[r]} /\ Comers' = Comers \ {r} /\ r \in Comers
        /\ UNCHANGED <<topUp, need, tickPc>>
    BY <1>1, <1>2 DEF CommitExecute, Forget, Comers, BoundInv, ComersAreSound, TypeOK, tickVars
  <2>2. Cardinality(pool \cup {held[r]}) <= Cardinality(pool) + 1
    <3>1. Cardinality(pool \cup {held[r]}) = IF held[r] \in pool THEN Cardinality(pool) ELSE Cardinality(pool) + 1
      BY <1>1, FS_AddElement DEF Counted
    <3>2. QED BY <1>1, <3>1 DEF Counted
  <2>3. Cardinality(Comers \ {r}) = Cardinality(Comers) - 1
    BY <1>1, <2>1, FS_RemoveElement DEF Counted
  <2>4. Cardinality(pool') <= Cardinality(pool) + 1 /\ Cardinality(Comers') = Cardinality(Comers) - 1
    BY <2>1, <2>2, <2>3
  <2>5. Committed' <= Committed
    BY <1>1, <2>1, <2>4 DEF Committed, Counted
  <2>6. QED BY <1>1, <2>1, <2>5 DEF BoundInv, Committed, Counted
<1>3. CASE Miss(r)
  BY <1>1, <1>3, MissIsCounted
<1>4. CASE ~(CommitExecute(r) /\ pc[r] = "recycled" /\ ~claimed[r]) /\ ~Miss(r)
  <2>1. pool' \subseteq pool
    <3>1. CASE CommitExecute(r)
      BY <1>4, <3>1 DEF CommitExecute, BoundInv, ComersAreSound
    <3>2. CASE CommitCreate(r)
      BY <3>2 DEF CommitCreate
    <3>3. QED BY <1>4, <3>1, <3>2, RequestComers
  <2>2. Cardinality(pool') <= Cardinality(pool)
    BY <1>1, <2>1, FS_Subset DEF Counted
  <2>3. QED BY <1>1, <1>4, <2>2, FewerCome, RequestComers
<1>5. QED BY <1>2, <1>3, <1>4

LEMMA TickBound == ASSUME IInv, IInv', BoundInv, Tick PROVE BoundInv'
<1>1. TypeOK /\ Counted /\ Counted'
  BY Counts, CountsNext DEF IInv
<1>2. Comers' = Comers /\ ComersAreSound'
  BY DEF Tick, TickStart, TickAcquire, TickAcquireFails, TickCommit, GcList, GcDestroy, TickDone, TickAborts, requestVars,
     Comers, BoundInv, ComersAreSound
<1>3. CASE TickStart
  <2>1. need = 0 /\ topUp' = {} /\ pool' = pool /\ Cardinality(topUp) = 0 /\ Cardinality(topUp') = 0 /\ tickPc' = "replenish"
    BY <1>3, FS_EmptySet DEF TickStart, BoundInv
  <2>2. need' = 0 \/ (need' = PoolTarget - Cardinality(pool) /\ need' > 0)
    BY <1>1, <1>3 DEF TickStart, Counted
  <2>3. Cardinality(Comers) <= Cardinality(Requests)
    BY RequestsAssumption, FS_Subset DEF Comers
  <2>4. need' <= PoolTarget /\ Committed' <= PoolTarget + Cardinality(Requests)
    BY <1>1, <1>2, <2>1, <2>2, <2>3 DEF BoundInv, Committed, Counted
  <2>5. QED BY <1>1, <1>2, <2>1, <2>4 DEF BoundInv, Counted
<1>4. CASE TickAcquire
  <2>1. PICK c \in Unused : topUp' = topUp \cup {c}
    BY <1>4 DEF TickAcquire
  <2>2. Cardinality(topUp \cup {c}) <= Cardinality(topUp) + 1
    <3>1. Cardinality(topUp \cup {c}) = IF c \in topUp THEN Cardinality(topUp) ELSE Cardinality(topUp) + 1
      BY <1>1, FS_AddElement DEF Counted
    <3>2. QED BY <1>1, <3>1 DEF Counted
  <2>3. Cardinality(topUp') + need' <= Cardinality(topUp) + need
    <3>1. need' = need - 1 /\ Cardinality(topUp') <= Cardinality(topUp) + 1
      BY <1>4, <2>1, <2>2 DEF TickAcquire
    <3>2. QED BY <1>1, <3>1 DEF Counted
  <2>4. QED BY <1>1, <1>2, <1>4, <2>3 DEF TickAcquire, BoundInv, Committed, Counted
<1>5. CASE TickAcquireFails
  BY <1>1, <1>2, <1>5 DEF TickAcquireFails, BoundInv, Committed, Counted
<1>6. CASE TickCommit
  <2>1. Cardinality(pool \cup topUp) <= Cardinality(pool) + Cardinality(topUp)
    <3>1. Cardinality(pool \cup topUp) = Cardinality(pool) + Cardinality(topUp) - Cardinality(pool \cap topUp)
      BY <1>1, FS_Union DEF Counted
    <3>2. Cardinality(pool \cap topUp) = 0
      BY FS_EmptySet, Zenon DEF IInv, TopUpFresh
    <3>3. QED BY <1>1, <3>1, <3>2 DEF Counted
  <2>2. Cardinality(topUp') = 0 /\ pool' = pool \cup topUp /\ topUp' = {} /\ need = 0 /\ need' = 0
    BY <1>6, FS_EmptySet DEF TickCommit
  <2>3. Committed' <= Committed
    BY <1>1, <1>2, <2>1, <2>2 DEF Committed, Counted
  <2>4. QED BY <1>1, <1>2, <1>6, <2>2, <2>3 DEF BoundInv, Committed, Counted
<1>7. CASE GcList \/ (\E c \in Containers : GcDestroy(c)) \/ TickDone
  BY <1>1, <1>2, <1>7 DEF GcList, GcDestroy, TickDone, BoundInv, Committed, Counted
<1>8. CASE TickAborts
  <2>1. Cardinality(topUp') = 0
    BY <1>8, FS_EmptySet DEF TickAborts
  <2>2. QED BY <1>1, <1>2, <1>8, <2>1 DEF TickAborts, BoundInv, Committed, Counted
<1>9. QED BY <1>3, <1>4, <1>5, <1>6, <1>7, <1>8 DEF Tick

(* However many executes miss and bring a container of their own, and      *)
(* however stale the count of the tick that tops the pool up, the idle     *)
(* pool exceeds its target by the requests in flight at most.              *)
THEOREM PoolIsBounded == Spec => []PoolBounded
<1>1. Init => BoundInv
  <2> SUFFICES ASSUME Init PROVE BoundInv
    OBVIOUS
  <2>1. Counted
    BY InitIInv, Counts DEF IInv
  <2>2. Comers = {} /\ Cardinality({}) = 0
    BY FS_EmptySet DEF Init, Comers
  <2>3. QED BY <2>1, <2>2 DEF Init, BoundInv, ComersAreSound, Committed, Counted
<1>2. IInv /\ IInv' /\ BoundInv /\ [Next]_vars => BoundInv'
  <2> SUFFICES ASSUME IInv, IInv', BoundInv, [Next]_vars PROVE BoundInv'
    OBVIOUS
  <2>1. CASE UNCHANGED vars \/ \E c \in Containers : Age(c)
    BY <2>1 DEF vars, requestVars, tickVars, Age, BoundInv, ComersAreSound, Committed, Comers
  <2>2. QED BY <2>1, RequestBound, TickBound DEF Next
<1>3. IInv /\ BoundInv => PoolBounded
  <2> SUFFICES ASSUME IInv, BoundInv PROVE PoolBounded
    OBVIOUS
  <2>1. Counted
    BY Counts DEF IInv
  <2>2. QED BY <2>1 DEF BoundInv, Committed, Counted, PoolBounded
<1>4. QED BY <1>1, <1>2, <1>3, IInvHolds, PTL DEF Spec

-----------------------------------------------------------------------------
(* WarmPool implements ContainerOwnership: every step is a step of the     *)
(* abstract specification or leaves everybody the owner of what they owned.*)

owners == [c \in Containers |-> Owner(c)]

(* Who owns a container, read off the state.                               *)
OwnersKnown ==
  \A c \in Containers :
    /\ c \notin up => Owner(c) = "nobody"
    /\ \A r \in Requests : c \in up /\ held[r] = c => Owner(c) = r
    /\ c \in up /\ ~InUse(c) /\ c \in pool \cup topUp => Owner(c) = "pool"
    /\ c \in up /\ ~InUse(c) /\ c \notin pool \cup topUp => Owner(c) = "lost"

(* By ClaimExclusive the holder is unique: CHOOSE has nothing to choose.   *)
LEMMA OwnerIs == IInv => OwnersKnown
<1> SUFFICES ASSUME IInv, NEW c \in Containers
             PROVE  /\ c \notin up => Owner(c) = "nobody"
                    /\ \A r \in Requests : c \in up /\ held[r] = c => Owner(c) = r
                    /\ c \in up /\ ~InUse(c) /\ c \in pool \cup topUp => Owner(c) = "pool"
                    /\ c \in up /\ ~InUse(c) /\ c \notin pool \cup topUp => Owner(c) = "lost"
  BY DEF OwnersKnown
<1>1. ASSUME NEW r \in Requests, c \in up, held[r] = c PROVE Owner(c) = r
  <2>1. InUse(c) /\ Owner(c) = CHOOSE q \in Requests : held[q] = c
    BY <1>1 DEF Owner, InUse
  <2>2. \A q \in Requests : held[q] = c => q = r
    BY <1>1, ContainerAssumption DEF IInv, ClaimExclusive
  <2>3. QED BY <1>1, <2>1, <2>2
<1>2. QED BY <1>1 DEF Owner

LEMMA OwnerIsNext == IInv' => OwnersKnown'
  BY OwnerIs, PTL

(* A container keeps its owner if it still exists or still does not, has   *)
(* the same holders, and is in the pool or not as before.                  *)
LEMMA OwnerKept ==
  ASSUME IInv, IInv', NEW c \in Containers,
         c \in up <=> c \in up',
         \A r \in Requests : held[r] = c <=> held'[r] = c,
         ~InUse(c) => (c \in pool \cup topUp <=> c \in pool' \cup topUp')
  PROVE  Owner(c)' = Owner(c)
<1>1. InUse(c)' <=> InUse(c)
  BY DEF InUse
<1>2. CASE c \notin up
  BY <1>2, OwnerIs, OwnerIsNext DEF OwnersKnown
<1>3. CASE c \in up /\ InUse(c)
  <2>1. PICK r \in Requests : held[r] = c
    BY <1>3 DEF InUse
  <2>2. Owner(c) = r /\ Owner(c)' = r
    BY <1>3, <2>1, OwnerIs, OwnerIsNext DEF OwnersKnown
  <2>3. QED BY <2>2
<1>4. CASE c \in up /\ ~InUse(c)
  BY <1>1, <1>4, OwnerIs, OwnerIsNext DEF OwnersKnown
<1>5. QED BY <1>2, <1>3, <1>4

LEMMA AllKept ==
  ASSUME \A c \in Containers : Owner(c)' = Owner(c)
  PROVE  UNCHANGED owners
  BY DEF owners

(* One container changes hands: the abstract step is about it alone.       *)
LEMMA OneChanges ==
  ASSUME NEW c \in Containers, NEW o,
         Owner(c)' = o,
         \A d \in Containers \ {c} : Owner(d)' = Owner(d)
  PROVE  owners' = [owners EXCEPT ![c] = o]
  BY DEF owners

(* A container that stops existing is destroyed, whoever owned it.         *)
LEMMA RemovalDestroys ==
  ASSUME IInv, IInv', NEW c \in Containers, up' = up \ {c},
         \A d \in Containers \ {c} : Owner(d)' = Owner(d)
  PROVE  Ownership!Destroy(c)
<1>1. Owner(c)' = "nobody"
  BY OwnerIsNext DEF OwnersKnown
<1>2. owners' = [owners EXCEPT ![c] = "nobody"]
  BY <1>1, OneChanges
<1>3. QED BY <1>2 DEF Ownership!Destroy, owners

(* r lets go of c: back to the pool, lost, or already gone.                *)
LEMMA LettingGo ==
  ASSUME IInv, IInv', NEW r \in Requests, NEW c \in Containers, held[r] = c,
         UNCHANGED <<up, topUp>>,
         held' = [held EXCEPT ![r] = NoContainer],
         \A d \in Containers \ {c} : d \in pool <=> d \in pool'
  PROVE  UNCHANGED owners \/ Ownership!GiveBack(c) \/ Ownership!Lose({c})
<1>1. \A d \in Containers \ {c} : Owner(d)' = Owner(d)
  BY OwnerKept, ContainerAssumption DEF IInv, TypeOK
<1>2. ~InUse(c)'
  BY ContainerAssumption DEF InUse, IInv, TypeOK, ClaimExclusive
<1>3. CASE c \notin up
  BY <1>1, <1>3, AllKept, OwnerIs, OwnerIsNext DEF OwnersKnown
<1>4. CASE c \in up /\ c \in pool' \cup topUp'
  <2>1. Owner(c) = r /\ Owner(c)' = "pool"
    BY <1>2, <1>4, OwnerIs, OwnerIsNext DEF OwnersKnown
  <2>2. owners' = [owners EXCEPT ![c] = "pool"] /\ owners[c] = r
    BY <1>1, <2>1, OneChanges DEF owners
  <2>3. QED BY <2>2 DEF Ownership!GiveBack, owners
<1>5. CASE c \in up /\ c \notin pool' \cup topUp'
  <2>1. Owner(c) = r /\ Owner(c)' = "lost"
    BY <1>2, <1>5, OwnerIs, OwnerIsNext DEF OwnersKnown
  <2>2. owners' = [d \in Containers |-> IF d \in {c} THEN "lost" ELSE owners[d]]
    BY <1>1, <2>1 DEF owners
  <2>3. QED BY <2>1, <2>2 DEF Ownership!Lose, owners
<1>6. QED BY <1>3, <1>4, <1>5

LEMMA RequestRefines ==
  ASSUME IInv, IInv', NEW r \in Requests, Request(r)
  PROVE  UNCHANGED owners \/ Ownership!OwnerNext
<1>1. CASE Start(r) \/ Miss(r) \/ AcquireFails(r) \/ Run(r) \/ Recycle(r)
           \/ DestroyHeldFails(r) \/ DbFails(r) \/ (HookFails(r) /\ up' = up)
  <2>1. UNCHANGED <<up, held, pool, topUp>>
    BY <1>1 DEF Start, Miss, AcquireFails, Run, Recycle, DestroyHeldFails, DbFails, HookFails, tickVars
  <2>2. QED BY <2>1, OwnerKept, AllKept
<1>2. CASE CommitCreate(r)
  <2>1. UNCHANGED <<up, held, topUp>> /\ \A c \in Containers : held[r] # c => (c \in pool <=> c \in pool')
    BY <1>2 DEF CommitCreate, tickVars
  <2>2. \A c \in Containers : ~InUse(c) => held[r] # c
    BY DEF InUse
  <2>3. QED BY <2>1, <2>2, OwnerKept, AllKept
<1>3. CASE Claim(r)
  <2>1. PICK c \in Claimable : held' = [held EXCEPT ![r] = c]
    BY <1>3 DEF Claim
  <2>2. /\ UNCHANGED <<up, pool, topUp>> /\ held[r] = NoContainer
        /\ c \in pool /\ c \in Containers
    BY <1>3, <2>1 DEF Claim, Claimable, IInv, TypeOK, HeldAgrees, tickVars
  <2>3. ~InUse(c) /\ held'[r] = c
    BY <2>1, <2>2, ContainerAssumption DEF InUse, Claimable, Locked, IInv, RowsAreClaims, TypeOK
  <2>4. \A d \in Containers \ {c} : Owner(d)' = Owner(d)
    BY <2>1, <2>2, OwnerKept, ContainerAssumption DEF IInv, TypeOK
  <2>5. CASE c \notin up
    BY <2>2, <2>4, <2>5, AllKept, OwnerIs, OwnerIsNext DEF OwnersKnown
  <2>6. CASE c \in up
    <3>1. Owner(c) = "pool" /\ Owner(c)' = r
      BY <2>2, <2>3, <2>6, OwnerIs, OwnerIsNext DEF OwnersKnown
    <3>2. owners' = [owners EXCEPT ![c] = r] /\ owners[c] = "pool"
      BY <2>2, <2>4, <3>1, OneChanges DEF owners
    <3>3. Ownership!Take(c, r)
      BY <3>2 DEF Ownership!Take, owners
    <3>4. QED BY <2>2, <3>3 DEF Ownership!OwnerNext
  <2>7. QED BY <2>5, <2>6
<1>4. CASE AcquireFresh(r)
  <2>1. PICK c \in Unused : Appear(c) /\ held' = [held EXCEPT ![r] = c]
    BY <1>4 DEF AcquireFresh
  <2>2. /\ UNCHANGED <<pool, topUp>> /\ held[r] = NoContainer /\ up' = up \cup {c}
        /\ c \in Containers /\ c \notin up
    BY <1>4, <2>1 DEF AcquireFresh, Appear, Unused, IInv, HeldAgrees, tickVars
  <2>3. \A d \in Containers \ {c} : Owner(d)' = Owner(d)
    BY <2>1, <2>2, OwnerKept, ContainerAssumption DEF IInv, TypeOK
  <2>4. Owner(c) = "nobody" /\ Owner(c)' = r
    BY <2>1, <2>2, OwnerIs, OwnerIsNext DEF OwnersKnown, IInv, TypeOK
  <2>5. owners' = [owners EXCEPT ![c] = r] /\ owners[c] = "nobody"
    BY <2>2, <2>3, <2>4, OneChanges DEF owners
  <2>6. Ownership!Provision(c, r)
    BY <2>5 DEF Ownership!Provision, owners
  <2>7. QED BY <2>2, <2>6 DEF Ownership!OwnerNext
<1>5. CASE RecycleFails(r) \/ DestroyHeld(r) \/ (HookFails(r) /\ Remove(held[r]))
  <2>1. /\ held[r] \in Containers /\ up' = up \ {held[r]}
        /\ UNCHANGED <<held, pool, topUp>>
    BY <1>5 DEF RecycleFails, DestroyHeld, HookFails, Remove, IInv, HeldAgrees, tickVars
  <2>2. \A d \in Containers \ {held[r]} : Owner(d)' = Owner(d)
    BY <2>1, OwnerKept
  <2>3. QED BY <2>1, <2>2, RemovalDestroys DEF Ownership!OwnerNext
<1>6. CASE CommitExecute(r)
  <2>1. held[r] \in Containers
    BY <1>6 DEF CommitExecute, IInv, HeldAgrees
  <2>2. /\ UNCHANGED <<up, topUp>> /\ held' = [held EXCEPT ![r] = NoContainer]
        /\ \A d \in Containers \ {held[r]} : d \in pool <=> d \in pool'
    BY <1>6 DEF CommitExecute, Forget, tickVars
  <2>3. QED BY <2>1, <2>2, LettingGo DEF Ownership!OwnerNext
<1>7. CASE Rollback(r) \/ Crash(r)
  <2>1. UNCHANGED <<up, pool, topUp>> /\ held' = [held EXCEPT ![r] = NoContainer]
    BY <1>7 DEF Rollback, Crash, Forget, tickVars
  <2>2. CASE held[r] \in Containers
    BY <2>1, <2>2, LettingGo DEF Ownership!OwnerNext
  <2>3. CASE held[r] = NoContainer
    <3>1. held' = held
      BY <2>1, <2>3 DEF IInv, TypeOK
    <3>2. QED BY <2>1, <3>1, OwnerKept, AllKept
  <2>4. QED BY <2>2, <2>3 DEF IInv, TypeOK
<1>8. CASE DestroySandbox(r)
  <2>1. /\ held[r] \in Containers /\ up' = up \ {held[r]} /\ UNCHANGED <<pool, topUp>>
        /\ held' = [held EXCEPT ![r] = NoContainer]
    BY <1>8 DEF DestroySandbox, Remove, Forget, IInv, HeldAgrees, tickVars
  <2>2. \A d \in Containers \ {held[r]} : Owner(d)' = Owner(d)
    BY <2>1, OwnerKept, ContainerAssumption DEF IInv, TypeOK
  <2>3. QED BY <2>1, <2>2, RemovalDestroys DEF Ownership!OwnerNext
<1>9. HookFails(r) => Remove(held[r]) \/ up' = up
  BY DEF HookFails
<1>10. QED BY <1>1, <1>2, <1>3, <1>4, <1>5, <1>6, <1>7, <1>8, <1>9 DEF Request, Work

LEMMA TickRefines ==
  ASSUME IInv, IInv', Tick
  PROVE  UNCHANGED owners \/ Ownership!OwnerNext
<1>1. UNCHANGED held
  BY DEF Tick, TickStart, TickAcquire, TickAcquireFails, TickCommit, GcList, GcDestroy,
         TickDone, TickAborts, requestVars
<1>2. CASE TickStart \/ TickAcquireFails \/ TickCommit \/ GcList \/ TickDone
  <2>1. up' = up /\ pool' \cup topUp' = pool \cup topUp
    BY <1>2 DEF TickStart, TickAcquireFails, TickCommit, GcList, TickDone
  <2>2. QED BY <1>1, <2>1, OwnerKept, AllKept
<1>3. CASE TickAcquire
  <2>1. PICK c \in Unused : Appear(c) /\ topUp' = topUp \cup {c}
    BY <1>3 DEF TickAcquire
  <2>2. /\ pool' = pool /\ up' = up \cup {c} /\ c \in Containers /\ c \notin up /\ ~InUse(c)
        /\ ~InUse(c)'
    BY <1>1, <1>3, <2>1 DEF TickAcquire, Appear, Unused, InUse
  <2>3. \A d \in Containers \ {c} : Owner(d)' = Owner(d)
    BY <1>1, <2>1, <2>2, OwnerKept
  <2>4. Owner(c) = "nobody" /\ Owner(c)' = "pool"
    BY <2>1, <2>2, OwnerIs, OwnerIsNext DEF OwnersKnown
  <2>5. owners' = [owners EXCEPT ![c] = "pool"] /\ owners[c] = "nobody"
    BY <2>2, <2>3, <2>4, OneChanges DEF owners
  <2>6. Ownership!Provision(c, "pool")
    BY <2>5 DEF Ownership!Provision, owners
  <2>7. QED BY <2>2, <2>6 DEF Ownership!OwnerNext
<1>4. ASSUME NEW c \in Containers, GcDestroy(c)
      PROVE  Ownership!OwnerNext
  <2>1. up' = up \ {c} /\ UNCHANGED <<pool, topUp>>
    BY <1>4 DEF GcDestroy, Remove
  <2>2. \A d \in Containers \ {c} : Owner(d)' = Owner(d)
    BY <1>1, <2>1, OwnerKept
  <2>3. QED BY <2>1, <2>2, RemovalDestroys DEF Ownership!OwnerNext
<1>5. CASE TickAborts
  <2> DEFINE S == {c \in topUp : c \in up}
  <2>1. UNCHANGED <<up, pool>> /\ topUp' = {} /\ S \subseteq Containers
    BY <1>5 DEF TickAborts, IInv, TypeOK
  <2>2. \A c \in S : Owner(c) = "pool" /\ Owner(c)' = "lost"
    <3>1. \A c \in S : ~InUse(c) /\ ~InUse(c)' /\ c \notin pool
      BY <1>1 DEF IInv, TopUpFresh, InUse
    <3>2. QED BY <2>1, <3>1, OwnerIs, OwnerIsNext DEF OwnersKnown
  <2>3. \A d \in Containers \ S : Owner(d)' = Owner(d)
    <3>1. SUFFICES ASSUME NEW d \in Containers, d \notin S PROVE Owner(d)' = Owner(d)
      OBVIOUS
    <3>2. CASE d \in up
      BY <1>1, <2>1, <3>1, <3>2, OwnerKept
    <3>3. CASE d \notin up
      BY <2>1, <3>3, OwnerIs, OwnerIsNext DEF OwnersKnown
    <3>4. QED BY <3>2, <3>3
  <2>4. owners' = [c \in Containers |-> IF c \in S THEN "lost" ELSE owners[c]]
    BY <2>1, <2>2, <2>3 DEF owners
  <2>5. \A c \in S : owners[c] = "pool"
    BY <2>1, <2>2 DEF owners
  <2>6. Ownership!Lose(S)
    BY <2>4, <2>5 DEF Ownership!Lose, owners
  <2>7. QED BY <2>1, <2>6 DEF Ownership!OwnerNext
<1>6. QED BY <1>2, <1>3, <1>4, <1>5 DEF Tick

(* The code implements ContainerOwnership: containers only change hands    *)
(* through the pool, and one nobody remembers is never used again.         *)
THEOREM ImplementsOwnership == Spec => OwnershipRefined
<1>1. Init => Ownership!OwnerInit
  BY DEF Init, Ownership!OwnerInit, Owner
<1>2. IInv /\ IInv' /\ [Next]_vars => [Ownership!OwnerNext]_owners
  <2> SUFFICES ASSUME IInv, IInv', [Next]_vars PROVE [Ownership!OwnerNext]_owners
    OBVIOUS
  <2>1. ASSUME NEW r \in Requests, Request(r) PROVE [Ownership!OwnerNext]_owners
    BY <2>1, RequestRefines
  <2>2. CASE Tick
    BY <2>2, TickRefines
  <2>3. CASE UNCHANGED vars \/ \E c \in Containers : Age(c)
    <3>1. UNCHANGED <<up, held, pool, topUp>>
      BY <2>3 DEF vars, Age, requestVars, tickVars
    <3>2. QED BY <3>1, OwnerKept, AllKept
  <2>4. QED BY <2>1, <2>2, <2>3 DEF Next
<1>3. IInv /\ IInv' /\ [Next]_vars
        => [Ownership!OwnerNext]_([c \in Containers |-> Owner(c)])
  BY <1>2 DEF owners
<1>4. QED BY <1>1, <1>3, IInvHolds, PTL DEF Spec, OwnershipRefined, Ownership!OwnerSpec
==============================================================================
