-------------------------- MODULE MCRequests_proofs --------------------------
(***************************************************************************)
(* Theorems about what a request meets: AsyncRuns, Admission, RateLimiter, *)
(* ViewerLock, Catalog and Builds, as MCRequests composes them, for every  *)
(* choice of the constants that MCRequests leaves open.                    *)
(*                                                                         *)
(* Each part has its inductive invariant; the sections below prove that    *)
(* its steps keep it, and the last one puts them together.                 *)
(***************************************************************************)
EXTENDS MCRequests, Integers, Sequences, FiniteSetTheorems, WellFoundedInduction, TLAPS

-----------------------------------------------------------------------------
(* AsyncRuns.  RunsHonest is not inductive: that nothing rewrites a row    *)
(* somebody has read as done follows from where its background task can be *)
(* by then, so RunsInv ties the row's status to the task.                  *)

(* A row that is done has no task any more: neither a late commit nor a    *)
(* late failure can change it.                                             *)
DoneIsOver == \A r \in Requests : status[r] \in Done => task[r] = "over"

(* A row without a task has not been accepted, or nobody drives it.        *)
QueuedIsAccepted == \A r \in Requests : task[r] = "none" <=> status[r] = "none"

(* Who polls has been accepted.                                            *)
WaitersAccepted ==
    \A r \in Requests : client[r] \in {"idle", "refused"} <=> status[r] = "none"

RunsInv == TypeOK /\ RunsHonest /\ DoneIsOver /\ QueuedIsAccepted /\ WaitersAccepted

LEMMA InitRunsInv == Init => RunsInv
  BY PatienceAssumption
  DEF Init, RunsInv, TypeOK, RunsHonest, ChargedForResult, AnswerStands, DoneIsOver,
      QueuedIsAccepted, WaitersAccepted, Done

(* The request is refused; its row and its task begin.                     *)
LEMMA RunsRefuseStep ==
  ASSUME RunsInv, NEW r \in Requests, Refuse(r)
  PROVE  RunsInv'
<1> USE DEF RunsInv, Refuse, To, Done, rowVars
<1>1. TypeOK'
  BY DEF TypeOK
<1>2. ChargedForResult'
  BY DEF RunsHonest, ChargedForResult
<1>3. AnswerStands'
  BY DEF TypeOK, RunsHonest, AnswerStands
<1>4. DoneIsOver' /\ QueuedIsAccepted'
  BY DEF DoneIsOver, QueuedIsAccepted
<1>5. WaitersAccepted'
  BY DEF TypeOK, WaitersAccepted
<1>6. QED BY <1>1, <1>2, <1>3, <1>4, <1>5 DEF RunsHonest

LEMMA RunsAcceptStep ==
  ASSUME RunsInv, NEW r \in Requests, Accept(r)
  PROVE  RunsInv'
<1> USE DEF RunsInv, Accept, To, Done, rowVars
<1>1. TypeOK'
  BY DEF TypeOK
<1>2. ChargedForResult'
  BY DEF TypeOK, RunsHonest, ChargedForResult, WaitersAccepted
<1>3. AnswerStands'
  BY DEF TypeOK, RunsHonest, AnswerStands
<1>4. DoneIsOver'
  BY DEF TypeOK, DoneIsOver
<1>5. QueuedIsAccepted'
  BY DEF TypeOK, QueuedIsAccepted
<1>6. WaitersAccepted'
  BY DEF TypeOK, WaitersAccepted
<1>7. QED BY <1>1, <1>2, <1>3, <1>4, <1>5, <1>6 DEF RunsHonest

(* The task's steps that leave the row as it is.                           *)
LEMMA RunsQuietSteps ==
  ASSUME RunsInv, NEW r \in Requests,
         BeginFails(r) \/ Run(r) \/ RunFails(r) \/ CommitFails(r) \/ MarkFailedFails(r)
  PROVE  RunsInv'
<1>1. UNCHANGED <<status, result, charged, client, polls, seen>>
  BY DEF BeginFails, Run, RunFails, CommitFails, MarkFailedFails, rowVars, clientVars
<1>2. PICK where \in {"over", "ran", "failing"} : task' = [task EXCEPT ![r] = where]
  BY DEF BeginFails, Run, RunFails, CommitFails, MarkFailedFails, To
<1>3. task[r] \in {"queued", "running", "ran", "failing"}
  BY DEF BeginFails, Run, RunFails, CommitFails, MarkFailedFails
<1>4. task \in [Requests -> {"none", "queued", "running", "ran", "failing", "over"}]
  BY DEF RunsInv, TypeOK
<1>5. program' \in [Requests -> 0 .. 1]
  <2>1. program \in [Requests -> 0 .. 1]
    BY DEF RunsInv, TypeOK
  <2>2. program' = [program EXCEPT ![r] = 1] \/ program' = program
    BY DEF BeginFails, Run, RunFails, CommitFails, MarkFailedFails, To
  <2>3. QED BY <2>1, <2>2
<1>6. task' \in [Requests -> {"none", "queued", "running", "ran", "failing", "over"}]
  BY <1>2, <1>4
<1>7. TypeOK'
  BY <1>1, <1>5, <1>6 DEF RunsInv, TypeOK
<1>8. RunsHonest' /\ WaitersAccepted'
  BY <1>1 DEF RunsInv, RunsHonest, ChargedForResult, AnswerStands, WaitersAccepted
<1>9. DoneIsOver' /\ QueuedIsAccepted'
  BY <1>1, <1>2, <1>3, <1>4 DEF RunsInv, DoneIsOver, QueuedIsAccepted, Done
<1>10. QED BY <1>7, <1>8, <1>9 DEF RunsInv

(* The task's steps that write the row, which nobody has read as done.     *)
LEMMA RunsRowSteps ==
  ASSUME RunsInv, NEW r \in Requests, Begin(r) \/ Commit(r) \/ MarkFailed(r)
  PROVE  RunsInv'
<1> USE DEF RunsInv, Done
<1>1. task[r] \in {"queued", "ran", "failing"}
  BY DEF Begin, Commit, MarkFailed
<1>2. status[r] \notin Done /\ status[r] # "none"
  BY <1>1 DEF DoneIsOver, QueuedIsAccepted
<1>3. client[r] # "answered" /\ ~charged[r]
  BY <1>2 DEF RunsHonest, ChargedForResult, AnswerStands
<1>4. /\ \/ Begin(r) /\ status' = [status EXCEPT ![r] = "running"] /\ task' = [task EXCEPT ![r] = "running"]
         \/ Commit(r) /\ status' = [status EXCEPT ![r] = "completed"] /\ task' = [task EXCEPT ![r] = "over"]
         \/ MarkFailed(r) /\ status' = [status EXCEPT ![r] = "failed"] /\ task' = [task EXCEPT ![r] = "over"]
      /\ UNCHANGED <<program, client, polls, seen>>
  BY DEF Begin, Commit, MarkFailed, To, clientVars
<1>5. /\ status'[r] # "none" /\ task'[r] # "none"
      /\ \A q \in Requests \ {r} : status'[q] = status[q] /\ task'[q] = task[q]
  BY <1>4 DEF TypeOK
<1>6. TypeOK'
  <2>1. result' \in [Requests -> BOOLEAN] /\ charged' \in [Requests -> BOOLEAN]
    BY DEF TypeOK, Begin, Commit, MarkFailed, To
  <2>2. /\ status' \in [Requests -> {"none", "pending", "running"} \cup Done]
        /\ task' \in [Requests -> {"none", "queued", "running", "ran", "failing", "over"}]
    BY <1>4 DEF TypeOK
  <2>3. QED BY <1>4, <2>1, <2>2 DEF TypeOK
<1>7. ChargedForResult'
  <2>1. CASE Commit(r)
    BY <2>1 DEF TypeOK, RunsHonest, ChargedForResult, Commit, To
  <2>2. CASE Begin(r) \/ MarkFailed(r)
    <3>1. UNCHANGED <<result, charged>> /\ status'[r] # "completed"
      BY <2>2 DEF TypeOK, Begin, MarkFailed, To
    <3>2. QED BY <1>3, <1>5, <3>1 DEF RunsHonest, ChargedForResult
  <2>3. QED BY <1>4, <2>1, <2>2
<1>8. AnswerStands'
  BY <1>3, <1>4 DEF TypeOK, RunsHonest, AnswerStands
<1>9. DoneIsOver'
  BY <1>4 DEF TypeOK, DoneIsOver
<1>10. QueuedIsAccepted'
  BY <1>1, <1>2, <1>5 DEF QueuedIsAccepted
<1>11. WaitersAccepted'
  BY <1>2, <1>4, <1>5 DEF WaitersAccepted
<1>12. QED BY <1>6, <1>7, <1>8, <1>9, <1>10, <1>11 DEF RunsHonest

LEMMA RunsRestartStep ==
  ASSUME RunsInv, Restart
  PROVE  RunsInv'
<1> USE DEF RunsInv, Restart, Done, rowVars, clientVars
<1>1. TypeOK'
  BY DEF TypeOK
<1>2. RunsHonest'
  BY DEF RunsHonest, ChargedForResult, AnswerStands
<1>3. DoneIsOver' /\ QueuedIsAccepted' /\ WaitersAccepted'
  BY DEF TypeOK, DoneIsOver, QueuedIsAccepted, WaitersAccepted
<1>4. QED BY <1>1, <1>2, <1>3

(* What a poll answers is the row, which is then over.                     *)
LEMMA RunsPollStep ==
  ASSUME RunsInv, NEW r \in Requests, Poll(r)
  PROVE  RunsInv'
<1> USE DEF RunsInv
<1>1. UNCHANGED <<status, result, charged, task, program>>
  BY DEF Poll, rowVars
<1>2. TypeOK'
  <2>1. /\ polls \in [Requests -> 0 .. Patience] /\ polls[r] < Patience
        /\ polls' = [polls EXCEPT ![r] = polls[r] + 1]
    BY DEF Poll, To, TypeOK
  <2>2. polls' \in [Requests -> 0 .. Patience]
    BY <2>1, PatienceAssumption
  <2>3. seen' \in [Requests -> {"none", "pending", "running"} \cup Done]
    BY DEF Poll, To, TypeOK
  <2>4. client' \in [Requests -> {"idle", "refused", "waiting", "answered", "gave up"}]
    BY DEF Poll, To, TypeOK
  <2>5. QED BY <1>1, <2>2, <2>3, <2>4 DEF TypeOK
<1>3. /\ \A q \in Requests \ {r} : client'[q] = client[q] /\ seen'[q] = seen[q]
      /\ seen'[r] = status[r]
      /\ client'[r] \in {"answered", "gave up", "waiting"}
      /\ client'[r] = "answered" => status[r] \in Done
      /\ client[r] = "waiting"
  BY DEF Poll, To, TypeOK
<1>4. RunsHonest'
  BY <1>1, <1>3 DEF RunsHonest, ChargedForResult, AnswerStands
<1>5. DoneIsOver' /\ QueuedIsAccepted'
  BY <1>1 DEF DoneIsOver, QueuedIsAccepted
<1>6. WaitersAccepted'
  BY <1>1, <1>3 DEF WaitersAccepted
<1>7. QED BY <1>2, <1>4, <1>5, <1>6


LEMMA NextRunsInv ==
  ASSUME "lost" \notin Faults, RunsInv, [Next]_onlyRuns
  PROVE  RunsInv'
<1>1. ASSUME NEW r \in Requests, Refuse(r) \/ Accept(r) PROVE RunsInv'
  BY <1>1, RunsRefuseStep, RunsAcceptStep
<1>2. ASSUME NEW r \in Requests, Work(r) PROVE RunsInv'
  BY <1>2, RunsQuietSteps, RunsRowSteps DEF Work, CommitLost
<1>3. ASSUME NEW r \in Requests, Poll(r) PROVE RunsInv'
  BY <1>3, RunsPollStep
<1>4. CASE Restart
  BY <1>4, RunsRestartStep
<1>5. CASE UNCHANGED onlyRuns
  BY <1>5 DEF onlyRuns, RunsInv, TypeOK, RunsHonest, ChargedForResult,
          AnswerStands, DoneIsOver, QueuedIsAccepted, WaitersAccepted
<1>6. QED BY <1>1, <1>2, <1>3, <1>4, <1>5 DEF Next

-----------------------------------------------------------------------------
(* Admission.  The bound on what is admitted is inductive only together    *)
(* with what the connections are for: whoever has been admitted holds one  *)
(* until its own sandbox counts, so at a check, which the quota has still  *)
(* room for, the others that are admitted are fewer than the connections.  *)

LEMMA QueueCounts == \A S : Queue!Cardinality(S) = Cardinality(S)
  BY DEF Queue!Cardinality, Cardinality

(* A request holds one connection from its first query to its end, and a   *)
(* second while its refusal is recorded.                                   *)
HoldsOne == {"check", "refused", "slot", "running", "commit"}

ConnectionsHeld ==
    \A r \in Askers :
        /\ queuePc[r] \in HoldsOne => holds[r] = 1
        /\ queuePc[r] \in {"new", "done", "error"} => holds[r] = 0

NoMoreThanPool == Queue!InUse(1) + Queue!InUse(2) <= Connections

(* Only heavy runs wait for a slot.                                        *)
HeavyWait == \A r \in Askers : queuePc[r] = "slot" => r \in Heavy

QueueInv == Queue!TypeOK /\ ConnectionsHeld /\ HeavyWait /\ NoMoreThanPool /\ Queue!OverAdmissionBounded

-----------------------------------------------------------------------------
(* Connections.                                                            *)

Holders(n) == {r \in Askers : holds[r] >= n}

LEMMA InUseIsNat == Queue!InUse(1) \in Nat /\ Queue!InUse(2) \in Nat
<1>1. Holders(1) \in SUBSET Askers /\ Holders(2) \in SUBSET Askers
  BY DEF Holders
<1>2. IsFiniteSet(Holders(1)) /\ IsFiniteSet(Holders(2))
  BY <1>1, FS_Subset, QueueAssumption
<1>3. Cardinality(Holders(1)) \in Nat /\ Cardinality(Holders(2)) \in Nat
  BY <1>2, FS_CardinalityType
<1>4. QED BY <1>3, QueueCounts DEF Queue!InUse, Holders

(* A connection is given back.                                             *)
LEMMA GiveBack ==
  ASSUME Queue!TypeOK, NoMoreThanPool, NEW r \in Askers, NEW n \in 0 .. 2,
         n <= holds[r], Queue!Give(r, n)
  PROVE  NoMoreThanPool' /\ holds' \in [Askers -> 0 .. 2]
<1>1. holds \in [Askers -> 0 .. 2] /\ holds' = [holds EXCEPT ![r] = n]
  BY DEF Queue!TypeOK, Queue!Give
<1>2. holds' \in [Askers -> 0 .. 2]
  BY <1>1
<1>3. \A q \in Askers : holds'[q] <= holds[q]
  BY <1>1
<1>4. ASSUME NEW k \in {1, 2} PROVE Queue!InUse(k)' <= Queue!InUse(k) /\ Queue!InUse(k)' \in Nat
  <2>1. Holders(k)' \subseteq Holders(k)
    BY <1>1, <1>2, <1>3 DEF Holders
  <2>2. IsFiniteSet(Holders(k))
    <3>1. Holders(k) \in SUBSET Askers
      BY DEF Holders
    <3>2. QED BY <3>1, FS_Subset, QueueAssumption
  <2>3. Cardinality(Holders(k)') <= Cardinality(Holders(k)) /\ IsFiniteSet(Holders(k)')
    BY <2>1, <2>2, FS_Subset
  <2>4. Cardinality(Holders(k)') \in Nat
    BY <2>3, FS_CardinalityType
  <2>5. QED BY <2>3, <2>4, QueueCounts DEF Queue!InUse, Holders
<1>5. Queue!InUse(1)' + Queue!InUse(2)' <= Connections
  <2>1. /\ Queue!InUse(1)' <= Queue!InUse(1) /\ Queue!InUse(2)' <= Queue!InUse(2)
        /\ Queue!InUse(1)' \in Nat /\ Queue!InUse(2)' \in Nat /\ Queue!InUse(1) \in Nat /\ Queue!InUse(2) \in Nat
    BY <1>4, InUseIsNat
  <2>2. QED BY <2>1, QueueAssumption DEF NoMoreThanPool
<1>6. QED BY <1>2, <1>5 DEF NoMoreThanPool

(* One that is free is taken.                                              *)
LEMMA TakeOne ==
  ASSUME Queue!TypeOK, NoMoreThanPool, NEW r \in Askers, NEW n \in {1, 2},
         holds[r] = n - 1, Queue!Free > 0, Queue!Give(r, n)
  PROVE  NoMoreThanPool' /\ holds' \in [Askers -> 0 .. 2]
<1>1. holds \in [Askers -> 0 .. 2] /\ holds' = [holds EXCEPT ![r] = n]
  BY DEF Queue!TypeOK, Queue!Give
<1>2. holds' \in [Askers -> 0 .. 2]
  BY <1>1
<1>3. holds'[r] = n /\ \A q \in Askers \ {r} : holds'[q] = holds[q]
  BY <1>1
<1>4. ASSUME NEW k \in {1, 2}
      PROVE  Queue!InUse(k)' = (IF k = n THEN Queue!InUse(k) + 1 ELSE Queue!InUse(k))
  <2>1. IsFiniteSet(Holders(k))
    <3>1. Holders(k) \in SUBSET Askers
      BY DEF Holders
    <3>2. QED BY <3>1, FS_Subset, QueueAssumption
  <2>2. CASE k = n
    <3>1. Holders(k)' = Holders(k) \cup {r} /\ r \notin Holders(k)
      BY <1>1, <1>3, <2>2 DEF Holders
    <3>2. Cardinality(Holders(k)') = Cardinality(Holders(k)) + 1
      BY <2>1, <3>1, FS_AddElement
    <3>3. QED BY <2>2, <3>2, QueueCounts DEF Queue!InUse, Holders
  <2>3. CASE k # n
    <3>1. Holders(k)' = Holders(k)
      BY <1>1, <1>3, <2>3 DEF Holders
    <3>2. QED BY <2>3, <3>1, QueueCounts DEF Queue!InUse, Holders
  <2>4. QED BY <2>2, <2>3
<1>5. Queue!InUse(1)' + Queue!InUse(2)' = Queue!InUse(1) + Queue!InUse(2) + 1
  <2>1. Queue!InUse(1) \in Nat /\ Queue!InUse(2) \in Nat
    BY InUseIsNat
  <2>2. CASE n = 1
    BY <1>4, <2>1, <2>2
  <2>3. CASE n = 2
    BY <1>4, <2>1, <2>3
  <2>4. QED BY <2>2, <2>3
<1>6. Queue!InUse(1) + Queue!InUse(2) + 1 <= Connections
  BY InUseIsNat, QueueAssumption DEF Queue!Free
<1>7. QED BY <1>2, <1>5, <1>6 DEF NoMoreThanPool

LEMMA SameHolds ==
  ASSUME NoMoreThanPool, UNCHANGED holds
  PROVE  NoMoreThanPool'
  BY QueueCounts DEF NoMoreThanPool, Queue!InUse

-----------------------------------------------------------------------------
(* Admission.                                                              *)

Counted == live \cup (Queue!Admitted \cap Creating)

LEMMA CountedIsFinite ==
  ASSUME Queue!TypeOK
  PROVE  IsFiniteSet(Counted) /\ Cardinality(Counted) \in Nat
<1>1. Counted \in SUBSET Askers
  BY QueueAssumption DEF Queue!TypeOK, Counted, Queue!Admitted
<1>2. IsFiniteSet(Counted)
  BY <1>1, FS_Subset, QueueAssumption
<1>3. QED BY <1>2, FS_CardinalityType

LEMMA NoneMoreCounted ==
  ASSUME Queue!TypeOK, Queue!OverAdmissionBounded, Counted' \subseteq Counted
  PROVE  Queue!OverAdmissionBounded'
<1>1. Cardinality(Counted') <= Cardinality(Counted) /\ IsFiniteSet(Counted')
  BY CountedIsFinite, FS_Subset
<1>2. Cardinality(Counted') \in Nat /\ Cardinality(Counted) \in Nat
  BY <1>1, CountedIsFinite, FS_CardinalityType
<1>3. Cardinality(Counted) < Quota + Connections
  BY QueueCounts DEF Queue!OverAdmissionBounded, Counted
<1>4. Cardinality(Counted') < Quota + Connections
  BY <1>1, <1>2, <1>3, QueueAssumption
<1>5. QED BY <1>4, QueueCounts DEF Queue!OverAdmissionBounded, Counted

(* Of those that hold a connection at most all but the checked one were    *)
(* admitted before it.                                                     *)
LEMMA CheckKeepsBound ==
  ASSUME QueueInv, NEW r \in Askers, Queue!Check(r)
  PROVE  Queue!OverAdmissionBounded'
<1> USE DEF QueueInv
<1>1. /\ queuePc[r] = "check" /\ live' = live
      /\ Queue!Go(r, IF Queue!Exceeded(r) THEN "refused" ELSE IF r \in Heavy \ Creating THEN "slot" ELSE "running")
  BY DEF Queue!Check
<1>2. \A q \in Askers \ {r} : queuePc'[q] = queuePc[q]
  BY <1>1 DEF Queue!Go, Queue!TypeOK
<1>3. CASE Queue!Exceeded(r)
  <2>1. queuePc'[r] = "refused"
    BY <1>1, <1>3 DEF Queue!Go, Queue!TypeOK
  <2>2. Counted' \subseteq Counted
    BY <1>1, <1>2, <2>1 DEF Counted, Queue!Admitted
  <2>3. QED BY <2>2, NoneMoreCounted
<1>4. CASE ~Queue!Exceeded(r)
  <2> DEFINE Others == (Queue!Admitted' \cap Creating) \ {r}
  <2>1. Others \cup {r} \subseteq Holders(1) /\ r \notin Others
    BY <1>1, <1>2 DEF Queue!Admitted, Holders, ConnectionsHeld, HoldsOne
  <2>2. Holders(1) \in SUBSET Askers /\ IsFiniteSet(Holders(1))
    <3>1. Holders(1) \in SUBSET Askers
      BY DEF Holders
    <3>2. QED BY <3>1, FS_Subset, QueueAssumption
  <2>3. Cardinality(Others \cup {r}) <= Cardinality(Holders(1)) /\ IsFiniteSet(Others \cup {r})
    BY <2>1, <2>2, FS_Subset
  <2>4. Cardinality(Others \cup {r}) <= Connections
    <3>1. Cardinality(Others \cup {r}) \in Nat
      BY <2>3, FS_CardinalityType
    <3>2. Cardinality(Holders(1)) <= Connections /\ Cardinality(Holders(1)) \in Nat
      BY InUseIsNat, QueueAssumption, QueueCounts DEF NoMoreThanPool, Queue!InUse, Holders
    <3>3. QED BY <2>3, <3>1, <3>2, QueueAssumption
  <2>5. IsFiniteSet(live) /\ Cardinality(live) \in Nat /\ Cardinality(live) + 1 <= Quota
    <3>1. live \in SUBSET Askers
      BY QueueAssumption DEF Queue!TypeOK
    <3>2. IsFiniteSet(live)
      BY <3>1, FS_Subset, QueueAssumption
    <3>3. Cardinality(live) \in Nat
      BY <3>2, FS_CardinalityType
    <3>4. QED BY <1>4, <3>2, <3>3, QueueAssumption, QueueCounts DEF Queue!Exceeded
  <2>6. Counted' \subseteq live \cup (Others \cup {r})
    BY <1>1 DEF Counted
  <2>7. Cardinality(live \cup (Others \cup {r})) <= Cardinality(live) + Cardinality(Others \cup {r})
    <3>1. /\ IsFiniteSet(live \cap (Others \cup {r}))
          /\ Cardinality(live \cup (Others \cup {r}))
               = Cardinality(live) + Cardinality(Others \cup {r}) - Cardinality(live \cap (Others \cup {r}))
      BY <2>3, <2>5, FS_Union, FS_Intersection
    <3>2. Cardinality(live \cap (Others \cup {r})) \in Nat /\ Cardinality(Others \cup {r}) \in Nat
      BY <2>3, <3>1, FS_CardinalityType
    <3>3. QED BY <2>5, <3>1, <3>2
  <2>8. Cardinality(Counted') <= Cardinality(live \cup (Others \cup {r})) /\ Cardinality(Counted') \in Nat
    <3>1. IsFiniteSet(live \cup (Others \cup {r}))
      BY <2>3, <2>5, FS_Union
    <3>2. Cardinality(Counted') <= Cardinality(live \cup (Others \cup {r})) /\ IsFiniteSet(Counted')
      BY <2>6, <3>1, FS_Subset
    <3>3. QED BY <3>2, FS_CardinalityType
  <2>9. Cardinality(Others \cup {r}) \in Nat /\ Cardinality(live \cup (Others \cup {r})) \in Nat
    BY <2>3, <2>5, FS_Union, FS_CardinalityType
  <2>10. Cardinality(Counted') < Quota + Connections
    BY <2>4, <2>5, <2>7, <2>8, <2>9, QueueAssumption
  <2>11. QED BY <2>10, QueueCounts DEF Queue!OverAdmissionBounded, Counted
<1>5. QED BY <1>3, <1>4

-----------------------------------------------------------------------------

LEMMA InitQueueInv == Queue!Init => QueueInv
<1> SUFFICES ASSUME Queue!Init PROVE QueueInv
  OBVIOUS
<1>1. Queue!TypeOK
  BY DEF Queue!Init, Queue!TypeOK
<1>2. ConnectionsHeld
  BY DEF Queue!Init, ConnectionsHeld, HoldsOne
<1>3. HeavyWait
  BY DEF Queue!Init, HeavyWait
<1>4. NoMoreThanPool
  <2>1. {r \in Askers : holds[r] >= 1} = {} /\ {r \in Askers : holds[r] >= 2} = {}
    BY DEF Queue!Init
  <2>2. Queue!InUse(1) = 0 /\ Queue!InUse(2) = 0
    BY <2>1, FS_EmptySet, QueueCounts DEF Queue!InUse
  <2>3. QED BY <2>2, QueueAssumption DEF NoMoreThanPool
<1>5. Queue!OverAdmissionBounded
  <2>1. live \cup (Queue!Admitted \cap Creating) = {}
    BY DEF Queue!Init, Queue!Admitted
  <2>2. QED BY <2>1, FS_EmptySet, QueueAssumption, QueueCounts DEF Queue!OverAdmissionBounded
<1>6. QED BY <1>1, <1>2, <1>4, <1>5, <1>3 DEF QueueInv

(* A step of one request that gives a connection back or none, and of      *)
(* which the quota counts nothing new.                                     *)
LEMMA RequestMoves ==
  ASSUME QueueInv, NEW r \in Askers,
         \/ Queue!ConnectFails(r) \/ Queue!AuditFails(r) \/ Queue!AuditCommit(r) \/ Queue!EnterSlot(r) \/ Queue!Run(r) \/ Queue!RunFails(r)
         \/ Queue!Commit(r) \/ Queue!CommitFails(r) \/ Queue!Destroy(r) \/ Queue!Again(r)
  PROVE  QueueInv'
<1> USE DEF QueueInv
<1>1. /\ queuePc' \in [Askers -> {"new", "check", "refused", "audit", "slot", "running", "commit", "done", "error"}]
      /\ \A q \in Askers \ {r} : queuePc'[q] = queuePc[q]
  <2>1. UNCHANGED queuePc \/ \E where \in {"new", "done", "error", "running", "commit"} : Queue!Go(r, where)
    BY DEF Queue!ConnectFails, Queue!AuditFails, Queue!AuditCommit, Queue!EnterSlot, Queue!Run, Queue!RunFails, Queue!Commit, Queue!CommitFails, Queue!Destroy, Queue!Again
  <2>2. QED BY <2>1 DEF Queue!TypeOK, Queue!Go
<1>2. live' \subseteq Creating /\ slot' \subseteq Heavy /\ audited' \subseteq Askers
  <2>1. live' \subseteq Creating
    BY DEF Queue!TypeOK, Queue!ConnectFails, Queue!AuditFails, Queue!AuditCommit, Queue!EnterSlot, Queue!Run, Queue!RunFails, Queue!Commit, Queue!CommitFails,
           Queue!Destroy, Queue!Again
  <2>2. audited' \subseteq Askers
    BY DEF Queue!TypeOK, Queue!ConnectFails, Queue!AuditFails, Queue!AuditCommit, Queue!EnterSlot, Queue!Run, Queue!RunFails, Queue!Commit, Queue!CommitFails,
           Queue!Destroy, Queue!Again
  <2>3. slot' \subseteq Heavy
    BY DEF Queue!TypeOK, HeavyWait, Queue!ConnectFails, Queue!AuditFails, Queue!AuditCommit, Queue!EnterSlot, Queue!Run, Queue!RunFails, Queue!Commit,
           Queue!CommitFails, Queue!Destroy, Queue!Again, Queue!Leave
  <2>4. QED BY <2>1, <2>2, <2>3
<1>3. HeavyWait'
  <2>1. queuePc'[r] # "slot" \/ queuePc'[r] = queuePc[r]
    BY DEF Queue!TypeOK, Queue!ConnectFails, Queue!AuditFails, Queue!AuditCommit, Queue!EnterSlot, Queue!Run, Queue!RunFails, Queue!Commit, Queue!CommitFails, Queue!Destroy,
           Queue!Again, Queue!Go
  <2>2. QED BY <1>1, <2>1 DEF HeavyWait
<1>4. UNCHANGED holds \/ Queue!Give(r, 0)
  BY DEF Queue!ConnectFails, Queue!AuditFails, Queue!AuditCommit, Queue!EnterSlot, Queue!Run, Queue!RunFails, Queue!Commit, Queue!CommitFails, Queue!Destroy, Queue!Again
<1>5. NoMoreThanPool' /\ holds' \in [Askers -> 0 .. 2]
  <2>1. 0 <= holds[r] /\ 0 \in 0 .. 2
    BY DEF Queue!TypeOK
  <2>2. CASE UNCHANGED holds
    BY <2>2, SameHolds DEF Queue!TypeOK
  <2>3. CASE Queue!Give(r, 0)
    BY <2>1, <2>3, GiveBack
  <2>4. QED BY <1>4, <2>2, <2>3
<1>6. ConnectionsHeld'
  <2>1. \A q \in Askers \ {r} : holds'[q] = holds[q]
    BY <1>4 DEF Queue!TypeOK, Queue!Give
  <2>2. /\ queuePc'[r] \in HoldsOne => holds'[r] = 1
        /\ queuePc'[r] \in {"new", "done", "error"} => holds'[r] = 0
    <3>1. CASE UNCHANGED holds
      BY <3>1 DEF ConnectionsHeld, HoldsOne, Queue!TypeOK, Queue!ConnectFails, Queue!AuditFails, Queue!AuditCommit, Queue!EnterSlot, Queue!Run,
             Queue!RunFails, Queue!Commit, Queue!CommitFails, Queue!Destroy, Queue!Again, Queue!Go, Queue!Give
    <3>2. CASE Queue!Give(r, 0)
      BY <3>2 DEF ConnectionsHeld, HoldsOne, Queue!TypeOK, Queue!ConnectFails, Queue!AuditFails, Queue!AuditCommit, Queue!EnterSlot, Queue!Run,
             Queue!RunFails, Queue!Commit, Queue!CommitFails, Queue!Destroy, Queue!Again, Queue!Go, Queue!Give
    <3>3. QED BY <1>4, <3>1, <3>2
  <2>3. QED BY <1>1, <2>1, <2>2 DEF ConnectionsHeld
<1>7. Counted' \subseteq Counted
  BY <1>1 DEF Counted, Queue!Admitted, Queue!TypeOK, Queue!ConnectFails, Queue!AuditFails, Queue!AuditCommit, Queue!EnterSlot, Queue!Run, Queue!RunFails,
         Queue!Commit, Queue!CommitFails, Queue!Destroy, Queue!Again, Queue!Go
<1>8. Queue!OverAdmissionBounded'
  BY <1>7, NoneMoreCounted
<1>9. QED BY <1>1, <1>2, <1>5, <1>6, <1>8, <1>3 DEF Queue!TypeOK

LEMMA ConnectStep ==
  ASSUME QueueInv, NEW r \in Askers, Queue!Connect(r) \/ Queue!AuditConnect(r)
  PROVE  QueueInv'
<1> USE DEF QueueInv
<1>1. PICK n \in {1, 2} : /\ holds[r] = n - 1 /\ Queue!Free > 0 /\ Queue!Give(r, n)
                          /\ n = 1 => Queue!Go(r, "check")
                          /\ n = 2 => Queue!Go(r, "audit")
  BY DEF Queue!Connect, Queue!AuditConnect, ConnectionsHeld, HoldsOne
<1>2. UNCHANGED <<live, slot, audited>>
  BY DEF Queue!Connect, Queue!AuditConnect
<1>3. NoMoreThanPool' /\ holds' \in [Askers -> 0 .. 2]
  BY <1>1, TakeOne
<1>4. /\ queuePc' \in [Askers -> {"new", "check", "refused", "audit", "slot", "running", "commit", "done", "error"}]
      /\ \A q \in Askers \ {r} : queuePc'[q] = queuePc[q] /\ holds'[q] = holds[q]
      /\ holds'[r] = n /\ queuePc'[r] \in {"check", "audit"} /\ (queuePc'[r] = "check" => n = 1)
  BY <1>1 DEF Queue!TypeOK, Queue!Go, Queue!Give
<1>5. ConnectionsHeld'
  BY <1>4 DEF ConnectionsHeld, HoldsOne
<1>6. Counted' \subseteq Counted
  BY <1>2, <1>4 DEF Counted, Queue!Admitted
<1>7. Queue!OverAdmissionBounded'
  BY <1>6, NoneMoreCounted
<1>8. HeavyWait'
  BY <1>4 DEF HeavyWait
<1>9. QED BY <1>2, <1>3, <1>4, <1>5, <1>7, <1>8 DEF Queue!TypeOK

LEMMA CheckStep == ASSUME QueueInv, NEW r \in Askers, Queue!Check(r) PROVE QueueInv'
<1> USE DEF QueueInv
<1>1. PICK where \in {"refused", "slot", "running"} : Queue!Go(r, where) /\ (where = "slot" => r \in Heavy)
  BY DEF Queue!Check
<1>2. queuePc[r] = "check" /\ UNCHANGED <<live, holds, slot, audited>>
  BY DEF Queue!Check
<1>3. /\ queuePc' \in [Askers -> {"new", "check", "refused", "audit", "slot", "running", "commit", "done", "error"}]
      /\ queuePc'[r] = where /\ \A q \in Askers \ {r} : queuePc'[q] = queuePc[q]
  BY <1>1 DEF Queue!TypeOK, Queue!Go
<1>4. Queue!TypeOK'
  BY <1>2, <1>3 DEF Queue!TypeOK
<1>5. ConnectionsHeld'
  BY <1>2, <1>3 DEF ConnectionsHeld, HoldsOne
<1>6. NoMoreThanPool' /\ Queue!OverAdmissionBounded'
  BY <1>2, SameHolds, CheckKeepsBound
<1>7. HeavyWait'
  BY <1>1, <1>3 DEF HeavyWait
<1>8. QED BY <1>4, <1>5, <1>6, <1>7

LEMMA NextQueueInv == QueueInv /\ [Queue!Next]_onlyQueue => QueueInv'
<1> SUFFICES ASSUME QueueInv, [Queue!Next]_onlyQueue PROVE QueueInv'
  OBVIOUS
<1>1. ASSUME NEW r \in Askers, Queue!Serve(r) \/ Queue!Destroy(r) \/ Queue!Again(r)
      PROVE  QueueInv'
  BY <1>1, RequestMoves, ConnectStep, CheckStep DEF Queue!Serve
<1>2. CASE UNCHANGED onlyQueue
  <2>1. UNCHANGED <<queuePc, live, holds, slot, audited>>
    BY <1>2 DEF onlyQueue
  <2>2. Queue!TypeOK' /\ ConnectionsHeld' /\ HeavyWait'
    BY <2>1 DEF QueueInv, Queue!TypeOK, ConnectionsHeld, HeavyWait
  <2>3. Counted' \subseteq Counted
    BY <2>1 DEF Counted, Queue!Admitted
  <2>4. QED BY <2>1, <2>2, <2>3, SameHolds, NoneMoreCounted DEF QueueInv
<1>3. QED BY <1>1, <1>2 DEF Queue!Next

-----------------------------------------------------------------------------
(* RateLimiter.  The calls that were allowed so lately that a window could *)
(* still hold them and a call of now are in the sorted set and counted by  *)
(* whichever call comes next, whatever time it is stamped with.            *)

LEMMA CallsCount == \A S : Calling!Cardinality(S) = Cardinality(S)
  BY DEF Calling!Cardinality, Cardinality

Recent == {j \in Calling!Calls : now - log[j].at < Window - Delay /\ log[j].ok}

Stamps == \A r \in Limited : stamp[r] # Calling!NotSent => stamp[r] <= now /\ now - stamp[r] <= Delay

LogIsTrue(j) ==
    /\ log[j].stamp <= log[j].at /\ log[j].at <= now /\ log[j].at - log[j].stamp <= Delay
    /\ expires >= log[j].at + Window + 1
    /\ log[j].stamp > now - Window => j \in kept
    /\ ~ log[j].ok => log[j].remaining = 0

LogIsOrdered == \A i, j \in Calling!Calls : i < j => log[i].at <= log[j].at

(* What was promised is still free: all members of the set that have come  *)
(* since are calls that the promise has been used for.                     *)
PromiseIsOpen(i) == log[i].ok => Cardinality(kept) <= Limit - log[i].remaining + Len(log) - i

Limits == Calling!WithinLimit /\ Calling!RejectedForCause /\ Calling!RemainingIsGranted

CallsInv ==
    /\ Calling!TypeOK
    /\ Stamps
    /\ \A j \in Calling!Calls : LogIsTrue(j)
    /\ LogIsOrdered
    /\ Cardinality(Recent) <= Limit
    /\ \A i \in Calling!Calls : PromiseIsOpen(i)
    /\ Limits

(* A non-empty set of naturals has a least element, which Min finds.       *)
LEMMA NatMin ==
  ASSUME NEW T, T \subseteq Nat, T # {}
  PROVE  Calling!Min(T) \in T /\ \A y \in T : Calling!Min(T) <= y
<1> DEFINE Before == OpToRel(<, Nat)
<1> HIDE DEF Before
<1>1. PICK x \in T : \A y \in T : ~ (<<y, x>> \in Before)
  BY NatLessThanWellFounded, WFMin DEF Before
<1>2. ASSUME NEW y \in T PROVE x <= y
  <2>1. <<y, x>> \in Nat \X Nat
    OBVIOUS
  <2>2. ~ (y < x)
    <3>1. SUFFICES ASSUME y < x PROVE <<y, x>> \in Before
      BY <1>1
    <3>2. <<y, x>>[1] < <<y, x>>[2]
      BY <3>1
    <3>3. QED BY <2>1, <3>2 DEF Before, OpToRel
  <2>3. QED BY <2>2
<1>3. QED BY <1>2 DEF Calling!Min

Call == [stamp : 0 .. MaxTime, at : 0 .. MaxTime, ok : BOOLEAN,
         remaining : 0 .. Limit - 1, reset : 1 .. Window + 1]

LEMMA CallFields ==
  ASSUME NEW c \in Call
  PROVE  /\ c.stamp \in Nat /\ c.at \in Nat /\ c.ok \in BOOLEAN /\ c.remaining \in Nat
         /\ c.remaining < Limit
  BY CallsAssumption DEF Call

LEMMA CallsShape ==
  ASSUME Calling!TypeOK
  PROVE  /\ log \in Seq(Call) /\ Calling!Calls = 1 .. Len(log) /\ Len(log) \in Nat
         /\ \A j \in Calling!Calls : /\ log[j] \in Call /\ log[j].stamp \in Nat /\ log[j].at \in Nat
                                    /\ log[j].remaining \in Nat /\ log[j].remaining < Limit
         /\ kept \subseteq Calling!Calls /\ now \in Nat /\ expires \in Nat
         /\ Limit \in Nat /\ Window \in Nat /\ Delay \in Nat /\ MaxTime \in Nat /\ Limit > 0 /\ Window > 0
         /\ IsFiniteSet(kept) /\ IsFiniteSet(Recent)
<1>1. log \in Seq(Call) /\ kept \subseteq Calling!Calls /\ now \in Nat /\ expires \in Nat
  BY CallsAssumption DEF Calling!TypeOK, Call
<1>2. Calling!Calls = 1 .. Len(log) /\ Len(log) \in Nat
  BY <1>1 DEF Calling!Calls
<1>3. IsFiniteSet(1 .. Len(log))
  BY <1>2, FS_Interval
<1>4. Recent \subseteq 1 .. Len(log)
  BY <1>2 DEF Recent
<1>5. IsFiniteSet(kept) /\ IsFiniteSet(Recent)
  BY <1>1, <1>2, <1>3, <1>4, FS_Subset
<1>6. \A j \in Calling!Calls : /\ log[j] \in Call /\ log[j].stamp \in Nat /\ log[j].at \in Nat
                              /\ log[j].remaining \in Nat /\ log[j].remaining < Limit
  BY <1>1, <1>2, CallFields
<1>7. QED BY <1>1, <1>2, <1>5, <1>6, CallsAssumption

LEMMA InitCallsInv == Calling!Init => CallsInv
<1> SUFFICES ASSUME Calling!Init PROVE CallsInv
  OBVIOUS
<1>1. log = <<>> /\ Calling!Calls = {} /\ kept = {} /\ now = 0 /\ expires = 0
      /\ stamp = [r \in Limited |-> Calling!NotSent]
  BY DEF Calling!Init, Calling!Calls
<1>2. Calling!TypeOK
  BY <1>1, CallsAssumption DEF Calling!TypeOK
<1>3. Recent = {} /\ Cardinality(Recent) = 0
  BY <1>1, FS_EmptySet DEF Recent
<1>4. Limits
  BY <1>1 DEF Limits, Calling!WithinLimit, Calling!RejectedForCause, Calling!RemainingIsGranted
<1>5. QED BY <1>1, <1>2, <1>3, <1>4, CallsAssumption DEF CallsInv, Stamps, LogIsOrdered

(* What a call finds of the set.                                           *)
LEMMA WindowFinds ==
  ASSUME CallsInv, NEW t \in 0 .. MaxTime, t <= now, now - t <= Delay
  PROVE  /\ Calling!InWindow(t) \subseteq kept /\ IsFiniteSet(Calling!InWindow(t))
         /\ Calling!Used(t) = Cardinality(Calling!InWindow(t)) /\ Calling!Used(t) \in Nat
         /\ \A j \in Calling!Calls : log[j].stamp > now - Window => j \in Calling!InWindow(t)
         /\ Recent \subseteq Calling!InWindow(t)
         /\ Cardinality(Recent) <= Calling!Used(t) /\ Calling!Used(t) <= Cardinality(kept)
<1> USE DEF CallsInv
<1>0. /\ IsFiniteSet(kept) /\ IsFiniteSet(Recent) /\ now \in Nat /\ Window \in Nat /\ Delay \in Nat /\ expires \in Nat
      /\ \A j \in Calling!Calls : log[j].stamp \in Nat /\ log[j].at \in Nat /\ LogIsTrue(j)
  BY CallsShape
<1>1. Calling!InWindow(t) \subseteq kept
  BY DEF Calling!InWindow
<1>2. IsFiniteSet(Calling!InWindow(t)) /\ Cardinality(Calling!InWindow(t)) \in Nat
      /\ Cardinality(Calling!InWindow(t)) <= Cardinality(kept)
  BY <1>0, <1>1, FS_Subset, FS_CardinalityType
<1>3. Calling!Used(t) = Cardinality(Calling!InWindow(t))
  BY CallsCount DEF Calling!Used
<1>4. ASSUME NEW j \in Calling!Calls, log[j].stamp > now - Window PROVE j \in Calling!InWindow(t)
  <2>1. j \in kept /\ log[j].stamp > t - Window /\ now < expires
    BY <1>0, <1>4 DEF LogIsTrue
  <2>2. QED BY <2>1 DEF Calling!InWindow
<1>5. Recent \subseteq Calling!InWindow(t)
  <2>1. ASSUME NEW j \in Recent PROVE j \in Calling!Calls /\ log[j].stamp > now - Window
    BY <1>0 DEF Recent, LogIsTrue
  <2>2. QED BY <1>4, <2>1
<1>6. Cardinality(Recent) <= Cardinality(Calling!InWindow(t))
  BY <1>2, <1>5, FS_Subset
<1>7. QED BY <1>1, <1>2, <1>3, <1>4, <1>5, <1>6

(* The wait it announces.                                                  *)
LEMMA WaitIsShort ==
  ASSUME CallsInv, NEW t \in 0 .. MaxTime
  PROVE  Calling!UntilOldestLeaves(t) \in 1 .. Window + 1
<1> USE DEF CallsInv
<1> DEFINE S == {log[i].stamp : i \in Calling!InWindow(t)} \cup {t}
           m == Calling!Min(S)
<1>1. \A i \in Calling!InWindow(t) : log[i].stamp \in Nat /\ log[i].stamp > t - Window
  <2>1. \A i \in kept : log[i].stamp \in Nat
    BY CallsShape
  <2>2. QED BY <2>1 DEF Calling!InWindow
<1>2. S \subseteq Nat /\ t \in S /\ \A x \in S : x > t - Window
  BY <1>1, CallsAssumption
<1> HIDE DEF S
<1>3. m \in S /\ m <= t
  BY <1>2, NatMin
<1>4. m \in Nat /\ m > t - Window /\ m <= t /\ t \in Nat /\ Window \in Nat
  BY <1>2, <1>3, CallsAssumption
<1> HIDE DEF m
<1> DEFINE x == m + Window - t + 1
<1>5. x \in 1 .. Window + 1
  BY <1>4
<1>6. Calling!Max({1, x}) \in {1, x}
  <2>1. \E y \in {1, x} : \A z \in {1, x} : y >= z
    BY <1>5
  <2>2. QED BY <2>1 DEF Calling!Max
<1>7. Calling!UntilOldestLeaves(t) = Calling!Max({1, x})
  BY DEF Calling!UntilOldestLeaves, S, m
<1>8. QED
  <2>1. 1 \in 1 .. Window + 1
    BY <1>4
  <2> HIDE DEF x
  <2>2. QED BY <1>5, <1>6, <1>7, <2>1

(* The properties of the log only grow by those of its last call.          *)
LEMMA CallsCheckStep ==
  ASSUME CallsInv, NEW r \in Limited, Calling!Check(r)
  PROVE  CallsInv'
<1> USE DEF CallsInv
<1>n. PICK n : n = Len(log) + 1
  OBVIOUS
<1> DEFINE t == stamp[r]
           a == Calling!Answer(t)
           W == Calling!InWindow(t)
           used == Calling!Used(t)
<1>1. t \in 0 .. MaxTime /\ t <= now /\ now - t <= Delay
  BY DEF Calling!Check, Calling!TypeOK, Stamps
<1>2. /\ log \in Seq(Call) /\ n = Len(log) + 1 /\ Calling!Calls = 1 .. Len(log) /\ Len(log) \in Nat
      /\ kept \subseteq Calling!Calls /\ now \in Nat /\ expires \in Nat
      /\ Limit \in Nat /\ Window \in Nat /\ Delay \in Nat /\ MaxTime \in Nat /\ Limit > 0 /\ Window > 0
      /\ IsFiniteSet(kept) /\ IsFiniteSet(Recent)
  BY <1>n, CallsShape
<1>3. /\ W \subseteq kept /\ IsFiniteSet(W) /\ used = Cardinality(W) /\ used \in Nat
      /\ \A j \in Calling!Calls : log[j].stamp > now - Window => j \in W
      /\ Recent \subseteq W
      /\ Cardinality(Recent) <= used /\ used <= Cardinality(kept)
  BY <1>1, WindowFinds
<1>4. /\ log' = Append(log, a) /\ kept' = W \cup {n} /\ expires' = now + Window + 1 /\ now' = now
      /\ stamp' = [stamp EXCEPT ![r] = Calling!NotSent]
  BY <1>n DEF Calling!Check, Calling!WithMember
<1>5. /\ a \in Call /\ a.stamp = t /\ a.at = now /\ (a.ok <=> used < Limit)
      /\ a.ok => a.remaining = Limit - used - 1
      /\ ~ a.ok => a.remaining = 0
  <2>1. now \in 0 .. MaxTime
    BY DEF Calling!TypeOK
  <2>2. CASE used >= Limit
    BY <1>1, <1>2, <1>3, <2>1, <2>2, WaitIsShort DEF Calling!Answer, Call
  <2>3. CASE ~ (used >= Limit)
    <3>1. a = [stamp |-> t, at |-> now, ok |-> TRUE, remaining |-> Limit - used - 1, reset |-> Window]
      BY <2>3 DEF Calling!Answer, Calling!Remaining
    <3>2. QED BY <1>1, <1>2, <1>3, <2>1, <2>3, <3>1 DEF Call
  <2>4. QED BY <2>2, <2>3
<1> HIDE DEF a, t, W, used
<1>6. /\ log' \in Seq(Call) /\ Len(log') = n /\ Calling!Calls' = 1 .. n
      /\ log'[n] = a /\ \A j \in Calling!Calls : log'[j] = log[j] /\ j < n
  BY <1>2, <1>4, <1>5 DEF Calling!Calls
<1>7. \A j \in Calling!Calls : /\ log[j].stamp \in Nat /\ log[j].at \in Nat /\ log[j].ok \in BOOLEAN
                               /\ log[j].remaining \in Nat /\ log[j].remaining < Limit
  BY CallsShape, CallFields
<1>8. \A j \in Calling!Calls' : j \in Calling!Calls \/ j = n
  BY <1>2, <1>6
<1>9. n \notin W /\ Cardinality(kept') = used + 1
  <2>1. n \notin W
    BY <1>2, <1>3
  <2>2. QED BY <1>3, <1>4, <2>1, FS_AddElement
<1>10. Calling!TypeOK'
  <2>1. kept' \subseteq Calling!Calls'
    <3>1. \A j \in W : j \in 1 .. n
      BY <1>2, <1>3
    <3>2. n \in 1 .. n
      BY <1>2
    <3>3. QED BY <1>4, <1>6, <3>1, <3>2
  <2>2. stamp' \in [Limited -> 0 .. MaxTime \cup {Calling!NotSent}]
    BY <1>4 DEF Calling!TypeOK
  <2>3. expires' \in 0 .. MaxTime + Window + 1 /\ now' \in 0 .. MaxTime
    BY <1>2, <1>4 DEF Calling!TypeOK
  <2>4. QED BY <1>6, <2>1, <2>2, <2>3 DEF Calling!TypeOK, Call
<1>11. Stamps'
  BY <1>4 DEF Stamps, Calling!TypeOK
<1>12. \A j \in Calling!Calls' : LogIsTrue(j)'
  <2>1. ASSUME NEW j \in Calling!Calls PROVE LogIsTrue(j)'
    BY <1>2, <1>3, <1>4, <1>6, <1>7 DEF LogIsTrue
  <2>2. LogIsTrue(n)'
    BY <1>1, <1>2, <1>4, <1>5, <1>6 DEF LogIsTrue, t
  <2>3. QED BY <1>8, <2>1, <2>2
<1>13. LogIsOrdered'
  <2>1. \A j \in Calling!Calls : log[j].at <= now
    BY DEF LogIsTrue
  <2>2. ASSUME NEW i \in Calling!Calls', NEW j \in Calling!Calls', i < j
        PROVE  log'[i].at <= log'[j].at
    <3>1. i \in Calling!Calls /\ log'[i] = log[i]
      BY <1>2, <1>6, <2>2
    <3>2. CASE j = n
      BY <1>5, <1>6, <2>1, <3>1, <3>2
    <3>3. CASE j \in Calling!Calls
      BY <1>6, <2>2, <3>1, <3>3 DEF LogIsOrdered
    <3>4. QED BY <1>8, <3>2, <3>3
  <2>3. QED BY <2>2 DEF LogIsOrdered
<1>14. /\ a.ok => Recent' \subseteq Recent \cup {n}
       /\ ~ a.ok => Recent' = Recent
  BY <1>2, <1>4, <1>5, <1>6, <1>8 DEF Recent
<1>15. Cardinality(Recent') <= Limit /\ IsFiniteSet(Recent')
  <2>1. IsFiniteSet(Recent \cup {n}) /\ Cardinality(Recent \cup {n}) <= Cardinality(Recent) + 1
        /\ Cardinality(Recent) \in Nat /\ Cardinality(Recent \cup {n}) \in Nat
    <3>1. Cardinality(Recent) \in Nat
      BY <1>2, FS_CardinalityType
    <3>2. /\ IsFiniteSet(Recent \cup {n})
          /\ Cardinality(Recent \cup {n}) = IF n \in Recent THEN Cardinality(Recent) ELSE Cardinality(Recent) + 1
      BY <1>2, FS_AddElement
    <3>3. QED BY <3>1, <3>2
  <2>2. CASE a.ok
    <3>1. IsFiniteSet(Recent') /\ Cardinality(Recent') <= Cardinality(Recent \cup {n}) /\ Cardinality(Recent') \in Nat
      BY <1>14, <2>1, <2>2, FS_Subset, FS_CardinalityType
    <3>2. QED BY <1>2, <1>3, <1>5, <2>1, <2>2, <3>1
  <2>3. CASE ~ a.ok
    BY <1>2, <1>14, <2>3
  <2>4. QED BY <2>2, <2>3
<1>16. \A i \in Calling!Calls' : PromiseIsOpen(i)'
  <2>1. ASSUME NEW i \in Calling!Calls PROVE PromiseIsOpen(i)'
    <3>1. PromiseIsOpen(i) /\ Cardinality(kept) \in Nat
      BY <1>2, FS_CardinalityType
    <3>2. QED BY <1>2, <1>3, <1>6, <1>7, <1>9, <3>1 DEF PromiseIsOpen
  <2>2. PromiseIsOpen(n)'
    BY <1>2, <1>3, <1>5, <1>6, <1>9 DEF PromiseIsOpen
  <2>3. QED BY <1>8, <2>1, <2>2
<1>17. ASSUME NEW i \in Calling!Calls, NEW m \in Int PROVE Calling!Near(i, m)' = Calling!Near(i, m)
  <2>1. \A j \in 1 .. i : j \in Calling!Calls
    BY <1>2
  <2>2. QED BY <1>6, <2>1 DEF Calling!Near
<1>18. Calling!WithinLimit'
  <2>1. ASSUME NEW i \in Calling!Calls
        PROVE  Cardinality({j \in Calling!Near(i, Window - Delay)' : log'[j].ok}) <= Limit
    <3>1. Calling!Near(i, Window - Delay)' = Calling!Near(i, Window - Delay)
      BY <1>2, <1>17
    <3>2. Calling!Near(i, Window - Delay) \subseteq Calling!Calls
      BY <1>2 DEF Calling!Near
    <3>3. {j \in Calling!Near(i, Window - Delay)' : log'[j].ok} = {j \in Calling!Near(i, Window - Delay) : log[j].ok}
      BY <1>6, <3>1, <3>2
    <3>4. QED BY <3>3, CallsCount DEF Limits, Calling!WithinLimit
  <2>2. {j \in Calling!Near(n, Window - Delay)' : log'[j].ok} = Recent'
    BY <1>4, <1>5, <1>6 DEF Calling!Near, Recent
  <2>3. QED BY <1>8, <1>15, <2>1, <2>2, CallsCount DEF Calling!WithinLimit
<1>19. Calling!RejectedForCause'
  <2>1. ASSUME NEW i \in Calling!Calls, ~ log'[i].ok
        PROVE  Cardinality(Calling!Near(i, Window + Delay)') > Limit
    <3>1. Calling!Near(i, Window + Delay)' = Calling!Near(i, Window + Delay)
      BY <1>2, <1>17
    <3>2. QED BY <1>6, <2>1, <3>1, CallsCount DEF Limits, Calling!RejectedForCause
  <2>2. ASSUME ~ a.ok
        PROVE  Cardinality(Calling!Near(n, Window + Delay)') > Limit
    <3>1. \A j \in W : j \in Calling!Calls /\ log[j].stamp > t - Window
      BY <1>2, <1>3 DEF W, Calling!InWindow
    <3>2. W \cup {n} \subseteq Calling!Near(n, Window + Delay)'
      <4>1. \A j \in W : now - log[j].at < Window + Delay
        <5>1. t \in Nat
          BY <1>1, <1>2
        <5>2. \A j \in W : log[j].stamp <= log[j].at /\ log[j].stamp \in Nat /\ log[j].at \in Nat
          BY <1>7, <3>1 DEF LogIsTrue
        <5>3. QED BY <1>1, <1>2, <3>1, <5>1, <5>2
      <4>2. QED BY <1>2, <1>5, <1>6, <3>1, <4>1 DEF Calling!Near
    <3>3. IsFiniteSet(Calling!Near(n, Window + Delay)')
      <4>1. Calling!Near(n, Window + Delay)' \subseteq 1 .. n
        BY DEF Calling!Near
      <4>2. IsFiniteSet(1 .. n)
        BY <1>2, FS_Interval
      <4>3. QED BY <4>1, <4>2, FS_Subset
    <3>4. Cardinality(W \cup {n}) <= Cardinality(Calling!Near(n, Window + Delay)')
          /\ Cardinality(Calling!Near(n, Window + Delay)') \in Nat
      BY <3>2, <3>3, FS_Subset, FS_CardinalityType
    <3>5. QED BY <1>2, <1>3, <1>4, <1>5, <1>9, <2>2, <3>4
  <2>3. QED BY <1>6, <1>8, <2>1, <2>2, CallsCount DEF Calling!RejectedForCause
<1>20. Calling!RemainingIsGranted'
  <2>1. ASSUME NEW i \in Calling!Calls', NEW k \in 1 .. log'[i].remaining, i + k \in Calling!Calls'
        PROVE  log'[i + k].ok
    <3>1. i \in Calling!Calls /\ log'[i] = log[i]
      BY <1>2, <1>6, <1>8, <2>1
    <3>2. CASE i + k \in Calling!Calls
      BY <1>6, <3>1, <3>2 DEF Limits, Calling!RemainingIsGranted
    <3>3. CASE i + k = n
      <4>1. log[i].ok
        BY <1>7, <3>1 DEF LogIsTrue
      <4>2. Cardinality(kept) <= Limit - log[i].remaining + Len(log) - i /\ Cardinality(kept) \in Nat
        BY <1>2, <3>1, <4>1, FS_CardinalityType DEF PromiseIsOpen
      <4>3. used < Limit
        BY <1>2, <1>3, <1>7, <3>1, <3>3, <4>2
      <4>4. QED BY <1>5, <1>6, <3>3, <4>3
    <3>4. QED BY <1>8, <2>1, <3>2, <3>3
  <2>2. QED BY <2>1 DEF Calling!RemainingIsGranted
<1>21. QED BY <1>10, <1>11, <1>12, <1>13, <1>15, <1>16, <1>18, <1>19, <1>20 DEF Limits

LEMMA CallsQuietSteps ==
  ASSUME CallsInv, Calling!Tick \/ \E r \in Limited : Calling!Send(r) \/ Calling!FailOpen(r)
  PROVE  CallsInv'
<1> USE DEF CallsInv
<1>1. UNCHANGED <<log, kept, expires>>
  BY DEF Calling!Tick, Calling!Send, Calling!FailOpen
<1>2. now' \in {now, now + 1} /\ now' \in 0 .. MaxTime
  <2>1. CASE Calling!Tick
    BY <2>1, CallsAssumption DEF Calling!Tick, Calling!TypeOK
  <2>2. CASE \E r \in Limited : Calling!Send(r) \/ Calling!FailOpen(r)
    BY <2>2 DEF Calling!Send, Calling!FailOpen, Calling!TypeOK
  <2>3. QED BY <2>1, <2>2
<1>3. stamp' \in [Limited -> 0 .. MaxTime \cup {Calling!NotSent}] /\ Stamps'
  <2>1. CASE Calling!Tick
    BY <2>1, CallsAssumption DEF Calling!Tick, Calling!TypeOK, Stamps, Calling!NotSent
  <2>2. ASSUME NEW r \in Limited, Calling!Send(r) \/ Calling!FailOpen(r)
        PROVE  stamp' \in [Limited -> 0 .. MaxTime \cup {Calling!NotSent}] /\ Stamps'
    <3>1. \E x \in {now, Calling!NotSent} : stamp' = [stamp EXCEPT ![r] = x] /\ now' = now
      BY <2>2 DEF Calling!Send, Calling!FailOpen
    <3>2. now \in 0 .. MaxTime /\ stamp \in [Limited -> 0 .. MaxTime \cup {Calling!NotSent}]
      BY DEF Calling!TypeOK
    <3>3. QED BY <3>1, <3>2, CallsAssumption DEF Stamps
  <2>3. QED BY <2>1, <2>2
<1>4. Calling!TypeOK' /\ Calling!Calls' = Calling!Calls
  BY <1>1, <1>2, <1>3 DEF Calling!TypeOK, Calling!Calls
<1>5. /\ \A j \in Calling!Calls : log[j].stamp \in Nat /\ log[j].at \in Nat
      /\ now \in Nat /\ Window \in Nat /\ Delay \in Nat /\ Limit \in Nat /\ IsFiniteSet(Recent)
  BY CallsShape
<1>6. \A j \in Calling!Calls' : LogIsTrue(j)'
  BY <1>1, <1>2, <1>4, <1>5 DEF LogIsTrue
<1>7. Recent' \subseteq Recent
  BY <1>1, <1>2, <1>4, <1>5 DEF Recent
<1>8. Cardinality(Recent') <= Limit
  <2>1. Cardinality(Recent') <= Cardinality(Recent) /\ Cardinality(Recent') \in Nat /\ Cardinality(Recent) \in Nat
    BY <1>5, <1>7, FS_Subset, FS_CardinalityType
  <2>2. QED BY <1>5, <2>1
<1>9. LogIsOrdered' /\ \A i \in Calling!Calls' : PromiseIsOpen(i)'
  BY <1>1, <1>4 DEF LogIsOrdered, PromiseIsOpen
<1>10. Limits'
  BY <1>1, <1>4 DEF Limits, Calling!WithinLimit, Calling!RejectedForCause, Calling!RemainingIsGranted, Calling!Near
<1>11. QED BY <1>3, <1>4, <1>6, <1>8, <1>9, <1>10

LEMMA NextCallsInv == CallsInv /\ [Calling!Next]_onlyCalls => CallsInv'
<1> SUFFICES ASSUME CallsInv, [Calling!Next]_onlyCalls PROVE CallsInv'
  OBVIOUS
<1>1. CASE Calling!Next
  BY <1>1, CallsQuietSteps, CallsCheckStep DEF Calling!Next
<1>2. CASE UNCHANGED onlyCalls
  <2>1. UNCHANGED <<now, stamp, log, kept, expires>>
    BY <1>2 DEF onlyCalls
  <2>2. QED
    BY <2>1 DEF CallsInv, Calling!TypeOK, Calling!Calls, Stamps, LogIsTrue, LogIsOrdered, Recent, PromiseIsOpen,
       Limits, Calling!WithinLimit, Calling!RejectedForCause, Calling!RemainingIsGranted, Calling!Near
<1>3. QED BY <1>1, <1>2

-----------------------------------------------------------------------------
(* ViewerLock, with neither late heartbeats, slow openings nor failures of *)
(* Redis.  Until a claim overwrites another viewer's lock, who is attached *)
(* owns the lock, which is refreshed before it can expire: a tick makes    *)
(* every heartbeat due, and the next tick waits for all of them.           *)

OwnsLock(s) ==
    /\ viewerPc[s] \in {"claimed", "open"} => lock.by = who[s]
    /\ viewerPc[s] = "claimed" => lock.left = TTL
    /\ viewerPc[s] = "open" => beat[s] \in {"asleep", "due", "read"} /\ lock.left >= TTL - 1
    /\ viewerPc[s] # "open" => beat[s] = "off"
    /\ beat[s] = "asleep" => lock.left = TTL
    /\ beat[s] = "read" => got[s] = who[s]

LocksAreOwned == ~ overwritten => \A s \in Sockets : OwnsLock(s)

ViewerInv == Viewing!TypeOK /\ LocksAreOwned

LEMMA ViewerInvMeans == ViewerInv => Viewing!OneViewerUnlessOverwritten
  BY DEF ViewerInv, LocksAreOwned, OwnsLock, Viewing!OneViewerUnlessOverwritten, Viewing!OneViewer

LEMMA InitViewerInv == Viewing!Init => ViewerInv
<1> SUFFICES ASSUME Viewing!Init PROVE ViewerInv
  OBVIOUS
<1>1. Viewing!TypeOK
  BY DEF Viewing!Init, Viewing!TypeOK
<1>2. \A s \in Sockets : OwnsLock(s)
  BY DEF Viewing!Init, OwnsLock
<1>3. QED BY <1>1, <1>2 DEF ViewerInv, LocksAreOwned

(* The lock is one of the Viewers', or free.                               *)
LEMMA LockShape ==
  ASSUME Viewing!TypeOK
  PROVE  /\ lock = Viewing!Unlocked \/ lock \in [by : Viewers, left : 1 .. TTL]
         /\ lock.by = Viewing!Nobody <=> lock = Viewing!Unlocked
  BY ViewersAssumption DEF Viewing!TypeOK, Viewing!Unlocked, Viewing!Nobody

(* Steps of one session that leave the lock alone.                         *)
LEMMA ViewerQuietSteps ==
  ASSUME ViewerInv, NEW s \in Sockets,
         \/ Viewing!Refuse(s) \/ Viewing!GetLock(s) \/ Viewing!Open(s) \/ Viewing!OpenFails(s)
         \/ Viewing!GetForBeat(s) \/ Viewing!Leave(s) \/ Viewing!Crash(s) \/ Viewing!Return(s)
  PROVE  ViewerInv'
<1> USE DEF ViewerInv
<1>1. UNCHANGED <<row, lock, who, overwritten>>
  BY DEF Viewing!Refuse, Viewing!GetLock, Viewing!Open, Viewing!OpenFails, Viewing!GetForBeat, Viewing!Leave,
         Viewing!Crash, Viewing!Return, Viewing!KeepAtEnd
<1>2. /\ \A q \in Sockets \ {s} : viewerPc'[q] = viewerPc[q] /\ beat'[q] = beat[q] /\ got'[q] = got[q]
      /\ viewerPc' \in [Sockets -> {"new", "free", "claimed", "open", "gone"}]
      /\ beat' \in [Sockets -> {"off", "asleep", "due", "read", "dead"}]
  BY DEF Viewing!Refuse, Viewing!GetLock, Viewing!Open, Viewing!OpenFails, Viewing!GetForBeat, Viewing!Leave,
         Viewing!Crash, Viewing!Return, Viewing!At, Viewing!Beat, Viewing!StopBeat, Viewing!TypeOK
<1>3. got' \in [Sockets -> Viewers \cup {Viewing!Nobody}]
  BY LockShape DEF Viewing!Refuse, Viewing!GetLock, Viewing!Open, Viewing!OpenFails, Viewing!GetForBeat,
         Viewing!Leave, Viewing!Crash, Viewing!Return, Viewing!TypeOK
<1>4. pty' \in [Sockets -> BOOLEAN]
  <2>1. pty \in [Sockets -> BOOLEAN]
    BY DEF Viewing!TypeOK
  <2>2. pty' = pty \/ \E b \in BOOLEAN : pty' = [pty EXCEPT ![s] = b]
    BY Zenon DEF Viewing!Refuse, Viewing!GetLock, Viewing!Open, Viewing!OpenFails, Viewing!GetForBeat,
       Viewing!Leave, Viewing!Crash, Viewing!Return
  <2>3. QED BY <2>1, <2>2
<1>5. Viewing!TypeOK'
  BY <1>1, <1>2, <1>3, <1>4 DEF Viewing!TypeOK
<1>6. CASE overwritten
  BY <1>1, <1>5, <1>6 DEF LocksAreOwned
<1>7. ASSUME ~ overwritten PROVE OwnsLock(s)'
  <2> USE <1>7 DEF LocksAreOwned
  <2>1. CASE Viewing!GetLock(s)
    BY <1>1, <2>1 DEF OwnsLock, Viewing!GetLock, Viewing!At, Viewing!TypeOK
  <2>2. CASE Viewing!Open(s)
    BY <1>1, <2>2, ViewersAssumption
    DEF OwnsLock, Viewing!Open, Viewing!At, Viewing!Beat, Viewing!TypeOK
  <2>3. CASE Viewing!GetForBeat(s)
    BY <1>1, <2>3 DEF OwnsLock, Viewing!GetForBeat, Viewing!Beat, Viewing!TypeOK
  <2>4. CASE Viewing!Refuse(s) \/ Viewing!OpenFails(s) \/ Viewing!Leave(s) \/ Viewing!Crash(s) \/ Viewing!Return(s)
    BY <1>1, <2>4 DEF OwnsLock, Viewing!Refuse, Viewing!OpenFails, Viewing!Leave, Viewing!Crash, Viewing!Return,
       Viewing!StopBeat, Viewing!At, Viewing!Beat, Viewing!TypeOK
  <2>5. QED BY <2>1, <2>2, <2>3, <2>4
<1>8. ASSUME ~ overwritten PROVE \A q \in Sockets \ {s} : OwnsLock(q)'
  BY <1>1, <1>2, <1>8 DEF OwnsLock, LocksAreOwned
<1>9. QED BY <1>5, <1>6, <1>7, <1>8 DEF LocksAreOwned

(* A claim, and a refresh, give the lock its whole time; whoever else is   *)
(* attached is the same viewer.                                            *)
LEMMA ViewerLockSteps ==
  ASSUME ViewerInv, NEW s \in Sockets, Viewing!SetLock(s) \/ Viewing!Refresh(s)
  PROVE  ViewerInv'
<1> USE DEF ViewerInv
<1>1. CASE Viewing!SetLock(s)
  <2>1. /\ lock' = [by |-> who[s], left |-> TTL] /\ UNCHANGED <<row, who, got, beat, pty>>
        /\ viewerPc' = [viewerPc EXCEPT ![s] = "claimed"] /\ viewerPc[s] = "free"
        /\ overwritten' = (overwritten \/ lock.by \notin {Viewing!Nobody, who[s]})
    BY <1>1 DEF Viewing!SetLock, Viewing!Claimed, Viewing!At
  <2>2. Viewing!TypeOK'
    BY <2>1, ViewersAssumption DEF Viewing!TypeOK
  <2>3. ASSUME ~ overwritten', NEW q \in Sockets PROVE OwnsLock(q)'
    <3>1. who[s] \in Viewers /\ who[q] \in Viewers /\ lock.by \in {Viewing!Nobody, who[s]} /\ OwnsLock(q)
      BY <2>1, <2>3 DEF LocksAreOwned, Viewing!TypeOK
    <3>2. lock'.by = who[s] /\ lock'.left = TTL
      BY <2>1
    <3>3. viewerPc[q] \in {"claimed", "open"} => who[q] = who[s]
      BY <3>1, ViewersAssumption DEF OwnsLock, Viewing!Nobody
    <3>4. QED BY <2>1, <3>1, <3>2, <3>3, ViewersAssumption DEF OwnsLock, Viewing!TypeOK
  <2>4. QED BY <2>2, <2>3 DEF LocksAreOwned
<1>2. CASE Viewing!Refresh(s)
  <2>1. /\ beat[s] = "read" /\ beat' = [beat EXCEPT ![s] = "asleep"]
        /\ UNCHANGED <<row, who, viewerPc, got, pty, overwritten>>
        /\ lock' = IF got[s] = who[s] /\ lock # Viewing!Unlocked THEN [lock EXCEPT !.left = TTL] ELSE lock
    BY <1>2 DEF Viewing!Refresh, Viewing!MayRefresh, Viewing!Beat
  <2>2. lock # Viewing!Unlocked => /\ lock \in [by : Viewers, left : 1 .. TTL]
                                   /\ [lock EXCEPT !.left = TTL] \in [by : Viewers, left : 1 .. TTL]
    BY LockShape, ViewersAssumption
  <2>3. Viewing!TypeOK'
    BY <2>1, <2>2 DEF Viewing!TypeOK
  <2>4. ASSUME ~ overwritten PROVE \A q \in Sockets : OwnsLock(q)'
    <3>1. /\ viewerPc[s] = "open" /\ got[s] = who[s] /\ lock.by = who[s] /\ lock # Viewing!Unlocked
          /\ who[s] \in Viewers
      BY <2>1, <2>4, LockShape, ViewersAssumption DEF LocksAreOwned, OwnsLock, Viewing!TypeOK, Viewing!Nobody
    <3>2. lock'.by = lock.by /\ lock'.left = TTL
      BY <2>1, <2>2, <3>1
    <3>3. QED BY <2>1, <2>4, <3>1, <3>2, ViewersAssumption DEF LocksAreOwned, OwnsLock, Viewing!TypeOK
  <2>5. QED BY <2>1, <2>3, <2>4 DEF LocksAreOwned
<1>3. QED BY <1>1, <1>2

(* At a tick nobody is between its claim and its stream, and all           *)
(* heartbeats of open sessions sleep: the lock stays for another tick.     *)
LEMMA ViewerTick == ASSUME ViewerInv, Viewing!Tick PROVE ViewerInv'
<1> USE DEF ViewerInv
<1>1. /\ lock # Viewing!Unlocked /\ UNCHANGED <<row, who, viewerPc, got, pty, overwritten>>
      /\ \A s \in Sockets : viewerPc[s] # "claimed" /\ beat[s] \notin {"due", "read"}
      /\ beat' = [s \in Sockets |-> IF beat[s] = "asleep" THEN "due" ELSE beat[s]]
      /\ lock' = IF lock.left = 1 THEN Viewing!Unlocked ELSE [lock EXCEPT !.left = @ - 1]
  BY DEF Viewing!Tick, Viewing!InTime
<1>2. lock \in [by : Viewers, left : 1 .. TTL]
  BY <1>1, LockShape
<1>3. lock' = Viewing!Unlocked \/ lock' \in [by : Viewers, left : 1 .. TTL]
  BY <1>1, <1>2, ViewersAssumption
<1>4. beat' \in [Sockets -> {"off", "asleep", "due", "read", "dead"}]
  BY <1>1 DEF Viewing!TypeOK
<1>5. Viewing!TypeOK'
  BY <1>1, <1>3, <1>4 DEF Viewing!TypeOK
<1>6. ASSUME ~ overwritten, NEW s \in Sockets PROVE OwnsLock(s)'
  <2> USE <1>6 DEF LocksAreOwned
  <2>1. CASE viewerPc[s] = "open"
    <3>1. lock.left = TTL /\ beat[s] = "asleep" /\ lock.by = who[s]
      BY <1>1, <2>1 DEF OwnsLock
    <3>2. lock'.left = TTL - 1 /\ lock'.by = who[s]
      BY <1>1, <1>2, <3>1, ViewersAssumption
    <3>3. QED BY <1>1, <2>1, <3>1, <3>2, ViewersAssumption DEF OwnsLock
  <2>2. CASE viewerPc[s] # "open"
    BY <1>1, <2>2 DEF OwnsLock
  <2>3. QED BY <2>1, <2>2
<1>7. QED BY <1>1, <1>5, <1>6 DEF LocksAreOwned

LEMMA NextViewerInv == ViewerInv /\ [Viewing!Next]_onlyViewers => ViewerInv'
<1> SUFFICES ASSUME ViewerInv, [Viewing!Next]_onlyViewers PROVE ViewerInv'
  OBVIOUS
<1>1. ASSUME NEW s \in Sockets,
             Viewing!Handshake(s) \/ Viewing!Heartbeat(s) \/ Viewing!Leave(s) \/ Viewing!Crash(s) \/ Viewing!Return(s)
      PROVE  ViewerInv'
  BY <1>1, ViewerQuietSteps, ViewerLockSteps DEF Viewing!Handshake, Viewing!Heartbeat, Viewing!BeatFails
<1>2. CASE Viewing!Tick
  BY <1>2, ViewerTick
<1>3. CASE Viewing!Destroy \/ UNCHANGED onlyViewers
  BY <1>3 DEF Viewing!Destroy, onlyViewers, ViewerInv, Viewing!TypeOK, LocksAreOwned, OwnsLock
<1>4. QED BY <1>1, <1>2, <1>3 DEF Viewing!Next

(* Only what ends a session makes an open one gone, and it keeps the lock. *)
LEMMA ViewerGrace ==
  ASSUME ViewerInv, Viewing!Next, ~ overwritten,
         NEW s \in Sockets, viewerPc[s] = "open", viewerPc'[s] = "gone"
  PROVE  lock'.by = who[s]
<1>1. \E q \in Sockets : Viewing!Leave(q) \/ Viewing!Crash(q)
  BY DEF ViewerInv, Viewing!TypeOK, Viewing!Next, Viewing!Tick, Viewing!Destroy, Viewing!Handshake,
     Viewing!Heartbeat, Viewing!Refuse, Viewing!GetLock, Viewing!SetLock, Viewing!Open, Viewing!OpenFails,
     Viewing!GetForBeat, Viewing!Refresh, Viewing!BeatFails, Viewing!Return, Viewing!At
<1>2. UNCHANGED lock
  BY <1>1 DEF Viewing!Leave, Viewing!Crash, Viewing!KeepAtEnd
<1>3. QED BY <1>2 DEF ViewerInv, LocksAreOwned, OwnsLock

-----------------------------------------------------------------------------
(* Catalog, with one replica whose files outlive it.  Its files only grow, *)
(* and by entries whose keys are new; so what a reference resolved to it   *)
(* still finds, and a reference that pins its version finds nothing else.  *)

catalogFiles == files["p"]

UniqueKeys == \A e, f \in catalogFiles : Publishing!Key(e) = Publishing!Key(f) => e = f

RefsAreFound(e) == \A ref \in Publishing!RefsOf(e) : Publishing!Found(catalogFiles, ref)

Pinned(e) == \A ref \in Publishing!RefsOf(e) : ref.version # Publishing!Latest

(* It renders without any build, if no component needs one.                *)
DeclaredRenders(reg, t) == Publishing!Declared(reg, t) => Publishing!Renders(reg, {}, t)

(* A sandbox, for as long as it exists, is what its source gives.          *)
BoxIsOfSource(b) ==
    /\ box[b].source \in catalogFiles
    /\ box[b].source.kind = "component" => box[b].component = box[b].source
    /\ box[b].source.kind = "template" /\ Pinned(box[b].source) =>
           /\ DeclaredRenders(catalogFiles, box[b].source)
           /\ Publishing!Picked(catalogFiles, box[b].source) = {box[b].component}

CatalogInv ==
    /\ Publishing!TypeOK
    /\ "p" \in up => registry["p"] = catalogFiles
    /\ UniqueKeys
    /\ \A e \in catalogFiles : RefsAreFound(e)
    /\ rows \subseteq {Publishing!Key(e) : e \in catalogFiles}
    /\ \A r \in Publications :
           /\ request[r].step \in {"publish", "commit"} => RefsAreFound(request[r].entry)
           /\ request[r].step = "commit" => request[r].entry \in catalogFiles
    /\ \A b \in Boxes : box[b] # Publishing!NoBox => BoxIsOfSource(b)

LEMMA EntryKinds ==
  ASSUME NEW e \in Publishing!Entries
  PROVE  /\ e.kind = "component" => e \in Components /\ e.version \in Nat
         /\ e.kind = "template" => e \in Templates /\ 1 \in DOMAIN e.refs
         /\ e.kind \in {"component", "template"}
  BY CatalogAssumption DEF Publishing!Entries

(* Adding an entry, a reference that was found is found ...                *)
LEMMA StaysFound ==
  ASSUME NEW reg, reg \subseteq Publishing!Entries, NEW e \in Publishing!Entries, NEW ref,
         Publishing!Found(reg, ref)
  PROVE  Publishing!Found(reg \cup {e}, ref)
<1>1. PICK c \in Publishing!Resolve(reg, ref) : TRUE
  BY DEF Publishing!Found
<1>2. c \in reg /\ c.kind = "component" /\ c.owner = ref.owner /\ c.version \in Nat
  BY <1>1, EntryKinds DEF Publishing!Resolve, Publishing!Of
<1>3. CASE ref.version # Publishing!Latest
  <2>1. c \in Publishing!Resolve(reg \cup {e}, ref)
    BY <1>1, <1>2, <1>3 DEF Publishing!Resolve, Publishing!Of
  <2>2. QED BY <2>1 DEF Publishing!Found
<1>4. CASE ref.version = Publishing!Latest
  <2>1. \A f \in Publishing!Of(reg, ref.owner) : f.version <= c.version /\ f.version \in Nat
    BY <1>1, <1>4, EntryKinds DEF Publishing!Resolve, Publishing!Of
  <2>2. CASE e.kind = "component" /\ e.owner = ref.owner /\ ~ (e.version <= c.version)
    <3>1. e.version \in Nat
      BY <2>2, EntryKinds
    <3>2. e \in Publishing!Resolve(reg \cup {e}, ref)
      BY <1>2, <1>4, <2>1, <2>2, <3>1 DEF Publishing!Resolve, Publishing!Of
    <3>3. QED BY <3>2 DEF Publishing!Found
  <2>3. CASE ~ (e.kind = "component" /\ e.owner = ref.owner) \/ e.version <= c.version
    <3>1. c \in Publishing!Resolve(reg \cup {e}, ref)
      BY <1>2, <1>4, <2>1, <2>3 DEF Publishing!Resolve, Publishing!Of
    <3>2. QED BY <3>1 DEF Publishing!Found
  <2>4. QED BY <2>2, <2>3
<1>5. QED BY <1>3, <1>4

(* ... and one that pins its version finds what it found.                  *)
LEMMA PinnedIsStable ==
  ASSUME NEW reg, NEW e, NEW ref,
         Publishing!Unused(reg, e), Publishing!Found(reg, ref), ref.version # Publishing!Latest
  PROVE  Publishing!Resolve(reg \cup {e}, ref) = Publishing!Resolve(reg, ref)
<1>1. PICK c \in Publishing!Resolve(reg, ref) : TRUE
  BY DEF Publishing!Found
<1>2. c \in reg /\ c.kind = "component" /\ c.owner = ref.owner /\ c.version = ref.version
  BY <1>1 DEF Publishing!Resolve, Publishing!Of
<1>3. ~ (e.kind = "component" /\ e.owner = ref.owner /\ e.version = ref.version)
  BY <1>2 DEF Publishing!Unused, Publishing!Key
<1>4. QED BY <1>3 DEF Publishing!Resolve, Publishing!Of

LEMMA RendersIsStable ==
  ASSUME NEW reg, NEW e, NEW t \in Templates, Publishing!Unused(reg, e), Pinned(t),
         \A ref \in Publishing!RefsOf(t) : Publishing!Found(reg, ref),
         DeclaredRenders(reg, t)
  PROVE  /\ DeclaredRenders(reg \cup {e}, t)
         /\ Publishing!Picked(reg \cup {e}, t) = Publishing!Picked(reg, t)
<1>1. \A ref \in Publishing!RefsOf(t) :
         /\ Publishing!Found(reg, ref)
         /\ Publishing!Resolve(reg \cup {e}, ref) = Publishing!Resolve(reg, ref)
  BY PinnedIsStable DEF Pinned
<1>2. Publishing!Images(reg \cup {e}, {}, t) = Publishing!Images(reg, {}, t)
  BY <1>1 DEF Publishing!Images
<1>3. Publishing!Declared(reg \cup {e}, t) = Publishing!Declared(reg, t)
  BY <1>1 DEF Publishing!Declared
<1>4. DeclaredRenders(reg \cup {e}, t)
  BY <1>1, <1>2, <1>3 DEF DeclaredRenders, Publishing!Renders, Publishing!Found
<1>5. t.refs[1] \in Publishing!RefsOf(t)
  BY CatalogAssumption DEF Publishing!RefsOf, Publishing!Range
<1>6. QED BY <1>1, <1>4, <1>5 DEF Publishing!Picked

(* The images of what declares them do not depend on the builds.           *)
LEMMA DeclaredImages ==
  ASSUME NEW reg, NEW known, NEW t, Publishing!Declared(reg, t)
  PROVE  Publishing!Renders(reg, known, t) = Publishing!Renders(reg, {}, t)
<1>1. \A ref \in Publishing!RefsOf(t) : \A c \in Publishing!Resolve(reg, ref) :
         Publishing!ImageOf(known, c) = Publishing!ImageOf({}, c)
  BY DEF Publishing!Declared, Publishing!ImageOf
<1>2. Publishing!Images(reg, known, t) = Publishing!Images(reg, {}, t)
  BY <1>1 DEF Publishing!Images
<1>3. QED BY <1>2 DEF Publishing!Renders

(* With unique keys a pinned reference finds one component.                *)
LEMMA PinnedIsOne ==
  ASSUME UniqueKeys, NEW ref, ref.version # Publishing!Latest, NEW c \in Publishing!Resolve(catalogFiles, ref)
  PROVE  Publishing!Resolve(catalogFiles, ref) = {c}
  BY DEF UniqueKeys, Publishing!Resolve, Publishing!Of, Publishing!Key

LEMMA InitCatalogInv == Publishing!Init => CatalogInv
<1> SUFFICES ASSUME Publishing!Init PROVE CatalogInv
  OBVIOUS
<1>1. Publishing!TypeOK
  BY DEF Publishing!Init, Publishing!TypeOK, Publishing!NoRequest, Publishing!NoBox
<1>2. QED
  BY <1>1 DEF Publishing!Init, CatalogInv, UniqueKeys, catalogFiles, Publishing!NoRequest

(* A request is with the one replica, which is up.                         *)
LEMMA RequestShape ==
  ASSUME CatalogInv, NEW r \in Publications, request[r].step # "none"
  PROVE  /\ request[r] \in [step : {"check", "publish", "commit"}, at : up, entry : Publishing!Entries]
         /\ request[r].at = "p" /\ "p" \in up /\ registry["p"] = catalogFiles
         /\ request[r].entry \in Publishing!Entries
<1>1. request[r] \in [step : {"check", "publish", "commit"}, at : up, entry : Publishing!Entries]
  BY DEF CatalogInv, Publishing!TypeOK, Publishing!NoRequest
<1>2. request[r].at \in up /\ up \subseteq {"p"}
  BY <1>1 DEF CatalogInv, Publishing!TypeOK
<1>3. QED BY <1>1, <1>2 DEF CatalogInv

(* A step that changes one request, and neither files nor sandboxes.       *)
LEMMA CatalogRequestStep ==
  ASSUME CatalogInv, NEW r \in Publications, NEW q, UNCHANGED <<up, files, torn, registry, images, builds, box>>,
         request' = [request EXCEPT ![r] = q],
         q \in [step : {"check", "publish", "commit"}, at : up, entry : Publishing!Entries] \cup {Publishing!NoRequest},
         q.step \in {"publish", "commit"} => RefsAreFound(q.entry),
         q.step = "commit" => q.entry \in catalogFiles,
         rows' \subseteq {Publishing!Key(e) : e \in catalogFiles}
  PROVE  CatalogInv'
<1> USE DEF CatalogInv
<1>1. catalogFiles \subseteq Publishing!Entries
  BY DEF Publishing!TypeOK, catalogFiles
<1>2. Publishing!TypeOK'
  BY <1>1 DEF Publishing!TypeOK
<1>3. \A s \in Publications : request'[s] = IF s = r THEN q ELSE request[s]
  BY DEF Publishing!TypeOK
<1>4. QED
  BY <1>2, <1>3 DEF catalogFiles, UniqueKeys, RefsAreFound, BoxIsOfSource

LEMMA CatalogQuietSteps ==
  ASSUME CatalogInv, NEW r \in Publications,
         \/ \E e \in Publishing!Entries : Publishing!Begin(r, "p", e)
         \/ Publishing!Check(r) \/ Publishing!Commit(r) \/ Publishing!CommitFails(r)
  PROVE  CatalogInv'
<1> USE DEF CatalogInv
<1>1. CASE \E e \in Publishing!Entries : Publishing!Begin(r, "p", e)
  <2>1. PICK e \in Publishing!Entries : Publishing!Begin(r, "p", e)
    BY <1>1
  <2>2. QED
    BY <2>1, CatalogRequestStep DEF Publishing!Begin, Publishing!replica
<1>2. CASE Publishing!Check(r)
  <2>1. /\ request[r] \in [step : {"check", "publish", "commit"}, at : up, entry : Publishing!Entries]
        /\ registry[request[r].at] = catalogFiles
    BY <1>2, RequestShape DEF Publishing!Check
  <2>2. CASE Publishing!Acceptable(catalogFiles, request[r].entry)
    <3>1. RefsAreFound(request[r].entry)
      BY <2>2 DEF Publishing!Acceptable, RefsAreFound
    <3>2. request' = [request EXCEPT ![r] = [request[r] EXCEPT !.step = "publish"]]
      BY <1>2, <2>1, <2>2 DEF Publishing!Check, Publishing!To
    <3>3. /\ [request[r] EXCEPT !.step = "publish"] \in [step : {"check", "publish", "commit"}, at : up, entry : Publishing!Entries]
          /\ [request[r] EXCEPT !.step = "publish"].entry = request[r].entry
          /\ [request[r] EXCEPT !.step = "publish"].step = "publish"
      BY <2>1
    <3>4. UNCHANGED <<up, files, torn, registry, images, builds, rows, box>>
      BY <1>2 DEF Publishing!Check, Publishing!replica
    <3>5. QED BY <3>1, <3>2, <3>3, <3>4, CatalogRequestStep
  <2>3. CASE ~ Publishing!Acceptable(catalogFiles, request[r].entry)
    BY <1>2, <2>1, <2>3, CatalogRequestStep
    DEF Publishing!Check, Publishing!Refuse, Publishing!replica, Publishing!NoRequest
  <2>4. QED BY <2>2, <2>3
<1>3. CASE Publishing!Commit(r)
  <2>1. request[r].entry \in catalogFiles
    BY <1>3 DEF Publishing!Commit
  <2>2. rows' \subseteq {Publishing!Key(e) : e \in catalogFiles}
    BY <1>3, <2>1 DEF Publishing!Commit
  <2>3. QED
    BY <1>3, <2>2, CatalogRequestStep DEF Publishing!Commit, Publishing!Refuse, Publishing!replica, Publishing!NoRequest
<1>4. CASE Publishing!CommitFails(r)
  BY <1>4, CatalogRequestStep DEF Publishing!CommitFails, Publishing!Refuse, Publishing!replica, Publishing!NoRequest
<1>5. QED BY <1>1, <1>2, <1>3, <1>4

LEMMA CatalogPublishStep ==
  ASSUME CatalogInv, NEW r \in Publications, Publishing!Publish(r)
  PROVE  CatalogInv'
<1> USE DEF CatalogInv
<1> DEFINE e == request[r].entry
<1>1. /\ request[r] \in [step : {"check", "publish", "commit"}, at : up, entry : Publishing!Entries]
      /\ request[r].at = "p" /\ registry["p"] = catalogFiles /\ e \in Publishing!Entries /\ "p" \in up
      /\ RefsAreFound(e)
  BY RequestShape DEF Publishing!Publish
<1>2. UNCHANGED <<up, torn, images, builds, rows, box>>
  BY DEF Publishing!Publish
<1>3. CASE ~ Publishing!Unused(catalogFiles, e)
  BY <1>1, <1>2, <1>3, CatalogRequestStep
  DEF Publishing!Publish, Publishing!Refuse, Publishing!NoRequest
<1>4. CASE Publishing!Unused(catalogFiles, e)
  <2> DEFINE q == [request[r] EXCEPT !.step = "commit"]
  <2>1. /\ files' = [files EXCEPT !["p"] = @ \cup {e}] /\ registry' = [registry EXCEPT !["p"] = @ \cup {e}]
        /\ request' = [request EXCEPT ![r] = q]
    BY <1>1, <1>4 DEF Publishing!Publish, Publishing!To
  <2>2. /\ q \in [step : {"check", "publish", "commit"}, at : up, entry : Publishing!Entries]
        /\ q.entry = e /\ q.step = "commit"
    BY <1>1
  <2>3. /\ files \in [{"p"} -> SUBSET Publishing!Entries] /\ catalogFiles \subseteq Publishing!Entries
        /\ catalogFiles' = catalogFiles \cup {e}
    BY <2>1 DEF Publishing!TypeOK, catalogFiles
  <2>4. registry \in [{"p"} -> SUBSET Publishing!Entries]
    BY DEF Publishing!TypeOK
  <2>5. registry'["p"] = catalogFiles'
    BY <1>1, <2>1, <2>3, <2>4
  <2>6. /\ files' \in [{"p"} -> SUBSET Publishing!Entries]
        /\ registry' \in [{"p"} -> SUBSET Publishing!Entries]
    BY <1>1, <2>1, <2>3, <2>4
  <2>7. \A s \in Publications : request'[s] = IF s = r THEN q ELSE request[s]
    BY <2>1 DEF Publishing!TypeOK
  <2>8. Publishing!TypeOK'
    <3>1. \A x \in up' : registry'[x] \subseteq files'[x] /\ x \notin torn'
      BY <1>2, <2>5 DEF Publishing!TypeOK, catalogFiles
    <3>2. request' \in [Publications -> [step : {"check", "publish", "commit"}, at : up, entry : Publishing!Entries] \cup {Publishing!NoRequest}]
      BY <2>1, <2>2 DEF Publishing!TypeOK
    <3>3. QED BY <1>2, <2>6, <3>1, <3>2 DEF Publishing!TypeOK
  <2>9. UniqueKeys'
    BY <1>4, <2>3 DEF UniqueKeys, Publishing!Unused
  <2>10. \A x : RefsAreFound(x) => RefsAreFound(x)'
    BY <1>1, <2>3, StaysFound DEF RefsAreFound
  <2>11. \A x \in catalogFiles' : RefsAreFound(x)'
    BY <1>1, <2>3, <2>10
  <2>12. ASSUME NEW s \in Publications
         PROVE  /\ request'[s].step \in {"publish", "commit"} => RefsAreFound(request[s].entry)'
                /\ request'[s].step = "commit" => request'[s].entry \in catalogFiles'
    <3>0. \A x : x = e => RefsAreFound(x)'
      BY <1>1, <2>10
    <3>1. CASE s = r
      BY <2>2, <2>3, <2>7, <3>0, <3>1 DEF RefsAreFound
    <3>2. CASE s # r
      BY <2>3, <2>7, <2>10, <3>2 DEF RefsAreFound
    <3>3. QED BY <3>1, <3>2
  <2>13. ASSUME NEW b \in Boxes, box[b] # Publishing!NoBox PROVE BoxIsOfSource(b)'
    <3>1. BoxIsOfSource(b)
      BY <2>13
    <3>2. box[b].source \in Publishing!Entries
      BY <2>3, <3>1 DEF BoxIsOfSource
    <3>3. CASE box[b].source.kind = "template" /\ Pinned(box[b].source)
      <4>1. box[b].source \in Templates
        BY <3>2, <3>3, EntryKinds
      <4>2. /\ DeclaredRenders(catalogFiles, box[b].source)
            /\ Publishing!Picked(catalogFiles, box[b].source) = {box[b].component}
        BY <3>1, <3>3 DEF BoxIsOfSource
      <4>3. \A ref \in Publishing!RefsOf(box[b].source) : Publishing!Found(catalogFiles, ref)
        BY <3>1 DEF BoxIsOfSource, RefsAreFound
      <4>3a. /\ DeclaredRenders(catalogFiles \cup {e}, box[b].source)
             /\ Publishing!Picked(catalogFiles \cup {e}, box[b].source) = {box[b].component}
        BY <1>4, <3>3, <4>1, <4>2, <4>3, RendersIsStable
      <4>4. QED BY <1>2, <2>3, <3>1, <3>3, <4>3a DEF BoxIsOfSource
    <3>4. CASE ~ (box[b].source.kind = "template" /\ Pinned(box[b].source))
      BY <1>2, <2>3, <3>1, <3>4 DEF BoxIsOfSource, Pinned
    <3>5. QED BY <3>3, <3>4
  <2>14. rows' \subseteq {Publishing!Key(x) : x \in catalogFiles'}
    BY <1>2, <2>3
  <2>15. QED BY <1>2, <2>5, <2>8, <2>9, <2>11, <2>12, <2>13, <2>14
<1>5. QED BY <1>3, <1>4

LEMMA CatalogBoxStep ==
  ASSUME CatalogInv, NEW b \in Boxes,
         \/ \E e \in Publishing!Entries : Publishing!Create(b, "p", e)
         \/ Publishing!Destroy(b)
  PROVE  CatalogInv'
<1> USE DEF CatalogInv
<1>1. UNCHANGED <<up, files, torn, registry, images, builds, rows, request>>
  BY DEF Publishing!Create, Publishing!Destroy, Publishing!replica
<1>2. catalogFiles' = catalogFiles /\ catalogFiles \subseteq Publishing!Entries
  BY <1>1 DEF catalogFiles, Publishing!TypeOK
<1> DEFINE Shape == [source : Publishing!Entries, component : Components] \cup {Publishing!NoBox}
           Made(x) == x # Publishing!NoBox =>
             /\ x.source \in catalogFiles
             /\ x.source.kind = "component" => x.component = x.source
             /\ x.source.kind = "template" /\ Pinned(x.source) =>
                  /\ DeclaredRenders(catalogFiles, x.source)
                  /\ Publishing!Picked(catalogFiles, x.source) = {x.component}
<1>3. \E x \in Shape : box' = [box EXCEPT ![b] = x] /\ Made(x)
  <2>1. CASE Publishing!Destroy(b)
    BY <2>1 DEF Publishing!Destroy
  <2>2. ASSUME NEW e \in Publishing!Entries, Publishing!Create(b, "p", e) PROVE \E x \in Shape : box' = [box EXCEPT ![b] = x] /\ Made(x)
    <3>1. registry["p"] = catalogFiles /\ e \in catalogFiles
      BY <2>2 DEF Publishing!Create
    <3>2. PICK c \in IF e.kind = "template" THEN Publishing!Picked(catalogFiles, e) ELSE {e} :
             box' = [box EXCEPT ![b] = [source |-> e, component |-> c]]
      BY <2>2, <3>1 DEF Publishing!Create
    <3> DEFINE new == [source |-> e, component |-> c]
    <3>3. c \in Components
      <4>1. c \in Publishing!Entries /\ c.kind = "component"
        BY <1>2, <3>2, EntryKinds DEF Publishing!Picked, Publishing!Resolve, Publishing!Of
      <4>2. QED BY <4>1, EntryKinds
    <3>4. ASSUME e.kind = "template", Pinned(e)
          PROVE  Made(new)
      <4>1. e.refs[1] \in Publishing!RefsOf(e)
        BY <3>4, EntryKinds DEF Publishing!RefsOf, Publishing!Range
      <4>2. Publishing!Picked(catalogFiles, e) = {c}
        BY <3>2, <3>4, <4>1, PinnedIsOne DEF Publishing!Picked, Pinned
      <4>3. DeclaredRenders(catalogFiles, e)
        BY <2>2, <3>1, <3>4, DeclaredImages DEF Publishing!Create, DeclaredRenders
      <4>4. QED BY <3>1, <3>2, <3>4, <4>2, <4>3
    <3>5. ASSUME ~ (e.kind = "template" /\ Pinned(e))
          PROVE  Made(new)
      BY <3>1, <3>2, <3>5
    <3>6. Made(new)
      BY <3>4, <3>5
    <3>7. new \in Shape
      BY <3>3
    <3>8. QED BY <3>2, <3>6, <3>7
  <2>3. QED BY <2>1, <2>2
<1>x. PICK x \in Shape : box' = [box EXCEPT ![b] = x] /\ Made(x)
  BY <1>3
<1>4. /\ box' \in [Boxes -> Shape]
      /\ \A a \in Boxes : box'[a] = IF a = b THEN x ELSE box[a]
  BY <1>x DEF Publishing!TypeOK
<1>5. Publishing!TypeOK'
  BY <1>1, <1>4 DEF Publishing!TypeOK
<1>6. \A a \in Boxes : box'[a] # Publishing!NoBox => BoxIsOfSource(a)'
  BY <1>2, <1>x, <1>4 DEF BoxIsOfSource, Pinned
<1>7. QED
  BY <1>1, <1>2, <1>5, <1>6 DEF UniqueKeys, RefsAreFound

(* A crash takes the requests with it.                                     *)
LEMMA CatalogCrashStep ==
  ASSUME CatalogInv,
         Publishing!Crash("p") \/ \E r \in Publications : Publishing!CrashInWrite(r)
  PROVE  CatalogInv'
<1> USE DEF CatalogInv
<1>1. \A r \in Publications : request[r] = Publishing!NoRequest \/ request[r].at = "p"
  BY RequestShape DEF Publishing!TypeOK
<1>2. ASSUME NEW r \in Publications, Publishing!CrashInWrite(r) PROVE request[r].at = "p"
  BY <1>2, RequestShape DEF Publishing!CrashInWrite
<1>3. /\ up' = up \ {"p"} /\ files' = files /\ UNCHANGED <<builds, rows, box>>
      /\ images' = [images EXCEPT !["p"] = {}]
      /\ torn' \in {torn, torn \cup {"p"}}
      /\ registry' = [registry EXCEPT !["p"] = {}] /\ Publishing!Interrupted("p")
  <2>1. CASE Publishing!Crash("p")
    <3>1. files' = [files EXCEPT !["p"] = @]
      BY <2>1 DEF Publishing!Crash
    <3>2. files' = files
      BY <3>1 DEF Publishing!TypeOK
    <3>3. QED BY <2>1, <3>2 DEF Publishing!Crash
  <2>2. ASSUME NEW r \in Publications, Publishing!CrashInWrite(r)
        PROVE  /\ up' = up \ {"p"} /\ files' = files /\ UNCHANGED <<builds, rows, box>>
               /\ images' = [images EXCEPT !["p"] = {}]
               /\ registry' = [registry EXCEPT !["p"] = {}]
               /\ torn' \in {torn, torn \cup {"p"}}
               /\ Publishing!Interrupted("p")
    BY <1>2, <2>2 DEF Publishing!CrashInWrite
  <2>3. QED BY <2>1, <2>2
<1>4. up' = {} /\ torn' \subseteq {"p"}
  BY <1>3 DEF Publishing!TypeOK
<1>5. request' = [r \in Publications |-> Publishing!NoRequest]
  BY <1>1, <1>3 DEF Publishing!Interrupted
<1>6. Publishing!TypeOK'
  BY <1>3, <1>4, <1>5 DEF Publishing!TypeOK
<1>7. QED
  BY <1>3, <1>4, <1>5, <1>6 DEF catalogFiles, UniqueKeys, RefsAreFound, BoxIsOfSource, Publishing!NoRequest

LEMMA CatalogRestartStep == ASSUME CatalogInv, Publishing!Restart("p") PROVE CatalogInv'
<1> USE DEF CatalogInv
<1>1. /\ up' = up \cup {"p"} /\ registry' = [registry EXCEPT !["p"] = files["p"]]
      /\ images' = [images EXCEPT !["p"] = builds]
      /\ UNCHANGED <<files, torn, builds, rows, request, box>> /\ "p" \notin torn /\ "p" \notin up
  BY DEF Publishing!Restart, Publishing!Loads
<1>2. registry \in [{"p"} -> SUBSET Publishing!Entries] /\ catalogFiles \in SUBSET Publishing!Entries
  BY DEF Publishing!TypeOK, catalogFiles
<1>3. registry'["p"] = catalogFiles'
  BY <1>1, <1>2 DEF catalogFiles
<1>4. \A r \in Publications : request[r] = Publishing!NoRequest
  BY <1>1, RequestShape DEF Publishing!TypeOK
<1>5. Publishing!TypeOK'
  BY <1>1, <1>2, <1>3, <1>4 DEF Publishing!TypeOK, catalogFiles
<1>6. QED
  BY <1>1, <1>3, <1>5 DEF catalogFiles, UniqueKeys, RefsAreFound, BoxIsOfSource

(* A build changes what is remembered, and no more.                        *)
LEMMA CatalogBuildStep ==
  ASSUME CatalogInv, NEW c \in Components, Publishing!Build("p", c)
  PROVE  CatalogInv'
<1> USE DEF CatalogInv
<1>1. /\ UNCHANGED <<up, files, torn, registry, rows, request, box>>
      /\ images' = [images EXCEPT !["p"] = @ \cup {Publishing!Key(c)}]
      /\ builds' \in {builds, builds \cup {Publishing!Key(c)}}
  BY DEF Publishing!Build
<1>2. Publishing!TypeOK'
  BY <1>1 DEF Publishing!TypeOK
<1>3. QED
  BY <1>1, <1>2 DEF catalogFiles, UniqueKeys, RefsAreFound, BoxIsOfSource

LEMMA NextCatalogInv == CatalogInv /\ [Publishing!Next]_onlyCatalog => CatalogInv'
<1> SUFFICES ASSUME CatalogInv, [Publishing!Next]_onlyCatalog PROVE CatalogInv'
  OBVIOUS
<1>1. CASE Publishing!Next
  BY <1>1, CatalogQuietSteps, CatalogPublishStep, CatalogBoxStep, CatalogBuildStep, CatalogCrashStep, CatalogRestartStep
  DEF Publishing!Next
<1>2. CASE UNCHANGED onlyCatalog
  BY <1>2 DEF onlyCatalog, CatalogInv, Publishing!TypeOK, catalogFiles, UniqueKeys, RefsAreFound, BoxIsOfSource
<1>3. QED BY <1>1, <1>2

(* Rows of the published are served, keys stand for one entry for ever ... *)
LEMMA CatalogInvMeans ==
  CatalogInv => /\ Publishing!Immutable /\ Publishing!PublishedIsServed
                /\ Publishing!Restartable /\ Publishing!PinnedRunsWhatRuns
<1> SUFFICES ASSUME CatalogInv
             PROVE  /\ Publishing!Immutable /\ Publishing!PublishedIsServed
                    /\ Publishing!Restartable /\ Publishing!PinnedRunsWhatRuns
  OBVIOUS
<1> USE DEF CatalogInv
<1>1. Publishing!Immutable
  BY DEF Publishing!Immutable, UniqueKeys, catalogFiles
<1>2. up \subseteq {"p"}
  BY DEF Publishing!TypeOK
<1>3. Publishing!PublishedIsServed
  BY <1>2 DEF Publishing!PublishedIsServed
<1>4. Publishing!Restartable
  BY DEF Publishing!Restartable, Publishing!Loads, UniqueKeys, catalogFiles, RefsAreFound
(* ... and a sandbox's own source is what its key finds.                   *)
<1>5. ASSUME NEW b \in Boxes, "p" \in up, Publishing!RunsPinned(b)
      PROVE  /\ Publishing!ForRun(registry["p"], images["p"], b) \subseteq {box[b].component}
             /\ Publishing!Declared(registry["p"], box[b].source) =>
                    Publishing!ForRun(registry["p"], images["p"], b) = {box[b].component}
  <2> DEFINE source == box[b].source
             run == Publishing!ForRun(registry["p"], images["p"], b)
  <2>1. /\ BoxIsOfSource(b) /\ registry["p"] = catalogFiles
        /\ source.owner = Publishing!Public /\ Pinned(source)
    BY <1>5 DEF Publishing!RunsPinned, Pinned
  <2>2. source \in catalogFiles /\ source \in Publishing!Entries
    BY <2>1 DEF BoxIsOfSource, Publishing!TypeOK, catalogFiles
  <2>3. Publishing!BareKey(source) = Publishing!Key(source)
    BY <2>1 DEF Publishing!Key, Publishing!BareKey
  <2>4. Publishing!Bare(catalogFiles, source) = {source}
    BY <2>2, <2>3 DEF Publishing!Bare, UniqueKeys
  <2>5. CASE source.kind = "component"
    <3>1. run = {source} /\ source = box[b].component
      BY <2>1, <2>4, <2>5 DEF Publishing!ForRun, BoxIsOfSource
    <3>2. QED BY <3>1
  <2>6. CASE source.kind = "template"
    <3>1. Publishing!Picked(catalogFiles, source) = {box[b].component}
      BY <2>1, <2>6 DEF BoxIsOfSource
    <3>2. run = UNION {Publishing!Picked(catalogFiles, t) :
                          t \in {k \in {source} : Publishing!Renders(catalogFiles, images["p"], k)}}
      BY <2>1, <2>4, <2>6 DEF Publishing!ForRun
    <3>3. run \subseteq {box[b].component}
      BY <3>1, <3>2
    <3>4. ASSUME Publishing!Declared(catalogFiles, source) PROVE run = {box[b].component}
      <4>1. DeclaredRenders(catalogFiles, source)
        BY <2>1, <2>6 DEF BoxIsOfSource
      <4>2. Publishing!Renders(catalogFiles, images["p"], source)
        BY <3>4, <4>1, DeclaredImages DEF DeclaredRenders
      <4>3. QED BY <3>1, <3>2, <4>2
    <3>5. QED BY <2>1, <3>3, <3>4
  <2>7. QED BY <2>2, <2>5, <2>6, EntryKinds
<1>6. Publishing!PinnedRunsWhatRuns
  BY <1>2, <1>5 DEF Publishing!PinnedRunsWhatRuns
<1>7. QED BY <1>1, <1>3, <1>4, <1>6

-----------------------------------------------------------------------------
(* Builds, with one replica.  What the replica remembers is what the table *)
(* says only because a row's status follows its task, and an image is      *)
(* remembered before its row can succeed.                                  *)

RowFollowsTask(b) ==
    /\ job[b] = "none" <=> build[b].status = "none"
    /\ job[b] = "queued" => build[b].status = "pending"
    /\ Building!Owned(b) => build[b].status = "running" /\ build[b].key \in Buildable
    /\ build[b].status = "succeeded" => job[b] = "over"
    /\ job[b] = "push" => build[b].key.name \notin Charts
    /\ job[b] = "commit" /\ build[b].key.name \notin Charts => build[b].key \in built["a"]

BuildsInv ==
    /\ Building!TypeOK
    /\ \A b \in Building!Ids : RowFollowsTask(b)
    /\ \A k \in built["a"] : k.name \notin Charts
    /\ Building!RestartForgetsNothing

LEMMA InitBuildsInv == Building!Init => BuildsInv
<1> SUFFICES ASSUME Building!Init PROVE BuildsInv
  OBVIOUS
<1>1. Building!Keys # {}
  <2>1. PICK c \in Buildable : TRUE
    BY BuildsAssumption
  <2>2. [owner |-> "public", name |-> c.name] \in Building!Keys
    BY DEF Building!Keys, Building!Names, Building!Public
  <2>3. QED BY <2>2
<1>2. (CHOOSE k \in Building!Keys : TRUE) \in Building!Keys
  BY <1>1
<1>3. Building!TypeOK
  BY <1>2 DEF Building!Init, Building!TypeOK
<1>4. \A b \in Building!Ids : RowFollowsTask(b)
  BY DEF Building!Init, RowFollowsTask, Building!Owned
<1>5. QED
  BY <1>3, <1>4 DEF Building!Init, BuildsInv, Building!RestartForgetsNothing, Building!Hydrated, Building!Imaged

LEMMA BuildsTriggerStep ==
  ASSUME BuildsInv, NEW t \in Triggers, NEW c \in Buildable, NEW caller \in Callers, Building!Trigger(t, c, caller)
  PROVE  BuildsInv'
<1> USE DEF BuildsInv
<1>1. UNCHANGED <<build, job, host, daemon, pushed, cache, built>>
  BY DEF Building!Trigger, Building!imageVars
<1>2. Building!TypeOK'
  BY <1>1 DEF Building!Trigger, Building!TypeOK
<1>3. QED
  BY <1>1, <1>2 DEF RowFollowsTask, Building!Owned, Building!RestartForgetsNothing, Building!Hydrated, Building!Imaged

(* The rows of the others, when a step is about one row.                   *)
LEMMA BuildsOthers ==
  ASSUME BuildsInv, NEW b \in Building!Ids, UNCHANGED host,
         \A a \in Building!Ids \ {b} : build'[a] = build[a] /\ job'[a] = job[a],
         built["a"] \subseteq built'["a"]
  PROVE  \A a \in Building!Ids \ {b} : RowFollowsTask(a)'
BY DEF BuildsInv, RowFollowsTask, Building!Owned

LEMMA BuildsInsertStep ==
  ASSUME BuildsInv, NEW t \in Triggers, Building!Insert(t, "a")
  PROVE  BuildsInv'
<1> USE DEF BuildsInv
<1> DEFINE key == Building!RowKey(trigger[t].key, trigger[t].caller)
<1>1. PICK b \in Building!Ids :
        /\ build[b].status = "none"
        /\ build' = [build EXCEPT ![b] = [status |-> "pending", key |-> key]]
        /\ job' = [job EXCEPT ![b] = "queued"] /\ host' = [host EXCEPT ![b] = "a"]
  BY DEF Building!Insert
<1>2. /\ trigger[t].at = "insert" /\ trigger' = [trigger EXCEPT ![t].at = "answered"]
      /\ UNCHANGED <<daemon, pushed, cache, built>>
  BY DEF Building!Insert, Building!imageVars
<1>3. trigger[t] \in [at : {"insert", "answered", "refused"}, key : Buildable, caller : Callers]
  BY <1>2 DEF Building!TypeOK
<1>4. key \in Building!Keys
  <2>1. trigger[t].key \in Buildable /\ trigger[t].caller \in Callers
    BY <1>3
  <2>2. QED BY <2>1 DEF Building!RowKey, Building!Keys, Building!Names, Building!Public
<1>5. [trigger[t] EXCEPT !.at = "answered"] \in [at : {"insert", "answered", "refused"}, key : Buildable, caller : Callers]
  BY <1>3
<1>6. trigger' \in [Triggers -> [at : {"idle"}] \cup [at : {"insert", "answered", "refused"}, key : Buildable, caller : Callers]]
  BY <1>2, <1>5 DEF Building!TypeOK
<1>7. Building!TypeOK'
  BY <1>1, <1>2, <1>4, <1>6 DEF Building!TypeOK
<1>8. /\ \A a \in Building!Ids \ {b} : build'[a] = build[a] /\ job'[a] = job[a]
      /\ build'[b].status = "pending" /\ job'[b] = "queued" /\ host' = host
  BY <1>1 DEF Building!TypeOK
<1>9. \A a \in Building!Ids : RowFollowsTask(a)'
  <2>1. RowFollowsTask(b)'
    BY <1>8 DEF RowFollowsTask, Building!Owned
  <2>2. QED BY <1>2, <1>8, <2>1, BuildsOthers
<1>10. Building!RestartForgetsNothing'
  <2>1. Building!Imaged' = Building!Imaged
    BY <1>1, <1>8 DEF Building!Imaged
  <2>2. Building!Hydrated' = Building!Hydrated
    BY <1>1, <1>8, <2>1 DEF Building!Hydrated, Building!Imaged
  <2>3. QED BY <1>1, <1>2, <1>8, <2>2 DEF Building!RestartForgetsNothing
<1>11. QED BY <1>2, <1>7, <1>9, <1>10

(* What a step of a task leaves of the types.                              *)
LEMMA BuildsWorkTypes ==
  ASSUME BuildsInv, NEW b \in Building!Ids, Building!Work(b)
  PROVE  /\ Building!TypeOK' /\ UNCHANGED <<trigger, host>>
         /\ \A a \in Building!Ids \ {b} : build'[a] = build[a] /\ job'[a] = job[a]
         /\ build'[b].key = build[b].key /\ job[b] # "none" /\ build[b].status # "none"
<1> USE DEF BuildsInv
<1> DEFINE key == build[b].key
           Row == [status : {"none", "pending", "running", "succeeded", "failed"}, key : Building!Keys]
<1>1. UNCHANGED <<trigger, host>>
  BY DEF Building!Work, Building!Begin, Building!Build, Building!Render, Building!Push, Building!Commit,
         Building!BuildFails, Building!CommitFails, Building!imageVars
<1>2. /\ build' = build \/ \E s \in {"running", "succeeded", "failed"} : build' = [build EXCEPT ![b].status = s]
      /\ \E s \in {"build", "push", "commit", "over"} : job' = [job EXCEPT ![b] = s]
      /\ job[b] # "none"
  BY DEF Building!Work, Building!Begin, Building!Build, Building!Render, Building!Push, Building!Commit,
         Building!BuildFails, Building!CommitFails, Building!Ends
<1>3. build[b] \in Row /\ key.name \in Building!Names
  BY DEF Building!TypeOK, Building!Keys
<1>4. /\ build' \in [Building!Ids -> Row]
      /\ build'[b].key = build[b].key /\ \A a \in Building!Ids \ {b} : build'[a] = build[a]
  <2>1. CASE build' = build
    BY <2>1 DEF Building!TypeOK
  <2>2. ASSUME NEW s \in {"running", "succeeded", "failed"}, build' = [build EXCEPT ![b].status = s]
        PROVE  /\ build' \in [Building!Ids -> Row]
               /\ build'[b].key = build[b].key /\ \A a \in Building!Ids \ {b} : build'[a] = build[a]
    <3>1. /\ [build[b] EXCEPT !.status = s] \in Row
          /\ [build[b] EXCEPT !.status = s].key = build[b].key
      BY <1>3
    <3>2. QED BY <2>2, <3>1 DEF Building!TypeOK
  <2>3. QED BY <1>2, <2>1, <2>2
<1>5. job' \in [Building!Ids -> {"none", "queued", "build", "push", "commit", "over"}]
      /\ \A a \in Building!Ids \ {b} : job'[a] = job[a]
  BY <1>2 DEF Building!TypeOK
<1>6. daemon' \in [Building!Names -> Buildable \cup {Building!Nothing}] /\ cache' \subseteq Cached
  <2>1. CASE Building!Build(b)
    <3>1. key \in Buildable
      BY <2>1 DEF Building!Build, RowFollowsTask, Building!Owned
    <3>2. QED BY <1>3, <2>1, <3>1 DEF Building!Build, Building!TypeOK, Building!imageVars
  <2>2. CASE ~ Building!Build(b)
    <3>1. UNCHANGED <<daemon, cache>>
      BY <2>2 DEF Building!Work, Building!Begin, Building!Render, Building!Push, Building!Commit,
         Building!BuildFails, Building!CommitFails, Building!imageVars
    <3>2. QED BY <3>1 DEF Building!TypeOK
  <2>3. QED BY <2>1, <2>2
<1>7. pushed' \in [Building!Names -> Buildable \cup {Building!Nothing}] /\ built' \in [{"a"} -> SUBSET Building!Keys]
  <2>1. CASE Building!Push(b)
    BY <1>3, <2>1 DEF Building!Push, Building!TypeOK
  <2>2. CASE ~ Building!Push(b)
    <3>1. UNCHANGED <<pushed, built>>
      BY <2>2 DEF Building!Work, Building!Begin, Building!Build, Building!Render, Building!Commit,
         Building!BuildFails, Building!CommitFails, Building!imageVars
    <3>2. QED BY <3>1 DEF Building!TypeOK
  <2>3. QED BY <2>1, <2>2
<1>8. Building!TypeOK'
  BY <1>1, <1>4, <1>5, <1>6, <1>7 DEF Building!TypeOK
<1>9. build[b].status # "none"
  BY <1>2 DEF RowFollowsTask
<1>10. QED BY <1>1, <1>2, <1>4, <1>5, <1>8, <1>9

LEMMA BuildsWorkStep ==
  ASSUME BuildsInv, NEW b \in Building!Ids, Building!Work(b)
  PROVE  BuildsInv'
<1> USE DEF BuildsInv
<1>1. /\ Building!TypeOK' /\ UNCHANGED <<trigger, host>>
      /\ \A a \in Building!Ids \ {b} : build'[a] = build[a] /\ job'[a] = job[a]
      /\ build'[b].key = build[b].key /\ job[b] # "none" /\ build[b].status # "none"
  BY BuildsWorkTypes
<1>2. RowFollowsTask(b) /\ host[b] = "a"
  BY DEF Building!TypeOK
<1>3. CASE Building!Push(b)
  <2>1. /\ job[b] = "push" /\ job'[b] = "commit" /\ build' = build
        /\ built'["a"] = built["a"] \cup {build[b].key}
    BY <1>2, <1>3 DEF Building!Push, Building!TypeOK
  <2>2. RowFollowsTask(b)'
    BY <1>2, <2>1 DEF RowFollowsTask, Building!Owned
  <2>3. \A k \in built'["a"] : k.name \notin Charts
    BY <1>2, <2>1 DEF RowFollowsTask
  <2>4. Building!Hydrated' = Building!Hydrated
    BY <2>1 DEF Building!Hydrated, Building!Imaged
  <2>5. build[b] = [key |-> build[b].key, status |-> "running"]
    BY <1>2, <2>1 DEF RowFollowsTask, Building!Owned, Building!TypeOK
  <2>6. Building!RestartForgetsNothing'
    BY <1>1, <2>1, <2>4, <2>5 DEF Building!RestartForgetsNothing
  <2>7. QED BY <1>1, <2>1, <2>2, <2>3, <2>6, BuildsOthers
<1>4. CASE Building!Commit(b)
  <2>1. /\ job[b] = "commit" /\ job'[b] = "over" /\ built' = built
        /\ build'[b].status = "succeeded" /\ build[b].status = "running"
    BY <1>2, <1>4 DEF Building!Commit, Building!Ends, Building!TypeOK, RowFollowsTask, Building!Owned
  <2>2. RowFollowsTask(b)'
    BY <2>1 DEF RowFollowsTask, Building!Owned
  <2>3. /\ Building!Hydrated \subseteq Building!Hydrated'
        /\ \A k \in Building!Hydrated' \ Building!Hydrated : k = build[b].key /\ k.name \notin Charts
        /\ build[b].key.name \notin Charts => build[b].key \in Building!Hydrated'
    BY <1>1, <2>1 DEF Building!Hydrated, Building!Imaged
  <2>4. ASSUME NEW k \in built["a"] \ Building!Hydrated'
        PROVE  \E a \in Building!Ids : build'[a] = [key |-> k, status |-> "running"] /\ job'[a] \in {"commit", "over"}
    <3>1. PICK a \in Building!Ids : build[a] = [key |-> k, status |-> "running"] /\ job[a] \in {"commit", "over"}
      BY <2>3 DEF Building!RestartForgetsNothing
    <3>2. a # b
      BY <2>3, <3>1
    <3>3. QED BY <1>1, <3>1, <3>2
  <2>5. Building!Hydrated' \subseteq built["a"]
    BY <1>2, <2>1, <2>3 DEF Building!RestartForgetsNothing, RowFollowsTask
  <2>6. Building!RestartForgetsNothing'
    BY <2>1, <2>4, <2>5 DEF Building!RestartForgetsNothing
  <2>7. QED BY <1>1, <2>1, <2>2, <2>6, BuildsOthers
<1>5. CASE Building!Begin(b) \/ Building!Build(b) \/ Building!Render(b) \/ Building!BuildFails(b) \/ Building!CommitFails(b)
  <2>1. built' = built
    BY <1>5 DEF Building!Begin, Building!Build, Building!Render, Building!BuildFails, Building!CommitFails
  <2>2. RowFollowsTask(b)'
    BY <1>1, <1>2, <1>5, <2>1 DEF RowFollowsTask, Building!Owned, Building!Ends, Building!Begin, Building!Build, Building!Render,
       Building!BuildFails, Building!CommitFails, Building!TypeOK
  <2>3. /\ build[b].status # "succeeded" /\ build'[b].status # "succeeded"
        /\ build[b].status = "running" /\ job[b] \in {"commit", "over"} => build'[b] = build[b] /\ job'[b] = "over"
    BY <1>1, <1>2, <1>5 DEF RowFollowsTask, Building!Owned, Building!Ends, Building!Begin, Building!Build, Building!Render,
       Building!BuildFails, Building!CommitFails, Building!TypeOK
  <2>4. Building!Imaged' = Building!Imaged
    BY <1>1, <2>3 DEF Building!Imaged
  <2>5. Building!Hydrated' = Building!Hydrated
    <3>1. \A a \in Building!Ids : build'[a].key = build[a].key
      BY <1>1
    <3>2. Building!Imaged \subseteq Building!Ids
      BY DEF Building!Imaged
    <3>3. QED BY <2>4, <3>1, <3>2 DEF Building!Hydrated
  <2>6. ASSUME NEW k \in built["a"] \ Building!Hydrated
        PROVE  \E a \in Building!Ids : build'[a] = [key |-> k, status |-> "running"] /\ job'[a] \in {"commit", "over"}
    <3>1. PICK a \in Building!Ids : build[a] = [key |-> k, status |-> "running"] /\ job[a] \in {"commit", "over"}
      BY DEF Building!RestartForgetsNothing
    <3>2. QED BY <1>1, <2>3, <3>1
  <2>7. Building!RestartForgetsNothing'
    BY <2>1, <2>5, <2>6 DEF Building!RestartForgetsNothing
  <2>8. QED BY <1>1, <2>1, <2>2, <2>7, BuildsOthers
<1>6. QED BY <1>3, <1>4, <1>5 DEF Building!Work

LEMMA BuildsRestartStep == ASSUME BuildsInv, Building!Restart("a") PROVE BuildsInv'
<1> USE DEF BuildsInv
<1>1. /\ job' = [b \in Building!Ids |-> IF host[b] = "a" /\ job[b] # "none" THEN "over" ELSE job[b]]
      /\ built' = [built EXCEPT !["a"] = Building!Hydrated] /\ UNCHANGED <<trigger, build, host, daemon, pushed, cache>>
  BY DEF Building!Restart, Building!imageVars
<1>2. Building!Hydrated' = Building!Hydrated /\ Building!Hydrated \subseteq Building!Keys
  BY <1>1 DEF Building!Hydrated, Building!Imaged, Building!TypeOK
<1>3. built'["a"] = Building!Hydrated
  BY <1>1 DEF Building!TypeOK
<1>4. Building!TypeOK'
  BY <1>1, <1>2 DEF Building!TypeOK
<1>5. \A b \in Building!Ids : RowFollowsTask(b)'
  BY <1>1 DEF RowFollowsTask, Building!Owned, Building!TypeOK
<1>6. \A k \in built'["a"] : k.name \notin Charts
  BY <1>3 DEF Building!Hydrated, Building!Imaged
<1>7. QED BY <1>2, <1>3, <1>4, <1>5, <1>6 DEF Building!RestartForgetsNothing

LEMMA NextBuildsInv == BuildsInv /\ [Building!Next]_onlyBuilds => BuildsInv'
<1> SUFFICES ASSUME BuildsInv, [Building!Next]_onlyBuilds PROVE BuildsInv'
  OBVIOUS
<1>1. CASE Building!Next
  BY <1>1, BuildsTriggerStep, BuildsInsertStep, BuildsWorkStep, BuildsRestartStep DEF Building!Next
<1>2. CASE UNCHANGED onlyBuilds
  BY <1>2 DEF onlyBuilds, BuildsInv, Building!TypeOK, RowFollowsTask, Building!Owned, Building!RestartForgetsNothing,
     Building!Hydrated, Building!Imaged
<1>3. QED BY <1>1, <1>2

-----------------------------------------------------------------------------
(* The whole.  A step of one part leaves the others as they are.           *)

(* AsyncRuns' types need none of RunsInv, and so hold with every fault.    *)
LEMMA NextRunsTypes == TypeOK /\ [Next]_onlyRuns => TypeOK'
<1> SUFFICES ASSUME TypeOK, [Next]_onlyRuns PROVE TypeOK'
  OBVIOUS
<1>1. ASSUME NEW r \in Requests, Refuse(r) \/ Accept(r) PROVE TypeOK'
  BY <1>1 DEF Refuse, Accept, To, rowVars, TypeOK
<1>2. ASSUME NEW r \in Requests, Begin(r) \/ Commit(r) \/ CommitLost(r) \/ MarkFailed(r) PROVE TypeOK'
  <2>1. /\ \E s \in {"running", "completed", "failed"} : status' = [status EXCEPT ![r] = s]
        /\ \E w \in {"running", "failing", "over"} : task' = [task EXCEPT ![r] = w]
    BY <1>2 DEF Begin, Commit, CommitLost, MarkFailed, To
  <2>2. \/ UNCHANGED <<result, charged>>
        \/ result' = [result EXCEPT ![r] = TRUE] /\ charged' = [charged EXCEPT ![r] = TRUE]
    BY <1>2 DEF Begin, Commit, CommitLost, MarkFailed, To
  <2>3. UNCHANGED <<program, client, polls, seen>>
    BY <1>2 DEF Begin, Commit, CommitLost, MarkFailed, clientVars
  <2>4. result' \in [Requests -> BOOLEAN] /\ charged' \in [Requests -> BOOLEAN]
    BY <2>2 DEF TypeOK
  <2>5. /\ status' \in [Requests -> {"none", "pending", "running"} \cup Done]
        /\ task' \in [Requests -> {"none", "queued", "running", "ran", "failing", "over"}]
    <3>1. /\ status \in [Requests -> {"none", "pending", "running"} \cup Done]
          /\ task \in [Requests -> {"none", "queued", "running", "ran", "failing", "over"}]
          /\ "completed" \in Done /\ "failed" \in Done
      BY DEF TypeOK, Done
    <3>2. QED BY <2>1, <3>1
  <2>6. QED BY <2>3, <2>4, <2>5 DEF TypeOK
<1>3. ASSUME NEW r \in Requests,
             BeginFails(r) \/ Run(r) \/ RunFails(r) \/ CommitFails(r) \/ MarkFailedFails(r)
      PROVE  TypeOK'
  <2>1. /\ UNCHANGED <<status, result, charged, client, polls, seen>>
        /\ \E w \in {"over", "ran", "failing"} : task' = [task EXCEPT ![r] = w]
        /\ program' = [program EXCEPT ![r] = 1] \/ program' = program
    BY <1>3 DEF BeginFails, Run, RunFails, CommitFails, MarkFailedFails, To, rowVars, clientVars
  <2>2. task' \in [Requests -> {"none", "queued", "running", "ran", "failing", "over"}]
    BY <2>1 DEF TypeOK
  <2>3. program' \in [Requests -> 0 .. 1]
    <3>1. program \in [Requests -> 0 .. 1]
      BY DEF TypeOK
    <3>2. QED BY <2>1, <3>1
  <2>4. QED BY <2>1, <2>2, <2>3 DEF TypeOK
<1>4. ASSUME NEW r \in Requests, Poll(r) PROVE TypeOK'
  <2>1. /\ polls \in [Requests -> 0 .. Patience] /\ polls[r] < Patience
        /\ polls' = [polls EXCEPT ![r] = polls[r] + 1]
    BY <1>4 DEF Poll, To, TypeOK
  <2>2. polls' \in [Requests -> 0 .. Patience]
    BY <2>1, PatienceAssumption
  <2>3. QED BY <1>4, <2>2 DEF Poll, To, rowVars, TypeOK
<1>5. CASE Restart \/ UNCHANGED onlyRuns
  BY <1>5 DEF Restart, onlyRuns, rowVars, clientVars, TypeOK
<1>6. QED BY <1>1, <1>2, <1>3, <1>4, <1>5 DEF Next, Work

MCInv == TypeOK /\ QueueInv /\ CallsInv /\ ViewerInv /\ CatalogInv /\ BuildsInv

LEMMA InitMCInv == MCInit => MCInv /\ RunsInv
  BY InitRunsInv, InitQueueInv, InitCallsInv, InitViewerInv, InitCatalogInv, InitBuildsInv
  DEF MCInit, MCInv, RunsInv

LEMMA PartsStep ==
  [MCNext]_mcVars => /\ [Next]_onlyRuns /\ [Queue!Next]_onlyQueue /\ [Calling!Next]_onlyCalls
                     /\ [Viewing!Next]_onlyViewers /\ [Publishing!Next]_onlyCatalog /\ [Building!Next]_onlyBuilds
  BY DEF MCNext, Now, mcVars

LEMMA NextMCInv == MCInv /\ [MCNext]_mcVars => MCInv'
  BY PartsStep, NextRunsTypes, NextQueueInv, NextCallsInv, NextViewerInv, NextCatalogInv, NextBuildsInv DEF MCInv

(* Every part's invariant, whichever part is explored.                     *)
THEOREM MCInvHolds == MCSpec => []MCInv
<1>1. MCInit => MCInv
  BY InitMCInv
<1>2. QED BY <1>1, NextMCInv, PTL DEF MCSpec

(* The variables of every part have their types.                           *)
THEOREM PartsAreTyped == MCSpec => []TypeCorrect
<1>1. MCInv => TypeCorrect
  BY DEF MCInv, TypeCorrect, QueueInv, CallsInv, ViewerInv, CatalogInv, BuildsInv
<1>2. QED BY <1>1, MCInvHolds, PTL

(* What a caller is told and charged is what the row of its run says: the  *)
(* result, the charge and the status come and stay together, whatever else *)
(* fails, as long as every commit that takes effect is also answered.      *)
THEOREM RunsAreHonest == "lost" \notin Faults /\ MCSpec => []RunsHonest
<1> SUFFICES ASSUME "lost" \notin Faults PROVE MCSpec => []RunsHonest
  OBVIOUS
<1>1. MCInit => RunsInv
  BY InitMCInv
<1>2. RunsInv /\ [MCNext]_mcVars => RunsInv'
  BY PartsStep, NextRunsInv
<1>3. RunsInv => RunsHonest
  BY DEF RunsInv
<1>4. QED BY <1>1, <1>2, <1>3, PTL DEF MCSpec

(* However many requests race past the quota's check, with whatever fails, *)
(* a tenant has fewer sandboxes than its quota and the connections that    *)
(* the requests share together.                                            *)
THEOREM OverAdmissionIsBounded == MCSpec => []OverAdmissionBounded
<1>1. MCInv => OverAdmissionBounded
  BY DEF MCInv, QueueInv, OverAdmissionBounded
<1>2. QED BY <1>1, MCInvHolds, PTL

(* However the replicas' clocks and pipelines overtake each other, no      *)
(* window has more allowed calls than the limit, nobody is rejected who    *)
(* has not used it up, and what RateLimit-Remaining promises is granted.   *)
THEOREM LimitsAreKept == MCSpec => []LimitIsKept
<1>1. MCInv => LimitIsKept
  BY DEF MCInv, CallsInv, Limits, LimitIsKept
<1>2. QED BY <1>1, MCInvHolds, PTL

(* Handshakes that come between each other's get and set, and stay there   *)
(* for any time, are part of this: until one of them overwrites another    *)
(* viewer's lock, the viewers of a sandbox are attached one at a time, and *)
(* who detaches leaves the lock on itself, for its grace window.  After    *)
(* that two may be attached.  Heartbeats and the stream's opening are on   *)
(* time here, and Redis answers.                                           *)
THEOREM OneViewerAtATime == MCSpec => ViewersTakeTurns
<1>1. MCInv => Viewing!OneViewerUnlessOverwritten
  BY ViewerInvMeans DEF MCInv
<1>2. MCInv /\ [MCNext]_mcVars
        => [\A s \in Sockets :
                ~ overwritten /\ viewerPc[s] = "open" /\ viewerPc'[s] = "gone" => lock'.by = who[s]]_Viewing!vars
  <2> SUFFICES ASSUME ViewerInv, Viewing!Next, ~ overwritten,
                      NEW s \in Sockets, viewerPc[s] = "open", viewerPc'[s] = "gone"
               PROVE  lock'.by = who[s]
    BY PartsStep DEF MCInv, onlyViewers, Viewing!vars
  <2>1. QED BY ViewerGrace
<1>3. QED BY <1>1, <1>2, MCInvHolds, PTL DEF MCSpec, ViewersTakeTurns, Viewing!GraceKeptUnlessOverwritten

(* A key stands for one manifest for ever, and what has a row is served    *)
(* whenever the replica is up, whatever crashed between file and row.      *)
THEOREM PublishedStaysPublished == MCSpec => []PublishedStays
<1>1. MCInv => PublishedStays
  BY CatalogInvMeans DEF MCInv, PublishedStays
<1>2. QED BY <1>1, MCInvHolds, PTL

(* A run in a sandbox that was made of a public component, or of a public  *)
(* template with pinned references, uses no other component, whatever has  *)
(* been published or built since, and does run if the template's           *)
(* components name their images.  If one has yet to be built it may not:   *)
(* PinnedStillRuns does not hold.                                          *)
THEOREM PinsHold == MCSpec => []PinnedRunsWhatRuns
<1>1. MCInv => PinnedRunsWhatRuns
  BY CatalogInvMeans DEF MCInv, PinnedRunsWhatRuns
<1>2. QED BY <1>1, MCInvHolds, PTL

(* The replica can start again from its files unless a write was cut off,  *)
(* and remembers of its images what it would read from the builds' table.  *)
THEOREM RestartsAreWhole == MCSpec => []RestartsWhole
<1>1. MCInv => RestartsWhole
  BY CatalogInvMeans DEF MCInv, BuildsInv, RestartsWhole
<1>2. QED BY <1>1, MCInvHolds, PTL

==============================================================================
