------------------------ MODULE SandboxLifecycle_proofs ------------------------
(***************************************************************************)
(* Theorems about SandboxLifecycle, for any number of sandboxes and API    *)
(* requests, any times to live, and all faults but "probe": a provisioner  *)
(* that takes an error of the daemon for "terminated".                     *)
(*                                                                         *)
(* That a terminated sandbox does not run is decided long before its row   *)
(* says so.  Between the two, the destroy, the status request or the       *)
(* reaper remembers that the container is gone; nothing brings it back,    *)
(* since only a sandbox without a row is created, and everybody at work    *)
(* has found a row.                                                        *)
(***************************************************************************)
EXTENDS MCSandboxLifecycle, TLAPS

(* Who is about to write that a sandbox has ended knows that it is gone.   *)
EndedIsGone ==
    /\ \A x \in Sessions : pc[x] \in {"commit", "heal"} => target[x] \notin up
    /\ reaper = "commit" => current \notin up

(* Everybody works on sandboxes that have a row.                           *)
WorkHasRow ==
    /\ \A x \in Sessions : pc[x] # "idle" => row[target[x]] # "none"
    /\ reaper = "commit" => row[current] # "none"
    /\ \A s \in todo : row[s] # "none"

(* No sandbox is created after the time by which it is billed.             *)
CreatedBefore ==
    /\ \A s \in Sandboxes : created[s] <= clock
    /\ \A s \in todo : created[s] <= tickNow
    /\ reaper = "commit" => created[current] <= tickNow

IInv == TypeOK /\ EndedIsGone /\ WorkHasRow /\ CreatedBefore /\ TerminatedIsGone

-----------------------------------------------------------------------------

LEMMA InitIInv == Init => IInv
<1> SUFFICES ASSUME Init PROVE IInv
  OBVIOUS
<1>1. 0 \in Time
  BY TimeAssumption DEF Time
<1>2. AnySandbox \in Sandboxes
  BY SandboxAssumption DEF AnySandbox
<1>3. TypeOK
  <2>1. created \in [Sandboxes -> Time] /\ lastActive \in [Sandboxes -> Time] /\ attachedAt \in [Sessions -> Time]
    BY <1>1 DEF Init
  <2>2. bills \in [Sandboxes -> Seq(Time)]
    <3>1. <<>> \in Seq(Time)
      OBVIOUS
    <3>2. QED BY <3>1 DEF Init
  <2>3. pc \in [Sessions -> SessionPc] /\ target \in [Sessions -> Sandboxes]
    BY <1>2 DEF Init, SessionPc
  <2>4. QED BY <1>1, <1>2, <2>1, <2>2, <2>3 DEF Init, TypeOK
<1>4. EndedIsGone /\ WorkHasRow /\ TerminatedIsGone
  BY DEF Init, EndedIsGone, WorkHasRow, TerminatedIsGone
<1>5. CreatedBefore
  BY DEF Init, CreatedBefore
<1>6. QED BY <1>3, <1>4, <1>5 DEF IInv

-----------------------------------------------------------------------------
(* What steps have in common.                                              *)

(* A request goes on with its sandbox, or is over.                         *)
Moves(x) ==
    /\ pc' \in [Sessions -> SessionPc] /\ target' \in [Sessions -> Sandboxes]
    /\ attachedAt' \in [Sessions -> Time]
    /\ \A y \in Sessions \ {x} : pc'[y] = pc[y] /\ target'[y] = target[y]
    /\ \/ pc'[x] = "idle"
       \/ pc[x] # "idle" /\ target'[x] = target[x]

LEMMA LeaveMoves == ASSUME TypeOK, NEW x \in Sessions, Leave(x) PROVE Moves(x) /\ pc'[x] = "idle"
<1>1. 0 \in Time /\ AnySandbox \in Sandboxes /\ "idle" \in SessionPc
  BY TimeAssumption, SandboxAssumption DEF Time, AnySandbox, SessionPc
<1>2. QED BY <1>1 DEF Leave, TypeOK, Moves

LEMMA GotoMoves ==
  ASSUME TypeOK, NEW x \in Sessions, pc[x] # "idle", NEW label \in SessionPc, Goto(x, label)
  PROVE  Moves(x) /\ pc'[x] = label
  BY DEF Goto, TypeOK, Moves

(* A step of a request after which the rows that live and the reaper are   *)
(* as they were.                                                           *)
LEMMA RequestOnly ==
  ASSUME IInv, NEW x \in Sessions, Moves(x),
         pc'[x] \in {"commit", "heal"} => target[x] \notin up',
         up' \subseteq up, UNCHANGED <<clock, row, created, bills, reaperVars>>,
         lastActive' \in [Sandboxes -> Time]
  PROVE  IInv'
<1> USE DEF IInv
<1>1. TypeOK'
  BY DEF TypeOK, reaperVars, Moves
<1>2. EndedIsGone' /\ WorkHasRow'
  BY DEF EndedIsGone, WorkHasRow, reaperVars, Moves
<1>3. CreatedBefore' /\ TerminatedIsGone'
  BY DEF CreatedBefore, TerminatedIsGone, reaperVars
<1>4. QED BY <1>1, <1>2, <1>3

(* A row is terminated whose container is gone.                            *)
LEMMA RowEnds ==
  ASSUME TypeOK, TerminatedIsGone, NEW s \in Sandboxes, s \notin up,
         row' = [row EXCEPT ![s] = "terminated"], up' = up
  PROVE  /\ TerminatedIsGone' /\ row' \in [Sandboxes -> {"none", "active", "terminated"}]
         /\ \A r \in Sandboxes : row[r] # "none" => row'[r] # "none"
  BY DEF TypeOK, TerminatedIsGone

LEMMA LifetimesAreTimes ==
  ASSUME TypeOK, NEW s \in Sandboxes, NEW now \in Time, created[s] <= now, Terminate(s, now)
  PROVE  bills' \in [Sandboxes -> Seq(Time)]
<1>1. created[s] \in Time
  BY DEF TypeOK
<1>2. now - created[s] \in Time
  BY <1>1, TimeAssumption DEF Time
<1>3. bills \in [Sandboxes -> Seq(Time)]
  BY DEF TypeOK
<1>4. Append(bills[s], now - created[s]) \in Seq(Time)
  BY <1>2, <1>3
<1>5. QED BY <1>3, <1>4 DEF Terminate

-----------------------------------------------------------------------------
(* The API.                                                                *)

LEMMA CreateStep == ASSUME IInv, NEW s \in Sandboxes, Create(s) PROVE IInv'
<1> USE DEF IInv
<1>1. /\ row[s] = "none" /\ row' = [row EXCEPT ![s] = "active"]
      /\ created' = [created EXCEPT ![s] = clock] /\ lastActive' = [lastActive EXCEPT ![s] = clock]
      /\ up' = up \cup {s}
      /\ UNCHANGED <<clock, bills, pc, target, attachedAt, reaper, todo, tickNow, current>>
  BY DEF Create, sessionVars, reaperVars
<1>2. row'[s] = "active" /\ \A r \in Sandboxes \ {s} : row'[r] = row[r] /\ created'[r] = created[r]
  BY <1>1 DEF TypeOK
<1>3. TypeOK'
  BY <1>1 DEF TypeOK
<1>4. EndedIsGone'
  BY <1>1 DEF EndedIsGone, WorkHasRow
<1>5. WorkHasRow' /\ TerminatedIsGone'
  BY <1>1, <1>2 DEF WorkHasRow, TerminatedIsGone, TypeOK
<1>6. CreatedBefore'
  <2>1. created'[s] = clock /\ clock <= clock
    BY <1>1 DEF TypeOK, Time
  <2>2. QED BY <1>1, <1>2, <2>1 DEF CreatedBefore, WorkHasRow, TypeOK
<1>7. QED BY <1>3, <1>4, <1>5, <1>6

LEMMA ReadStep == ASSUME IInv, NEW x \in Sessions, Read(x) PROVE IInv'
<1> USE DEF IInv
<1>1. /\ UNCHANGED <<clock, row, created, lastActive, bills, up, attachedAt, reaper, todo, tickNow, current>>
      /\ \E s \in Sandboxes : row[s] = "active" /\ target' = [target EXCEPT ![x] = s]
      /\ \E label \in {"teardown", "probe", "exec", "open"} : pc' = [pc EXCEPT ![x] = label]
  BY DEF Read, rowVars, reaperVars
<1>2. TypeOK'
  BY <1>1 DEF TypeOK, SessionPc
<1>3. /\ row[target'[x]] = "active" /\ pc'[x] \notin {"commit", "heal"}
      /\ \A y \in Sessions \ {x} : pc'[y] = pc[y] /\ target'[y] = target[y]
  BY <1>1 DEF TypeOK
<1>4. EndedIsGone' /\ WorkHasRow'
  BY <1>1, <1>3 DEF EndedIsGone, WorkHasRow
<1>5. CreatedBefore' /\ TerminatedIsGone'
  BY <1>1 DEF CreatedBefore, TerminatedIsGone
<1>6. QED BY <1>2, <1>4, <1>5

(* Nobody takes a sandbox for ended that is not gone.                      *)
LEMMA RequestMoves ==
  ASSUME IInv, NEW x \in Sessions,
         \/ Teardown(x) \/ TeardownFails(x) \/ CommitFails(x) \/ Probe(x) \/ Exec(x) \/ Record(x)
         \/ Open(x) \/ Detach(x) \/ Crash(x)
  PROVE  IInv'
<1> USE DEF IInv
<1>1. UNCHANGED <<clock, row, created, bills, reaperVars>> /\ up' \subseteq up
  BY DEF Teardown, TeardownFails, CommitFails, Probe, Exec, Record, Open, Detach, Crash, rowVars
<1>2. lastActive' \in [Sandboxes -> Time]
  BY DEF TypeOK, Teardown, TeardownFails, CommitFails, Probe, Exec, Record, Open, Detach, Crash, rowVars
<1>3. Moves(x) /\ (pc'[x] \in {"commit", "heal"} => target[x] \notin up')
  <2>1. CASE Leave(x)
    BY <2>1, LeaveMoves
  <2>2. CASE Teardown(x)
    <3>1. pc[x] # "idle" /\ "commit" \in SessionPc /\ Goto(x, "commit") /\ target[x] \notin up'
      BY <2>2 DEF Teardown, SessionPc
    <3>2. QED BY <3>1, GotoMoves
  <2>3. CASE Probe(x) /\ ~Leave(x)
    <3>1. pc[x] # "idle" /\ "heal" \in SessionPc /\ Goto(x, "heal") /\ target[x] \notin up'
      BY <2>3 DEF Probe, SessionPc
    <3>2. QED BY <3>1, GotoMoves
  <2>4. CASE Exec(x) /\ ~Leave(x)
    <3>1. pc[x] # "idle" /\ "record" \in SessionPc /\ Goto(x, "record")
      BY <2>4 DEF Exec, SessionPc
    <3>2. QED BY <3>1, GotoMoves
  <2>5. CASE Open(x) /\ ~Leave(x)
    <3>1. /\ pc[x] # "idle" /\ pc' = [pc EXCEPT ![x] = "attached"]
          /\ attachedAt' = [attachedAt EXCEPT ![x] = clock] /\ target' = target
      BY <2>5 DEF Open
    <3>2. QED BY <3>1 DEF TypeOK, Moves, SessionPc
  <2>6. QED BY <2>1, <2>2, <2>3, <2>4, <2>5 DEF TeardownFails, CommitFails, Record, Detach, Crash
<1>4. QED BY <1>1, <1>2, <1>3, RequestOnly

(* A destroy, or a status request, ends the row.                           *)
LEMMA RequestEndsRow ==
  ASSUME IInv, NEW x \in Sessions, CommitDestroy(x) \/ Heal(x)
  PROVE  IInv'
<1> USE DEF IInv
<1>1. /\ pc[x] \in {"commit", "heal"} /\ Leave(x)
      /\ row' = [row EXCEPT ![target[x]] = "terminated"]
      /\ UNCHANGED <<clock, created, lastActive, up, reaper, todo, tickNow, current>>
      /\ bills' = bills \/ Terminate(target[x], clock)
  BY DEF CommitDestroy, Heal, Terminate, reaperVars
<1>2. target[x] \in Sandboxes /\ target[x] \notin up /\ clock \in Time /\ created[target[x]] <= clock
  BY <1>1 DEF TypeOK, EndedIsGone, CreatedBefore
<1>3. Moves(x) /\ pc'[x] = "idle"
  BY <1>1, LeaveMoves
<1>4. /\ TerminatedIsGone' /\ row' \in [Sandboxes -> {"none", "active", "terminated"}]
      /\ \A r \in Sandboxes : row[r] # "none" => row'[r] # "none"
  BY <1>1, <1>2, RowEnds
<1>5. bills' \in [Sandboxes -> Seq(Time)]
  <2>1. CASE bills' = bills
    BY <2>1 DEF TypeOK
  <2>2. CASE Terminate(target[x], clock)
    BY <1>2, <2>2, LifetimesAreTimes
  <2>3. QED BY <1>1, <2>1, <2>2
<1>6. TypeOK'
  BY <1>1, <1>3, <1>4, <1>5 DEF TypeOK, Moves
<1>7. EndedIsGone' /\ CreatedBefore'
  BY <1>1, <1>3 DEF EndedIsGone, CreatedBefore, Moves
<1>8. WorkHasRow'
  BY <1>1, <1>3, <1>4 DEF WorkHasRow, Moves, TypeOK
<1>9. QED BY <1>4, <1>6, <1>7, <1>8

-----------------------------------------------------------------------------
(* The reaper.                                                             *)

LEMMA ReapStartStep == ASSUME IInv, ReapStart PROVE IInv'
<1> USE DEF IInv
<1>1. /\ tickNow' = clock /\ reaper' = "loop"
      /\ todo' = {s \in Sandboxes : row[s] = "active" /\ Overdue(s, clock)}
      /\ UNCHANGED <<clock, row, created, lastActive, bills, up, pc, target, attachedAt, current>>
  BY DEF ReapStart, rowVars, sessionVars
<1>2. todo' \subseteq Sandboxes /\ \A s \in todo' : row[s] = "active"
  BY <1>1
<1>3. TypeOK'
  BY <1>1, <1>2 DEF TypeOK
<1>4. EndedIsGone' /\ WorkHasRow' /\ CreatedBefore' /\ TerminatedIsGone'
  BY <1>1, <1>2 DEF EndedIsGone, WorkHasRow, CreatedBefore, TerminatedIsGone
<1>5. QED BY <1>3, <1>4

LEMMA ReapTeardownStep == ASSUME IInv, NEW s \in Sandboxes, ReapTeardown(s) PROVE IInv'
<1> USE DEF IInv
<1>1. /\ s \in todo /\ up' = up \ {s} /\ todo' = todo \ {s} /\ current' = s /\ reaper' = "commit"
      /\ UNCHANGED <<clock, row, created, lastActive, bills, pc, target, attachedAt, tickNow>>
  BY DEF ReapTeardown, rowVars, sessionVars
<1>2. TypeOK'
  BY <1>1 DEF TypeOK
<1>3. EndedIsGone' /\ WorkHasRow' /\ CreatedBefore' /\ TerminatedIsGone'
  BY <1>1 DEF EndedIsGone, WorkHasRow, CreatedBefore, TerminatedIsGone
<1>4. QED BY <1>2, <1>3

LEMMA ReapCommitStep == ASSUME IInv, ReapCommit PROVE IInv'
<1> USE DEF IInv
<1>1. /\ reaper = "commit" /\ reaper' = "loop" /\ Terminate(current, tickNow)
      /\ row' = [row EXCEPT ![current] = "terminated"]
      /\ UNCHANGED <<clock, created, lastActive, up, pc, target, attachedAt, todo, tickNow, current>>
  BY DEF ReapCommit, Terminate, sessionVars
<1>2. current \in Sandboxes /\ current \notin up /\ tickNow \in Time /\ created[current] <= tickNow
  BY <1>1 DEF TypeOK, EndedIsGone, CreatedBefore
<1>3. /\ TerminatedIsGone' /\ row' \in [Sandboxes -> {"none", "active", "terminated"}]
      /\ \A r \in Sandboxes : row[r] # "none" => row'[r] # "none"
  BY <1>1, <1>2, RowEnds
<1>4. bills' \in [Sandboxes -> Seq(Time)]
  BY <1>1, <1>2, LifetimesAreTimes
<1>5. TypeOK'
  BY <1>1, <1>3, <1>4 DEF TypeOK
<1>6. EndedIsGone' /\ CreatedBefore'
  BY <1>1 DEF EndedIsGone, CreatedBefore
<1>7. WorkHasRow'
  BY <1>1, <1>3 DEF WorkHasRow, TypeOK
<1>8. QED BY <1>3, <1>5, <1>6, <1>7

LEMMA EndPassStep ==
  ASSUME IInv, ReapDone \/ ReapFails
  PROVE  IInv'
<1> USE DEF IInv
<1>1. /\ reaper' = "idle" /\ todo' = {} /\ tickNow' = 0 /\ current' = AnySandbox
      /\ UNCHANGED <<clock, row, created, lastActive, bills, up, pc, target, attachedAt>>
  BY DEF ReapDone, ReapFails, EndPass, rowVars, sessionVars
<1>2. 0 \in Time /\ AnySandbox \in Sandboxes
  BY TimeAssumption, SandboxAssumption DEF Time, AnySandbox
<1>3. TypeOK'
  BY <1>1, <1>2 DEF TypeOK
<1>4. EndedIsGone' /\ WorkHasRow' /\ CreatedBefore' /\ TerminatedIsGone'
  BY <1>1 DEF EndedIsGone, WorkHasRow, CreatedBefore, TerminatedIsGone
<1>5. QED BY <1>3, <1>4

-----------------------------------------------------------------------------
(* The world.                                                              *)

LEMMA WorldStep ==
  ASSUME IInv, (\E s \in Sandboxes : Exit(s)) \/ TimePasses \/ UNCHANGED vars
  PROVE  IInv'
<1> USE DEF IInv
<1>1. /\ UNCHANGED <<row, created, lastActive, bills, pc, target, attachedAt, reaper, todo, tickNow, current>>
      /\ up' \subseteq up
      /\ clock' = clock \/ (clock < MaxTime /\ clock' = clock + 1)
  BY DEF Exit, TimePasses, vars, rowVars, sessionVars, reaperVars
<1>2. clock' \in Time /\ clock <= clock'
  <2>1. clock \in Time
    BY DEF TypeOK
  <2>2. QED BY <1>1, <2>1, TimeAssumption DEF Time
<1>3. TypeOK'
  BY <1>1, <1>2 DEF TypeOK
<1>4. EndedIsGone' /\ WorkHasRow' /\ TerminatedIsGone'
  BY <1>1 DEF EndedIsGone, WorkHasRow, TerminatedIsGone
<1>5. CreatedBefore'
  <2>1. ASSUME NEW s \in Sandboxes PROVE created[s] <= clock'
    <3>1. created[s] <= clock /\ created[s] \in Time /\ clock \in Time
      BY DEF CreatedBefore, TypeOK
    <3>2. QED BY <1>2, <3>1 DEF Time
  <2>2. QED BY <1>1, <2>1 DEF CreatedBefore
<1>6. QED BY <1>3, <1>4, <1>5

-----------------------------------------------------------------------------

LEMMA NextIInv == "probe" \notin Faults /\ IInv /\ [Next]_vars => IInv'
<1> SUFFICES ASSUME "probe" \notin Faults, IInv, [Next]_vars PROVE IInv'
  OBVIOUS
<1>1. ASSUME NEW s \in Sandboxes, Create(s) \/ Exit(s) PROVE IInv'
  BY <1>1, CreateStep, WorldStep
<1>2. ASSUME NEW x \in Sessions, Session(x) PROVE IInv'
  <2>1. ~ProbeErrs(x)
    BY DEF ProbeErrs
  <2>2. QED BY <1>2, <2>1, ReadStep, RequestMoves, RequestEndsRow DEF Session, Finish
<1>3. CASE Reap
  BY <1>3, ReapStartStep, ReapTeardownStep, ReapCommitStep, EndPassStep DEF Reap
<1>4. CASE TimePasses \/ UNCHANGED vars
  BY <1>4, WorldStep
<1>5. QED BY <1>1, <1>2, <1>3, <1>4 DEF Next

(* Type correctness, and what everybody knows of the sandbox it works on,  *)
(* where every answer of the provisioner's status is true.                 *)
THEOREM IInvHolds == "probe" \notin Faults => (Spec => []IInv)
<1> SUFFICES ASSUME "probe" \notin Faults PROVE Spec => []IInv
  OBVIOUS
<1>1. IInv /\ [Next]_vars => IInv'
  BY NextIInv
<1>2. QED BY <1>1, InitIInv, PTL DEF Spec

(* Whatever requests, the reaper, failures and crashes do to one another,  *)
(* no row says terminated of a sandbox that runs.                          *)
THEOREM TerminatedAreGone == "probe" \notin Faults => (Spec => [](TypeOK /\ TerminatedIsGone))
<1>1. IInv => TypeOK /\ TerminatedIsGone
  BY DEF IInv
<1>2. QED BY <1>1, IInvHolds, PTL

-----------------------------------------------------------------------------
(* The reaper's pass, for any faults.  It reads the rows once and destroys *)
(* what it found for as long as it takes; a run that is recorded meanwhile *)
(* makes a row recent, but no earlier than the pass began.                 *)

PassInv ==
    /\ clock \in Time /\ tickNow \in Time /\ tickNow <= clock
    /\ row \in [Sandboxes -> {"none", "active", "terminated"}]
    /\ created \in [Sandboxes -> Time] /\ lastActive \in [Sandboxes -> Time]
    /\ todo \subseteq Sandboxes
    /\ \A s \in todo : row[s] # "none" /\ (Overdue(s, tickNow) \/ tickNow <= lastActive[s])

LEMMA InitPass == Init => PassInv
  BY TimeAssumption DEF Init, PassInv, Time

(* A step that leaves the pass and the times of creation alone.            *)
LEMMA PassGoesOn ==
  ASSUME PassInv, UNCHANGED <<clock, created, tickNow>>, todo' \subseteq todo,
         row' = row \/ \E s : row' = [row EXCEPT ![s] = "terminated"],
         lastActive' = lastActive \/ \E s : lastActive' = [lastActive EXCEPT ![s] = clock]
  PROVE  PassInv'
<1> USE DEF PassInv
<1>1. /\ row' \in [Sandboxes -> {"none", "active", "terminated"}]
      /\ \A s \in Sandboxes : row[s] # "none" => row'[s] # "none"
  OBVIOUS
<1>2. lastActive' \in [Sandboxes -> Time] /\ \A s \in Sandboxes : lastActive'[s] \in {lastActive[s], clock}
  OBVIOUS
<1>3. \A s \in todo' : Overdue(s, tickNow)' \/ tickNow' <= lastActive'[s]
  BY <1>2 DEF Overdue, PastIdleTTL, PastMaxTTL
<1>4. QED BY <1>1, <1>2, <1>3

LEMMA NextPass == PassInv /\ [Next]_vars => PassInv'
<1> SUFFICES ASSUME PassInv, [Next]_vars PROVE PassInv'
  OBVIOUS
<1>1. ASSUME NEW s \in Sandboxes, Create(s) PROVE PassInv'
  <2>1. s \notin todo
    BY <1>1 DEF Create, PassInv
  <2>2. QED BY <1>1, <2>1 DEF Create, reaperVars, PassInv, Overdue, PastIdleTTL, PastMaxTTL
<1>2. ASSUME NEW x \in Sessions, Session(x) PROVE PassInv'
  <2>1. UNCHANGED <<clock, created, tickNow, todo>>
    BY <1>2 DEF Session, Finish, Read, Teardown, TeardownFails, CommitDestroy, Terminate, CommitFails, Probe,
           ProbeErrs, Heal, Exec, Record, Open, Detach, Crash, rowVars, reaperVars
  <2>2. /\ row' = row \/ \E s : row' = [row EXCEPT ![s] = "terminated"]
        /\ lastActive' = lastActive \/ \E s : lastActive' = [lastActive EXCEPT ![s] = clock]
    <3>1. CASE CommitDestroy(x)
      BY <3>1 DEF CommitDestroy, Terminate
    <3>2. CASE Heal(x)
      BY <3>2 DEF Heal
    <3>3. CASE Record(x)
      BY <3>3 DEF Record
    <3>4. CASE ~CommitDestroy(x) /\ ~Heal(x) /\ ~Record(x)
      BY <1>2, <3>4 DEF Session, Finish, Read, Teardown, TeardownFails, CommitFails, Probe, ProbeErrs, Exec,
             Open, Detach, Crash, rowVars
    <3>5. QED BY <3>1, <3>2, <3>3, <3>4
  <2>3. QED BY <2>1, <2>2, PassGoesOn
<1>3. CASE ReapStart
  BY <1>3, TimeAssumption DEF ReapStart, rowVars, PassInv, Overdue, PastIdleTTL, PastMaxTTL, Time
<1>4. ASSUME NEW s \in Sandboxes, ReapTeardown(s) \/ Exit(s) PROVE PassInv'
  BY <1>4, PassGoesOn DEF ReapTeardown, Exit, rowVars, reaperVars
<1>5. CASE ReapCommit
  BY <1>5, PassGoesOn DEF ReapCommit, Terminate
<1>6. CASE ReapDone \/ ReapFails
  BY <1>6, TimeAssumption DEF ReapDone, ReapFails, EndPass, rowVars, PassInv, Time
<1>7. CASE TimePasses
  BY <1>7, TimeAssumption DEF TimePasses, rowVars, reaperVars, PassInv, Overdue, PastIdleTTL, PastMaxTTL, Time
<1>8. CASE UNCHANGED vars
  BY <1>8, PassGoesOn DEF vars, rowVars, reaperVars
<1>9. QED BY <1>1, <1>2, <1>3, <1>4, <1>5, <1>6, <1>7, <1>8 DEF Next, Reap

(* Only the reaper's destroy of a sandbox of its list reaps it.            *)
LEMMA NextSpares == ASSUME PassInv, Next PROVE SparesRecent
<1> SUFFICES ASSUME NEW s \in Sandboxes, ReapedForIdleness(s), lastActive[s] < tickNow
             PROVE  tickNow >= lastActive[s] + IdleTTL
  BY DEF SparesRecent
<1>1. reaper = "loop" /\ reaper' = "commit" /\ current' = s /\ ~PastMaxTTL(s, tickNow)
  BY DEF ReapedForIdleness
<1>2. s \in todo
  BY <1>1 DEF Next, Create, Exit, Session, Finish, Read, Teardown, TeardownFails, CommitDestroy, CommitFails,
         Probe, ProbeErrs, Heal, Exec, Record, Open, Detach, Crash, Reap, ReapStart, ReapTeardown, ReapCommit,
         ReapDone, ReapFails, EndPass, TimePasses, reaperVars
<1>3. lastActive[s] \in Time /\ tickNow \in Time
  BY DEF PassInv
<1>4. QED BY <1>1, <1>2, <1>3 DEF PassInv, Overdue, PastIdleTTL, Time

(* A sandbox that is reaped for idleness has recorded no run within the    *)
(* idle TTL, unless one since the pass read the rows.                      *)
THEOREM RecentAreSpared == Spec => IdleSparesRecent
<1>1. PassInv /\ [Next]_vars => [SparesRecent]_vars
  BY NextSpares
<1>2. QED BY <1>1, InitPass, NextPass, PTL DEF Spec, IdleSparesRecent

-----------------------------------------------------------------------------
(* The same of the specification the run checks.                           *)

(* GoneOnceTerminated, in the instance where probes do not err.            *)
THEOREM InstanceGoneOnceTerminated == "probe" \notin Faults => (MCSpec => []GoneOnceTerminated)
<1> SUFFICES ASSUME "probe" \notin Faults PROVE MCSpec => []GoneOnceTerminated
  OBVIOUS
<1> DEFINE Inv == instance = "faults" => IInv
<1>1. MCInit => Inv
  BY InitIInv DEF MCInit
<1>2. Inv /\ [MCNext]_mcVars => Inv'
  BY NextIInv DEF MCNext, mcVars
<1>3. Inv => GoneOnceTerminated
  BY DEF IInv, GoneOnceTerminated
<1> HIDE DEF Inv
<1>4. QED BY <1>1, <1>2, <1>3, PTL DEF MCSpec

(* RecentSpared, whatever fails.                                           *)
THEOREM InstanceRecentSpared == MCSpec => RecentSpared
<1> DEFINE Inv == instance = "faults" => PassInv
<1>1. MCInit => Inv
  BY InitPass DEF MCInit
<1>2. Inv /\ [MCNext]_mcVars => Inv'
  BY NextPass DEF MCNext, mcVars
<1>3. Inv /\ [MCNext]_mcVars => [instance = "faults" => SparesRecent]_mcVars
  BY NextSpares DEF MCNext
<1> HIDE DEF Inv
<1>4. QED BY <1>1, <1>2, <1>3, PTL DEF MCSpec, RecentSpared

================================================================================
