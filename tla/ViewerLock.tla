------------------------------ MODULE ViewerLock ------------------------------
(***************************************************************************)
(* WS /v1/sandboxes/{id}/attach of one sandbox: one key in Redis has the   *)
(* identity of the viewer and expires unless a heartbeat refreshes it.  It *)
(* is never deleted: who was cut off comes back as the same identity.      *)
(*                                                                         *)
(* Claiming is a get and a set, refreshing is a get and an expire.  A tick *)
(* is a heartbeat's interval.                                              *)
(***************************************************************************)
EXTENDS Naturals

CONSTANTS
    Sessions,  \* WebSocket connections
    Viewers,   \* identities: a user, or all the API keys of a tenant
    TTL,       \* the lock's, in ticks, at least 2
    Faults     \* some of "race", "late", "slow", "redis", "open", "crash"

VARIABLES
    row,    \* is the sandbox terminated?
    lock,   \* [by, left]
    who,    \* the identity behind each connection
    pc,     \* where it is
    got,    \* what it has read from the key
    beat,   \* its heartbeat: "off", "asleep", "due", "read" or "dead"
    pty,    \* its stream to the container is open
    overwritten  \* a claim has replaced another viewer's lock (for the properties)

vars == <<row, lock, who, pc, got, beat, pty, overwritten>>

Nobody == "nobody"
Unlocked == [by |-> Nobody, left |-> 0]

-----------------------------------------------------------------------------

TypeOK ==
    /\ row \in {"live", "terminated"}
    /\ lock \in [by : Viewers, left : 1 .. TTL] \cup {Unlocked}
    /\ who \in [Sessions -> Viewers]
    /\ pc \in [Sessions -> {"new", "free", "claimed", "open", "gone"}]
    /\ got \in [Sessions -> Viewers \cup {Nobody}]
    /\ beat \in [Sessions -> {"off", "asleep", "due", "read", "dead"}]
    /\ pty \in [Sessions -> BOOLEAN]
    /\ overwritten \in BOOLEAN

Init ==
    /\ row = "live" /\ lock = Unlocked
    /\ who \in [Sessions -> Viewers]
    /\ pc = [s \in Sessions |-> "new"] /\ got = [s \in Sessions |-> Nobody]
    /\ beat = [s \in Sessions |-> "off"] /\ pty = [s \in Sessions |-> FALSE]
    /\ overwritten = FALSE

At(s, place) == pc' = [pc EXCEPT ![s] = place]
Beat(s, state) == beat' = [beat EXCEPT ![s] = state]

-----------------------------------------------------------------------------
(* The handshake.                                                          *)

Refused(s) == row = "terminated" \/ lock.by \notin {Nobody, who[s]}

(* 404 or 409.                                                             *)
Refuse(s) ==
    /\ pc[s] = "new" /\ Refused(s)
    /\ At(s, "gone")
    /\ UNCHANGED <<row, lock, who, got, beat, pty, overwritten>>

(* With "race" another handshake, or time, comes between this and the set. *)
GetLock(s) ==
    /\ pc[s] = "new" /\ ~ Refused(s)
    /\ "race" \in Faults \/ \A q \in Sessions : pc[q] # "free"
    /\ At(s, "free")
    /\ UNCHANGED <<row, lock, who, got, beat, pty, overwritten>>

Claimed(s) == [by |-> who[s], left |-> TTL]

(* Unconditional: what was read may be out of date.                        *)
SetLock(s) ==
    /\ pc[s] = "free"
    /\ lock' = Claimed(s)
    /\ overwritten' = (overwritten \/ lock.by \notin {Nobody, who[s]})
    /\ At(s, "claimed")
    /\ UNCHANGED <<row, who, got, beat, pty>>

Open(s) ==
    /\ pc[s] = "claimed" /\ row = "live"
    /\ At(s, "open") /\ Beat(s, "asleep")
    /\ pty' = [pty EXCEPT ![s] = TRUE]
    /\ UNCHANGED <<row, lock, who, got, overwritten>>

(* The lock stays.                                                         *)
OpenFails(s) ==
    /\ pc[s] = "claimed"
    /\ row = "terminated" \/ "open" \in Faults
    /\ At(s, "gone")
    /\ UNCHANGED <<row, lock, who, got, beat, pty, overwritten>>

-----------------------------------------------------------------------------
(* The heartbeat.                                                          *)

GetForBeat(s) ==
    /\ beat[s] = "due"
    /\ got' = [got EXCEPT ![s] = lock.by]
    /\ Beat(s, "read")
    /\ UNCHANGED <<row, lock, who, pc, pty, overwritten>>

MayRefresh(s) == got[s] = who[s]

(* expire does nothing if there is no key.                                 *)
Refresh(s) ==
    /\ beat[s] = "read"
    /\ lock' = IF MayRefresh(s) /\ lock # Unlocked THEN [lock EXCEPT !.left = TTL] ELSE lock
    /\ Beat(s, "asleep")
    /\ UNCHANGED <<row, who, pc, got, pty, overwritten>>

(* The task ends with the error of Redis.                                  *)
BeatFails(s) ==
    /\ "redis" \in Faults
    /\ beat[s] \in {"due", "read"}
    /\ Beat(s, "dead")
    /\ UNCHANGED <<row, lock, who, pc, got, pty, overwritten>>

-----------------------------------------------------------------------------
(* The end: the viewer disconnects, the shell exits or the sandbox goes.   *)

(* Mutant: the lock is given up at once.                                   *)
UnlockAtEnd(s) == lock' = IF lock.by = who[s] THEN Unlocked ELSE lock

KeepAtEnd(s) == UNCHANGED lock

(* Mutant: the heartbeat goes on.                                          *)
StopNotBeat(s) == UNCHANGED beat

StopBeat(s) == Beat(s, "off")

(* Awaiting a heartbeat that is dead raises, and pty.close() is not called.*)
Leave(s) ==
    /\ pc[s] = "open"
    /\ At(s, "gone") /\ StopBeat(s) /\ KeepAtEnd(s)
    /\ pty' = [pty EXCEPT ![s] = beat[s] = "dead"]
    /\ UNCHANGED <<row, who, got, overwritten>>

(* The API process that serves the connection dies.                        *)
Crash(s) ==
    /\ "crash" \in Faults
    /\ pc[s] \in {"free", "claimed", "open"}
    /\ At(s, "gone") /\ Beat(s, "off")
    /\ pty' = [pty EXCEPT ![s] = FALSE]
    /\ UNCHANGED <<row, lock, who, got, overwritten>>

Return(s) ==
    /\ pc[s] = "gone" /\ ~ pty[s]
    /\ At(s, "new")
    /\ UNCHANGED <<row, lock, who, got, beat, pty, overwritten>>

Destroy ==
    /\ row = "live"
    /\ row' = "terminated"
    /\ UNCHANGED <<lock, who, pc, got, beat, pty, overwritten>>

(* Handshakes are faster than a tick unless "race" or "slow" (the PTY's    *)
(* opening), heartbeats unless "late".                                     *)
InTime(s) ==
    /\ pc[s] = "free" => "race" \in Faults
    /\ pc[s] = "claimed" => "slow" \in Faults
    /\ beat[s] \in {"due", "read"} => "late" \in Faults

Tick ==
    /\ lock # Unlocked
    /\ \A s \in Sessions : InTime(s)
    /\ lock' = IF lock.left = 1 THEN Unlocked ELSE [lock EXCEPT !.left = @ - 1]
    /\ beat' = [s \in Sessions |-> IF beat[s] = "asleep" THEN "due" ELSE beat[s]]
    /\ UNCHANGED <<row, who, pc, got, pty, overwritten>>

-----------------------------------------------------------------------------

Handshake(s) == Refuse(s) \/ GetLock(s) \/ SetLock(s) \/ Open(s) \/ OpenFails(s)
Heartbeat(s) == GetForBeat(s) \/ Refresh(s) \/ BeatFails(s)

Next == Tick \/ Destroy \/ \E s \in Sessions : Handshake(s) \/ Heartbeat(s) \/ Leave(s) \/ Crash(s) \/ Return(s)

Spec == Init /\ [][Next]_vars

(* Time passes and what runs goes on; nobody has to come back or leave.    *)
FairSpec == Spec /\ WF_vars(Tick) /\ \A s \in Sessions : WF_vars(Handshake(s)) /\ WF_vars(Heartbeat(s))

-----------------------------------------------------------------------------
(* Properties.                                                             *)

(* "Exactly one active viewer per sandbox": all who are attached are the   *)
(* same identity, also after disconnects, crashes and returns.             *)
OneViewer == \A s, q \in Sessions : pc[s] = "open" /\ pc[q] = "open" => who[s] = who[q]

(* The same until a claim comes upon a lock that another viewer has set    *)
(* since it found none: heartbeats that are on time keep the lock of who   *)
(* is attached, and nobody else can be attached then.                      *)
OneViewerUnlessOverwritten == ~ overwritten => OneViewer

(* "a stale heartbeat from an old session must never resurrect a lock a    *)
(* different viewer has since taken".                                      *)
RefreshesOwn ==
    [][\A s \in Sessions : beat[s] = "read" /\ beat'[s] = "asleep" /\ lock' # lock => lock.by = who[s]]_vars

(* The grace window: who was attached a moment ago, and has not been for   *)
(* less than the lock's time, finds the sandbox free for it.               *)
GraceIsKept ==
    [][\A s \in Sessions : pc[s] = "open" /\ pc'[s] = "gone" => lock'.by = who[s]]_vars

GraceKeptUnlessOverwritten ==
    [][\A s \in Sessions : ~ overwritten /\ pc[s] = "open" /\ pc'[s] = "gone" => lock'.by = who[s]]_vars

(* No connection that is over has a stream to the container open.          *)
ClosedAtEnd == \A s \in Sessions : pc[s] = "gone" => ~ pty[s]

(* A viewer that is gone does not keep others out: the lock passes on in   *)
(* the end, unless the same identity has come back.                        *)
LockPasses ==
    \A v \in Viewers :
        lock.by = v ~> lock.by # v \/ \E s \in Sessions : who[s] = v /\ pc[s] # "gone"

=============================================================================
