------------------------------- MODULE ApiKeys -------------------------------
(***************************************************************************)
(* A tenant's API keys: minting, revoking, and authenticating with one,    *)
(* which now and then writes when the key was last used, in a transaction  *)
(* that has read the row before.                                           *)
(***************************************************************************)
EXTENDS Naturals

CONSTANTS
    Keys,
    Uses, Revokers,  \* requests under way
    Interval,        \* _LAST_USED_WRITE_INTERVAL, in ticks
    Slow,            \* most ticks between the read and the commit
    MaxTime,
    Faults           \* some of "db"

VARIABLES
    now,
    state,     \* of each key's row: "none", "live" or "revoked"
    lastUsed,  \* last_used_at, Never if null
    use,       \* of each request: NoUse or [key, at]
    revoker,   \* the key whose unrevoked row each revocation has loaded
    accepted,  \* when each key was last accepted
    unwritten  \* keys with a write of last_used_at that failed

vars == <<now, state, lastUsed, use, revoker, accepted, unwritten>>

Never == 0
NoUse == [key |-> "none", at |-> Never]

-----------------------------------------------------------------------------

TypeOK ==
    /\ now \in 1 .. MaxTime
    /\ state \in [Keys -> {"none", "live", "revoked"}]
    /\ lastUsed \in [Keys -> 0 .. now] /\ accepted \in [Keys -> 0 .. now]
    /\ use \in [Uses -> [key : Keys, at : 1 .. now] \cup {NoUse}]
    /\ revoker \in [Revokers -> Keys \cup {"none"}]
    /\ unwritten \subseteq Keys

Init ==
    /\ now = 1
    /\ state = [k \in Keys |-> "none"]
    /\ lastUsed = [k \in Keys |-> Never] /\ accepted = [k \in Keys |-> Never]
    /\ use = [u \in Uses |-> NoUse] /\ revoker = [r \in Revokers |-> "none"]
    /\ unwritten = {}

-----------------------------------------------------------------------------

(* create_api_key, by a user or with another key of the tenant.            *)
Mint(k) ==
    /\ state[k] = "none"
    /\ state' = [state EXCEPT ![k] = "live"]
    /\ UNCHANGED <<now, lastUsed, use, revoker, accepted, unwritten>>

(* _is_stale.                                                              *)
Stale(k) == lastUsed[k] = Never \/ now - lastUsed[k] > Interval

(* _principal_from_api_key; a revoked key is refused with a 401.           *)
Authenticate(u, k) ==
    /\ use[u] = NoUse /\ state[k] = "live"
    /\ accepted' = [accepted EXCEPT ![k] = now]
    /\ use' = IF Stale(k) THEN [use EXCEPT ![u] = [key |-> k, at |-> now]] ELSE use
    /\ UNCHANGED <<now, state, lastUsed, revoker, unwritten>>

(* Mutant: the whole row is written back as it was read.                   *)
TouchedRow(k) == state' = [state EXCEPT ![k] = "live"]

(* Only last_used_at is.                                                   *)
TouchedColumn(k) == UNCHANGED state

Touch(u) ==
    /\ use[u] # NoUse
    /\ lastUsed' = [lastUsed EXCEPT ![use[u].key] = use[u].at]
    /\ TouchedColumn(use[u].key)
    /\ use' = [use EXCEPT ![u] = NoUse]
    /\ UNCHANGED <<now, revoker, accepted, unwritten>>

(* The error of a write is suppressed.                                     *)
TouchFails(u) ==
    /\ "db" \in Faults
    /\ use[u] # NoUse
    /\ unwritten' = unwritten \cup {use[u].key}
    /\ use' = [use EXCEPT ![u] = NoUse]
    /\ UNCHANGED <<now, state, lastUsed, revoker, accepted>>

(* revoke_api_key: a revoked row is left as it is.                         *)
LoadKey(r, k) ==
    /\ revoker[r] = "none" /\ state[k] = "live"
    /\ revoker' = [revoker EXCEPT ![r] = k]
    /\ UNCHANGED <<now, state, lastUsed, use, accepted, unwritten>>

CommitRevoked(r) ==
    /\ revoker[r] # "none"
    /\ state' = [state EXCEPT ![revoker[r]] = "revoked"]
    /\ revoker' = [revoker EXCEPT ![r] = "none"]
    /\ UNCHANGED <<now, lastUsed, use, accepted, unwritten>>

Tick ==
    /\ now < MaxTime
    /\ \A u \in Uses : use[u] # NoUse => now - use[u].at < Slow
    /\ now' = now + 1
    /\ UNCHANGED <<state, lastUsed, use, revoker, accepted, unwritten>>

-----------------------------------------------------------------------------

Next ==
    \/ Tick
    \/ \E k \in Keys :
           \/ Mint(k)
           \/ \E u \in Uses : Authenticate(u, k)
           \/ \E r \in Revokers : LoadKey(r, k)
    \/ \E u \in Uses : Touch(u) \/ TouchFails(u)
    \/ \E r \in Revokers : CommitRevoked(r)

Spec == Init /\ [][Next]_vars

-----------------------------------------------------------------------------
(* Properties.                                                             *)

(* No write of a request that was accepted before gives a revoked key back.*)
RevokedForGood == [][\A k \in Keys : state[k] = "revoked" => state'[k] = "revoked"]_vars

(* "can I safely revoke this key?": last_used_at is at most the interval   *)
(* and a slow request older than the last use, once its writes are done    *)
(* and unless one failed.                                                  *)
LastUsedIsRecent ==
    \A k \in Keys \ unwritten :
        (\A u \in Uses : use[u].key # k) => accepted[k] <= lastUsed[k] + Interval + Slow

=============================================================================
