----------------------------- MODULE RateLimiter -----------------------------
(***************************************************************************)
(* RateLimiter.check for one bucket and one identity: the requests of the  *)
(* last window are members of a sorted set in Redis, scored by the time    *)
(* the API replica read before it sent its pipeline.  The pipeline is      *)
(* atomic; the delay between the two is not under anybody's control.       *)
(*                                                                         *)
(* `log' is the history of the pipelines that were executed.  A tick is a  *)
(* second.                                                                 *)
(***************************************************************************)
EXTENDS Integers, Sequences, FiniteSetsExt

CONSTANTS
    Requests,  \* that may be under way at a time
    Limit,     \* rule.limit, at least 1
    Window,    \* rule.window_seconds
    Delay,     \* most ticks between a replica's clock and the pipeline
    MaxTime, MaxCalls,
    Faults     \* some of "redis"

VARIABLES
    now,
    stamp,     \* what each request's replica read, NotSent if it asks nothing
    log,       \* [stamp, at, ok, remaining, reset] of every pipeline
    kept,      \* the calls, as indices of log, that the sorted set still has
    expires    \* when the key does

vars == <<now, stamp, log, kept, expires>>

NotSent == -1
Calls == DOMAIN log

-----------------------------------------------------------------------------

TypeOK ==
    /\ now \in 0 .. MaxTime
    /\ stamp \in [Requests -> 0 .. MaxTime \cup {NotSent}]
    /\ log \in Seq([stamp : 0 .. MaxTime, at : 0 .. MaxTime, ok : BOOLEAN,
                    remaining : 0 .. Limit - 1, reset : 1 .. Window + 1])
    /\ kept \subseteq Calls
    /\ expires \in 0 .. MaxTime + Window + 1

Init ==
    /\ now = 0
    /\ stamp = [r \in Requests |-> NotSent]
    /\ log = <<>> /\ kept = {} /\ expires = 0

-----------------------------------------------------------------------------

Send(r) ==
    /\ stamp[r] = NotSent
    /\ Len(log) + Cardinality({q \in Requests : stamp[q] # NotSent}) < MaxCalls
    /\ stamp' = [stamp EXCEPT ![r] = now]
    /\ UNCHANGED <<now, log, kept, expires>>

(* zremrangebyscore up to the cutoff; the key itself may have expired.     *)
InWindow(t) == {i \in kept : log[i].stamp > t - Window /\ now < expires}

(* Mutant: the call's own member is counted.                               *)
UsedAfter(t) == Cardinality(InWindow(t)) + 1

(* zcard comes before zadd.                                                *)
Used(t) == Cardinality(InWindow(t))

(* zadd, also of what is going to be rejected.                             *)
WithMember(t) == InWindow(t) \cup {Len(log) + 1}

(* Mutant: the newest member.                                              *)
UntilNewestLeaves(t) == Max({log[i].stamp : i \in InWindow(t)} \cup {t}) + Window - t + 1

(* Whole seconds until the oldest member, the new one included, is out of  *)
(* the window.                                                             *)
UntilOldestLeaves(t) == Max({1, Min({log[i].stamp : i \in InWindow(t)} \cup {t}) + Window - t + 1})

Remaining(t) == Limit - Used(t) - 1

Answer(t) ==
    IF Used(t) >= Limit
    THEN [stamp |-> t, at |-> now, ok |-> FALSE, remaining |-> 0, reset |-> UntilOldestLeaves(t)]
    ELSE [stamp |-> t, at |-> now, ok |-> TRUE, remaining |-> Remaining(t), reset |-> Window]

Check(r) ==
    /\ stamp[r] # NotSent
    /\ log' = Append(log, Answer(stamp[r]))
    /\ kept' = WithMember(stamp[r])
    /\ expires' = now + Window + 1
    /\ stamp' = [stamp EXCEPT ![r] = NotSent]
    /\ UNCHANGED now

(* Redis cannot be reached: the request is allowed and leaves no trace.    *)
FailOpen(r) ==
    /\ "redis" \in Faults
    /\ stamp[r] # NotSent
    /\ stamp' = [stamp EXCEPT ![r] = NotSent]
    /\ UNCHANGED <<now, log, kept, expires>>

Tick ==
    /\ now < MaxTime
    /\ \A r \in Requests : stamp[r] # NotSent => now - stamp[r] < Delay
    /\ now' = now + 1
    /\ UNCHANGED <<stamp, log, kept, expires>>

-----------------------------------------------------------------------------

Next == Tick \/ \E r \in Requests : Send(r) \/ Check(r) \/ FailOpen(r)

Spec == Init /\ [][Next]_vars

-----------------------------------------------------------------------------
(* Properties.                                                             *)

Near(i, n) == {j \in 1 .. i : log[i].at - log[j].at < n}

(* However requests are spread over the boundary of a window, and however  *)
(* the replicas' clocks and pipelines overtake each other, no more than    *)
(* the limit are allowed in any window, shortened by the delay.            *)
WithinLimit ==
    \A i \in Calls : Cardinality({j \in Near(i, Window - Delay) : log[j].ok}) <= Limit

(* Nobody is turned away who has not made as many calls, the rejected      *)
(* ones included, in the last window, lengthened by the delay.             *)
RejectedForCause ==
    \A i \in Calls : ~ log[i].ok => Cardinality(Near(i, Window + Delay)) > Limit

(* RateLimit-Remaining: so many calls are allowed next, whenever they come *)
(* and in whatever order their pipelines do.                               *)
RemainingIsGranted ==
    \A i \in Calls : \A k \in 1 .. log[i].remaining : i + k \in Calls => log[i + k].ok

(* Retry-After: "until at least one slot frees", "what a correct client    *)
(* backs off by".  A client that was rejected, waited that long and made   *)
(* no call meanwhile is allowed.                                           *)
RetryAfterIsGranted ==
    \A i \in Calls : ~ log[i].ok /\ i + 1 \in Calls /\ log[i + 1].stamp >= log[i].stamp + log[i].reset
                         => log[i + 1].ok

=============================================================================
