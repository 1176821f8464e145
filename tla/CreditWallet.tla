---------------------------- MODULE CreditWallet ----------------------------
(***************************************************************************)
(* One credit-mode tenant's wallet: CreditBillingStrategy.authorize and    *)
(* record_usage around runs, adjust_credit, and the review of credit       *)
(* requests, as concurrent transactions (READ COMMITTED).                  *)
(*                                                                         *)
(* The balance is read with a plain SELECT, changed in Python, and written *)
(* by the flush as an absolute value.  The UPDATE takes the row's lock     *)
(* until the transaction ends; the SELECT takes none.                      *)
(***************************************************************************)
EXTENDS Integers, Sequences, FiniteSets, SequencesExt

CONSTANTS
    Sessions,        \* requests; each performs one operation
    Operations,      \* what they may do: "usage", "adjust", "review"
    CreditRequests,  \* credit_requests rows
    NoSession,
    InitialBalance,
    Events,          \* usage events of one run (cpu_second, memory_gb_second, ...)
    Costs,           \* what one event may come to, at the price it is recorded at
    Estimates,       \* what authorize() may price a run at
    Amount,          \* what an adjustment or a credit request adds
    CanCrash

ASSUME SessionAssumption == NoSession \notin Sessions
ASSUME OperationAssumption == Operations \subseteq {"usage", "adjust", "review"}
ASSUME AmountAssumption ==
    /\ InitialBalance \in Nat /\ Events \in Nat \ {0}
    /\ Costs \subseteq Nat /\ Estimates \subseteq Nat /\ Estimates # {} /\ Amount \in Nat
ASSUME CrashAssumption == CanCrash \in BOOLEAN

VARIABLES
    balance,    \* CreditWallet.balance, committed
    ledger,     \* credit_ledger's deltas, committed
    status,     \* CreditRequest.status, committed
    grants,     \* credit_ledger entries with reason credit_request:<id>
    lock,       \* the transaction that has updated the wallet's row
    pc,         \* where each session is
    request,    \* the credit request it reviews
    loaded,     \* the balance it has loaded, or written
    pending     \* its uncommitted ledger entries

sessionVars == <<pc, request, loaded, pending>>
vars == <<balance, ledger, status, grants, lock, sessionVars>>

-----------------------------------------------------------------------------

WalletPc == {"new", "running", "load", "flush", "commit", "adjust", "grant", "mark", "done"}

TypeOK ==
    /\ balance \in Int
    /\ ledger \in Seq(Int)
    /\ status \in [CreditRequests -> {"pending", "approved", "denied"}]
    /\ grants \in [CreditRequests -> Nat]
    /\ lock \in Sessions \cup {NoSession}
    /\ pc \in [Sessions -> WalletPc]
    /\ request \in [Sessions -> CreditRequests]
    /\ loaded \in [Sessions -> Int]
    /\ pending \in [Sessions -> Seq(Int)]

Init ==
    /\ balance = InitialBalance
    /\ ledger = <<>>
    /\ status = [q \in CreditRequests |-> "pending"]
    /\ grants = [q \in CreditRequests |-> 0]
    /\ lock = NoSession
    /\ pc = [x \in Sessions |-> "new"]
    /\ request \in [Sessions -> CreditRequests]
    /\ loaded = [x \in Sessions |-> 0]
    /\ pending = [x \in Sessions |-> <<>>]

Goto(x, label) == pc' = [pc EXCEPT ![x] = label]

(* A transaction sees its own update, others only what is committed.       *)
Visible(x) == IF lock = x THEN loaded[x] ELSE balance

Load(x) == loaded' = [loaded EXCEPT ![x] = Visible(x)]

(* COMMIT: the row, the ledger entries, and the lock.                      *)
CommitWallet(x, new, deltas) ==
    /\ balance' = new
    /\ ledger' = ledger \o deltas
    /\ lock' = NoSession

-----------------------------------------------------------------------------
(* A run, or a sandbox's life: authorized before, charged after.           *)

Authorize(x) ==
    /\ pc[x] = "new" /\ "usage" \in Operations
    /\ \E estimate \in Estimates : Goto(x, IF estimate > balance THEN "done" ELSE "running")
    /\ UNCHANGED <<balance, ledger, status, grants, lock, request, loaded, pending>>

EndRun(x) ==
    /\ pc[x] = "running"
    /\ Goto(x, "load")
    /\ UNCHANGED <<balance, ledger, status, grants, lock, request, loaded, pending>>

(* record_usage, once per event: the wallet is selected ...                *)
LoadForUsage(x) ==
    /\ pc[x] = "load"
    /\ Load(x)
    /\ Goto(x, "flush")
    /\ UNCHANGED <<balance, ledger, status, grants, lock, request, pending>>

FlushEvent(x, taken, cost) ==
    /\ lock \in {NoSession, x}
    /\ lock' = x
    /\ loaded' = [loaded EXCEPT ![x] = @ - taken]
    /\ pending' = [pending EXCEPT ![x] = Append(@, 0 - cost)]
    /\ Goto(x, IF Len(pending[x]) + 1 < Events THEN "load" ELSE "commit")
    /\ UNCHANGED <<balance, ledger, status, grants, request>>

(* Mutant: every event is charged with those before it once more.          *)
FlushUsageCumulative(x) ==
    /\ pc[x] = "flush"
    /\ \E cost \in Costs : FlushEvent(x, cost * (Len(pending[x]) + 1), cost)

(* ... and updated, when the next event's record or the commit flushes:    *)
(* quantity times price, whatever had been estimated.                      *)
FlushUsage(x) ==
    /\ pc[x] = "flush"
    /\ \E cost \in Costs : FlushEvent(x, cost, cost)

CommitUsage(x) ==
    /\ pc[x] = "commit"
    /\ CommitWallet(x, loaded[x], pending[x])
    /\ pending' = [pending EXCEPT ![x] = <<>>]
    /\ Goto(x, "done")
    /\ UNCHANGED <<status, grants, request, loaded>>

-----------------------------------------------------------------------------
(* adjust_credit: an admin's top-up.  Update and commit are one flush.     *)

LoadForAdjust(x) ==
    /\ pc[x] = "new" /\ "adjust" \in Operations
    /\ Load(x)
    /\ Goto(x, "adjust")
    /\ UNCHANGED <<balance, ledger, status, grants, lock, request, pending>>

Adjust(x) ==
    /\ pc[x] = "adjust"
    /\ lock = NoSession
    /\ CommitWallet(x, loaded[x] + Amount, <<Amount>>)
    /\ Goto(x, "done")
    /\ UNCHANGED <<status, grants, request, loaded, pending>>

-----------------------------------------------------------------------------
(* review_credit_request: check the status, adjust_credit (which commits), *)
(* then mark the request and commit again.                                 *)

(* Mutants: the request is marked before the wallet is adjusted; it is     *)
(* marked with a word that the status column does not know.                *)
ApproveMarked(x) ==
    /\ pc[x] = "new" /\ "review" \in Operations
    /\ status[request[x]] = "pending"
    /\ Load(x)
    /\ status' = [status EXCEPT ![request[x]] = "approved"]
    /\ Goto(x, "grant")
    /\ UNCHANGED <<balance, ledger, grants, lock, request, pending>>

MarkReviewed(x) ==
    /\ pc[x] = "mark"
    /\ status' = [status EXCEPT ![request[x]] = "reviewed"]
    /\ Goto(x, "done")
    /\ UNCHANGED <<balance, ledger, grants, lock, request, loaded, pending>>

Approve(x) ==
    /\ pc[x] = "new" /\ "review" \in Operations
    /\ status[request[x]] = "pending"
    /\ Load(x)
    /\ Goto(x, "grant")
    /\ UNCHANGED <<balance, ledger, status, grants, lock, request, pending>>

Grant(x) ==
    /\ pc[x] = "grant"
    /\ lock = NoSession
    /\ CommitWallet(x, loaded[x] + Amount, <<Amount>>)
    /\ grants' = [grants EXCEPT ![request[x]] = @ + 1]
    /\ Goto(x, "mark")
    /\ UNCHANGED <<status, request, loaded, pending>>

MarkApproved(x) ==
    /\ pc[x] = "mark"
    /\ status' = [status EXCEPT ![request[x]] = "approved"]
    /\ Goto(x, "done")
    /\ UNCHANGED <<balance, ledger, grants, lock, request, loaded, pending>>

Deny(x) ==
    /\ pc[x] = "new" /\ "review" \in Operations
    /\ status[request[x]] = "pending"
    /\ status' = [status EXCEPT ![request[x]] = "denied"]
    /\ Goto(x, "done")
    /\ UNCHANGED <<balance, ledger, grants, lock, request, loaded, pending>>

AlreadyReviewed(x) ==
    /\ pc[x] = "new" /\ "review" \in Operations
    /\ status[request[x]] # "pending"
    /\ Goto(x, "done")
    /\ UNCHANGED <<balance, ledger, status, grants, lock, request, loaded, pending>>

-----------------------------------------------------------------------------

(* The process dies or a statement fails: the open transaction is gone.    *)
Crash(x) ==
    /\ CanCrash
    /\ pc[x] \notin {"new", "done"}
    /\ lock' = IF lock = x THEN NoSession ELSE lock
    /\ pending' = [pending EXCEPT ![x] = <<>>]
    /\ Goto(x, "done")
    /\ UNCHANGED <<balance, ledger, status, grants, request, loaded>>

AllDone == (\A x \in Sessions : pc[x] = "done") /\ UNCHANGED vars

Session(x) ==
    \/ Authorize(x) \/ EndRun(x) \/ LoadForUsage(x) \/ FlushUsage(x) \/ CommitUsage(x)
    \/ LoadForAdjust(x) \/ Adjust(x)
    \/ Approve(x) \/ Grant(x) \/ MarkApproved(x) \/ Deny(x) \/ AlreadyReviewed(x)
    \/ Crash(x)

Next == (\E x \in Sessions : Session(x)) \/ AllDone

Spec == Init /\ [][Next]_vars

-----------------------------------------------------------------------------
(* Properties.                                                             *)

Total(deltas) == FoldLeft(+, 0, deltas)

(* "A CreditLedgerEntry audit row per deduction": the ledger explains the  *)
(* balance.                                                                *)
LedgerExplainsBalance == balance = InitialBalance + Total(ledger)

(* What the ledger's charges come to: an entry counts once for each unit   *)
(* that it takes.                                                          *)
Units(deltas) == UNION {{i} \X (1 .. 0 - deltas[i]) : i \in DOMAIN deltas}
Charged == Cardinality(Units(ledger))

(* Updates that race are lost, a top-up or a charge, but no charge is ever *)
(* taken twice: the wallet has what it started with, less at most what was *)
(* charged.                                                                *)
NeverOvercharged == balance >= InitialBalance - Charged

(* The pre-check is not repeated when the run is charged, runs do not see  *)
(* each other's estimates, and they are charged what they took: the        *)
(* balance can go below zero, by what they all took.  But not without one  *)
(* estimate that was covered, even if the wallet was empty at first and    *)
(* was topped up.  (Top-ups that cover no estimate could be lost after the *)
(* check: Amount >= Least.)                                                *)
Least == CHOOSE e \in Estimates : \A f \in Estimates : e <= f

OverdraftBounded == Amount >= Least /\ Charged > 0 => balance >= Least - Charged

(* "A pre-authorization ceiling": a run takes no more than its estimate,   *)
(* and so the debt is at most the estimates of the others.                 *)
RunsCharged == Cardinality({i \in DOMAIN ledger : ledger[i] < 0}) \div Events
EstimateIsCeiling ==
    Amount >= Least /\ RunsCharged > 0 =>
        \E e \in Estimates : balance >= 0 - (RunsCharged - 1) * e

(* A request marked approved has been paid out, in whatever order two      *)
(* reviewers or a crash and a retry left their commits: the adjustment is  *)
(* committed first.                                                        *)
ApprovedIsGranted == \A q \in CreditRequests : status[q] = "approved" => grants[q] >= 1

(* A credit request is paid out at most once: a second review is refused.  *)
GrantedOnce == \A q \in CreditRequests : grants[q] <= 1

=============================================================================
