----------------------------- MODULE PaygAccount -----------------------------
(***************************************************************************)
(* A pay-as-you-go tenant's billing: the account row and its spend cap,    *)
(* authorize and record_usage of PayAsYouGoBillingStrategy around runs,    *)
(* the reconciler's storage charges, prices that change, credit requests   *)
(* that raise the cap, and the drafts of invoices.                         *)
(*                                                                         *)
(* Months are 1, 2, ...; a usage row is stamped with the time at which the *)
(* transaction that writes it began.                                       *)
(***************************************************************************)
EXTENDS Integers, Sequences, FiniteSets

CONSTANTS
    Runs,       \* callers that run something, one run at a time
    Reviews,    \* credit requests, each reviewed by somebody
    Cap,        \* spend_cap the account starts with
    Estimate,   \* seconds that authorize() prices
    Durations,  \* seconds that a run may take, and be charged for
    Prices,     \* unit costs, the first rule's the smallest
    Amount,     \* what a credit request asks for
    Each,       \* how often (bound of the model)
    Months,     \* bound of the model
    StorageTicks,  \* storage charges (bound of the model)
    MaxDrafts,  \* bound of the model
    Faults      \* some of "crash", "absent": the tenant has no account row yet

NoCap == -1
Minimum(S) == CHOOSE x \in S : \A y \in S : x <= y
Maximum(S) == CHOOSE x \in S : \A y \in S : x >= y

VARIABLES
    account,   \* the committed row: "absent" or "payg"
    inserter,  \* the run whose transaction has inserted it, uncommitted
    cap,       \* spend_cap
    price,     \* the unit cost in effect
    month,     \* now
    usage,     \* committed usage rows: who, in which month, what it cost
    ticks,     \* storage charges made
    storage,   \* the month the transaction of the next one began in, or 0
    pc,        \* where each run and each review is
    began,     \* the month its transaction began in
    seenCap,   \* the cap a review has read
    granted,   \* reviews whose cap has been committed
    drafts     \* the invoices: period, and when it was drafted and of which rows;
               \* and the usage that transactions under way then had still to write

accountVars == <<account, inserter, cap>>
reviewVars == <<seenCap, granted>>
storageVars == <<ticks, storage>>
vars == <<accountVars, price, month, usage, storageVars, pc, began, reviewVars, drafts>>

Storage == "storage"

-----------------------------------------------------------------------------

TypeOK ==
    /\ account \in {"absent", "payg"} /\ inserter \subseteq Runs /\ Cardinality(inserter) <= 1
    /\ cap \in Nat \cup {NoCap} /\ price \in Prices /\ month \in 1 .. Months
    /\ \A u \in usage : u.month \in 1 .. Months /\ u.cost \in Nat
    /\ ticks \in 0 .. StorageTicks /\ storage \in 0 .. month
    /\ pc \in [Runs \cup Reviews -> {"new", "insert", "authorize", "running", "commit", "mark", "done", "denied", "error"}]
    /\ began \in [Runs -> 1 .. month]
    /\ seenCap \in [Reviews -> Nat \cup {NoCap}] /\ granted \subseteq Reviews
    /\ \A i \in DOMAIN drafts :
           /\ drafts[i].from \in 1 .. Months /\ drafts[i].until \in drafts[i].from + 1 .. Months + 1
           /\ drafts[i].at \in 1 .. month
           /\ drafts[i].rows \subseteq usage

Init ==
    /\ account = (IF "absent" \in Faults THEN "absent" ELSE "payg") /\ inserter = {}
    /\ cap = Cap /\ price = Minimum(Prices) /\ month = 1
    /\ usage = {} /\ ticks = 0 /\ storage = 0
    /\ pc = [x \in Runs \cup Reviews |-> "new"] /\ began = [r \in Runs |-> 1]
    /\ seenCap = [q \in Reviews |-> NoCap] /\ granted = {}
    /\ drafts = <<>>

Go(x, where) == pc' = [pc EXCEPT ![x] = where]

(* The sum of the rows' costs: a row counts once for each unit.            *)
Units(rows) == UNION {{u} \X (1 .. u.cost) : u \in rows}
Sum(rows) == Cardinality(Units(rows))

(* _period_usage_cost.                                                     *)
Between(since, until) == {u \in usage : since <= u.month /\ u.month < until}

Spent == Sum(Between(month, month + 1))

-----------------------------------------------------------------------------
(* A run.                                                                  *)

Ran(r) == Cardinality({u \in usage : u.who[1] = r})

(* _get_or_create_account.                                                 *)
Begin(r) ==
    /\ pc[r] \in {"new", "done", "denied"} /\ Ran(r) < Each
    /\ began' = [began EXCEPT ![r] = month]
    /\ Go(r, IF account = "absent" THEN "insert" ELSE "authorize")
    /\ UNCHANGED <<accountVars, price, month, usage, storageVars, reviewVars, drafts>>

(* The flush waits for another transaction's insert of the same key.       *)
Insert(r) ==
    /\ pc[r] = "insert" /\ inserter = {}
    /\ IF account = "absent"
       THEN inserter' = {r} /\ Go(r, "authorize")
       ELSE UNCHANGED inserter /\ Go(r, "error")
    /\ UNCHANGED <<account, cap, price, month, usage, storageVars, began, reviewVars, drafts>>

Within == cap = NoCap \/ Spent + Estimate * price <= cap

Rollback(r) == inserter' = inserter \ {r}

Authorize(r) ==
    /\ pc[r] = "authorize"
    /\ IF Within THEN Go(r, "running") /\ UNCHANGED inserter ELSE Go(r, "denied") /\ Rollback(r)
    /\ UNCHANGED <<account, cap, price, month, usage, storageVars, began, reviewVars, drafts>>

(* record_usage for the seconds it took, whatever had been estimated, and   *)
(* the commit.                                                             *)
Record(r) ==
    /\ pc[r] = "running"
    /\ \E seconds \in Durations :
          usage' = usage \cup {[who |-> <<r, Ran(r)>>, month |-> began[r], cost |-> seconds * price]}
    /\ account' = "payg" /\ Rollback(r)
    /\ Go(r, "done")
    /\ UNCHANGED <<cap, price, month, storageVars, began, reviewVars, drafts>>

Crash(r) ==
    /\ "crash" \in Faults
    /\ pc[r] \in {"authorize", "running"}
    /\ Rollback(r) /\ Go(r, "error")
    /\ UNCHANGED <<account, cap, price, month, usage, storageVars, began, reviewVars, drafts>>

(* bill_workspace_storage, in one transaction and unauthorized.            *)
BeginStorage ==
    /\ storage = 0 /\ ticks < StorageTicks /\ account = "payg"
    /\ storage' = month
    /\ UNCHANGED <<accountVars, price, month, usage, ticks, pc, began, reviewVars, drafts>>

BillStorage ==
    /\ storage # 0
    /\ storage' = 0 /\ ticks' = ticks + 1
    /\ usage' = usage \cup {[who |-> <<Storage, ticks>>, month |-> storage, cost |-> price]}
    /\ UNCHANGED <<accountVars, price, month, pc, began, reviewVars, drafts>>

CrashStorage ==
    /\ "crash" \in Faults /\ storage # 0
    /\ storage' = 0
    /\ UNCHANGED <<accountVars, price, month, usage, ticks, pc, began, reviewVars, drafts>>

-----------------------------------------------------------------------------
(* Admins.                                                                 *)

(* add_pricing_rule: the newest rule in effect wins.                       *)
AddPricingRule ==
    /\ \E p \in Prices : p > price /\ price' = p
    /\ UNCHANGED <<accountVars, month, usage, storageVars, pc, began, reviewVars, drafts>>

(* review_credit_request reads the request and the account ...             *)
Review(q) ==
    /\ pc[q] = "new" /\ account = "payg"
    /\ \/ Go(q, "denied") /\ UNCHANGED seenCap
       \/ Go(q, "commit") /\ seenCap' = [seenCap EXCEPT ![q] = cap]
    /\ UNCHANGED <<accountVars, price, month, usage, storageVars, began, granted, drafts>>

Raised(c) == (IF c = NoCap THEN 0 ELSE c) + Amount

(* ... writes the cap it has computed ...                                  *)
SetCap(q) ==
    /\ pc[q] = "commit"
    /\ cap' = Raised(seenCap[q])
    /\ granted' = granted \cup {q}
    /\ Go(q, "mark")
    /\ UNCHANGED <<account, inserter, price, month, usage, storageVars, began, seenCap, drafts>>

(* ... and marks the request approved, in another transaction.             *)
MarkApproved(q) ==
    /\ pc[q] = "mark"
    /\ Go(q, "done")
    /\ UNCHANGED <<accountVars, price, month, usage, storageVars, began, reviewVars, drafts>>

(* A crash in between leaves the request pending; it is reviewed again.    *)
(* (Not for ever: a bound of the model.)                                   *)
CrashReview(q) ==
    /\ "crash" \in Faults /\ cap <= Cap + Amount
    /\ pc[q] \in {"commit", "mark"}
    /\ Go(q, "new")
    /\ UNCHANGED <<accountVars, price, month, usage, storageVars, began, reviewVars, drafts>>

(* What transactions under way have still to write.                        *)
Open ==
    {<<r, Ran(r)>> : r \in {x \in Runs : pc[x] \in {"insert", "authorize", "running"}}}
        \cup (IF storage = 0 THEN {} ELSE {<<Storage, ticks>>})

Drafted(from, until, rows) ==
    /\ Len(drafts) < MaxDrafts /\ from < until
    /\ account = "payg" \/ inserter = {}
    /\ account' = "payg"
    /\ drafts' = Append(drafts, [from |-> from, until |-> until, at |-> month, rows |-> rows, open |-> Open])
    /\ UNCHANGED <<inserter, cap, price, month, usage, storageVars, pc, began, reviewVars>>

(* Mutant: what was recorded at the period's start is left out.            *)
SettleExclusive(from, until) == Drafted(from, until, Between(from + 1, until))

(* settle: of any period, ended or not, and as often as it is called.      *)
Settle(from, until) == Drafted(from, until, Between(from, until))

MonthEnds ==
    /\ month < Months
    /\ month' = month + 1
    /\ UNCHANGED <<accountVars, price, usage, storageVars, pc, began, reviewVars, drafts>>

-----------------------------------------------------------------------------

Next ==
    \/ \E r \in Runs : Begin(r) \/ Insert(r) \/ Authorize(r) \/ Record(r) \/ Crash(r)
    \/ \E q \in Reviews : Review(q) \/ SetCap(q) \/ MarkApproved(q) \/ CrashReview(q)
    \/ BeginStorage \/ BillStorage \/ CrashStorage \/ AddPricingRule \/ MonthEnds
    \/ \E from, until \in 1 .. Months + 1 : Settle(from, until)

Spec == Init /\ [][Next]_vars

-----------------------------------------------------------------------------
(* Properties.                                                             *)

(* The cap is checked before a run and the run is charged after it, with   *)
(* what it took and not with what was estimated, at a price that may have  *)
(* risen meanwhile: a month is overspent.  But only by storage, and by one *)
(* run of each caller: without them, and with an estimate at the lowest    *)
(* price added, it is within the cap.                                      *)
RunRows == {u \in Between(month, month + 1) : u.who[1] \in Runs}
OneOfEach(rows) == \A u, v \in rows : u.who[1] = v.who[1] => u = v

OverspendBounded ==
    Cap # NoCap /\ granted = {} /\ RunRows # {} =>
        \E late \in SUBSET RunRows :
            /\ OneOfEach(late)
            /\ Sum(RunRows \ late) + Estimate * Minimum(Prices) <= Cap

(* "A pre-authorization ceiling": no run is charged more than its estimate, *)
(* and what others add while it runs is theirs.                            *)
EstimateIsCeiling ==
    Cap # NoCap /\ granted = {} /\ month = 1 =>
        Spent <= Cap + (Cardinality(Runs) - 1) * Estimate * Maximum(Prices)
                     + Estimate * (Maximum(Prices) - Minimum(Prices)) + StorageTicks * Maximum(Prices)

(* A draft that is made after its period's end misses nothing but what was *)
(* under way when it was made: no transaction that begins later is         *)
(* recorded in the period.                                                 *)
DraftMissesOpenOnly ==
    \A i \in DOMAIN drafts :
        drafts[i].until <= drafts[i].at =>
            \A u \in Between(drafts[i].from, drafts[i].until) :
                u \in drafts[i].rows \/ u.who \in drafts[i].open

(* "Usage accumulated [...] over a billing period rolls up into a draft":  *)
(* into one, and all of it.                                                *)
InvoicedOnce ==
    \A i, j \in DOMAIN drafts : i # j => drafts[i].rows \cap drafts[j].rows = {}
InvoiceComplete ==
    \A i \in DOMAIN drafts :
        drafts[i].until <= drafts[i].at => drafts[i].rows = Between(drafts[i].from, drafts[i].until)

(* An approved request has raised the cap.                                 *)
ApprovedIsApplied == \A q \in Reviews : pc[q] = "done" => q \in granted

(* Approving a request gives "more headroom".                              *)
ApprovalGivesHeadroom ==
    [][\A q \in Reviews : q \in granted' \ granted => cap # NoCap /\ cap' >= cap + Amount]_vars

(* A tenant's first requests are served, however many come at once.        *)
FirstAreServed == \A r \in Runs : "crash" \notin Faults => pc[r] # "error"

=============================================================================
