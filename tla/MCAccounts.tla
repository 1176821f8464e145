----------------------------- MODULE MCAccounts -----------------------------
(* What is kept for a tenant, one module after the other in one state      *)
(* space: `part' says which is being explored, and the others stay in      *)
(* their initial state.  The parts share no state.                         *)
EXTENDS CreditWallet, TLC

CONSTANTS
    Callers, Reviews, SpendCap, Seconds, Raise, Flat, Rising, \* PaygAccount
    Tenants, Emails, Roles, Bootstrap, Logins, Changes, TokenTTL, SlowLogin, LoginTime, MaxTrail,  \* Accounts
    Keys, Uses, Revokers, Interval, SlowUse, KeyTime,                   \* ApiKeys
    Scopes, Versions, Ranges, Admins, Ids                               \* Entitlements

Plans == {Flat, Rising}

ASSUME PlansAssumption ==
    /\ IsFiniteSet(Callers) /\ Callers # {} /\ Callers \cap Reviews = {} /\ "storage" \notin Callers
    /\ SpendCap \in Nat \cup {-1} /\ Seconds \in Nat /\ Raise \in Nat
    /\ \A plan \in Plans :
           /\ plan.prices \subseteq Nat /\ plan.prices # {} /\ plan.durations \subseteq Nat
           /\ plan.months \in Nat \ {0} /\ plan.ticks \in Nat
ASSUME LoginsAssumption ==
    /\ {"user", "admin"} \subseteq Roles /\ "none" \notin Tenants \cup Roles \cup Emails
    /\ TokenTTL \in Nat /\ SlowLogin \in Nat /\ LoginTime \in Nat \ {0}
ASSUME KeysAssumption ==
    "none" \notin Keys /\ Interval \in Nat /\ SlowUse \in Nat /\ KeyTime \in Nat \ {0}
ASSUME GrantsAssumption == {"tenant"} \subseteq Scopes /\ "none" \notin Scopes

VARIABLES
    part,
    account, inserter, cap, price, month, usage, ticks, storage, place, began, seenCap, granted, drafts,
    clock, tenants, users, login, change, tokens, trail, had,
    now, state, lastUsed, use, revoker, accepted, unwritten,
    rows, upsert, asked

onlyPayg ==
    <<account, inserter, cap, price, month, usage, ticks, storage, place, began, seenCap, granted, drafts>>
onlyLogins == <<clock, tenants, users, login, change, tokens, trail, had>>
onlyKeys == <<now, state, lastUsed, use, revoker, accepted, unwritten>>
onlyGrants == <<rows, upsert, asked>>
mcVars == <<part, vars, onlyPayg, onlyLogins, onlyKeys, onlyGrants>>

-----------------------------------------------------------------------------

(* Of a plan the account's prices, the runs of each caller and how long    *)
(* they take, the months, the storage charges, the drafts and the faults.  *)
Payg(plan) == INSTANCE PaygAccount WITH
    pc <- place, Runs <- Callers, Cap <- SpendCap, Estimate <- Seconds, Amount <- Raise,
    Prices <- plan.prices, Each <- plan.each, Durations <- plan.durations,
    Months <- plan.months, StorageTicks <- plan.ticks, MaxDrafts <- plan.drafts, Faults <- plan.faults

Logging == INSTANCE Accounts WITH
    now <- clock, TTL <- TokenTTL, Slow <- SlowLogin, MaxTime <- LoginTime, Faults <- {"db"}

Authenticating == INSTANCE ApiKeys WITH Slow <- SlowUse, MaxTime <- KeyTime, Faults <- {"db"}

Granting == INSTANCE Entitlements WITH RowIds <- Ids, Faults <- {}

-----------------------------------------------------------------------------
(* What the configuration cannot write down: two runs of each caller, or   *)
(* one with changing prices, storage and crashes.                          *)

MCFlat == [
    prices |-> {1}, each |-> 2, durations |-> {1, 3},
    months |-> 2, ticks |-> 0, drafts |-> 1, faults |-> {"absent"}]

MCRising == [
    prices |-> {1, 2}, each |-> 1, durations |-> {3},
    months |-> 2, ticks |-> 1, drafts |-> 1, faults |-> {"crash", "absent"}]

-----------------------------------------------------------------------------

MCInit ==
    /\ part \in {"wallet", "payg", "prices", "logins", "keys", "grants"}
    /\ Init /\ Logging!Init /\ Authenticating!Init /\ Granting!Init
    /\ IF part = "prices" THEN Payg(Rising)!Init ELSE Payg(Flat)!Init

Now(p, others) == part = p /\ UNCHANGED <<part, others>>

MCNext ==
    \/ Now("wallet", <<onlyPayg, onlyLogins, onlyKeys, onlyGrants>>) /\ Next
    \/ Now("payg", <<vars, onlyLogins, onlyKeys, onlyGrants>>) /\ Payg(Flat)!Next
    \/ Now("prices", <<vars, onlyLogins, onlyKeys, onlyGrants>>) /\ Payg(Rising)!Next
    \/ Now("logins", <<vars, onlyPayg, onlyKeys, onlyGrants>>) /\ Logging!Next
    \/ Now("keys", <<vars, onlyPayg, onlyLogins, onlyGrants>>) /\ Authenticating!Next
    \/ Now("grants", <<vars, onlyPayg, onlyLogins, onlyKeys>>) /\ Granting!Next

MCSpec == MCInit /\ [][MCNext]_mcVars

Symmetry == Permutations(Sessions)

-----------------------------------------------------------------------------
(* The properties of the modules.                                          *)

TypeCorrect ==
    /\ TypeOK /\ Logging!TypeOK /\ Authenticating!TypeOK /\ Granting!TypeOK
    /\ IF part = "prices" THEN Payg(Rising)!TypeOK ELSE Payg(Flat)!TypeOK

(* CreditWallet, PaygAccount: what races let a tenant spend beyond its     *)
(* balance or its cap is bounded, and no update that is lost is a charge   *)
(* too many.                                                               *)
DebtBounded ==
    /\ OverdraftBounded /\ NeverOvercharged
    /\ IF part = "prices" THEN Payg(Rising)!OverspendBounded ELSE Payg(Flat)!OverspendBounded

(* CreditWallet, PaygAccount: a request that is approved has been paid out *)
(* or has raised the cap.                                                  *)
ApprovedTakesEffect ==
    /\ ApprovedIsGranted
    /\ IF part = "prices" THEN Payg(Rising)!ApprovedIsApplied ELSE Payg(Flat)!ApprovedIsApplied

(* PaygAccount: a draft of a period that is over misses only what was      *)
(* under way.                                                              *)
DraftsMissOpenOnly ==
    IF part = "prices" THEN Payg(Rising)!DraftMissesOpenOnly ELSE Payg(Flat)!DraftMissesOpenOnly

(* Accounts: no tenant without a user, roles in tokens are recent and in   *)
(* the trail, and a login changes none but a bootstrap admin's.            *)
RolesAreTold ==
    /\ [](Logging!TenantsHaveUsers /\ Logging!TokensAreRecent /\ Logging!TrailTellsRole)
    /\ Logging!LoginKeepsRoles

(* ApiKeys: revoked for good, and honest about their use.                  *)
KeysAreHonest == Authenticating!RevokedForGood /\ []Authenticating!LastUsedIsRecent

(* Entitlements: seen is what was set.                                     *)
SeesWhatWasSet == Granting!SeesWhatWasSet
=============================================================================
