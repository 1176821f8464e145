-------------------------- MODULE MCAccounts_proofs --------------------------
(***************************************************************************)
(* Theorems about what is kept for a tenant: the credit wallet, the        *)
(* pay-as-you-go account on any plan, API keys, entitlements, and users,   *)
(* their roles and tokens.  One section for each module with its inductive *)
(* invariant, then the whole, for any number of tenants, users, keys,      *)
(* callers and requests under way, and any prices, intervals and           *)
(* lifetimes.                                                              *)
(***************************************************************************)
EXTENDS MCAccounts, FiniteSetTheorems, WellFoundedInduction, TLAPS


-----------------------------------------------------------------------------
(* CreditWallet, for any number of requests and reviewers, any prices and  *)
(* amounts, and with or without crashes.  A review is two transactions:    *)
(* whoever is between them has already committed the grant, and grants are *)
(* never taken back.                                                       *)

GrantComesFirst == \A x \in Sessions : pc[x] = "mark" => grants[request[x]] >= 1

WalletInv == TypeOK /\ GrantComesFirst /\ ApprovedIsGranted

-----------------------------------------------------------------------------

LEMMA InitWalletInv == Init => WalletInv
<1> SUFFICES ASSUME Init PROVE WalletInv
  OBVIOUS
<1>1. TypeOK
  <2>1. InitialBalance \in Int /\ 0 \in Nat /\ 0 \in Int /\ <<>> \in Seq(Int)
    BY AmountAssumption
  <2>2. loaded \in [Sessions -> Int] /\ pending \in [Sessions -> Seq(Int)] /\ grants \in [CreditRequests -> Nat]
    BY <2>1 DEF Init
  <2>3. QED BY <2>1, <2>2 DEF Init, TypeOK, WalletPc
<1>2. GrantComesFirst /\ ApprovedIsGranted
  BY DEF Init, GrantComesFirst, ApprovedIsGranted
<1>3. QED BY <1>1, <1>2 DEF WalletInv

-----------------------------------------------------------------------------
(* The types.                                                              *)

LEMMA Numbers ==
  /\ Amount \in Int /\ \A cost \in Costs : cost \in Int /\ 0 - cost \in Int
  /\ <<Amount>> \in Seq(Int) /\ <<>> \in Seq(Int)
<1>1. Amount \in Int /\ \A cost \in Costs : cost \in Int
  BY AmountAssumption
<1>2. QED BY <1>1

LEMMA SessionTypes ==
  ASSUME TypeOK, NEW x \in Sessions, Session(x)
  PROVE  TypeOK'
<1>1. /\ pc' \in [Sessions -> WalletPc] /\ request' \in [Sessions -> CreditRequests]
  <2>1. request' = request
    BY DEF Session, Authorize, EndRun, LoadForUsage, FlushUsage, FlushEvent, CommitUsage, LoadForAdjust, Adjust,
           Approve, Grant, MarkApproved, Deny, AlreadyReviewed, Crash
  <2>2. \E label \in WalletPc : Goto(x, label)
    BY DEF Session, Authorize, EndRun, LoadForUsage, FlushUsage, FlushEvent, CommitUsage, LoadForAdjust, Adjust,
           Approve, Grant, MarkApproved, Deny, AlreadyReviewed, Crash, WalletPc
  <2>3. QED BY <2>1, <2>2 DEF TypeOK, Goto
<1>2. lock' \in Sessions \cup {NoSession}
  BY DEF TypeOK, Session, Authorize, EndRun, LoadForUsage, FlushUsage, FlushEvent, CommitUsage, LoadForAdjust, Adjust,
         Approve, Grant, MarkApproved, Deny, AlreadyReviewed, Crash, CommitWallet
<1>3. loaded' \in [Sessions -> Int]
  <2>1. Visible(x) \in Int /\ \A cost \in Costs : loaded[x] - cost \in Int
    BY Numbers DEF TypeOK, Visible
  <2>2. \/ UNCHANGED loaded
        \/ loaded' = [loaded EXCEPT ![x] = Visible(x)]
        \/ \E cost \in Costs : loaded' = [loaded EXCEPT ![x] = loaded[x] - cost]
    BY DEF Session, Authorize, EndRun, LoadForUsage, FlushUsage, FlushEvent, CommitUsage, LoadForAdjust, Adjust,
           Approve, Grant, MarkApproved, Deny, AlreadyReviewed, Crash, Load
  <2>3. loaded \in [Sessions -> Int]
    BY DEF TypeOK
  <2>4. QED BY <2>1, <2>2, <2>3
<1>4. pending' \in [Sessions -> Seq(Int)]
  <2>1. <<>> \in Seq(Int) /\ \A cost \in Costs : Append(pending[x], 0 - cost) \in Seq(Int)
    BY Numbers DEF TypeOK
  <2>2. \/ UNCHANGED pending
        \/ pending' = [pending EXCEPT ![x] = <<>>]
        \/ \E cost \in Costs : pending' = [pending EXCEPT ![x] = Append(pending[x], 0 - cost)]
    BY DEF Session, Authorize, EndRun, LoadForUsage, FlushUsage, FlushEvent, CommitUsage, LoadForAdjust, Adjust,
           Approve, Grant, MarkApproved, Deny, AlreadyReviewed, Crash
  <2>3. pending \in [Sessions -> Seq(Int)]
    BY DEF TypeOK
  <2>4. QED BY <2>1, <2>2, <2>3
<1>5. balance' \in Int /\ ledger' \in Seq(Int)
  <2>1. \/ UNCHANGED <<balance, ledger>>
        \/ CommitWallet(x, loaded[x], pending[x])
        \/ CommitWallet(x, loaded[x] + Amount, <<Amount>>)
    BY DEF Session, Authorize, EndRun, LoadForUsage, FlushUsage, FlushEvent, CommitUsage, LoadForAdjust, Adjust,
           Approve, Grant, MarkApproved, Deny, AlreadyReviewed, Crash
  <2>2. /\ loaded[x] \in Int /\ pending[x] \in Seq(Int) /\ loaded[x] + Amount \in Int
        /\ balance \in Int /\ ledger \in Seq(Int)
    BY Numbers DEF TypeOK
  <2>3. ASSUME NEW new \in Int, NEW deltas \in Seq(Int), CommitWallet(x, new, deltas)
        PROVE  balance' \in Int /\ ledger' \in Seq(Int)
    BY <2>2, <2>3 DEF CommitWallet
  <2>4. QED BY <2>1, <2>2, <2>3, Numbers
<1>6. status' \in [CreditRequests -> {"pending", "approved", "denied"}]
  BY DEF TypeOK, Session, Authorize, EndRun, LoadForUsage, FlushUsage, FlushEvent, CommitUsage, LoadForAdjust, Adjust,
         Approve, Grant, MarkApproved, Deny, AlreadyReviewed, Crash
<1>7. grants' \in [CreditRequests -> Nat]
  <2>1. UNCHANGED grants \/ grants' = [grants EXCEPT ![request[x]] = grants[request[x]] + 1]
    BY DEF Session, Authorize, EndRun, LoadForUsage, FlushUsage, FlushEvent, CommitUsage, LoadForAdjust, Adjust,
           Approve, Grant, MarkApproved, Deny, AlreadyReviewed, Crash
  <2>2. grants \in [CreditRequests -> Nat] /\ grants[request[x]] + 1 \in Nat
    BY DEF TypeOK
  <2>3. QED BY <2>1, <2>2
<1>8. QED BY <1>1, <1>2, <1>3, <1>4, <1>5, <1>6, <1>7 DEF TypeOK

-----------------------------------------------------------------------------
(* The order of a review's two commits.                                    *)

LEMMA GrantsAreKept ==
  ASSUME TypeOK, NEW x \in Sessions, Session(x), NEW q \in CreditRequests, grants[q] >= 1
  PROVE  grants'[q] >= 1
<1>1. CASE UNCHANGED grants
  BY <1>1
<1>2. CASE grants' = [grants EXCEPT ![request[x]] = grants[request[x]] + 1]
  <2>1. grants \in [CreditRequests -> Nat] /\ request[x] \in CreditRequests
    BY DEF TypeOK
  <2>2. CASE q = request[x]
    BY <1>2, <2>1, <2>2
  <2>3. CASE q # request[x]
    BY <1>2, <2>1, <2>3
  <2>4. QED BY <2>2, <2>3
<1>3. QED
  BY <1>1, <1>2 DEF Session, Authorize, EndRun, LoadForUsage, FlushUsage, FlushEvent, CommitUsage, LoadForAdjust,
     Adjust, Approve, Grant, MarkApproved, Deny, AlreadyReviewed, Crash

LEMMA SessionOrder ==
  ASSUME WalletInv, NEW x \in Sessions, Session(x)
  PROVE  GrantComesFirst' /\ ApprovedIsGranted'
<1> USE DEF WalletInv
<1>1. /\ request' = request /\ request[x] \in CreditRequests
      /\ \A y \in Sessions \ {x} : pc'[y] = pc[y]
  BY DEF TypeOK, Session, Authorize, EndRun, LoadForUsage, FlushUsage, FlushEvent, CommitUsage, LoadForAdjust, Adjust,
         Approve, Grant, MarkApproved, Deny, AlreadyReviewed, Crash, Goto
<1>2. pc'[x] = "mark" => grants'[request[x]] >= 1
  <2>1. CASE Grant(x)
    <3>1. grants' = [grants EXCEPT ![request[x]] = grants[request[x]] + 1]
      BY <2>1 DEF Grant
    <3>2. grants \in [CreditRequests -> Nat]
      BY DEF TypeOK
    <3>3. QED BY <1>1, <3>1, <3>2
  <2>2. CASE ~Grant(x)
    <3>1. pc'[x] # "mark"
      BY <2>2 DEF TypeOK, Session, Authorize, EndRun, LoadForUsage, FlushUsage, FlushEvent, CommitUsage,
         LoadForAdjust, Adjust, Approve, MarkApproved, Deny, AlreadyReviewed, Crash, Goto
    <3>2. QED BY <3>1
  <2>3. QED BY <2>1, <2>2
<1>3. GrantComesFirst'
  <2>1. ASSUME NEW y \in Sessions \ {x}, pc'[y] = "mark" PROVE grants'[request[y]] >= 1
    <3>1. grants[request[y]] >= 1 /\ request[y] \in CreditRequests
      BY <1>1, <2>1 DEF GrantComesFirst, TypeOK
    <3>2. QED BY <3>1, GrantsAreKept
  <2>2. QED BY <1>1, <1>2, <2>1 DEF GrantComesFirst
<1>4. ApprovedIsGranted'
  <2> SUFFICES ASSUME NEW q \in CreditRequests, status'[q] = "approved" PROVE grants'[q] >= 1
    BY DEF ApprovedIsGranted
  <2>1. status[q] = "approved" \/ (MarkApproved(x) /\ q = request[x])
    BY DEF TypeOK, Session, Authorize, EndRun, LoadForUsage, FlushUsage, FlushEvent, CommitUsage, LoadForAdjust,
       Adjust, Approve, Grant, MarkApproved, Deny, AlreadyReviewed, Crash
  <2>2. grants[q] >= 1
    BY <2>1 DEF ApprovedIsGranted, GrantComesFirst, MarkApproved
  <2>3. QED BY <2>2, GrantsAreKept
<1>5. QED BY <1>3, <1>4

LEMMA NextWalletInv == WalletInv /\ [Next]_vars => WalletInv'
<1> SUFFICES ASSUME WalletInv, [Next]_vars PROVE WalletInv'
  OBVIOUS
<1>1. ASSUME NEW x \in Sessions, Session(x) PROVE WalletInv'
  BY <1>1, SessionTypes, SessionOrder DEF WalletInv
<1>2. CASE UNCHANGED vars
  BY <1>2 DEF WalletInv, vars, sessionVars, TypeOK, GrantComesFirst, ApprovedIsGranted
<1>3. QED BY <1>1, <1>2 DEF Next, AllDone

-----------------------------------------------------------------------------

(* Type correctness, and what a reviewer between its two commits has done. *)
THEOREM WalletInvHolds == Spec => []WalletInv
  BY InitWalletInv, NextWalletInv, PTL DEF Spec

(* Whichever reviewers race, and wherever a process dies, no credit        *)
(* request is marked approved that has not been paid out.                  *)
THEOREM ApprovalsArePaid == Spec => []ApprovedIsGranted
<1>1. WalletInv => ApprovedIsGranted
  BY DEF WalletInv
<1>2. QED BY <1>1, WalletInvHolds, PTL

-----------------------------------------------------------------------------
(* How far in debt.  A session that has loaded the balance has what it was *)
(* once, or has already charged itself, and what it writes back is above   *)
(* both bounds whoever has committed in between: the bounds only go down.  *)

(* One entry more, and the units that it takes.                            *)
LEMMA UnitsAppended ==
  ASSUME NEW s \in Seq(Int), NEW d \in Int, IsFiniteSet(Units(s))
  PROVE  /\ IsFiniteSet(Units(Append(s, d))) /\ Cardinality(Units(s)) \in Nat
         /\ Cardinality(Units(Append(s, d))) = Cardinality(Units(s)) + (IF d < 0 THEN 0 - d ELSE 0)
<1> DEFINE n == Len(s)
           t == Append(s, d)
           Added == {n + 1} \X (1 .. 0 - d)
           Of(i) == {i} \X (1 .. 0 - t[i])
<1>1. /\ n \in Nat /\ DOMAIN s = 1 .. n /\ DOMAIN t = (1 .. n) \cup {n + 1} /\ n + 1 \notin 1 .. n
      /\ t[n + 1] = d /\ \A i \in 1 .. n : t[i] = s[i]
  BY Z3
<1>2. Units(t) = Units(s) \cup Added
  <2>1. Units(t) = UNION {Of(i) : i \in (1 .. n) \cup {n + 1}}
    BY <1>1 DEF Units
  <2>2. Units(s) = UNION {Of(i) : i \in 1 .. n}
    BY <1>1 DEF Units
  <2>3. Of(n + 1) = Added
    BY <1>1
  <2> HIDE DEF Of, Added, n, t
  <2>4. UNION {Of(i) : i \in (1 .. n) \cup {n + 1}} = (UNION {Of(i) : i \in 1 .. n}) \cup Of(n + 1)
    OBVIOUS
  <2>5. QED BY <2>1, <2>2, <2>3, <2>4
<1>3. Units(s) \cap Added = {}
  <2>1. \A u \in Units(s) : u[1] \in 1 .. n
    BY <1>1 DEF Units
  <2>2. \A u \in Added : u[1] = n + 1
    OBVIOUS
  <2>3. QED BY <1>1, <2>1, <2>2
<1>4. IsFiniteSet(Added) /\ Cardinality(Added) = (IF d < 0 THEN 0 - d ELSE 0)
  <2>1. PICK e \in Int : e = 0 - d
    OBVIOUS
  <2>2. IsFiniteSet(1 .. e) /\ Cardinality(1 .. e) = IF 1 > e THEN 0 ELSE e - 1 + 1
    BY FS_Interval
  <2>3. Cardinality(1 .. e) = (IF d < 0 THEN 0 - d ELSE 0) /\ Cardinality(1 .. e) \in Nat
    BY <2>1, <2>2
  <2>4. IsFiniteSet({n + 1}) /\ Cardinality({n + 1}) = 1
    BY FS_Singleton
  <2>5. IsFiniteSet({n + 1} \X (1 .. e)) /\ Cardinality({n + 1} \X (1 .. e)) = 1 * Cardinality(1 .. e)
    BY <2>2, <2>4, FS_Product
  <2>6. QED BY <2>1, <2>3, <2>5
<1>5. Cardinality(Units(s)) \in Nat /\ Cardinality(Units(s) \cap Added) = 0
  BY <1>3, FS_CardinalityType, FS_EmptySet
<1> HIDE DEF Added
<1>6. /\ IsFiniteSet(Units(s) \cup Added)
      /\ Cardinality(Units(s) \cup Added) = Cardinality(Units(s)) + Cardinality(Added) - Cardinality(Units(s) \cap Added)
  BY <1>4, FS_Union
<1>7. QED BY <1>2, <1>4, <1>5, <1>6

(* One sequence after the other: the second's units move up.               *)
LEMMA UnitsJoined ==
  ASSUME NEW s \in Seq(Int), NEW t \in Seq(Int), IsFiniteSet(Units(s)), IsFiniteSet(Units(t))
  PROVE  /\ IsFiniteSet(Units(s \o t)) /\ Cardinality(Units(s)) \in Nat /\ Cardinality(Units(t)) \in Nat
         /\ Cardinality(Units(s \o t)) = Cardinality(Units(s)) + Cardinality(Units(t))
<1> DEFINE n == Len(s)
           m == Len(t)
           Moved == {<<n + u[1], u[2]>> : u \in Units(t)}
           move == [u \in Units(t) |-> <<n + u[1], u[2]>>]
<1>1. /\ n \in Nat /\ m \in Nat /\ DOMAIN s = 1 .. n /\ DOMAIN t = 1 .. m /\ DOMAIN (s \o t) = 1 .. n + m
      /\ \A i \in 1 .. n : (s \o t)[i] = s[i]
      /\ \A i \in 1 .. m : (s \o t)[n + i] = t[i]
      /\ \A i \in 1 .. n + m : i \in 1 .. n \/ i - n \in 1 .. m
      /\ \A i \in 1 .. m : n + i \in 1 .. n + m
      /\ \A i \in 1 .. n : i \in 1 .. n + m
  <2>1. s \o t \in Seq(Int) /\ Len(s \o t) = n + m
    OBVIOUS
  <2>2. QED BY <2>1
<1>2. \A u \in Units(s) : u[1] \in 1 .. n
  BY <1>1 DEF Units
<1>3. \A u \in Units(t) : u[1] \in 1 .. m /\ u[2] \in 1 .. 0 - t[u[1]] /\ u = <<u[1], u[2]>>
  BY <1>1 DEF Units
<1>4. Units(s \o t) = Units(s) \cup Moved
  <2>1. ASSUME NEW u \in Units(s) PROVE u \in Units(s \o t)
    BY <1>1 DEF Units
  <2>2. ASSUME NEW u \in Units(t) PROVE <<n + u[1], u[2]>> \in Units(s \o t)
    <3>1. n + u[1] \in DOMAIN (s \o t) /\ (s \o t)[n + u[1]] = t[u[1]]
      BY <1>1, <1>3
    <3>2. <<n + u[1], u[2]>> \in {n + u[1]} \X (1 .. 0 - (s \o t)[n + u[1]])
      BY <1>3, <3>1
    <3>3. QED BY <3>1, <3>2 DEF Units
  <2>3. ASSUME NEW u \in Units(s \o t) PROVE u \in Units(s) \cup Moved
    <3>1. PICK i \in 1 .. n + m : u \in {i} \X (1 .. 0 - (s \o t)[i])
      BY <1>1 DEF Units
    <3>2. CASE i \in 1 .. n
      <4>1. u \in {i} \X (1 .. 0 - s[i]) /\ i \in DOMAIN s
        BY <1>1, <3>1, <3>2
      <4>2. QED BY <4>1 DEF Units
    <3>3. CASE i - n \in 1 .. m
      <4>1. (s \o t)[n + (i - n)] = t[i - n] /\ n + (i - n) = i
        BY <1>1, <3>3
      <4>2. PICK k \in 1 .. 0 - t[i - n] : u = <<i, k>>
        BY <3>1, <4>1
      <4>3. <<i - n, k>> \in {i - n} \X (1 .. 0 - t[i - n]) /\ i - n \in DOMAIN t
        BY <1>1, <3>3, <4>2
      <4>4. <<i - n, k>> \in Units(t)
        BY <4>3 DEF Units
      <4>5. u = <<n + <<i - n, k>>[1], <<i - n, k>>[2]>>
        BY <4>1, <4>2
      <4>6. QED BY <4>4, <4>5
    <3>4. QED BY <1>1, <3>2, <3>3
  <2>4. QED BY <2>1, <2>2, <2>3
<1>5. Units(s) \cap Moved = {}
  <2>1. \A u \in Moved : \E i \in 1 .. m : u[1] = n + i
    BY <1>3
  <2>2. \A i \in 1 .. m : n + i \notin 1 .. n
    BY <1>1
  <2>3. QED BY <1>2, <2>1, <2>2
<1>6. IsFiniteSet(Moved) /\ Cardinality(Moved) = Cardinality(Units(t))
  <2>1. move \in [Units(t) -> Moved] /\ \A v \in Moved : \E u \in Units(t) : move[u] = v
    OBVIOUS
  <2>2. ASSUME NEW u \in Units(t), NEW v \in Units(t), move[u] = move[v] PROVE u = v
    <3>1. n + u[1] = n + v[1] /\ u[2] = v[2]
      BY <2>2
    <3>2. u[1] \in Int /\ v[1] \in Int /\ n \in Int
      BY <1>1, <1>3
    <3>3. u[1] = v[1]
      BY <3>1, <3>2
    <3>4. QED BY <1>3, <3>1, <3>3
  <2> HIDE DEF move, Moved
  <2>3. move \in Bijection(Units(t), Moved)
    <3>1. move \in Injection(Units(t), Moved)
      BY <2>1, <2>2 DEF Injection, IsInjective
    <3>2. move \in Surjection(Units(t), Moved)
      BY <2>1 DEF Surjection
    <3>3. QED BY <3>1, <3>2 DEF Bijection
  <2>4. ExistsBijection(Units(t), Moved)
    BY <2>3 DEF ExistsBijection
  <2>5. QED BY <2>4, FS_Bijection
<1>7. /\ Cardinality(Units(s)) \in Nat /\ Cardinality(Units(t)) \in Nat /\ Cardinality(Units(s) \cap Moved) = 0
  BY <1>5, FS_CardinalityType, FS_EmptySet
<1> HIDE DEF Moved
<1>8. /\ IsFiniteSet(Units(s) \cup Moved)
      /\ Cardinality(Units(s) \cup Moved)
            = Cardinality(Units(s)) + Cardinality(Moved) - Cardinality(Units(s) \cap Moved)
  BY <1>6, FS_Union
<1>9. QED BY <1>4, <1>6, <1>7, <1>8

LEMMA NoUnits == Units(<<>>) = {} /\ IsFiniteSet(Units(<<>>)) /\ Cardinality(Units(<<>>)) = 0
<1>1. DOMAIN <<>> = {}
  OBVIOUS
<1>2. Units(<<>>) = {}
  BY <1>1 DEF Units
<1>3. QED BY <1>2, FS_EmptySet

(* A set of naturals has a smallest member.                                *)
LEMMA SmallestExists ==
  ASSUME NEW T, T \subseteq Nat, T # {}
  PROVE  \E x \in T : \A y \in T : x <= y
<1> DEFINE Before == OpToRel(<, Nat)
<1> HIDE DEF Before
<1>1. PICK x \in T : \A y \in T : ~ (<<y, x>> \in Before)
  BY NatLessThanWellFounded, WFMin DEF Before
<1>2. ASSUME NEW y \in T PROVE x <= y
  <2>1. <<y, x>> \in Nat \X Nat
    OBVIOUS
  <2>2. ~ (y < x)
    <3>1. SUFFICES ASSUME y < x PROVE <<y, x>> \in Before
      BY <1>1
    <3>2. <<y, x>>[1] < <<y, x>>[2]
      BY <3>1
    <3>3. QED BY <2>1, <3>2 DEF Before, OpToRel
  <2>3. QED BY <2>2
<1>3. QED BY <1>2

LEMMA LeastFound == Least \in Estimates /\ Least \in Nat /\ \A f \in Estimates : Least <= f
<1>1. Estimates \subseteq Nat /\ Estimates # {}
  BY AmountAssumption
<1>2. \E x \in Estimates : \A y \in Estimates : x <= y
  BY <1>1, SmallestExists
<1>3. QED BY <1>1, <1>2 DEF Least

-----------------------------------------------------------------------------
(* The invariant.                                                          *)

Charging(x) == pc[x] \in {"load", "flush", "commit"}
Writes(x) == pc[x] \in {"adjust", "grant", "flush"} \/ lock = x

(* What a session's uncommitted entries take.                              *)
Owed(x) == Cardinality(Units(pending[x]))

(* A transaction has the lock from its first charge on.                    *)
PendingIs(x) ==
    /\ IsFiniteSet(Units(pending[x]))
    /\ pc[x] = "commit" => lock = x
    /\ lock = x => Charging(x)
    /\ lock # x => pending[x] = <<>>

Floor == InitialBalance - Charged
Debt == Charged - Least

(* A session that will write has loaded what was the balance once.         *)
LoadedSoundly(x) == Writes(x) => loaded[x] >= Floor - Owed(x)

(* Above the debt, or nobody has been charged.                             *)
Afloat == balance >= 0 - Debt \/ (Charged = 0 /\ balance >= 0)

Covered(x) ==
    /\ pc[x] = "running" \/ Charging(x) => balance >= 0 - Debt
    /\ pc[x] \in {"adjust", "grant"} => loaded[x] + Amount >= 0 - Debt
    /\ Charging(x) /\ Writes(x) => loaded[x] >= 0 - Debt - Owed(x)

DebtInv ==
    /\ IsFiniteSet(Units(ledger)) /\ balance >= Floor
    /\ \A x \in Sessions : PendingIs(x) /\ LoadedSoundly(x)
    /\ Amount >= Least => Afloat /\ \A x \in Sessions : Covered(x)

LEMMA DebtNumbers ==
  ASSUME TypeOK, DebtInv
  PROVE  /\ Amount \in Nat /\ Least \in Nat /\ InitialBalance \in Nat /\ balance \in Int
         /\ Charged \in Nat /\ Floor \in Int /\ Debt \in Int
         /\ \A x \in Sessions : loaded[x] \in Int /\ pending[x] \in Seq(Int) /\ Owed(x) \in Nat /\ pc[x] \in WalletPc
<1>1. Amount \in Nat /\ Least \in Nat /\ InitialBalance \in Nat /\ balance \in Int
  BY AmountAssumption, LeastFound DEF TypeOK
<1>2. Charged \in Nat
  BY FS_CardinalityType DEF DebtInv, Charged
<1>3. ASSUME NEW x \in Sessions
      PROVE  loaded[x] \in Int /\ pending[x] \in Seq(Int) /\ Owed(x) \in Nat /\ pc[x] \in WalletPc
  BY FS_CardinalityType DEF TypeOK, DebtInv, PendingIs, Owed
<1>4. QED BY <1>1, <1>2, <1>3 DEF Floor, Debt

LEMMA InitDebtInv == Init => DebtInv
<1> SUFFICES ASSUME Init PROVE DebtInv
  OBVIOUS
<1>1. IsFiniteSet(Units(ledger)) /\ Charged = 0
  BY NoUnits DEF Init, Charged
<1>2. \A x \in Sessions : pc[x] = "new" /\ lock # x /\ pending[x] = <<>>
  BY SessionAssumption DEF Init
<1>3. \A x \in Sessions : PendingIs(x) /\ LoadedSoundly(x) /\ Covered(x)
  BY <1>2, NoUnits DEF PendingIs, LoadedSoundly, Covered, Charging, Writes
<1>4. balance = InitialBalance /\ balance \in Nat /\ Charged = 0
  BY <1>1, AmountAssumption DEF Init
<1>5. balance >= Floor /\ Afloat
  BY <1>4 DEF Floor, Afloat
<1>6. QED BY <1>1, <1>3, <1>5 DEF DebtInv

(* What a step does to the other sessions.                                 *)
LEMMA OthersStay ==
  ASSUME TypeOK, DebtInv, NEW x \in Sessions, Session(x), NEW y \in Sessions, y # x
  PROVE  /\ pc'[y] = pc[y] /\ loaded'[y] = loaded[y] /\ pending'[y] = pending[y]
         /\ lock' = y <=> lock = y
<1>1. pc[x] = "commit" => lock = x
  BY DEF DebtInv, PendingIs
<1>2. lock' = lock \/ (lock \in {NoSession, x} /\ lock' \in {NoSession, x})
  BY <1>1 DEF Session, Authorize, EndRun, LoadForUsage, FlushUsage, FlushEvent, CommitUsage, LoadForAdjust, Adjust,
     Approve, Grant, MarkApproved, Deny, AlreadyReviewed, Crash, CommitWallet
<1>3. pc'[y] = pc[y] /\ loaded'[y] = loaded[y] /\ pending'[y] = pending[y]
  BY DEF TypeOK, Session, Authorize, EndRun, LoadForUsage, FlushUsage, FlushEvent, CommitUsage, LoadForAdjust, Adjust,
     Approve, Grant, MarkApproved, Deny, AlreadyReviewed, Crash, CommitWallet, Goto, Load
<1>4. QED BY <1>2, <1>3, SessionAssumption

(* The bounds go down with every charge.                                   *)
LEMMA BoundsGoDown ==
  ASSUME TypeOK, DebtInv, NEW x \in Sessions, Session(x)
  PROVE  /\ IsFiniteSet(Units(ledger')) /\ Charged' \in Nat /\ Floor' \in Int /\ Debt' \in Int
         /\ Charged' = Charged + (IF CommitUsage(x) THEN Owed(x) ELSE 0)
         /\ Floor' = Floor - (IF CommitUsage(x) THEN Owed(x) ELSE 0)
         /\ Debt' = Debt + (IF CommitUsage(x) THEN Owed(x) ELSE 0)
<1>1. /\ ledger \in Seq(Int) /\ IsFiniteSet(Units(ledger)) /\ pending[x] \in Seq(Int) /\ IsFiniteSet(Units(pending[x]))
      /\ Charged \in Nat /\ Owed(x) \in Nat /\ InitialBalance \in Nat /\ Least \in Nat
  BY DebtNumbers DEF DebtInv, PendingIs, TypeOK
<1>2. IsFiniteSet(Units(ledger')) /\ Charged' = Charged + (IF CommitUsage(x) THEN Owed(x) ELSE 0)
  <2>1. CASE CommitUsage(x)
    <3>1. ledger' = ledger \o pending[x]
      BY <2>1 DEF CommitUsage, CommitWallet
    <3>2. /\ IsFiniteSet(Units(ledger'))
          /\ Cardinality(Units(ledger')) = Cardinality(Units(ledger)) + Cardinality(Units(pending[x]))
      BY <1>1, <3>1, UnitsJoined
    <3>3. QED BY <2>1, <3>2 DEF Charged, Owed
  <2>2. CASE ~ CommitUsage(x)
    <3>1. ledger' = ledger \/ ledger' = ledger \o <<Amount>>
      BY <2>2 DEF Session, Authorize, EndRun, LoadForUsage, FlushUsage, FlushEvent, LoadForAdjust, Adjust, Approve,
         Grant, MarkApproved, Deny, AlreadyReviewed, Crash, CommitWallet
    <3>2. Amount \in Int /\ ~ (Amount < 0)
      BY AmountAssumption
    <3>3. ledger \o <<Amount>> = Append(ledger, Amount)
      BY <1>1, <3>2
    <3>4. /\ IsFiniteSet(Units(Append(ledger, Amount)))
          /\ Cardinality(Units(Append(ledger, Amount))) = Cardinality(Units(ledger)) + 0
      BY <1>1, <3>2, UnitsAppended
    <3>5. Cardinality(Units(ledger)) + 0 = Cardinality(Units(ledger))
      BY <1>1 DEF Charged
    <3>6. QED BY <1>1, <2>2, <3>1, <3>3, <3>4, <3>5 DEF Charged
  <2>3. QED BY <2>1, <2>2
<1>3. QED BY <1>1, <1>2 DEF Floor, Debt

(* What is written back is no less than the bounds allow.                  *)
LEMMA BalanceStep ==
  ASSUME TypeOK, DebtInv, NEW x \in Sessions, Session(x)
  PROVE  /\ balance' >= Floor'
         /\ Amount >= Least => \/ balance' = balance /\ Charged' = Charged /\ Debt' = Debt
                               \/ balance' >= 0 - Debt'
<1>1. PendingIs(x) /\ LoadedSoundly(x) /\ balance >= Floor /\ (Amount >= Least => Covered(x))
  BY DEF DebtInv
<1>2. /\ Amount \in Nat /\ balance \in Int /\ Floor \in Int /\ Debt \in Int /\ Charged \in Nat
      /\ loaded[x] \in Int /\ Owed(x) \in Nat
  BY DebtNumbers
<1>3. CASE CommitUsage(x)
  <2>1. balance' = loaded[x] /\ pc[x] = "commit" /\ lock = x
    BY <1>1, <1>3 DEF CommitUsage, CommitWallet, PendingIs
  <2>2. loaded[x] >= Floor - Owed(x) /\ (Amount >= Least => loaded[x] >= 0 - Debt - Owed(x))
    BY <1>1, <2>1 DEF LoadedSoundly, Covered, Writes, Charging
  <2>3. Floor' = Floor - Owed(x) /\ Debt' = Debt + Owed(x)
    BY <1>3, BoundsGoDown
  <2>4. QED BY <1>2, <2>1, <2>2, <2>3
<1>4. CASE Adjust(x) \/ Grant(x)
  <2>1. balance' = loaded[x] + Amount /\ pc[x] \in {"adjust", "grant"} /\ ~ CommitUsage(x)
    BY <1>4 DEF Adjust, Grant, CommitWallet, CommitUsage
  <2>2. pending[x] = <<>> /\ Owed(x) = 0
    BY <1>1, <2>1, NoUnits DEF PendingIs, Charging, Owed
  <2>3. loaded[x] >= Floor /\ (Amount >= Least => loaded[x] + Amount >= 0 - Debt)
    BY <1>1, <1>2, <2>1, <2>2 DEF LoadedSoundly, Covered, Writes
  <2>4. Floor' = Floor /\ Debt' = Debt
    BY <1>2, <2>1, BoundsGoDown
  <2>5. QED BY <1>2, <2>1, <2>3, <2>4
<1>5. CASE ~ CommitUsage(x) /\ ~ Adjust(x) /\ ~ Grant(x)
  <2>1. balance' = balance
    BY <1>5 DEF Session, Authorize, EndRun, LoadForUsage, FlushUsage, FlushEvent, LoadForAdjust, Approve,
       MarkApproved, Deny, AlreadyReviewed, Crash
  <2>2. Floor' = Floor /\ Debt' = Debt /\ Charged' = Charged
    BY <1>2, <1>5, BoundsGoDown
  <2>3. QED BY <1>1, <2>1, <2>2
<1>6. QED BY <1>3, <1>4, <1>5

(* The others' snapshots stay above the bounds, which only go down.        *)
LEMMA OthersDebt ==
  ASSUME TypeOK, DebtInv, NEW x \in Sessions, Session(x), NEW y \in Sessions, y # x
  PROVE  PendingIs(y)' /\ LoadedSoundly(y)' /\ (Amount >= Least => Covered(y)')
<1>1. /\ pc'[y] = pc[y] /\ loaded'[y] = loaded[y] /\ pending'[y] = pending[y]
      /\ lock' = y <=> lock = y
  BY OthersStay
<1>2. PendingIs(y) /\ LoadedSoundly(y) /\ (Amount >= Least => Covered(y))
  BY DEF DebtInv
<1>3. PendingIs(y)'
  BY <1>1, <1>2 DEF PendingIs, Charging
<1>4. Owed(y)' = Owed(y)
  BY <1>1 DEF Owed
<1>5. /\ loaded[y] \in Int /\ Owed(y) \in Nat /\ Floor' \in Int /\ Floor' <= Floor /\ Floor \in Int
      /\ Debt \in Int /\ Debt' \in Int /\ Debt' >= Debt /\ balance \in Int /\ balance' \in Int /\ Amount \in Nat
  <2>1. /\ loaded[y] \in Int /\ Owed(y) \in Nat /\ Owed(x) \in Nat /\ Floor \in Int /\ Debt \in Int /\ balance \in Int
        /\ Amount \in Nat
    BY DebtNumbers
  <2>2. balance' \in Int
    BY SessionTypes DEF TypeOK
  <2>3. CASE CommitUsage(x)
    BY <2>1, <2>2, <2>3, BoundsGoDown
  <2>4. CASE ~ CommitUsage(x)
    BY <2>1, <2>2, <2>4, BoundsGoDown
  <2>5. QED BY <2>3, <2>4
<1>6. LoadedSoundly(y)'
  BY <1>1, <1>2, <1>4, <1>5 DEF LoadedSoundly, Writes
<1>7. ASSUME Amount >= Least PROVE Covered(y)'
  <2>1. pc[y] = "running" \/ Charging(y) => balance' >= 0 - Debt'
    BY <1>2, <1>5, <1>7, BalanceStep DEF Covered
  <2>2. pc[y] \in {"adjust", "grant"} => loaded[y] + Amount >= 0 - Debt'
    BY <1>2, <1>5, <1>7 DEF Covered
  <2>3. Charging(y) /\ Writes(y) => loaded[y] >= 0 - Debt' - Owed(y)
    BY <1>2, <1>5, <1>7 DEF Covered
  <2>4. QED BY <1>1, <1>4, <2>1, <2>2, <2>3 DEF Covered, Charging, Writes
<1>8. QED BY <1>3, <1>6, <1>7

(* What a session loads is the balance, and what it charges it subtracts.  *)
LEMMA OwnDebt ==
  ASSUME TypeOK, DebtInv, NEW x \in Sessions, Session(x)
  PROVE  PendingIs(x)' /\ LoadedSoundly(x)' /\ (Amount >= Least => Covered(x)')
<1>1. /\ PendingIs(x) /\ LoadedSoundly(x) /\ balance >= Floor
      /\ (Amount >= Least => Afloat /\ Covered(x))
  BY DEF DebtInv
<1>2. /\ pc \in [Sessions -> WalletPc] /\ pending \in [Sessions -> Seq(Int)] /\ loaded \in [Sessions -> Int]
      /\ lock \in Sessions \cup {NoSession} /\ x # NoSession
  BY SessionAssumption DEF TypeOK
<1>3. /\ Amount \in Nat /\ Least \in Nat /\ balance \in Int /\ loaded[x] \in Int /\ Charged \in Nat
      /\ Floor \in Int /\ Debt \in Int /\ Owed(x) \in Nat /\ (Charged = 0 => Debt = 0 - Least)
  BY DebtNumbers DEF Debt
<1>4. lock # x => pending[x] = <<>> /\ Owed(x) = 0
  BY <1>1, NoUnits DEF PendingIs, Owed
<1>5. CASE LoadForUsage(x)
  <2>1. /\ pc'[x] = "flush" /\ pc[x] = "load" /\ loaded'[x] = Visible(x)
        /\ UNCHANGED <<pending, lock, balance, ledger>>
    BY <1>2, <1>5 DEF LoadForUsage, Goto, Load
  <2>2. Floor' = Floor /\ Debt' = Debt /\ Owed(x)' = Owed(x)
    BY <2>1 DEF Floor, Debt, Charged, Owed
  <2>3. PendingIs(x)'
    BY <1>1, <2>1 DEF PendingIs, Charging
  <2>4. LoadedSoundly(x)'
    BY <1>1, <1>3, <1>4, <2>1, <2>2 DEF LoadedSoundly, Visible, Writes
  <2>5. ASSUME Amount >= Least PROVE Covered(x)'
    BY <1>1, <1>3, <1>4, <2>1, <2>2, <2>5 DEF Covered, Visible, Writes, Charging
  <2>6. QED BY <2>3, <2>4, <2>5
<1>6. CASE FlushUsage(x)
  <2>1. PICK cost \in Costs : FlushEvent(x, cost, cost)
    BY <1>6 DEF FlushUsage
  <2>2. /\ pc'[x] \in {"load", "commit"} /\ pc[x] = "flush"
        /\ loaded'[x] = loaded[x] - cost /\ pending'[x] = Append(pending[x], 0 - cost) /\ lock' = x
        /\ UNCHANGED <<balance, ledger>>
    BY <1>2, <1>6, <2>1 DEF FlushUsage, FlushEvent, Goto
  <2>3. Floor' = Floor /\ Debt' = Debt
    BY <2>2 DEF Floor, Debt, Charged
  <2>4. cost \in Nat /\ 0 - cost \in Int
    BY AmountAssumption
  <2>5. IsFiniteSet(Units(pending'[x])) /\ Owed(x)' = Owed(x) + cost
    <3>1. pending[x] \in Seq(Int) /\ IsFiniteSet(Units(pending[x]))
      BY <1>1, <1>2 DEF PendingIs
    <3>2. /\ IsFiniteSet(Units(Append(pending[x], 0 - cost)))
          /\ Cardinality(Units(Append(pending[x], 0 - cost)))
                = Cardinality(Units(pending[x])) + (IF 0 - cost < 0 THEN 0 - (0 - cost) ELSE 0)
      BY <2>4, <3>1, UnitsAppended
    <3>3. (IF 0 - cost < 0 THEN 0 - (0 - cost) ELSE 0) = cost
      BY <2>4
    <3>4. QED BY <2>2, <3>2, <3>3 DEF Owed
  <2>6. PendingIs(x)'
    BY <2>2, <2>5 DEF PendingIs, Charging
  <2>7. loaded[x] >= Floor - Owed(x) /\ (Amount >= Least => loaded[x] >= 0 - Debt - Owed(x) /\ balance >= 0 - Debt)
    BY <1>1, <2>2 DEF LoadedSoundly, Covered, Writes, Charging
  <2>8. /\ loaded'[x] >= Floor' - Owed(x)'
        /\ Amount >= Least => loaded'[x] >= 0 - Debt' - Owed(x)' /\ balance' >= 0 - Debt'
    BY <1>3, <2>2, <2>3, <2>4, <2>5, <2>7
  <2>9. QED BY <2>2, <2>6, <2>8 DEF LoadedSoundly, Covered
<1>7. CASE LoadForAdjust(x) \/ Approve(x)
  <2>1. /\ pc'[x] \in {"adjust", "grant"} /\ pc[x] = "new" /\ loaded'[x] = Visible(x)
        /\ UNCHANGED <<pending, lock, balance, ledger>>
    BY <1>2, <1>7 DEF LoadForAdjust, Approve, Goto, Load
  <2>2. Floor' = Floor /\ Debt' = Debt /\ Owed(x)' = Owed(x)
    BY <2>1 DEF Floor, Debt, Charged, Owed
  <2>3. lock # x /\ loaded'[x] = balance
    BY <1>1, <2>1 DEF PendingIs, Charging, Visible
  <2>4. PendingIs(x)'
    BY <1>1, <2>1 DEF PendingIs, Charging
  <2>5. LoadedSoundly(x)'
    BY <1>1, <1>3, <1>4, <2>2, <2>3 DEF LoadedSoundly
  <2>6. ASSUME Amount >= Least PROVE Covered(x)'
    <3>1. balance + Amount >= 0 - Debt
      BY <1>1, <1>3, <2>6 DEF Afloat
    <3>2. QED BY <2>1, <2>2, <2>3, <3>1 DEF Covered, Charging
  <2>7. QED BY <2>4, <2>5, <2>6
<1>8. CASE Authorize(x)
  <2>1. PICK estimate \in Estimates :
           /\ pc'[x] = (IF estimate > balance THEN "done" ELSE "running") /\ pc[x] = "new"
           /\ UNCHANGED <<pending, lock, loaded, balance, ledger>>
    BY <1>2, <1>8 DEF Authorize, Goto
  <2>2. Debt' = Debt
    BY <2>1 DEF Debt, Charged
  <2>3. lock # x
    BY <1>1, <2>1 DEF PendingIs, Charging
  <2>4. PendingIs(x)' /\ LoadedSoundly(x)'
    BY <1>1, <2>1, <2>3 DEF PendingIs, LoadedSoundly, Charging, Writes
  <2>5. estimate \in Nat /\ Least <= estimate
    BY AmountAssumption, LeastFound
  <2>6. ASSUME Amount >= Least PROVE Covered(x)'
    BY <1>1, <1>3, <2>1, <2>2, <2>5, <2>6 DEF Covered, Charging, Afloat
  <2>7. QED BY <2>4, <2>6
<1>9. CASE CommitUsage(x) \/ Crash(x)
  <2>1. pc'[x] = "done" /\ pending'[x] = <<>> /\ lock' # x
    BY <1>2, <1>9 DEF CommitUsage, CommitWallet, Crash, Goto
  <2>2. QED BY <2>1, NoUnits DEF PendingIs, LoadedSoundly, Covered, Charging, Writes
<1>10. CASE EndRun(x)
  <2>1. pc[x] = "running" /\ pc'[x] = "load" /\ UNCHANGED <<pending, lock, loaded, balance, ledger>>
    BY <1>2, <1>10 DEF EndRun, Goto
  <2>2. Debt' = Debt
    BY <2>1 DEF Debt, Charged
  <2>3. lock # x
    BY <1>1, <2>1 DEF PendingIs, Charging
  <2>4. QED BY <1>1, <2>1, <2>2, <2>3 DEF PendingIs, LoadedSoundly, Covered, Charging, Writes
<1>11. CASE Adjust(x) \/ Grant(x) \/ MarkApproved(x) \/ Deny(x) \/ AlreadyReviewed(x)
  <2>1. /\ pc[x] \in {"adjust", "grant", "mark", "new"} /\ pc'[x] \in {"mark", "done"} /\ UNCHANGED pending
        /\ lock' \in {lock, NoSession}
    BY <1>2, <1>11 DEF Adjust, Grant, MarkApproved, Deny, AlreadyReviewed, CommitWallet, Goto
  <2>2. lock # x
    BY <1>1, <2>1 DEF PendingIs, Charging
  <2>3. QED BY <1>1, <1>2, <2>1, <2>2 DEF PendingIs, LoadedSoundly, Covered, Charging, Writes
<1>12. QED BY <1>5, <1>6, <1>7, <1>8, <1>9, <1>10, <1>11 DEF Session

LEMMA NextDebtInv == TypeOK /\ DebtInv /\ [Next]_vars => DebtInv'
<1> SUFFICES ASSUME TypeOK, DebtInv, [Next]_vars PROVE DebtInv'
  OBVIOUS
<1>1. ASSUME NEW x \in Sessions, Session(x) PROVE DebtInv'
  <2>1. \A y \in Sessions : PendingIs(y)' /\ LoadedSoundly(y)' /\ (Amount >= Least => Covered(y)')
    BY <1>1, OthersDebt, OwnDebt
  <2>2. IsFiniteSet(Units(ledger')) /\ balance' >= Floor'
    BY <1>1, BoundsGoDown, BalanceStep
  <2>3. ASSUME Amount >= Least PROVE Afloat'
    <3>1. Afloat
      BY <2>3 DEF DebtInv
    <3>2. QED BY <1>1, <2>3, <3>1, BalanceStep DEF Afloat
  <2>4. QED BY <2>1, <2>2, <2>3 DEF DebtInv
<1>2. CASE UNCHANGED vars
  BY <1>2 DEF vars, sessionVars, DebtInv, Charged, Floor, Debt, Afloat, PendingIs, LoadedSoundly, Covered, Owed,
     Charging, Writes
<1>3. QED BY <1>1, <1>2 DEF Next, AllDone

LEMMA DebtInvMeans == TypeOK /\ DebtInv => OverdraftBounded /\ NeverOvercharged
<1> SUFFICES ASSUME TypeOK, DebtInv PROVE OverdraftBounded /\ NeverOvercharged
  OBVIOUS
<1>1. Charged \in Nat /\ Least \in Nat /\ balance \in Int
  BY DebtNumbers
<1>2. ASSUME Amount >= Least, Charged > 0 PROVE balance >= Least - Charged
  <2>1. balance >= 0 - (Charged - Least)
    BY <1>1, <1>2 DEF DebtInv, Afloat, Debt
  <2>2. QED BY <1>1, <2>1
<1>3. QED BY <1>2 DEF DebtInv, Floor, OverdraftBounded, NeverOvercharged

-----------------------------------------------------------------------------
(* PaygAccount, of any plan.  A review that has passed its first commit    *)
(* has raised the cap.                                                     *)

RaisedFirst == \A q \in Reviews : place[q] \in {"mark", "done"} => q \in granted

OneInserter == inserter = {} \/ \E r \in Callers : inserter = {r}

ChargeLeft(plan) == storage # 0 => ticks < plan.ticks

PaygInv(plan) ==
    /\ Payg(plan)!TypeOK /\ (\E D : drafts \in Seq(D))
    /\ RaisedFirst /\ OneInserter /\ ChargeLeft(plan)

LEMMA PaygInvMeans ==
  ASSUME NEW plan, PaygInv(plan)
  PROVE  Payg(plan)!TypeOK /\ Payg(plan)!ApprovedIsApplied
  BY DEF PaygInv, RaisedFirst, Payg!ApprovedIsApplied

(* Minimum finds the least of some prices.                                 *)
LEMMA MinimumFound ==
  ASSUME NEW plan, NEW T, T \subseteq Nat, T # {}
  PROVE  Payg(plan)!Minimum(T) \in T /\ \A y \in T : Payg(plan)!Minimum(T) <= y
  BY SmallestExists DEF Payg!Minimum

LEMMA InserterCounts ==
  ASSUME NEW plan, NEW S, S = {} \/ \E r : S = {r}
  PROVE  Payg(plan)!Cardinality(S) <= 1
<1>1. Payg(plan)!Cardinality(S) = Cardinality(S)
  BY DEF Payg!Cardinality, Cardinality
<1>2. Cardinality(S) = 0 \/ Cardinality(S) = 1
  BY FS_EmptySet, FS_Singleton
<1>3. QED BY <1>1, <1>2

LEMMA PlanNumbers ==
  ASSUME NEW plan \in Plans
  PROVE  /\ plan.prices \subseteq Nat /\ plan.prices # {} /\ plan.durations \subseteq Nat
         /\ plan.months \in Nat /\ plan.months > 0 /\ plan.ticks \in Nat
         /\ Seconds \in Nat /\ Raise \in Nat /\ SpendCap \in Nat \cup {Payg(plan)!NoCap}
  BY PlansAssumption DEF Payg!NoCap

PaygPlaces == {"new", "insert", "authorize", "running", "commit", "mark", "done", "denied", "error"}

LEMMA InitPaygInv == ASSUME NEW plan \in Plans, Payg(plan)!Init PROVE PaygInv(plan)
<1>1. Payg(plan)!TypeOK
  <2>1. price \in plan.prices /\ month \in 1 .. plan.months /\ ticks \in 0 .. plan.ticks /\ storage \in 0 .. month
        /\ began \in [Callers -> 1 .. month]
    BY PlanNumbers, MinimumFound DEF Payg!Init
  <2>2. Payg(plan)!Cardinality(inserter) <= 1
    BY InserterCounts DEF Payg!Init
  <2>3. DOMAIN drafts = {}
    BY DEF Payg!Init
  <2>4. QED BY <2>1, <2>2, <2>3, PlanNumbers DEF Payg!Init, Payg!TypeOK
<1>2. drafts \in Seq({}) /\ RaisedFirst /\ OneInserter /\ ChargeLeft(plan)
  BY DEF Payg!Init, RaisedFirst, OneInserter, ChargeLeft
<1>3. QED BY <1>1, <1>2 DEF PaygInv

-----------------------------------------------------------------------------

(* A row more.                                                             *)
LEMMA RowTyped ==
  ASSUME NEW plan \in Plans, PaygInv(plan), NEW u, u.month \in 1 .. plan.months, u.cost \in Nat,
         usage' = usage \cup {u} \/ usage' = usage
  PROVE  usage \subseteq usage' /\ \A v \in usage' : v.month \in 1 .. plan.months /\ v.cost \in Nat
  BY DEF PaygInv, Payg!TypeOK

(* The row of a run that ends, and of a storage charge.                    *)
LEMMA RecordedRow ==
  ASSUME NEW plan \in Plans, PaygInv(plan), NEW r \in Callers, Payg(plan)!Record(r)
  PROVE  \E u : /\ u.who = <<r, Payg(plan)!Ran(r)>> /\ u.month = began[r] /\ u.cost \in Nat
                /\ u.month \in 1 .. plan.months /\ u.month <= month /\ usage' = usage \cup {u}
<1>1. PICK seconds \in plan.durations :
        usage' = usage \cup {[who |-> <<r, Payg(plan)!Ran(r)>>, month |-> began[r], cost |-> seconds * price]}
  BY DEF Payg!Record
<1>2. /\ seconds \in Nat /\ price \in Nat /\ began[r] \in 1 .. month /\ month \in 1 .. plan.months
      /\ plan.months \in Nat
  BY PlanNumbers DEF PaygInv, Payg!TypeOK
<1>3. seconds * price \in Nat /\ began[r] \in 1 .. plan.months /\ began[r] <= month
  BY <1>2
<1> WITNESS [who |-> <<r, Payg(plan)!Ran(r)>>, month |-> began[r], cost |-> seconds * price]
<1>4. QED BY <1>1, <1>3

LEMMA StorageRow ==
  ASSUME NEW plan \in Plans, PaygInv(plan), Payg(plan)!BillStorage
  PROVE  \E u : /\ u.who = <<"storage", ticks>> /\ u.month = storage /\ u.cost \in Nat
                /\ u.month \in 1 .. plan.months /\ u.month <= month /\ usage' = usage \cup {u}
<1>1. usage' = usage \cup {[who |-> <<"storage", ticks>>, month |-> storage, cost |-> price]} /\ storage # 0
  BY DEF Payg!BillStorage, Payg!Storage
<1>2. price \in Nat /\ storage \in 0 .. month /\ month \in 1 .. plan.months /\ plan.months \in Nat
  BY PlanNumbers DEF PaygInv, Payg!TypeOK
<1>3. storage \in 1 .. plan.months /\ storage <= month
  BY <1>1, <1>2
<1> WITNESS [who |-> <<"storage", ticks>>, month |-> storage, cost |-> price]
<1>4. QED BY <1>1, <1>2, <1>3

(* What a caller's step does to its place, and what it leaves alone.       *)
LEMMA PaygCallerSteps ==
  ASSUME NEW plan \in Plans, PaygInv(plan), NEW r \in Callers,
         \/ Payg(plan)!Begin(r) \/ Payg(plan)!Insert(r) \/ Payg(plan)!Authorize(r) \/ Payg(plan)!Record(r)
         \/ Payg(plan)!Crash(r)
  PROVE  PaygInv(plan)'
<1> USE DEF PaygInv
<1>1. UNCHANGED <<cap, price, month, ticks, storage, seenCap, granted, drafts>>
  BY DEF Payg!Begin, Payg!Insert, Payg!Authorize, Payg!Record, Payg!Crash, Payg!reviewVars, Payg!storageVars,
         Payg!accountVars
<1>2. \E x \in PaygPlaces : place' = [place EXCEPT ![r] = x]
  BY DEF Payg!Begin, Payg!Insert, Payg!Authorize, Payg!Record, Payg!Crash, Payg!Go, PaygPlaces
<1>3. place' \in [Callers \cup Reviews -> PaygPlaces] /\ \A q \in Reviews : place'[q] = place[q]
  BY <1>2, PlansAssumption DEF Payg!TypeOK, PaygPlaces
<1>4. RaisedFirst'
  BY <1>1, <1>3 DEF RaisedFirst
<1>5. OneInserter' /\ inserter' \subseteq Callers /\ Payg(plan)!Cardinality(inserter') <= 1
  <2>1. inserter' = inserter \/ inserter' = {r} \/ inserter' = inserter \ {r}
    BY DEF Payg!Begin, Payg!Insert, Payg!Authorize, Payg!Record, Payg!Crash, Payg!accountVars, Payg!Rollback
  <2>2. inserter' = {} \/ \E q \in Callers : inserter' = {q}
    BY <2>1 DEF OneInserter
  <2>3. QED BY <2>2, InserterCounts DEF OneInserter
<1>6. began' \in [Callers -> 1 .. month] /\ account' \in {"absent", "payg"}
  <2>1. month \in 1 .. month
    BY PlanNumbers DEF Payg!TypeOK
  <2>2. began' = began \/ began' = [began EXCEPT ![r] = month]
    BY DEF Payg!Begin, Payg!Insert, Payg!Authorize, Payg!Record, Payg!Crash
  <2>3. account' \in {account, "payg"}
    BY DEF Payg!Begin, Payg!Insert, Payg!Authorize, Payg!Record, Payg!Crash, Payg!accountVars
  <2>4. QED BY <2>1, <2>2, <2>3 DEF Payg!TypeOK
<1>7. usage \subseteq usage' /\ \A u \in usage' : u.month \in 1 .. plan.months /\ u.cost \in Nat
  <2>1. CASE usage' = usage
    BY <2>1 DEF Payg!TypeOK
  <2>2. CASE Payg(plan)!Record(r)
    BY <2>2, RecordedRow, RowTyped
  <2>3. QED BY <2>1, <2>2 DEF Payg!Begin, Payg!Insert, Payg!Authorize, Payg!Crash
<1>8. Payg(plan)!TypeOK'
  BY <1>1, <1>3, <1>5, <1>6, <1>7 DEF Payg!TypeOK, PaygPlaces
<1>9. QED BY <1>1, <1>4, <1>5, <1>8 DEF ChargeLeft

LEMMA PaygReviewSteps ==
  ASSUME NEW plan \in Plans, PaygInv(plan), NEW q \in Reviews,
         \/ Payg(plan)!Review(q) \/ Payg(plan)!SetCap(q) \/ Payg(plan)!MarkApproved(q) \/ Payg(plan)!CrashReview(q)
  PROVE  PaygInv(plan)'
<1> USE DEF PaygInv
<1>1. UNCHANGED <<account, inserter, price, month, usage, ticks, storage, began, drafts>>
  BY DEF Payg!Review, Payg!SetCap, Payg!MarkApproved, Payg!CrashReview, Payg!reviewVars, Payg!storageVars,
         Payg!accountVars
<1>2. \/ UNCHANGED granted /\ \E x \in PaygPlaces \ {"mark", "done"} : place' = [place EXCEPT ![q] = x]
      \/ granted' = granted \cup {q} /\ place' = [place EXCEPT ![q] = "mark"]
      \/ UNCHANGED granted /\ place[q] = "mark" /\ place' = [place EXCEPT ![q] = "done"]
  BY DEF Payg!Review, Payg!SetCap, Payg!MarkApproved, Payg!CrashReview, Payg!Go, Payg!reviewVars, PaygPlaces
<1>3. place \in [Callers \cup Reviews -> PaygPlaces] /\ granted \subseteq Reviews
  BY DEF Payg!TypeOK, PaygPlaces
<1>4. place' \in [Callers \cup Reviews -> PaygPlaces] /\ granted' \subseteq Reviews
  BY <1>2, <1>3 DEF PaygPlaces
<1>5. RaisedFirst'
  BY <1>2, <1>3 DEF RaisedFirst
<1>6. cap' \in Nat \cup {Payg(plan)!NoCap} /\ seenCap' \in [Reviews -> Nat \cup {Payg(plan)!NoCap}]
  <2>1. cap \in Nat \cup {Payg(plan)!NoCap} /\ seenCap \in [Reviews -> Nat \cup {Payg(plan)!NoCap}]
    BY DEF Payg!TypeOK
  <2>2. Payg(plan)!Raised(seenCap[q]) \in Nat
    BY <2>1, PlanNumbers DEF Payg!Raised
  <2>3. /\ cap' = cap \/ cap' = Payg(plan)!Raised(seenCap[q])
        /\ seenCap' = seenCap \/ seenCap' = [seenCap EXCEPT ![q] = cap]
    BY DEF Payg!Review, Payg!SetCap, Payg!MarkApproved, Payg!CrashReview, Payg!reviewVars, Payg!accountVars
  <2>4. QED BY <2>1, <2>2, <2>3
<1>7. Payg(plan)!TypeOK'
  <2>1. Payg(plan)!Cardinality(inserter') <= 1
    BY <1>1, InserterCounts DEF OneInserter
  <2>2. QED BY <1>1, <1>4, <1>6, <2>1 DEF Payg!TypeOK, PaygPlaces
<1>8. OneInserter' /\ ChargeLeft(plan)' /\ \E D : drafts' \in Seq(D)
  BY <1>1 DEF OneInserter, ChargeLeft
<1>9. QED BY <1>5, <1>7, <1>8

IsDraft(plan, at, d) ==
    /\ d.from \in 1 .. plan.months /\ d.until \in d.from + 1 .. plan.months + 1
    /\ d.at \in 1 .. at /\ d.rows \subseteq usage

(* What a draft appends.                                                   *)
Appended(plan, from, until, n) ==
    /\ DOMAIN drafts = 1 .. n /\ DOMAIN drafts' = 1 .. n + 1 /\ \E D : drafts' \in Seq(D)
    /\ \A i \in 1 .. n : drafts'[i] = drafts[i]
    /\ \A i \in 1 .. n + 1 : i \in 1 .. n \/ i = n + 1
    /\ drafts'[n + 1].from = from /\ drafts'[n + 1].until = until /\ drafts'[n + 1].at = month
    /\ drafts'[n + 1].rows = Payg(plan)!Between(from, until) /\ drafts'[n + 1].open = Payg(plan)!Open
    /\ from < until

LEMMA DraftAppended ==
  ASSUME NEW plan \in Plans, PaygInv(plan), NEW from \in 1 .. plan.months + 1, NEW until \in 1 .. plan.months + 1,
         Payg(plan)!Settle(from, until)
  PROVE  \E n \in Nat : Appended(plan, from, until, n)
<1> DEFINE new == [from |-> from, until |-> until, at |-> month,
                   rows |-> Payg(plan)!Between(from, until), open |-> Payg(plan)!Open]
<1>1. drafts' = Append(drafts, new) /\ from < until
  BY DEF Payg!Settle, Payg!Drafted
<1>2. PICK D : drafts \in Seq(D)
  BY DEF PaygInv
<1>3. /\ new.from = from /\ new.until = until /\ new.at = month /\ new.rows = Payg(plan)!Between(from, until)
      /\ new.open = Payg(plan)!Open
  OBVIOUS
<1> HIDE DEF new
<1>4. drafts \in Seq(D \cup {new}) /\ new \in D \cup {new}
  BY <1>2
<1>5. /\ Len(drafts) \in Nat /\ DOMAIN drafts = 1 .. Len(drafts) /\ DOMAIN drafts' = 1 .. Len(drafts) + 1
      /\ drafts' \in Seq(D \cup {new}) /\ drafts'[Len(drafts) + 1] = new
      /\ \A i \in 1 .. Len(drafts) : drafts'[i] = drafts[i]
  BY <1>1, <1>4
<1>6. \A i \in 1 .. Len(drafts) + 1 : i \in 1 .. Len(drafts) \/ i = Len(drafts) + 1
  BY <1>5
<1>7. QED BY <1>1, <1>3, <1>5, <1>6 DEF Appended

LEMMA PaygStorageSteps ==
  ASSUME NEW plan \in Plans, PaygInv(plan),
         Payg(plan)!BeginStorage \/ Payg(plan)!BillStorage \/ Payg(plan)!CrashStorage
  PROVE  PaygInv(plan)'
<1> USE DEF PaygInv
<1>1. UNCHANGED <<account, inserter, cap, price, month, place, began, seenCap, granted, drafts>>
  BY DEF Payg!BeginStorage, Payg!BillStorage, Payg!CrashStorage, Payg!reviewVars, Payg!accountVars
<1>2. ticks' \in 0 .. plan.ticks /\ storage' \in 0 .. month
  <2>1. ticks \in 0 .. plan.ticks /\ storage \in 0 .. month /\ plan.ticks \in Nat /\ month \in 0 .. month
        /\ 0 \in 0 .. month
    BY PlanNumbers DEF Payg!TypeOK
  <2>2. CASE Payg(plan)!BeginStorage
    BY <2>1, <2>2 DEF Payg!BeginStorage
  <2>3. CASE Payg(plan)!BillStorage
    <3>1. storage' = 0 /\ ticks' = ticks + 1
      BY <2>3 DEF Payg!BillStorage
    <3>2. ticks < plan.ticks
      BY <2>3 DEF ChargeLeft, Payg!BillStorage
    <3>3. QED BY <2>1, <3>1, <3>2
  <2>4. CASE Payg(plan)!CrashStorage
    BY <2>1, <2>4 DEF Payg!CrashStorage
  <2>5. QED BY <2>2, <2>3, <2>4
<1>3. usage \subseteq usage' /\ \A u \in usage' : u.month \in 1 .. plan.months /\ u.cost \in Nat
  <2>1. CASE usage' = usage
    BY <2>1 DEF Payg!TypeOK
  <2>2. CASE Payg(plan)!BillStorage
    BY <2>2, StorageRow, RowTyped
  <2>3. QED BY <2>1, <2>2 DEF Payg!BeginStorage, Payg!CrashStorage
<1>4. Payg(plan)!Cardinality(inserter') <= 1
  BY <1>1, InserterCounts DEF OneInserter
<1>5. Payg(plan)!TypeOK'
  BY <1>1, <1>2, <1>3, <1>4 DEF Payg!TypeOK
<1>6. RaisedFirst' /\ OneInserter' /\ \E D : drafts' \in Seq(D)
  BY <1>1 DEF RaisedFirst, OneInserter
<1>7. ChargeLeft(plan)'
  BY DEF Payg!BeginStorage, Payg!BillStorage, Payg!CrashStorage, ChargeLeft
<1>8. QED BY <1>5, <1>6, <1>7

LEMMA PaygOtherSteps ==
  ASSUME NEW plan \in Plans, PaygInv(plan),
         \/ Payg(plan)!AddPricingRule \/ Payg(plan)!MonthEnds
         \/ \E from, until \in 1 .. plan.months + 1 : Payg(plan)!Settle(from, until)
  PROVE  PaygInv(plan)'
<1> USE DEF PaygInv
<1>1. /\ UNCHANGED <<inserter, cap, usage, ticks, storage, place, began, seenCap, granted>>
      /\ account' \in {account, "payg"}
  BY DEF Payg!AddPricingRule, Payg!MonthEnds, Payg!Settle, Payg!Drafted, Payg!reviewVars, Payg!storageVars,
         Payg!accountVars
<1>2. price' \in plan.prices /\ month' \in 1 .. plan.months /\ month \in Nat /\ month' \in Nat /\ month <= month'
  <2>1. price \in plan.prices /\ month \in 1 .. plan.months /\ plan.months \in Nat
    BY PlanNumbers DEF Payg!TypeOK
  <2>2. CASE Payg(plan)!MonthEnds
    BY <2>1, <2>2 DEF Payg!MonthEnds
  <2>3. CASE ~ Payg(plan)!MonthEnds
    <3>1. month' = month /\ price' \in plan.prices
      BY <2>1, <2>3 DEF Payg!AddPricingRule, Payg!Settle, Payg!Drafted
    <3>2. QED BY <2>1, <3>1
  <2>4. QED BY <2>2, <2>3
<1>3. began' \in [Callers -> 1 .. month'] /\ storage' \in 0 .. month'
  <2>1. began \in [Callers -> 1 .. month] /\ storage \in 0 .. month
    BY DEF Payg!TypeOK
  <2>2. 1 .. month \subseteq 1 .. month' /\ 0 .. month \subseteq 0 .. month'
    BY <1>2
  <2>3. QED BY <1>1, <2>1, <2>2
<1>4. (\E D : drafts' \in Seq(D)) /\ \A i \in DOMAIN drafts' : IsDraft(plan, month', drafts'[i])
  <2>1. 1 .. month \subseteq 1 .. month' /\ month \in 1 .. month
    BY <1>2 DEF Payg!TypeOK
  <2>2. \A i \in DOMAIN drafts : IsDraft(plan, month', drafts[i])
    BY <1>1, <2>1 DEF Payg!TypeOK, IsDraft
  <2>3. CASE drafts' = drafts
    BY <2>2, <2>3
  <2>4. ASSUME NEW from \in 1 .. plan.months + 1, NEW until \in 1 .. plan.months + 1, Payg(plan)!Settle(from, until)
        PROVE  (\E D : drafts' \in Seq(D)) /\ \A i \in DOMAIN drafts' : IsDraft(plan, month', drafts'[i])
    <3>1. PICK n \in Nat : Appended(plan, from, until, n)
      BY <2>4, DraftAppended
    <3>2. from \in 1 .. plan.months /\ until \in from + 1 .. plan.months + 1
      BY <3>1, PlanNumbers DEF Appended
    <3>3. Payg(plan)!Between(from, until) \subseteq usage
      BY DEF Payg!Between
    <3>4. IsDraft(plan, month', drafts'[n + 1])
      BY <1>1, <2>1, <3>1, <3>2, <3>3 DEF Appended, IsDraft
    <3>5. ASSUME NEW i \in DOMAIN drafts' PROVE IsDraft(plan, month', drafts'[i])
      <4>1. CASE i \in 1 .. n
        <5>1. i \in DOMAIN drafts /\ drafts'[i] = drafts[i]
          BY <3>1, <4>1 DEF Appended
        <5>2. QED BY <2>2, <5>1
      <4>2. QED BY <3>1, <3>4, <4>1 DEF Appended
    <3>6. QED BY <3>1, <3>5 DEF Appended
  <2>5. QED BY <2>3, <2>4 DEF Payg!AddPricingRule, Payg!MonthEnds
<1>5. Payg(plan)!Cardinality(inserter') <= 1
  BY <1>1, InserterCounts DEF OneInserter
<1>6. Payg(plan)!TypeOK'
  BY <1>1, <1>2, <1>3, <1>4, <1>5 DEF Payg!TypeOK, IsDraft
<1>7. RaisedFirst' /\ OneInserter' /\ ChargeLeft(plan)'
  BY <1>1 DEF RaisedFirst, OneInserter, ChargeLeft
<1>8. QED BY <1>4, <1>6, <1>7

LEMMA NextPaygInv ==
  ASSUME NEW plan \in Plans, PaygInv(plan), Payg(plan)!Next \/ UNCHANGED onlyPayg
  PROVE  PaygInv(plan)'
<1>1. CASE Payg(plan)!Next
  BY <1>1, PaygCallerSteps, PaygReviewSteps, PaygStorageSteps, PaygOtherSteps DEF Payg!Next
<1>2. CASE UNCHANGED onlyPayg
  <2>1. UNCHANGED <<account, inserter, cap, price, month, usage, ticks, storage, place, began, seenCap, granted,
                    drafts>>
    BY <1>2 DEF onlyPayg
  <2>2. Payg(plan)!Cardinality(inserter') <= 1
    BY <2>1, InserterCounts DEF OneInserter, PaygInv
  <2>3. Payg(plan)!TypeOK'
    BY <2>1, <2>2 DEF Payg!TypeOK, PaygInv
  <2>4. QED BY <2>1, <2>3 DEF PaygInv, RaisedFirst, OneInserter, ChargeLeft
<1>3. QED BY <1>1, <1>2

-----------------------------------------------------------------------------
(* PaygAccount: what a draft may miss.  A period that is over is before    *)
(* whatever begins later, and what had begun before the draft is in its    *)
(* list, under the number that it will be recorded with.                   *)

UnderWay(r) == place[r] \in {"insert", "authorize", "running"}

DraftsSee(plan) ==
    \A i \in DOMAIN drafts :
        drafts[i].until <= drafts[i].at =>
            /\ \A r \in Callers : UnderWay(r) /\ began[r] < drafts[i].until
                                      => <<r, Payg(plan)!Ran(r)>> \in drafts[i].open
            /\ storage # 0 /\ storage < drafts[i].until => <<"storage", ticks>> \in drafts[i].open

DraftsInv(plan) == Payg(plan)!DraftMissesOpenOnly /\ DraftsSee(plan)

LEMMA InitDraftsInv == ASSUME NEW plan, Payg(plan)!Init PROVE DraftsInv(plan)
<1>1. DOMAIN drafts = {}
  BY DEF Payg!Init
<1>2. QED BY <1>1 DEF DraftsInv, DraftsSee, Payg!DraftMissesOpenOnly

(* A row of another is not counted.                                        *)
LEMMA OthersRan ==
  ASSUME NEW plan, NEW r, NEW u, u.who[1] # r, usage' = usage \cup {u}
  PROVE  Payg(plan)!Ran(r)' = Payg(plan)!Ran(r)
<1>1. {v \in usage' : v.who[1] = r} = {v \in usage : v.who[1] = r}
  OBVIOUS
<1>2. QED BY <1>1 DEF Payg!Ran

(* What a draft may miss stays in its list when it is recorded.            *)
LEMMA RowRecorded ==
  ASSUME NEW plan, DraftsInv(plan), NEW u, usage' = usage \cup {u}, drafts' = drafts,
         \A i \in DOMAIN drafts :
             drafts[i].until <= drafts[i].at /\ u.month < drafts[i].until => u.who \in drafts[i].open
  PROVE  Payg(plan)!DraftMissesOpenOnly'
<1> SUFFICES ASSUME NEW i \in DOMAIN drafts, drafts[i].until <= drafts[i].at,
                    NEW v \in usage', drafts[i].from <= v.month, v.month < drafts[i].until
             PROVE  v \in drafts[i].rows \/ v.who \in drafts[i].open
  BY DEF Payg!DraftMissesOpenOnly, Payg!Between
<1>1. CASE v \in usage
  BY <1>1 DEF DraftsInv, Payg!DraftMissesOpenOnly, Payg!Between
<1>2. CASE v = u
  BY <1>2
<1>3. QED BY <1>1, <1>2

LEMMA RecordDrafts ==
  ASSUME NEW plan \in Plans, PaygInv(plan), DraftsInv(plan), NEW r \in Callers, Payg(plan)!Record(r)
  PROVE  DraftsInv(plan)'
<1>1. /\ place[r] = "running" /\ UNCHANGED <<drafts, began, storage, ticks>>
      /\ place' = [place EXCEPT ![r] = "done"] /\ place \in [Callers \cup Reviews -> PaygPlaces]
  BY DEF Payg!Record, Payg!Go, Payg!storageVars, PaygInv, Payg!TypeOK, PaygPlaces
<1>2. PICK u : u.who = <<r, Payg(plan)!Ran(r)>> /\ u.month = began[r] /\ usage' = usage \cup {u}
  BY RecordedRow
<1>3. Payg(plan)!DraftMissesOpenOnly'
  BY <1>1, <1>2, RowRecorded DEF DraftsInv, DraftsSee, UnderWay
<1>4. ASSUME NEW c \in Callers, UnderWay(c)' PROVE UnderWay(c) /\ Payg(plan)!Ran(c)' = Payg(plan)!Ran(c)
  <2>1. c # r /\ place'[c] = place[c]
    BY <1>1, <1>4 DEF UnderWay
  <2>2. u.who[1] # c
    BY <1>2, <2>1
  <2>3. QED BY <1>2, <1>4, <2>1, <2>2, OthersRan DEF UnderWay
<1>5. DraftsSee(plan)'
  BY <1>1, <1>4 DEF DraftsInv, DraftsSee
<1>6. QED BY <1>3, <1>5 DEF DraftsInv

LEMMA StorageDrafts ==
  ASSUME NEW plan \in Plans, PaygInv(plan), DraftsInv(plan), Payg(plan)!BillStorage
  PROVE  DraftsInv(plan)'
<1>1. storage # 0 /\ storage' = 0 /\ UNCHANGED <<drafts, began, place>>
  BY DEF Payg!BillStorage
<1>2. PICK u : u.who = <<"storage", ticks>> /\ u.month = storage /\ usage' = usage \cup {u}
  BY StorageRow
<1>3. Payg(plan)!DraftMissesOpenOnly'
  BY <1>1, <1>2, RowRecorded DEF DraftsInv, DraftsSee
<1>4. ASSUME NEW c \in Callers PROVE Payg(plan)!Ran(c)' = Payg(plan)!Ran(c)
  BY <1>2, OthersRan, PlansAssumption
<1>5. DraftsSee(plan)'
  BY <1>1, <1>4 DEF DraftsInv, DraftsSee, UnderWay
<1>6. QED BY <1>3, <1>5 DEF DraftsInv

(* Nothing is recorded, and what begins is in the present.                 *)
LEMMA NothingRecorded ==
  ASSUME NEW plan \in Plans, PaygInv(plan), PaygInv(plan)', DraftsInv(plan), UNCHANGED <<usage, ticks, drafts>>,
         \A r \in Callers : UnderWay(r)' => (UnderWay(r) /\ began'[r] = began[r]) \/ began'[r] = month,
         storage' \in {storage, 0, month}
  PROVE  DraftsInv(plan)'
<1>1. Payg(plan)!DraftMissesOpenOnly'
  BY DEF DraftsInv, Payg!DraftMissesOpenOnly, Payg!Between
<1>2. \A r \in Callers : Payg(plan)!Ran(r)' = Payg(plan)!Ran(r)
  BY DEF Payg!Ran
<1>3. month \in Nat /\ \A i \in DOMAIN drafts : drafts[i].at <= month /\ drafts[i].at \in Int /\ drafts[i].until \in Int
  <2>1. /\ month \in 1 .. plan.months /\ plan.months \in Nat
        /\ \A i \in DOMAIN drafts : /\ drafts[i].at \in 1 .. month /\ drafts[i].from \in 1 .. plan.months
                                    /\ drafts[i].until \in drafts[i].from + 1 .. plan.months + 1
    BY PlanNumbers DEF PaygInv, Payg!TypeOK
  <2>2. QED BY <2>1
<1>4. ASSUME NEW i \in DOMAIN drafts, drafts[i].until <= drafts[i].at, month < drafts[i].until PROVE FALSE
  BY <1>3, <1>4
<1>5. DraftsSee(plan)'
  BY <1>2, <1>4 DEF DraftsInv, DraftsSee
<1>6. QED BY <1>1, <1>5 DEF DraftsInv

LEMMA SettleDrafts ==
  ASSUME NEW plan \in Plans, PaygInv(plan), DraftsInv(plan), NEW from \in 1 .. plan.months + 1,
         NEW until \in 1 .. plan.months + 1, Payg(plan)!Settle(from, until)
  PROVE  DraftsInv(plan)'
<1>1. UNCHANGED <<usage, ticks, storage, began, place>>
  BY DEF Payg!Settle, Payg!Drafted, Payg!storageVars
<1>2. PICK n \in Nat : Appended(plan, from, until, n)
  BY DraftAppended
<1>3. \A r \in Callers : Payg(plan)!Ran(r)' = Payg(plan)!Ran(r) /\ UnderWay(r)' = UnderWay(r)
  BY <1>1 DEF Payg!Ran, UnderWay
<1>4. \A a, b : Payg(plan)!Between(a, b)' = Payg(plan)!Between(a, b)
  BY <1>1 DEF Payg!Between
<1>5. Payg(plan)!DraftMissesOpenOnly'
  BY <1>2, <1>4 DEF DraftsInv, Payg!DraftMissesOpenOnly, Appended
<1>6. DraftsSee(plan)'
  <2>1. /\ \A r \in Callers : UnderWay(r) => <<r, Payg(plan)!Ran(r)>> \in Payg(plan)!Open
        /\ storage # 0 => <<"storage", ticks>> \in Payg(plan)!Open
    BY DEF Payg!Open, Payg!Storage, UnderWay
  <2>2. QED BY <1>1, <1>2, <1>3, <2>1 DEF DraftsInv, DraftsSee, Appended
<1>7. QED BY <1>5, <1>6 DEF DraftsInv

LEMMA NextDraftsInv ==
  ASSUME NEW plan \in Plans, PaygInv(plan), DraftsInv(plan), Payg(plan)!Next \/ UNCHANGED onlyPayg
  PROVE  DraftsInv(plan)'
<1>1. PaygInv(plan)' /\ place \in [Callers \cup Reviews -> PaygPlaces] /\ began \in [Callers -> 1 .. month]
  BY NextPaygInv DEF PaygInv, Payg!TypeOK, PaygPlaces
<1>2. ASSUME NEW r \in Callers,
             Payg(plan)!Begin(r) \/ Payg(plan)!Insert(r) \/ Payg(plan)!Authorize(r) \/ Payg(plan)!Crash(r)
      PROVE  DraftsInv(plan)'
  <2>1. UNCHANGED <<usage, ticks, storage, drafts>>
    BY <1>2 DEF Payg!Begin, Payg!Insert, Payg!Authorize, Payg!Crash, Payg!storageVars
  <2>2. \A c \in Callers : UnderWay(c)' => (UnderWay(c) /\ began'[c] = began[c]) \/ began'[c] = month
    <3>1. \/ began' = [began EXCEPT ![r] = month] /\ \E x : place' = [place EXCEPT ![r] = x]
          \/ began' = began /\ UnderWay(r) /\ \E x : place' = [place EXCEPT ![r] = x]
      BY <1>2 DEF Payg!Begin, Payg!Insert, Payg!Authorize, Payg!Crash, Payg!Go, UnderWay
    <3>2. QED BY <1>1, <3>1 DEF UnderWay
  <2>3. QED BY <1>1, <2>1, <2>2, NothingRecorded
<1>3. ASSUME NEW q \in Reviews,
             Payg(plan)!Review(q) \/ Payg(plan)!SetCap(q) \/ Payg(plan)!MarkApproved(q) \/ Payg(plan)!CrashReview(q)
      PROVE  DraftsInv(plan)'
  <2>1. UNCHANGED <<usage, ticks, storage, drafts, began>> /\ \E x : place' = [place EXCEPT ![q] = x]
    BY <1>3 DEF Payg!Review, Payg!SetCap, Payg!MarkApproved, Payg!CrashReview, Payg!Go, Payg!storageVars
  <2>2. \A c \in Callers : UnderWay(c)' = UnderWay(c)
    BY <1>1, <2>1, PlansAssumption DEF UnderWay
  <2>3. QED BY <1>1, <2>1, <2>2, NothingRecorded
<1>4. ASSUME \/ Payg(plan)!BeginStorage \/ Payg(plan)!CrashStorage \/ Payg(plan)!AddPricingRule
             \/ Payg(plan)!MonthEnds \/ UNCHANGED onlyPayg
      PROVE  DraftsInv(plan)'
  <2>1. UNCHANGED <<usage, ticks, drafts, began, place>> /\ storage' \in {storage, 0, month}
    BY <1>4 DEF Payg!BeginStorage, Payg!CrashStorage, Payg!AddPricingRule, Payg!MonthEnds, Payg!storageVars, onlyPayg
  <2>2. \A c \in Callers : UnderWay(c)' = UnderWay(c)
    BY <2>1 DEF UnderWay
  <2>3. QED BY <1>1, <2>1, <2>2, NothingRecorded
<1>5. QED BY <1>2, <1>3, <1>4, RecordDrafts, StorageDrafts, SettleDrafts DEF Payg!Next

-----------------------------------------------------------------------------
(* PaygAccount: what is spent in a month beyond the cap.  Whoever has been *)
(* authorized was within the cap with all that is recorded but the late    *)
(* rows; one of them is a caller's last, and none is of a caller that runs *)
(* now.                                                                    *)

CostUnits(S) == UNION {{u} \X (1 .. u.cost) : u \in S}
CurrentRuns == {u \in usage : u.month = month /\ u.who[1] \in Callers}
RunsNow(r) == place[r] = "running" /\ began[r] = month
OneEach(rs) == \A u, v \in rs : u.who[1] = v.who[1] => u = v

Cheapest(plan) == Payg(plan)!Minimum(plan.prices)

WithinButLate(plan, late) ==
    /\ OneEach(late)
    /\ \A r \in Callers : RunsNow(r) => \A u \in late : u.who[1] # r
    /\ CurrentRuns # {} \/ (\E r \in Callers : RunsNow(r)) =>
          Cardinality(CostUnits(CurrentRuns \ late)) + Seconds * Cheapest(plan) <= SpendCap

SpendInv(plan) ==
    /\ granted = {} => cap = SpendCap
    /\ IsFiniteSet(CostUnits(usage)) /\ \A u \in usage : u.month <= month
    /\ SpendCap # -1 /\ granted = {} => \E late \in SUBSET CurrentRuns : WithinButLate(plan, late)

(* Fewer rows, lower costs.                                                *)
LEMMA CostsGrow ==
  ASSUME NEW S, IsFiniteSet(CostUnits(S)), NEW T \in SUBSET S
  PROVE  /\ IsFiniteSet(CostUnits(T)) /\ Cardinality(CostUnits(T)) \in Nat /\ Cardinality(CostUnits(S)) \in Nat
         /\ Cardinality(CostUnits(T)) <= Cardinality(CostUnits(S))
<1>1. CostUnits(T) \in SUBSET CostUnits(S)
  BY DEF CostUnits
<1>2. QED BY <1>1, FS_Subset, FS_CardinalityType

(* A row has finitely many units.                                          *)
LEMMA RowCosts ==
  ASSUME NEW S, IsFiniteSet(CostUnits(S)), NEW u, u.cost \in Nat
  PROVE  IsFiniteSet(CostUnits(S \cup {u}))
<1> DEFINE Of(v) == {v} \X (1 .. v.cost)
<1>1. CostUnits(S \cup {u}) = UNION {Of(v) : v \in S \cup {u}} /\ CostUnits(S) = UNION {Of(v) : v \in S}
  BY DEF CostUnits
<1>2. IsFiniteSet(Of(u))
  <2>1. PICK n \in Nat : n = u.cost
    OBVIOUS
  <2>2. IsFiniteSet(1 .. n)
    BY FS_Interval
  <2>3. IsFiniteSet({u})
    BY FS_Singleton
  <2>4. QED BY <2>1, <2>2, <2>3, FS_Product
<1> HIDE DEF Of
<1>3. UNION {Of(v) : v \in S \cup {u}} = (UNION {Of(v) : v \in S}) \cup Of(u)
  OBVIOUS
<1>4. CostUnits(S \cup {u}) = CostUnits(S) \cup Of(u)
  BY <1>1, <1>3
<1>5. IsFiniteSet(CostUnits(S) \cup Of(u))
  BY <1>2, FS_Union
<1>6. QED BY <1>4, <1>5

LEMMA SpendNumbers ==
  ASSUME NEW plan \in Plans, PaygInv(plan)
  PROVE  /\ Seconds \in Nat /\ (SpendCap # -1 => SpendCap \in Nat)
         /\ price \in Nat /\ Cheapest(plan) \in Nat /\ Cheapest(plan) <= price
         /\ Seconds * Cheapest(plan) \in Nat /\ Seconds * price \in Nat /\ Seconds * Cheapest(plan) <= Seconds * price
         /\ month \in Nat /\ began \in [Callers -> 1 .. month]
         /\ \A u \in usage : u.month \in Nat
<1>1. Seconds \in Nat /\ (SpendCap # -1 => SpendCap \in Nat) /\ plan.prices \subseteq Nat /\ plan.prices # {}
      /\ plan.months \in Nat
  BY PlansAssumption
<1>2. /\ price \in plan.prices /\ month \in 1 .. plan.months /\ began \in [Callers -> 1 .. month]
      /\ \A u \in usage : u.month \in 1 .. plan.months
  BY DEF PaygInv, Payg!TypeOK
<1>3. Cheapest(plan) \in Nat /\ price \in Nat /\ Cheapest(plan) <= price
  BY <1>1, <1>2, MinimumFound DEF Cheapest
<1>4. PICK d \in Nat : price = Cheapest(plan) + d
  <2>1. price - Cheapest(plan) \in Nat /\ price = Cheapest(plan) + (price - Cheapest(plan))
    BY <1>3
  <2>2. QED BY <2>1
<1>5. Seconds * price = Seconds * Cheapest(plan) + Seconds * d /\ Seconds * d \in Nat
      /\ Seconds * Cheapest(plan) \in Nat /\ Seconds * price \in Nat
  BY <1>1, <1>3, <1>4
<1>6. Seconds * Cheapest(plan) <= Seconds * price
  BY <1>5
<1>7. QED BY <1>1, <1>2, <1>3, <1>5, <1>6

(* The rows of the month, and the runs' among them.                        *)
LEMMA RunRowsAre ==
  ASSUME NEW plan \in Plans, PaygInv(plan)
  PROVE  /\ Payg(plan)!RunRows = CurrentRuns /\ CurrentRuns \subseteq Payg(plan)!Between(month, month + 1)
         /\ Payg(plan)!Between(month, month + 1) \subseteq usage
         /\ \A S : Payg(plan)!Sum(S) = Cardinality(CostUnits(S))
<1>1. \A u \in usage : month <= u.month /\ u.month < month + 1 <=> u.month = month
  BY SpendNumbers
<1>2. Payg(plan)!RunRows = CurrentRuns /\ CurrentRuns \subseteq Payg(plan)!Between(month, month + 1)
  BY <1>1 DEF Payg!RunRows, Payg!Between, CurrentRuns
<1>3. \A S : Payg(plan)!Sum(S) = Cardinality(CostUnits(S))
  BY DEF Payg!Sum, Payg!Units, CostUnits, Payg!Cardinality, Cardinality
<1>4. QED BY <1>2, <1>3 DEF Payg!Between

LEMMA SpendInvMeans ==
  ASSUME NEW plan \in Plans, PaygInv(plan), SpendInv(plan)
  PROVE  Payg(plan)!OverspendBounded
<1> SUFFICES ASSUME SpendCap # Payg(plan)!NoCap, granted = {}, Payg(plan)!RunRows # {}
             PROVE  \E late \in SUBSET Payg(plan)!RunRows :
                       /\ Payg(plan)!OneOfEach(late)
                       /\ Payg(plan)!Sum(Payg(plan)!RunRows \ late) + Seconds * Cheapest(plan) <= SpendCap
  BY DEF Payg!OverspendBounded, Cheapest
<1>1. PICK late \in SUBSET CurrentRuns : WithinButLate(plan, late)
  BY DEF SpendInv, Payg!NoCap
<1>2. Payg(plan)!OneOfEach(late)
  BY <1>1 DEF WithinButLate, OneEach, Payg!OneOfEach
<1>3. QED BY <1>1, <1>2, RunRowsAre DEF WithinButLate

LEMMA InitSpendInv == ASSUME NEW plan \in Plans, Payg(plan)!Init PROVE SpendInv(plan)
<1>1. usage = {} /\ cap = SpendCap /\ \A r \in Callers : place[r] = "new"
  BY DEF Payg!Init
<1>2. CostUnits(usage) = {} /\ CurrentRuns = {}
  BY <1>1 DEF CostUnits, CurrentRuns
<1>3. WithinButLate(plan, {})
  BY <1>1, <1>2 DEF WithinButLate, OneEach, RunsNow
<1>4. QED BY <1>1, <1>2, <1>3, FS_EmptySet DEF SpendInv

(* A step that charges nothing and lets nobody in.                         *)
LEMMA NothingCharged ==
  ASSUME NEW plan \in Plans, SpendInv(plan), usage' = usage, month' = month, granted \subseteq granted',
         granted' = {} => cap' = cap, \A r \in Callers : RunsNow(r)' => RunsNow(r)
  PROVE  SpendInv(plan)'
<1>1. CostUnits(usage)' = CostUnits(usage) /\ CurrentRuns' = CurrentRuns
  BY DEF CostUnits, CurrentRuns
<1>2. ASSUME NEW late \in SUBSET CurrentRuns, WithinButLate(plan, late) PROVE WithinButLate(plan, late)'
  <2>1. CostUnits(CurrentRuns \ late)' = CostUnits(CurrentRuns \ late)
    BY <1>1 DEF CostUnits
  <2>2. QED BY <1>1, <1>2, <2>1 DEF WithinButLate, OneEach, Cheapest
<1>3. QED BY <1>1, <1>2 DEF SpendInv

(* Who is let in is within the cap with all that is recorded.              *)
LEMMA AuthorizeSpends ==
  ASSUME NEW plan \in Plans, PaygInv(plan), SpendInv(plan), NEW r \in Callers, Payg(plan)!Authorize(r)
  PROVE  SpendInv(plan)'
<1>1. /\ UNCHANGED <<usage, month, granted, cap, began>>
      /\ place \in [Callers \cup Reviews -> PaygPlaces]
  BY DEF Payg!Authorize, Payg!reviewVars, PaygInv, Payg!TypeOK, PaygPlaces
<1>2. CASE ~ Payg(plan)!Within
  <2>1. place' = [place EXCEPT ![r] = "denied"]
    BY <1>2 DEF Payg!Authorize, Payg!Go
  <2>2. \A c \in Callers : RunsNow(c)' => RunsNow(c)
    BY <1>1, <2>1 DEF RunsNow
  <2>3. QED BY <1>1, <2>2, NothingCharged
<1>3. CASE Payg(plan)!Within
  <2>1. CostUnits(usage)' = CostUnits(usage) /\ CurrentRuns' = CurrentRuns
    BY <1>1 DEF CostUnits, CurrentRuns
  <2>2. ASSUME SpendCap # -1, granted' = {} PROVE WithinButLate(plan, {})'
    <3>1. Payg(plan)!Sum(Payg(plan)!Between(month, month + 1)) + Seconds * price <= SpendCap
      BY <1>1, <1>3, <2>2 DEF SpendInv, Payg!Within, Payg!NoCap, Payg!Spent
    <3>2. /\ Cardinality(CostUnits(CurrentRuns)) <= Payg(plan)!Sum(Payg(plan)!Between(month, month + 1))
          /\ Cardinality(CostUnits(CurrentRuns)) \in Nat
          /\ Payg(plan)!Sum(Payg(plan)!Between(month, month + 1)) \in Nat
      <4>1. IsFiniteSet(CostUnits(Payg(plan)!Between(month, month + 1)))
        BY RunRowsAre, CostsGrow DEF SpendInv
      <4>2. QED BY <4>1, RunRowsAre, CostsGrow
    <3>3. Cardinality(CostUnits(CurrentRuns)) + Seconds * Cheapest(plan) <= SpendCap
      BY <2>2, <3>1, <3>2, SpendNumbers
    <3>4. CurrentRuns' \ {} = CurrentRuns
      BY <2>1
    <3>5. QED BY <3>3, <3>4 DEF WithinButLate, OneEach, Cheapest, CostUnits
  <2>3. QED BY <1>1, <2>1, <2>2 DEF SpendInv
<1>4. QED BY <1>2, <1>3

(* A run that ends is late, and its caller has no other late row: it was   *)
(* let in with all of them counted.                                        *)
LEMMA RecordSpends ==
  ASSUME NEW plan \in Plans, PaygInv(plan), SpendInv(plan), NEW r \in Callers, Payg(plan)!Record(r)
  PROVE  SpendInv(plan)'
<1>1. /\ UNCHANGED <<month, granted, cap, began>> /\ place[r] = "running"
      /\ place \in [Callers \cup Reviews -> PaygPlaces] /\ place' = [place EXCEPT ![r] = "done"]
  BY DEF Payg!Record, Payg!Go, Payg!reviewVars, PaygInv, Payg!TypeOK, PaygPlaces
<1>2. PICK u : /\ u.who = <<r, Payg(plan)!Ran(r)>> /\ u.month = began[r] /\ u.cost \in Nat /\ u.month <= month
               /\ usage' = usage \cup {u}
  BY RecordedRow
<1>3. IsFiniteSet(CostUnits(usage')) /\ \A v \in usage' : v.month <= month
  BY <1>2, RowCosts DEF SpendInv
<1>4. \A c \in Callers : RunsNow(c)' => RunsNow(c) /\ c # r
  BY <1>1 DEF RunsNow
<1>5. u.who[1] = r
  BY <1>2
<1>6. ASSUME SpendCap # -1, granted' = {}, NEW late \in SUBSET CurrentRuns, WithinButLate(plan, late)
      PROVE  \E new \in SUBSET CurrentRuns' : WithinButLate(plan, new)'
  <2>1. CASE began[r] = month
    <3> DEFINE new == late \cup {u}
    <3>1. CurrentRuns' = CurrentRuns \cup {u}
      BY <1>1, <1>2, <1>5, <2>1 DEF CurrentRuns
    <3>2. RunsNow(r)
      BY <1>1, <2>1 DEF RunsNow
    <3>3. \A v \in late : v.who[1] # r
      BY <1>6, <3>2 DEF WithinButLate
    <3>4. OneEach(new)
      BY <1>5, <1>6, <3>3 DEF OneEach, WithinButLate
    <3>5. \A c \in Callers : RunsNow(c)' => \A v \in new : v.who[1] # c
      BY <1>4, <1>5, <1>6 DEF WithinButLate
    <3>6. Cardinality(CostUnits(CurrentRuns' \ new)) + Seconds * Cheapest(plan) <= SpendCap
      <4>1. CurrentRuns' \ new \subseteq CurrentRuns \ late
        BY <3>1
      <4>2. IsFiniteSet(CostUnits(CurrentRuns \ late))
        BY CostsGrow DEF SpendInv, CurrentRuns
      <4>3. /\ Cardinality(CostUnits(CurrentRuns' \ new)) <= Cardinality(CostUnits(CurrentRuns \ late))
            /\ Cardinality(CostUnits(CurrentRuns' \ new)) \in Nat /\ Cardinality(CostUnits(CurrentRuns \ late)) \in Nat
        BY <4>1, <4>2, CostsGrow
      <4>4. Cardinality(CostUnits(CurrentRuns \ late)) + Seconds * Cheapest(plan) <= SpendCap
        BY <1>6, <3>2 DEF WithinButLate
      <4>5. QED BY <1>6, <4>3, <4>4, SpendNumbers
    <3>7. new \in SUBSET CurrentRuns'
      BY <3>1
    <3> HIDE DEF new
    <3>8. WithinButLate(plan, new)'
      BY <3>4, <3>5, <3>6 DEF WithinButLate, OneEach, CostUnits, Cheapest
    <3>9. QED BY <3>7, <3>8
  <2>2. CASE began[r] # month
    <3>1. CurrentRuns' = CurrentRuns
      BY <1>1, <1>2, <2>2 DEF CurrentRuns
    <3>2. WithinButLate(plan, late)'
      BY <1>4, <1>6, <3>1 DEF WithinButLate, OneEach, CostUnits, Cheapest
    <3>3. QED BY <3>1, <3>2
  <2>3. QED BY <2>1, <2>2
<1>7. QED BY <1>1, <1>3, <1>6 DEF SpendInv, CostUnits

LEMMA StorageSpends ==
  ASSUME NEW plan \in Plans, PaygInv(plan), SpendInv(plan), Payg(plan)!BillStorage
  PROVE  SpendInv(plan)'
<1>1. UNCHANGED <<month, granted, cap, began, place>>
  BY DEF Payg!BillStorage, Payg!reviewVars, Payg!accountVars
<1>2. PICK u : /\ u.who = <<"storage", ticks>> /\ u.cost \in Nat /\ u.month <= month /\ usage' = usage \cup {u}
  BY StorageRow
<1>3. IsFiniteSet(CostUnits(usage')) /\ \A v \in usage' : v.month <= month
  BY <1>2, RowCosts DEF SpendInv
<1>4. CurrentRuns' = CurrentRuns
  BY <1>1, <1>2, PlansAssumption DEF CurrentRuns
<1>5. ASSUME NEW late \in SUBSET CurrentRuns, WithinButLate(plan, late) PROVE WithinButLate(plan, late)'
  BY <1>1, <1>4, <1>5 DEF WithinButLate, OneEach, CostUnits, Cheapest, RunsNow
<1>6. QED BY <1>1, <1>3, <1>4, <1>5 DEF SpendInv, CostUnits

(* A new month has no rows, and nobody has begun in it.                    *)
LEMMA MonthSpends ==
  ASSUME NEW plan \in Plans, PaygInv(plan), SpendInv(plan), Payg(plan)!MonthEnds
  PROVE  SpendInv(plan)'
<1>1. UNCHANGED <<usage, began, granted, cap, place>> /\ month' = month + 1
  BY DEF Payg!MonthEnds, Payg!accountVars, Payg!reviewVars
<1>2. \A u \in usage : u.month <= month' /\ u.month # month'
  BY <1>1, SpendNumbers DEF SpendInv
<1>3. \A r \in Callers : ~ RunsNow(r)'
  BY <1>1, SpendNumbers DEF RunsNow
<1>4. CurrentRuns' = {}
  BY <1>1, <1>2 DEF CurrentRuns
<1>5. WithinButLate(plan, {})'
  BY <1>3, <1>4 DEF WithinButLate, OneEach
<1>6. QED BY <1>1, <1>2, <1>4, <1>5 DEF SpendInv, CostUnits

LEMMA NextSpendInv ==
  ASSUME NEW plan \in Plans, PaygInv(plan), SpendInv(plan), Payg(plan)!Next \/ UNCHANGED onlyPayg
  PROVE  SpendInv(plan)'
<1>1. place \in [Callers \cup Reviews -> PaygPlaces]
  BY DEF PaygInv, Payg!TypeOK, PaygPlaces
<1>2. ASSUME NEW r \in Callers, Payg(plan)!Begin(r) \/ Payg(plan)!Insert(r) \/ Payg(plan)!Crash(r)
      PROVE  SpendInv(plan)'
  <2>1. UNCHANGED <<usage, month, granted, cap>> /\ (began' = began \/ began' = [began EXCEPT ![r] = month])
    BY <1>2 DEF Payg!Begin, Payg!Insert, Payg!Crash, Payg!accountVars, Payg!reviewVars
  <2>2. \E x \in PaygPlaces \ {"running"} : place' = [place EXCEPT ![r] = x]
    BY <1>2 DEF Payg!Begin, Payg!Insert, Payg!Crash, Payg!Go, PaygPlaces
  <2>3. \A c \in Callers : RunsNow(c)' => RunsNow(c)
    BY <1>1, <2>1, <2>2, SpendNumbers DEF RunsNow
  <2>4. QED BY <2>1, <2>3, NothingCharged
<1>3. ASSUME NEW q \in Reviews,
             Payg(plan)!Review(q) \/ Payg(plan)!SetCap(q) \/ Payg(plan)!MarkApproved(q) \/ Payg(plan)!CrashReview(q)
      PROVE  SpendInv(plan)'
  <2>1. /\ UNCHANGED <<usage, month, began>> /\ granted \subseteq granted'
        /\ granted' = {} => cap' = cap
    BY <1>3 DEF Payg!Review, Payg!SetCap, Payg!MarkApproved, Payg!CrashReview, Payg!accountVars, Payg!reviewVars
  <2>2. \E x : place' = [place EXCEPT ![q] = x]
    BY <1>3 DEF Payg!Review, Payg!SetCap, Payg!MarkApproved, Payg!CrashReview, Payg!Go
  <2>3. \A c \in Callers : RunsNow(c)' => RunsNow(c)
    BY <1>1, <2>1, <2>2, PlansAssumption DEF RunsNow
  <2>4. QED BY <2>1, <2>3, NothingCharged
<1>4. ASSUME \/ Payg(plan)!BeginStorage \/ Payg(plan)!CrashStorage \/ Payg(plan)!AddPricingRule
             \/ (\E from, until \in 1 .. plan.months + 1 : Payg(plan)!Settle(from, until)) \/ UNCHANGED onlyPayg
      PROVE  SpendInv(plan)'
  <2>1. UNCHANGED <<usage, month, began, granted, cap, place>>
    BY <1>4 DEF Payg!BeginStorage, Payg!CrashStorage, Payg!AddPricingRule, Payg!Settle, Payg!Drafted,
       Payg!accountVars, Payg!reviewVars, onlyPayg
  <2>2. QED BY <2>1, NothingCharged DEF RunsNow
<1>5. QED BY <1>2, <1>3, <1>4, AuthorizeSpends, RecordSpends, StorageSpends, MonthSpends DEF Payg!Next

-----------------------------------------------------------------------------
(* ApiKeys.  A request that has read a stale last_used_at commits within   *)
(* the time of a slow request, or its write fails.                         *)

WritesSoon == \A u \in Uses : use[u] # Authenticating!NoUse => now - use[u].at <= SlowUse

KeysInv == Authenticating!TypeOK /\ WritesSoon /\ Authenticating!LastUsedIsRecent

LEMMA UseFields ==
  ASSUME Authenticating!TypeOK, NEW u \in Uses
  PROVE  /\ now \in Nat
         /\ use[u] # Authenticating!NoUse =>
                use[u] \in [key : Keys, at : 1 .. now] /\ use[u].key \in Keys /\ use[u].at \in 1 .. now
         /\ use[u] = Authenticating!NoUse => use[u].key \notin Keys
  BY KeysAssumption DEF Authenticating!TypeOK, Authenticating!NoUse

LEMMA InitKeysInv == Authenticating!Init => KeysInv
<1> SUFFICES ASSUME Authenticating!Init PROVE KeysInv
  OBVIOUS
<1>1. Authenticating!TypeOK
  BY KeysAssumption DEF Authenticating!Init, Authenticating!TypeOK, Authenticating!Never
<1>2. WritesSoon /\ Authenticating!LastUsedIsRecent
  BY KeysAssumption
  DEF Authenticating!Init, WritesSoon, Authenticating!LastUsedIsRecent, Authenticating!Never
<1>3. QED BY <1>1, <1>2 DEF KeysInv

(* A key is accepted now; unless its last use is recent, that will be      *)
(* written.                                                                *)
LEMMA AuthenticateStep ==
  ASSUME KeysInv, NEW u \in Uses, NEW k \in Keys, Authenticating!Authenticate(u, k)
  PROVE  KeysInv'
<1> USE DEF KeysInv
<1>1. /\ now' = now /\ lastUsed' = lastUsed /\ unwritten' = unwritten /\ state' = state /\ revoker' = revoker
      /\ accepted' = [accepted EXCEPT ![k] = now] /\ use[u] = Authenticating!NoUse
      /\ use' = IF Authenticating!Stale(k) THEN [use EXCEPT ![u] = [key |-> k, at |-> now]] ELSE use
  BY DEF Authenticating!Authenticate
<1>2. /\ now \in 1 .. KeyTime /\ lastUsed \in [Keys -> 0 .. now] /\ accepted \in [Keys -> 0 .. now]
      /\ KeyTime \in Nat /\ Interval \in Nat /\ SlowUse \in Nat /\ now \in Nat /\ now \in 1 .. now /\ now \in 0 .. now
  BY KeysAssumption DEF Authenticating!TypeOK
<1>3. use' \in [Uses -> [key : Keys, at : 1 .. now] \cup {Authenticating!NoUse}]
  <2>1. use \in [Uses -> [key : Keys, at : 1 .. now] \cup {Authenticating!NoUse}]
    BY DEF Authenticating!TypeOK
  <2>2. [key |-> k, at |-> now] \in [key : Keys, at : 1 .. now]
    BY <1>2
  <2>3. QED BY <1>1, <2>1, <2>2
<1>4. Authenticating!TypeOK'
  BY <1>1, <1>2, <1>3 DEF Authenticating!TypeOK
<1>5. \A v \in Uses \ {u} : use'[v] = use[v]
  BY <1>1 DEF Authenticating!TypeOK
<1>6. Authenticating!Stale(k) => use'[u] = [key |-> k, at |-> now]
  BY <1>1 DEF Authenticating!TypeOK
<1>7. ~ Authenticating!Stale(k) => use' = use /\ now <= lastUsed[k] + Interval
  BY <1>1, <1>2 DEF Authenticating!Stale
<1>8. WritesSoon'
  BY <1>1, <1>2, <1>5, <1>6, <1>7 DEF WritesSoon
<1>9. ASSUME NEW l \in Keys, l \notin unwritten, \A v \in Uses : use'[v].key # l
      PROVE  accepted'[l] <= lastUsed[l] + Interval + SlowUse
  <2>1. CASE l = k
    <3>1. now <= lastUsed[k] + Interval
      BY <1>6, <1>7, <1>9, <2>1
    <3>2. QED BY <1>1, <1>2, <2>1, <3>1
  <2>2. CASE l # k
    <3>1. \A v \in Uses : use[v].key # l
      BY <1>1, <1>5, <1>9, <2>2, UseFields
    <3>2. QED BY <1>1, <1>2, <1>9, <2>2, <3>1 DEF Authenticating!LastUsedIsRecent
  <2>3. QED BY <2>1, <2>2
<1>10. Authenticating!LastUsedIsRecent'
  BY <1>1, <1>9 DEF Authenticating!LastUsedIsRecent
<1>11. QED BY <1>4, <1>8, <1>10

(* A write, or its failure.                                                *)
LEMMA TouchSteps ==
  ASSUME KeysInv, NEW u \in Uses, Authenticating!Touch(u) \/ Authenticating!TouchFails(u)
  PROVE  KeysInv'
<1> USE DEF KeysInv
<1>k. PICK k : k = use[u].key
  OBVIOUS
<1>1. /\ UNCHANGED <<now, state, accepted, revoker>> /\ k \in Keys
      /\ use' = [use EXCEPT ![u] = Authenticating!NoUse]
      /\ use[u].at \in 1 .. now /\ now - use[u].at <= SlowUse
      /\ \/ lastUsed' = [lastUsed EXCEPT ![k] = use[u].at] /\ unwritten' = unwritten
         \/ lastUsed' = lastUsed /\ unwritten' = unwritten \cup {k}
  BY <1>k, UseFields DEF Authenticating!Touch, Authenticating!TouchFails, Authenticating!TouchedColumn, WritesSoon
<1>2. /\ now \in Nat /\ lastUsed \in [Keys -> 0 .. now] /\ accepted \in [Keys -> 0 .. now]
      /\ Interval \in Nat /\ SlowUse \in Nat /\ use[u].at \in 0 .. now
  BY <1>1, UseFields, KeysAssumption DEF Authenticating!TypeOK
<1>3. Authenticating!TypeOK'
  <2>1. lastUsed' \in [Keys -> 0 .. now]
    BY <1>1, <1>2
  <2>2. use' \in [Uses -> [key : Keys, at : 1 .. now] \cup {Authenticating!NoUse}]
    BY <1>1 DEF Authenticating!TypeOK
  <2>3. QED BY <1>1, <2>1, <2>2 DEF Authenticating!TypeOK
<1>4. WritesSoon'
  BY <1>1 DEF WritesSoon, Authenticating!TypeOK
<1>5. ASSUME NEW l \in Keys, l \notin unwritten', \A v \in Uses : use'[v].key # l
      PROVE  accepted[l] <= lastUsed'[l] + Interval + SlowUse
  <2>1. CASE l = k
    BY <1>1, <1>2, <1>5, <2>1
  <2>2. CASE l # k
    <3>1. \A v \in Uses : use[v].key # l
      BY <1>k, <1>1, <1>5, <2>2 DEF Authenticating!TypeOK
    <3>2. QED BY <1>1, <1>2, <1>5, <2>2, <3>1 DEF Authenticating!LastUsedIsRecent
  <2>3. QED BY <2>1, <2>2
<1>6. Authenticating!LastUsedIsRecent'
  BY <1>1, <1>5 DEF Authenticating!LastUsedIsRecent
<1>7. QED BY <1>3, <1>4, <1>6

LEMMA KeyTickStep ==
  ASSUME KeysInv, Authenticating!Tick
  PROVE  KeysInv'
<1> USE DEF KeysInv
<1>1. /\ now < KeyTime /\ now' = now + 1 /\ UNCHANGED <<state, lastUsed, use, revoker, accepted, unwritten>>
      /\ \A u \in Uses : use[u] # Authenticating!NoUse => now - use[u].at < SlowUse
  BY DEF Authenticating!Tick
<1>2. now' \in 1 .. KeyTime /\ 0 .. now \subseteq 0 .. now' /\ 1 .. now \subseteq 1 .. now' /\ now \in Nat
  BY <1>1, KeysAssumption DEF Authenticating!TypeOK
<1>3. lastUsed \in [Keys -> 0 .. now'] /\ accepted \in [Keys -> 0 .. now']
  BY <1>2 DEF Authenticating!TypeOK
<1>4. use \in [Uses -> [key : Keys, at : 1 .. now'] \cup {Authenticating!NoUse}]
  BY <1>2 DEF Authenticating!TypeOK
<1>5. Authenticating!TypeOK'
  BY <1>1, <1>2, <1>3, <1>4 DEF Authenticating!TypeOK
<1>6. WritesSoon'
  <2>1. ASSUME NEW u \in Uses, use[u] # Authenticating!NoUse PROVE now' - use[u].at <= SlowUse
    BY <1>1, <2>1, UseFields, KeysAssumption
  <2>2. QED BY <1>1, <2>1 DEF WritesSoon
<1>7. Authenticating!LastUsedIsRecent'
  BY <1>1 DEF Authenticating!LastUsedIsRecent
<1>8. QED BY <1>5, <1>6, <1>7

(* Minting and revoking write the row's state alone.                       *)
LEMMA KeyStateSteps ==
  ASSUME KeysInv,
         \/ \E k \in Keys : Authenticating!Mint(k) \/ \E r \in Revokers : Authenticating!LoadKey(r, k)
         \/ \E r \in Revokers : Authenticating!CommitRevoked(r)
  PROVE  KeysInv'
<1> USE DEF KeysInv
<1>1. UNCHANGED <<now, lastUsed, use, accepted, unwritten>>
  BY DEF Authenticating!Mint, Authenticating!LoadKey, Authenticating!CommitRevoked
<1>2. state' \in [Keys -> {"none", "live", "revoked"}] /\ revoker' \in [Revokers -> Keys \cup {"none"}]
  BY DEF Authenticating!Mint, Authenticating!LoadKey, Authenticating!CommitRevoked, Authenticating!TypeOK
<1>3. Authenticating!TypeOK'
  BY <1>1, <1>2 DEF Authenticating!TypeOK
<1>4. WritesSoon' /\ Authenticating!LastUsedIsRecent'
  BY <1>1 DEF WritesSoon, Authenticating!LastUsedIsRecent
<1>5. QED BY <1>3, <1>4

LEMMA NextKeysInv == KeysInv /\ [Authenticating!Next]_onlyKeys => KeysInv'
<1> SUFFICES ASSUME KeysInv, [Authenticating!Next]_onlyKeys PROVE KeysInv'
  OBVIOUS
<1>1. CASE Authenticating!Next
  BY <1>1, AuthenticateStep, TouchSteps, KeyTickStep, KeyStateSteps DEF Authenticating!Next
<1>2. CASE UNCHANGED onlyKeys
  <2>1. UNCHANGED <<now, state, lastUsed, use, revoker, accepted, unwritten>>
    BY <1>2 DEF onlyKeys
  <2>2. QED
    BY <2>1 DEF KeysInv, Authenticating!TypeOK, WritesSoon, Authenticating!LastUsedIsRecent
<1>3. QED BY <1>1, <1>2

(* No step takes a revocation back.                                        *)
LEMMA RevokedStays ==
  ASSUME KeysInv, [Authenticating!Next]_onlyKeys, NEW k \in Keys, state[k] = "revoked"
  PROVE  state'[k] = "revoked"
<1>1. CASE UNCHANGED state
  BY <1>1
<1>2. ASSUME NEW l \in Keys, Authenticating!Mint(l) PROVE state'[k] = "revoked"
  BY <1>2 DEF Authenticating!Mint, KeysInv, Authenticating!TypeOK
<1>3. ASSUME NEW r \in Revokers, Authenticating!CommitRevoked(r) PROVE state'[k] = "revoked"
  BY <1>3 DEF Authenticating!CommitRevoked, KeysInv, Authenticating!TypeOK
<1>4. QED
  BY <1>1, <1>2, <1>3 DEF onlyKeys, Authenticating!Next, Authenticating!Tick, Authenticating!Authenticate,
     Authenticating!LoadKey, Authenticating!Touch, Authenticating!TouchedColumn, Authenticating!TouchFails

-----------------------------------------------------------------------------
(* Entitlements, without upserts of one target that overlap: a target has  *)
(* one row at most and one upsert at most, and whoever is between its      *)
(* select and its commit still sees what it has selected.                  *)

HasRow(i) == rows[i] # Granting!NoRow
IsUpserting(a) == upsert[a] # Granting!NoUpsert

OneRow == \A i, j \in Ids : HasRow(i) /\ HasRow(j) /\ rows[i].target = rows[j].target => i = j

OneUpsert ==
    \A a, b \in Admins : IsUpserting(a) /\ IsUpserting(b) /\ upsert[a].target = upsert[b].target => a = b

OneInserts ==
    \A a, b \in Admins :
        IsUpserting(a) /\ IsUpserting(b) /\ upsert[a].new /\ upsert[a].row = upsert[b].row => a = b

SeesItsRow(a) ==
    IF upsert[a].new
    THEN ~ HasRow(upsert[a].row) /\ \A i \in Ids : HasRow(i) => rows[i].target # upsert[a].target
    ELSE /\ HasRow(upsert[a].row) /\ rows[upsert[a].row].target = upsert[a].target
         /\ upsert[a].loaded = rows[upsert[a].row].visible

AskedIsVisible ==
    \A t \in Granting!Targets : asked[t] <=> \E i \in Ids : HasRow(i) /\ rows[i].target = t /\ rows[i].visible

GrantsInv ==
    /\ Granting!TypeOK /\ OneRow /\ OneUpsert /\ OneInserts /\ AskedIsVisible
    /\ \A a \in Admins : IsUpserting(a) => SeesItsRow(a)

LEMMA GrantsInvMeans == GrantsInv => Granting!SeesWhatWasSet
<1> SUFFICES ASSUME GrantsInv, NEW who \in Scopes, NEW version \in Versions
             PROVE  Granting!Sees(who, version) <=>
                      \E t \in Granting!Targets : asked[t] /\ t.scope \in {Granting!Tenant, who}
                                                           /\ t.range \in {Granting!Any, version}
  BY DEF Granting!SeesWhatWasSet, Granting!Sees
<1>1. \A i \in Ids : HasRow(i) => rows[i].target \in Granting!Targets
  BY DEF GrantsInv, Granting!TypeOK, HasRow
<1>2. QED BY <1>1 DEF GrantsInv, AskedIsVisible, Granting!Sees, HasRow

LEMMA InitGrantsInv == Granting!Init => GrantsInv
  BY DEF Granting!Init, Granting!TypeOK, GrantsInv, OneRow, OneUpsert, OneInserts, AskedIsVisible, HasRow, IsUpserting

LEMMA SelectSteps ==
  ASSUME GrantsInv, NEW a \in Admins, NEW t \in Granting!Targets, NEW v \in BOOLEAN, Granting!Select(a, t, v)
  PROVE  GrantsInv'
<1> USE DEF GrantsInv
<1>1. PICK new \in BOOLEAN, i \in Ids, loaded_ \in BOOLEAN :
        /\ upsert' = [upsert EXCEPT ![a] = [target |-> t, visible |-> v, row |-> i, new |-> new, loaded |-> loaded_]]
        /\ new => /\ ~ HasRow(i) /\ \A b \in Admins : IsUpserting(b) => upsert[b].row # i
                  /\ \A j \in Ids : HasRow(j) => rows[j].target # t
        /\ ~ new => HasRow(i) /\ rows[i].target = t /\ loaded_ = rows[i].visible
  <2>1. CASE \E i \in Granting!Already(t) :
                upsert' = [upsert EXCEPT ![a] = [target |-> t, visible |-> v, row |-> i, new |-> FALSE,
                                                 loaded |-> rows[i].visible]]
    <3>1. PICK i \in Granting!Already(t) :
                upsert' = [upsert EXCEPT ![a] = [target |-> t, visible |-> v, row |-> i, new |-> FALSE,
                                                 loaded |-> rows[i].visible]]
      BY <2>1
    <3>2. i \in Ids /\ HasRow(i) /\ rows[i].target = t /\ rows[i].visible \in BOOLEAN
      BY DEF Granting!Already, Granting!Matching, HasRow, Granting!TypeOK
    <3>3. QED BY <3>1, <3>2
  <2>2. CASE \E i \in Granting!Fresh :
                /\ Granting!Already(t) = {}
                /\ upsert' = [upsert EXCEPT ![a] = [target |-> t, visible |-> v, row |-> i, new |-> TRUE, loaded |-> v]]
    BY <2>2 DEF Granting!Fresh, Granting!Already, Granting!Matching, HasRow, IsUpserting
  <2>3. QED BY <2>1, <2>2 DEF Granting!Select
<1>2. ~ IsUpserting(a) /\ (\A b \in Admins : IsUpserting(b) => upsert[b].target # t) /\ UNCHANGED <<rows, asked>>
  BY DEF Granting!Select, Granting!Upserting, IsUpserting
<1> DEFINE u == [target |-> t, visible |-> v, row |-> i, new |-> new, loaded |-> loaded_]
<1>3. u \in [target : Granting!Targets, visible : BOOLEAN, row : Ids, new : BOOLEAN, loaded : BOOLEAN]
  OBVIOUS
<1>4. /\ upsert'[a].target = t /\ upsert'[a].row = i /\ upsert'[a].new = new /\ upsert'[a].loaded = loaded_
      /\ \A b \in Admins \ {a} : upsert'[b] = upsert[b]
      /\ upsert' \in [Admins -> [target : Granting!Targets, visible : BOOLEAN, row : Ids, new : BOOLEAN, loaded : BOOLEAN]
                                   \cup {Granting!NoUpsert}]
  BY <1>1, <1>3 DEF Granting!TypeOK
<1>5. Granting!TypeOK'
  BY <1>2, <1>4 DEF Granting!TypeOK
<1>6. OneRow' /\ AskedIsVisible'
  BY <1>2 DEF OneRow, AskedIsVisible, HasRow
<1>7. OneUpsert'
  BY <1>2, <1>4 DEF OneUpsert, IsUpserting
<1>8. OneInserts'
  <2>1. \A b \in Admins \ {a} : IsUpserting(b) /\ upsert[b].new => upsert[b].row # i
    <3>1. ASSUME NEW b \in Admins \ {a}, IsUpserting(b), upsert[b].new, upsert[b].row = i PROVE FALSE
      BY <1>1, <3>1 DEF SeesItsRow
    <3>2. QED BY <3>1
  <2>2. QED BY <1>1, <1>4, <2>1 DEF OneInserts, IsUpserting
<1>9. \A b \in Admins : IsUpserting(b)' => SeesItsRow(b)'
  <2>1. SeesItsRow(a)'
    BY <1>1, <1>2, <1>4 DEF SeesItsRow, HasRow
  <2>2. ASSUME NEW b \in Admins \ {a}, IsUpserting(b)' PROVE SeesItsRow(b)'
    BY <1>2, <1>4, <2>2 DEF SeesItsRow, HasRow, IsUpserting
  <2>3. QED BY <2>1, <2>2
<1>10. QED BY <1>5, <1>6, <1>7, <1>8, <1>9

(* After a commit the target's row is as it was asked for.                 *)
LEMMA CommitSteps ==
  ASSUME GrantsInv, NEW a \in Admins, Granting!Commit(a)
  PROVE  GrantsInv'
<1> USE DEF GrantsInv
<1>u. PICK u : u = upsert[a]
  OBVIOUS
<1>i. PICK i : i = u.row
  OBVIOUS
<1>1. /\ IsUpserting(a) /\ SeesItsRow(a)
      /\ u \in [target : Granting!Targets, visible : BOOLEAN, row : Ids, new : BOOLEAN, loaded : BOOLEAN]
      /\ upsert' = [upsert EXCEPT ![a] = Granting!NoUpsert] /\ asked' = [asked EXCEPT ![u.target] = u.visible]
  BY <1>u DEF Granting!Commit, IsUpserting, Granting!TypeOK
<1>2. i \in Ids /\ u.target \in Granting!Targets /\ u.visible \in BOOLEAN
  BY <1>i, <1>1
<1>3. /\ rows'[i] = [target |-> u.target, visible |-> u.visible]
      /\ \A j \in Ids \ {i} : rows'[j] = rows[j]
      /\ rows' \in [Ids -> [target : Granting!Targets, visible : BOOLEAN] \cup {Granting!NoRow}]
  <2>1. CASE u.new
    BY <1>u, <1>i, <1>2, <2>1 DEF Granting!Commit, Granting!TypeOK
  <2>2. CASE ~ u.new
    <3>1. /\ rows[i] \in [target : Granting!Targets, visible : BOOLEAN] /\ rows[i].target = u.target
          /\ u.loaded = rows[i].visible
      BY <1>u, <1>i, <1>1, <1>2, <2>2 DEF SeesItsRow, HasRow, Granting!TypeOK
    <3>2. CASE u.loaded # u.visible
      <4>1. rows' = [rows EXCEPT ![i].visible = u.visible]
        BY <1>u, <1>i, <2>2, <3>2 DEF Granting!Commit
      <4>2. rows'[i] = [target |-> u.target, visible |-> u.visible]
        BY <1>2, <3>1, <4>1 DEF Granting!TypeOK
      <4>3. QED BY <1>2, <4>1, <4>2 DEF Granting!TypeOK
    <3>3. CASE u.loaded = u.visible
      <4>1. rows' = rows
        BY <1>u, <1>i, <2>2, <3>3 DEF Granting!Commit
      <4>2. rows[i] = [target |-> u.target, visible |-> u.visible]
        BY <3>1, <3>3
      <4>3. QED BY <1>2, <4>1, <4>2 DEF Granting!TypeOK
    <3>4. QED BY <3>2, <3>3
  <2>3. QED BY <2>1, <2>2
<1>4. /\ asked'[u.target] = u.visible /\ \A t \in Granting!Targets \ {u.target} : asked'[t] = asked[t]
      /\ asked' \in [Granting!Targets -> BOOLEAN]
  BY <1>1, <1>2 DEF Granting!TypeOK
<1>5. /\ ~ IsUpserting(a)' /\ \A b \in Admins \ {a} : upsert'[b] = upsert[b]
      /\ upsert' \in [Admins -> [target : Granting!Targets, visible : BOOLEAN, row : Ids, new : BOOLEAN, loaded : BOOLEAN]
                                   \cup {Granting!NoUpsert}]
  BY <1>1 DEF Granting!TypeOK, IsUpserting
<1>6. \A j \in Ids \ {i} : HasRow(j) => rows[j].target # u.target
  BY <1>u, <1>i, <1>1, <1>2 DEF SeesItsRow, OneRow
<1>7. HasRow(i)' /\ rows'[i].target = u.target /\ rows'[i].visible = u.visible
  <2>1. DOMAIN rows'[i] = {"target", "visible"} /\ DOMAIN Granting!NoRow = {"target"}
    BY <1>3 DEF Granting!NoRow
  <2>2. rows'[i] # Granting!NoRow
    BY <2>1
  <2>3. QED BY <1>3, <2>2 DEF HasRow
<1>8. Granting!TypeOK'
  BY <1>3, <1>4, <1>5 DEF Granting!TypeOK
<1>9. OneRow'
  BY <1>2, <1>3, <1>6, <1>7 DEF OneRow, HasRow
<1>10. OneUpsert' /\ OneInserts'
  BY <1>5 DEF OneUpsert, OneInserts, IsUpserting
<1>11. AskedIsVisible'
  <2>1. ASSUME NEW t \in Granting!Targets
        PROVE  asked'[t] <=> \E j \in Ids : HasRow(j)' /\ rows'[j].target = t /\ rows'[j].visible
    <3>1. CASE t = u.target
      <4>1. (\E j \in Ids : HasRow(j)' /\ rows'[j].target = t /\ rows'[j].visible) <=> u.visible
        BY <1>2, <1>3, <1>6, <1>7, <3>1 DEF HasRow
      <4>2. asked'[t] = u.visible
        BY <1>4, <3>1
      <4>3. QED BY <4>1, <4>2
    <3>2. CASE t # u.target
      <4>1. ~ (HasRow(i) /\ rows[i].target = t)
        BY <1>u, <1>i, <1>1, <3>2 DEF SeesItsRow
      <4>2. QED BY <1>2, <1>3, <1>4, <1>7, <3>2, <4>1 DEF AskedIsVisible, HasRow
    <3>3. QED BY <3>1, <3>2
  <2>2. QED BY <2>1 DEF AskedIsVisible
<1>12. ASSUME NEW b \in Admins, IsUpserting(b)' PROVE SeesItsRow(b)'
  <2>1. /\ b # a /\ upsert'[b] = upsert[b] /\ IsUpserting(b) /\ SeesItsRow(b)
    BY <1>5, <1>12 DEF IsUpserting
  <2>2. upsert[b].target # u.target /\ upsert[b].row \in Ids
    BY <1>u, <1>1, <2>1 DEF OneUpsert, Granting!TypeOK, IsUpserting
  <2>3. upsert[b].row # i
    BY <1>u, <1>i, <1>1, <2>1, <2>2 DEF OneInserts, SeesItsRow
  <2>4. QED BY <1>2, <1>3, <1>7, <2>1, <2>2, <2>3 DEF SeesItsRow, HasRow
<1>13. QED BY <1>8, <1>9, <1>10, <1>11, <1>12

LEMMA NextGrantsInv == GrantsInv /\ [Granting!Next]_onlyGrants => GrantsInv'
<1> SUFFICES ASSUME GrantsInv, [Granting!Next]_onlyGrants PROVE GrantsInv'
  OBVIOUS
<1>1. CASE Granting!Next
  BY <1>1, SelectSteps, CommitSteps DEF Granting!Next
<1>2. CASE UNCHANGED onlyGrants
  <2>1. UNCHANGED <<rows, upsert, asked>>
    BY <1>2 DEF onlyGrants
  <2>2. QED
    BY <2>1 DEF GrantsInv, Granting!TypeOK, OneRow, OneUpsert, OneInserts, AskedIsVisible, SeesItsRow, HasRow, IsUpserting
<1>3. QED BY <1>1, <1>2

-----------------------------------------------------------------------------
(* Accounts, with role changes that do not overlap.  What a login has read *)
(* of its user may be stale at its commit, but the user is still there, in *)
(* the same tenant, and has had the role since the login began; who        *)
(* inserts a user is alone and finds none.                                 *)

HasUser(e) == users[e] # Logging!NoUser
LoggingIn(l) == login[l] # Logging!Idle
Changing(c) == change[c] # Logging!NoChange
Inserts(l) == login[l].step = "commit" /\ login[l].user = Logging!NoUser

LoginRecs ==
    [step : {"tenant", "insert tenant", "user", "insert user", "commit"}, email : Emails,
     tenant : Tenants, newTenant : BOOLEAN, user : [tenant : Tenants, role : Roles] \cup {Logging!NoUser},
     began : 1 .. clock]
ChangeRecs == [email : Emails, loaded : Roles, role : Roles]

TokenRecs == [email : Emails, tenant : tenants, role : Roles, exp : clock .. clock + TokenTTL]
TrailRecs == [email : Emails, previous : Roles, role : Roles]

LoginTypes ==
    /\ clock \in 1 .. LoginTime
    /\ tenants \subseteq Tenants
    /\ users \in [Emails -> [tenant : tenants, role : Roles] \cup {Logging!NoUser}]
    /\ login \in [Logins -> LoginRecs \cup {Logging!Idle}]
    /\ change \in [Changes -> ChangeRecs \cup {Logging!NoChange}]
    /\ tokens \subseteq TokenRecs
    /\ trail \in Seq(TrailRecs)
    /\ had \in [Emails -> [Roles -> 0 .. clock]]

KnowsItsUser(l) ==
    /\ clock - login[l].began <= SlowLogin
    /\ login[l].user # Logging!NoUser =>
           /\ login[l].step = "commit" /\ HasUser(login[l].email)
           /\ users[login[l].email].tenant = login[l].tenant
           /\ had[login[l].email][login[l].user.role] >= login[l].began
    /\ Inserts(l) => ~ HasUser(login[l].email)

OneInsertsUser ==
    \A l, q \in Logins :
        LoggingIn(l) /\ LoggingIn(q) /\ Inserts(l) /\ Inserts(q) /\ login[l].email = login[q].email => l = q

HasRoleNow == \A e \in Emails : HasUser(e) => had[e][users[e].role] = clock

KnowsTheRole(c) ==
    /\ HasUser(change[c].email)
    /\ change[c].email \notin Bootstrap => users[change[c].email].role = change[c].loaded

OneChange == \A c, d \in Changes : Changing(c) /\ Changing(d) => c = d

TrailHasUsers == \A i \in DOMAIN trail : HasUser(trail[i].email)

LoginsInv ==
    /\ LoginTypes /\ OneInsertsUser /\ HasRoleNow /\ OneChange /\ TrailHasUsers
    /\ \A l \in Logins : LoggingIn(l) => KnowsItsUser(l)
    /\ \A c \in Changes : Changing(c) => KnowsTheRole(c)
    /\ Logging!TenantsHaveUsers /\ Logging!TokensAreRecent /\ Logging!TrailTellsRole

LEMMA LoginNumbers ==
  /\ TokenTTL \in Nat /\ SlowLogin \in Nat /\ LoginTime \in Nat /\ "user" \in Roles /\ "admin" \in Roles
  /\ "none" \notin Roles /\ "none" \notin Tenants /\ "none" \notin Emails
  BY LoginsAssumption

LEMMA LoginTypesMean == LoginTypes => Logging!TypeOK
<1> SUFFICES ASSUME LoginTypes PROVE Logging!TypeOK
  OBVIOUS
<1>1. /\ \A l \in Logins : login[l] = Logging!Idle \/ login[l] \in LoginRecs
      /\ \A c \in Changes : change[c] = Logging!NoChange \/ change[c] \in ChangeRecs
  BY DEF LoginTypes
<1>2. QED BY <1>1, Zenon DEF LoginTypes, Logging!TypeOK, LoginRecs, ChangeRecs, TokenRecs, TrailRecs

LEMMA NotIdle ==
  ASSUME NEW l, login[l].step # "idle"
  PROVE  LoggingIn(l)
<1>1. SUFFICES ASSUME login[l] = [step |-> "idle"] PROVE FALSE
  BY DEF LoggingIn, Logging!Idle
<1>2. login[l].step = "idle"
  BY <1>1
<1>3. QED BY <1>2

LEMMA UserFields ==
  ASSUME LoginTypes, NEW e \in Emails
  PROVE  /\ HasUser(e) => /\ users[e] \in [tenant : tenants, role : Roles]
                          /\ users[e].tenant \in tenants /\ users[e].tenant \in Tenants /\ users[e].role \in Roles
         /\ ~ HasUser(e) => users[e].tenant \notin Tenants /\ users[e].role \notin Roles
         /\ clock \in Nat /\ \A r \in Roles : had[e][r] \in 0 .. clock /\ had[e][r] \in Nat
<1>1. clock \in Nat /\ \A r \in Roles : had[e][r] \in 0 .. clock /\ had[e][r] \in Nat
  BY LoginNumbers DEF LoginTypes
<1>2. users[e] \in [tenant : tenants, role : Roles] \cup {Logging!NoUser} /\ tenants \subseteq Tenants
  BY DEF LoginTypes
<1>3. CASE HasUser(e)
  BY <1>1, <1>2, <1>3 DEF HasUser
<1>4. CASE ~ HasUser(e)
  <2>1. users[e].tenant = "none" /\ users[e].role = "none"
    BY <1>4 DEF HasUser, Logging!NoUser
  <2>2. QED BY <1>1, <1>4, <2>1, LoginNumbers
<1>5. QED BY <1>3, <1>4

LEMMA LoginFields ==
  ASSUME LoginTypes, NEW l \in Logins, LoggingIn(l)
  PROVE  /\ login[l] \in LoginRecs /\ login[l].email \in Emails /\ login[l].tenant \in Tenants
         /\ login[l].newTenant \in BOOLEAN /\ login[l].began \in 1 .. clock /\ login[l].began \in Nat
         /\ login[l].user # Logging!NoUser => login[l].user.tenant \in Tenants /\ login[l].user.role \in Roles
         /\ login[l].user \in [tenant : Tenants, role : Roles] \cup {Logging!NoUser}
<1>1. login[l] \in LoginRecs
  BY DEF LoginTypes, LoggingIn
<1>2. login[l].user \in [tenant : Tenants, role : Roles] \cup {Logging!NoUser}
  BY <1>1 DEF LoginRecs
<1>3. login[l].user # Logging!NoUser => login[l].user.tenant \in Tenants /\ login[l].user.role \in Roles
  BY <1>2
<1>4. login[l].newTenant \in BOOLEAN
  BY <1>1 DEF LoginRecs
<1>5. /\ login[l].email \in Emails /\ login[l].tenant \in Tenants
      /\ login[l].began \in 1 .. clock /\ login[l].began \in Nat
  <2>1. login[l].email \in Emails /\ login[l].tenant \in Tenants /\ login[l].began \in 1 .. clock
    BY <1>1 DEF LoginRecs
  <2>2. clock \in Nat
    BY LoginNumbers DEF LoginTypes
  <2>3. QED BY <2>1, <2>2
<1>6. QED BY <1>1, <1>2, <1>3, <1>4, <1>5

LEMMA ChangeFields ==
  ASSUME LoginTypes, NEW c \in Changes, Changing(c)
  PROVE  /\ change[c] \in ChangeRecs /\ change[c].email \in Emails /\ change[c].loaded \in Roles
         /\ change[c].role \in Roles
  BY DEF LoginTypes, ChangeRecs, Changing

(* A token stands for a user.                                              *)
LEMMA TokenFields ==
  ASSUME LoginsInv, NEW t \in tokens
  PROVE  /\ t.email \in Emails /\ t.role \in Roles /\ t.tenant \in tenants /\ t.exp \in Nat /\ t.exp >= clock
         /\ t.exp <= clock + TokenTTL /\ HasUser(t.email)
         /\ t = [email |-> t.email, tenant |-> t.tenant, role |-> t.role, exp |-> t.exp]
<1>1. /\ t \in [email : Emails, tenant : tenants, role : Roles, exp : clock .. clock + TokenTTL]
      /\ tenants \subseteq Tenants /\ clock \in Nat
  BY DEF LoginsInv, LoginTypes, TokenRecs
<1>2. HasUser(t.email)
  BY <1>1, UserFields DEF LoginsInv, Logging!TokensAreRecent
<1>3. QED BY <1>1, <1>2, LoginNumbers

LEMMA TrailFields ==
  ASSUME LoginsInv, NEW i \in DOMAIN trail
  PROVE  trail[i].email \in Emails /\ HasUser(trail[i].email)
<1>1. trail \in Seq(TrailRecs)
  BY DEF LoginsInv, LoginTypes
<1>2. trail[i] \in TrailRecs
  BY <1>1
<1>3. trail[i].email \in Emails
  BY <1>2 DEF TrailRecs
<1>4. HasUser(trail[i].email)
  BY DEF LoginsInv, TrailHasUsers
<1>5. QED BY <1>3, <1>4

LEMMA InitLoginsInv == Logging!Init => LoginsInv
<1> SUFFICES ASSUME Logging!Init PROVE LoginsInv
  OBVIOUS
<1>2. LoginTypes
  BY LoginsAssumption DEF Logging!Init, LoginTypes, Logging!Never
<1>3. \A e \in Emails : ~ HasUser(e)
  BY DEF Logging!Init, HasUser
<1>4. (\A l \in Logins : ~ LoggingIn(l)) /\ (\A c \in Changes : ~ Changing(c)) /\ DOMAIN trail = {}
  BY DEF Logging!Init, LoggingIn, Changing
<1>5. Logging!TenantsHaveUsers /\ Logging!TokensAreRecent /\ Logging!TrailTellsRole
  BY <1>4 DEF Logging!Init, Logging!TenantsHaveUsers, Logging!TokensAreRecent, Logging!TrailTellsRole
<1>6. QED BY <1>2, <1>3, <1>4, <1>5 DEF LoginsInv, OneInsertsUser, HasRoleNow, OneChange, TrailHasUsers

-----------------------------------------------------------------------------
(* A login's statements before its commit write nothing that others see.   *)

LEMMA LoginMoves ==
  ASSUME LoginsInv, NEW l \in Logins, NEW g \in LoginRecs \cup {Logging!Idle},
         login' = [login EXCEPT ![l] = g], UNCHANGED <<clock, tenants, users, change, tokens, trail, had>>,
         g # Logging!Idle =>
             /\ clock - g.began <= SlowLogin
             /\ g.user # Logging!NoUser =>
                    /\ g.step = "commit" /\ HasUser(g.email) /\ users[g.email].tenant = g.tenant
                    /\ had[g.email][g.user.role] >= g.began
             /\ g.step = "commit" /\ g.user = Logging!NoUser =>
                    /\ ~ HasUser(g.email)
                    /\ \A q \in Logins \ {l} : LoggingIn(q) /\ Inserts(q) => login[q].email # g.email
  PROVE  LoginsInv'
<1> USE DEF LoginsInv
<1>1. /\ login' \in [Logins -> LoginRecs \cup {Logging!Idle}] /\ login'[l] = g
      /\ \A q \in Logins \ {l} : login'[q] = login[q]
  BY DEF LoginTypes
<1>2. LoginTypes'
  <2>1. /\ LoginRecs' = LoginRecs /\ ChangeRecs' = ChangeRecs /\ TokenRecs' = TokenRecs
        /\ TrailRecs' = TrailRecs
    BY DEF LoginRecs, ChangeRecs, TokenRecs, TrailRecs
  <2>2. QED BY <1>1, <2>1 DEF LoginTypes
<1>3. \A q \in Logins : LoggingIn(q)' => KnowsItsUser(q)'
  <2>1. LoggingIn(l)' => KnowsItsUser(l)'
    BY <1>1 DEF LoggingIn, KnowsItsUser, Inserts, HasUser
  <2>2. ASSUME NEW q \in Logins \ {l}, LoggingIn(q)' PROVE KnowsItsUser(q)'
    BY <1>1, <2>2 DEF LoggingIn, KnowsItsUser, Inserts, HasUser
  <2>3. QED BY <2>1, <2>2
<1>4. OneInsertsUser'
  BY <1>1 DEF OneInsertsUser, LoggingIn, Inserts
<1>5. HasRoleNow' /\ OneChange' /\ TrailHasUsers' /\ \A c \in Changes : Changing(c)' => KnowsTheRole(c)'
  BY DEF HasRoleNow, OneChange, TrailHasUsers, KnowsTheRole, Changing, HasUser
<1>6. Logging!TenantsHaveUsers' /\ Logging!TokensAreRecent' /\ Logging!TrailTellsRole'
  BY DEF Logging!TenantsHaveUsers, Logging!TokensAreRecent, Logging!TrailTellsRole
<1>7. QED BY <1>2, <1>3, <1>4, <1>5, <1>6

(* ... and so do a login that ends and one that takes a step elsewhere.    *)
LEMMA LoginGoes ==
  ASSUME LoginsInv, NEW l \in Logins, LoggingIn(l),
         UNCHANGED <<clock, tenants, users, change, tokens, trail, had>>,
         \/ Logging!End(l)
         \/ /\ login[l].user = Logging!NoUser
            /\ \E where \in {"insert tenant", "user", "insert user"}, new \in BOOLEAN :
                   login' = [login EXCEPT ![l] = [login[l] EXCEPT !.step = where, !.newTenant = new]]
  PROVE  LoginsInv'
<1>1. CASE Logging!End(l)
  BY <1>1, LoginMoves DEF Logging!End
<1>2. ASSUME login[l].user = Logging!NoUser, NEW where \in {"insert tenant", "user", "insert user"}, NEW new \in BOOLEAN,
             login' = [login EXCEPT ![l] = [login[l] EXCEPT !.step = where, !.newTenant = new]]
      PROVE  LoginsInv'
  <2>1. PICK g : g = [login[l] EXCEPT !.step = where, !.newTenant = new]
    OBVIOUS
  <2>2. login[l] \in LoginRecs
    BY LoginFields DEF LoginsInv
  <2>3. g \in LoginRecs /\ g.user = Logging!NoUser /\ g.step # "commit" /\ g.began = login[l].began
    BY <1>2, <2>1, <2>2 DEF LoginRecs
  <2>4. clock - g.began <= SlowLogin
    BY <2>3 DEF LoginsInv, KnowsItsUser
  <2>5. QED BY <1>2, <2>1, <2>3, <2>4, LoginMoves
<1>3. QED BY <1>1, <1>2

LEMMA LoginReads ==
  ASSUME LoginsInv, NEW l \in Logins,
         \/ Logging!Begin(l) \/ Logging!FindTenant(l) \/ Logging!InsertTenant(l) \/ Logging!FindUser(l)
         \/ Logging!InsertUser(l) \/ Logging!LoginFails(l)
  PROVE  LoginsInv'
<1>1. UNCHANGED <<clock, tenants, users, change, tokens, trail, had>>
  BY DEF Logging!Begin, Logging!FindTenant, Logging!InsertTenant, Logging!FindUser, Logging!InsertUser,
         Logging!LoginFails, Logging!rows, Logging!Rollback
<1>2. LoginTypes /\ clock \in 1 .. clock /\ clock - clock <= SlowLogin
  BY LoginNumbers DEF LoginsInv, LoginTypes
<1>3. CASE Logging!Begin(l)
  <2>1. PICK e \in Emails, t \in Tenants :
          login' = [login EXCEPT ![l] = [step |-> "tenant", email |-> e, tenant |-> t, newTenant |-> FALSE,
                                         user |-> Logging!NoUser, began |-> clock]]
    BY <1>3 DEF Logging!Begin
  <2>2. PICK g : g = [step |-> "tenant", email |-> e, tenant |-> t, newTenant |-> FALSE,
                      user |-> Logging!NoUser, began |-> clock]
    OBVIOUS
  <2>3. g \in LoginRecs /\ g.user = Logging!NoUser /\ g.step # "commit" /\ g.began = clock
    BY <1>2, <2>2 DEF LoginRecs
  <2>4. QED BY <1>1, <1>2, <2>1, <2>2, <2>3, LoginMoves
<1>4. ASSUME ~ Logging!Begin(l) PROVE LoggingIn(l)
  BY <1>4, NotIdle DEF Logging!FindTenant, Logging!InsertTenant, Logging!FindUser, Logging!InsertUser,
         Logging!LoginFails
<1>5. LoggingIn(l) => /\ login[l] \in LoginRecs /\ login[l].email \in Emails
                      /\ login[l].step # "commit" => login[l].user = Logging!NoUser
                      /\ clock - login[l].began <= SlowLogin
  BY <1>2, LoginFields DEF LoginsInv, KnowsItsUser
<1>6. CASE Logging!FindTenant(l) \/ Logging!InsertTenant(l)
  <2>1. LoggingIn(l) /\ login[l].user = Logging!NoUser
    <3>1. login[l].step \in {"tenant", "insert tenant"}
      BY <1>6 DEF Logging!FindTenant, Logging!InsertTenant
    <3>2. QED BY <1>5, <3>1, NotIdle
  <2>2. \/ Logging!End(l)
        \/ login' = [login EXCEPT ![l].step = "user", ![l].newTenant = TRUE]
        \/ \E where \in {"insert tenant", "user"} : login' = [login EXCEPT ![l].step = where]
    BY <1>6 DEF Logging!FindTenant, Logging!InsertTenant, Logging!Step
  <2>3. CASE login' = [login EXCEPT ![l].step = "user", ![l].newTenant = TRUE]
    <3>1. login' = [login EXCEPT ![l] = [login[l] EXCEPT !.step = "user", !.newTenant = TRUE]]
      BY <1>2, <2>3 DEF LoginTypes
    <3>2. QED BY <1>1, <2>1, <3>1, LoginGoes
  <2>4. ASSUME NEW where \in {"insert tenant", "user"}, login' = [login EXCEPT ![l].step = where]
        PROVE  LoginsInv'
    <3>1. [login[l] EXCEPT !.step = where] = [login[l] EXCEPT !.step = where, !.newTenant = login[l].newTenant]
          /\ login[l].newTenant \in BOOLEAN
      BY <1>5, <2>1 DEF LoginRecs
    <3>2. login' = [login EXCEPT ![l] = [login[l] EXCEPT !.step = where]]
      BY <2>4
    <3>3. QED BY <1>1, <2>1, <3>1, <3>2, LoginGoes
  <2>5. QED BY <1>1, <2>1, <2>2, <2>3, <2>4, LoginGoes
<1>7. CASE Logging!FindUser(l)
  <2>1. LoggingIn(l) /\ login[l].user = Logging!NoUser /\ login[l].step = "user"
    <3>1. login[l].step = "user"
      BY <1>7 DEF Logging!FindUser
    <3>2. QED BY <1>5, <3>1, NotIdle
  <2>2. PICK e, u : e = login[l].email /\ u = users[e]
    OBVIOUS
  <2>3. e \in Emails /\ login[l] \in LoginRecs /\ login[l].tenant \in Tenants /\ login[l].began \in 1 .. clock
    BY <1>5, <2>1, <2>2 DEF LoginRecs
  <2>4. CASE u # Logging!NoUser /\ u.tenant # login[l].tenant
    <3>1. Logging!End(l)
      BY <1>7, <2>2, <2>4 DEF Logging!FindUser
    <3>2. QED BY <1>1, <2>1, <3>1, LoginGoes
  <2>5. CASE u = Logging!NoUser
    <3>1. login' = [login EXCEPT ![l].step = "insert user", ![l].user = Logging!NoUser]
      BY <1>7, <2>2, <2>5 DEF Logging!FindUser
    <3>2. login' = [login EXCEPT ![l] = [login[l] EXCEPT !.step = "insert user", !.user = Logging!NoUser]]
      BY <1>2, <3>1 DEF LoginTypes
    <3>3. [login[l] EXCEPT !.step = "insert user", !.user = Logging!NoUser]
            = [login[l] EXCEPT !.step = "insert user", !.newTenant = login[l].newTenant]
          /\ login[l].newTenant \in BOOLEAN
      BY <2>1, <2>3 DEF LoginRecs
    <3>4. QED BY <1>1, <2>1, <3>2, <3>3, LoginGoes
  <2>6. CASE u # Logging!NoUser /\ u.tenant = login[l].tenant
    <3>1. login' = [login EXCEPT ![l].step = "commit", ![l].user = u]
      BY <1>7, <2>2, <2>6 DEF Logging!FindUser
    <3>2. PICK g : g = [login[l] EXCEPT !.step = "commit", !.user = u]
      OBVIOUS
    <3>3. login' = [login EXCEPT ![l] = g]
      BY <1>2, <3>1, <3>2 DEF LoginTypes
    <3>4. HasUser(e) /\ u \in [tenant : Tenants, role : Roles] /\ u.role \in Roles
      <4>1. HasUser(e)
        BY <2>2, <2>6 DEF HasUser
      <4>2. QED BY <1>2, <2>2, <2>3, <4>1, UserFields DEF LoginTypes
    <3>5. /\ g \in LoginRecs /\ g.user = u /\ g.step = "commit" /\ g.began = login[l].began /\ g.email = e
          /\ g.tenant = login[l].tenant
      BY <2>2, <2>3, <3>2, <3>4 DEF LoginRecs
    <3>6. had[e][u.role] = clock /\ clock >= g.began
      BY <2>2, <2>3, <3>4, <3>5 DEF LoginsInv, HasRoleNow
    <3>7. QED BY <1>1, <1>5, <2>1, <2>2, <2>6, <3>3, <3>4, <3>5, <3>6, LoginMoves
  <2>7. QED BY <2>4, <2>5, <2>6
<1>8. CASE Logging!InsertUser(l)
  <2>1. LoggingIn(l) /\ login[l].user = Logging!NoUser /\ login[l].step = "insert user"
    <3>1. login[l].step = "insert user"
      BY <1>8 DEF Logging!InsertUser
    <3>2. QED BY <1>5, <3>1, NotIdle
  <2>2. CASE users[login[l].email] # Logging!NoUser
    <3>1. Logging!End(l)
      BY <1>8, <2>2 DEF Logging!InsertUser
    <3>2. QED BY <1>1, <2>1, <3>1, LoginGoes
  <2>3. CASE users[login[l].email] = Logging!NoUser
    <3>1. login' = [login EXCEPT ![l].step = "commit"]
      BY <1>8, <2>3 DEF Logging!InsertUser, Logging!Step
    <3>2. PICK g : g = [login[l] EXCEPT !.step = "commit"]
      OBVIOUS
    <3>3. login' = [login EXCEPT ![l] = g]
      BY <3>1, <3>2
    <3>4. /\ g \in LoginRecs /\ g.user = Logging!NoUser /\ g.step = "commit" /\ g.began = login[l].began
          /\ g.email = login[l].email
      BY <1>5, <2>1, <3>2 DEF LoginRecs
    <3>5. ~ HasUser(g.email) /\ \A q \in Logins \ {l} : LoggingIn(q) /\ Inserts(q) => login[q].email # g.email
      BY <1>8, <2>3, <3>4 DEF HasUser, Inserts, Logging!InsertUser, Logging!UserInFlight
    <3>6. QED BY <1>1, <1>5, <2>1, <3>3, <3>4, <3>5, LoginMoves
  <2>4. QED BY <2>2, <2>3
<1>9. CASE Logging!LoginFails(l)
  <2>1. LoggingIn(l) /\ Logging!End(l)
    <3>1. login[l].step \in {"insert user", "commit"} /\ Logging!End(l)
      BY <1>9 DEF Logging!LoginFails
    <3>2. QED BY <3>1, NotIdle
  <2>2. QED BY <1>1, <2>1, LoginGoes
<1>10. QED BY <1>3, <1>6, <1>7, <1>8, <1>9

-----------------------------------------------------------------------------
(* A user's row that is inserted, or gets another role, e's as s.          *)

RowBecomes(e, s) ==
    /\ users' = [users EXCEPT ![e] = s] /\ tenants' = tenants \cup {s.tenant}
    /\ had' = [had EXCEPT ![e][s.role] = clock]
    /\ clock' = clock

LEMMA RowFields ==
  ASSUME LoginsInv, NEW e \in Emails, NEW s \in [tenant : Tenants, role : Roles], RowBecomes(e, s),
         HasUser(e) => s.tenant = users[e].tenant
  PROVE  /\ HasUser(e)' /\ \A x \in Emails : HasUser(x) => HasUser(x)' /\ users'[x].tenant = users[x].tenant
         /\ users'[e] = s /\ \A x \in Emails \ {e} : users'[x] = users[x] /\ had'[x] = had[x]
         /\ had'[e][s.role] = clock
         /\ \A x \in Emails, r \in Roles : had'[x][r] >= had[x][r] /\ had'[x][r] \in 0 .. clock
         /\ users' \in [Emails -> [tenant : tenants', role : Roles] \cup {Logging!NoUser}]
         /\ had' \in [Emails -> [Roles -> 0 .. clock]]
<1>1. /\ users \in [Emails -> [tenant : tenants, role : Roles] \cup {Logging!NoUser}]
      /\ had \in [Emails -> [Roles -> 0 .. clock]] /\ clock \in 0 .. clock /\ clock \in Nat
      /\ s.tenant \in Tenants /\ s.role \in Roles /\ s = [tenant |-> s.tenant, role |-> s.role]
  BY LoginNumbers DEF LoginsInv, LoginTypes
<1>2. users'[e] = s /\ \A x \in Emails \ {e} : users'[x] = users[x]
  BY <1>1 DEF RowBecomes
<1>3. s # Logging!NoUser
  BY <1>1, LoginNumbers DEF Logging!NoUser
<1>4. /\ had' = [had EXCEPT ![e] = [had[e] EXCEPT ![s.role] = clock]]
      /\ [had[e] EXCEPT ![s.role] = clock] \in [Roles -> 0 .. clock]
  BY <1>1 DEF RowBecomes
<1>5. /\ had' \in [Emails -> [Roles -> 0 .. clock]] /\ \A x \in Emails \ {e} : had'[x] = had[x]
      /\ had'[e] = [had[e] EXCEPT ![s.role] = clock]
  BY <1>1, <1>4
<1>6. had'[e][s.role] = clock /\ \A r \in Roles : had'[e][r] = had[e][r] \/ (r = s.role /\ had'[e][r] = clock)
  BY <1>1, <1>5
<1>7. ASSUME NEW x \in Emails, NEW r \in Roles PROVE had'[x][r] >= had[x][r] /\ had'[x][r] \in 0 .. clock
  <2>1. had[x][r] \in 0 .. clock
    BY <1>1
  <2>2. had'[x][r] = had[x][r] \/ had'[x][r] = clock
    BY <1>5, <1>6
  <2>3. QED BY <1>1, <2>1, <2>2
<1>8. users' \in [Emails -> [tenant : tenants', role : Roles] \cup {Logging!NoUser}]
  <2>1. s \in [tenant : tenants', role : Roles]
    BY <1>1 DEF RowBecomes
  <2>2. \A x \in [tenant : tenants, role : Roles] : x \in [tenant : tenants', role : Roles]
    BY DEF RowBecomes
  <2>3. QED BY <1>1, <2>1, <2>2 DEF RowBecomes
<1>9. HasUser(e)' /\ \A x \in Emails : HasUser(x) => HasUser(x)' /\ users'[x].tenant = users[x].tenant
  BY <1>2, <1>3 DEF HasUser
<1>10. QED BY <1>2, <1>5, <1>6, <1>7, <1>8, <1>9

LEMMA RowKeepsTenants ==
  ASSUME LoginsInv, NEW e \in Emails, NEW s \in [tenant : Tenants, role : Roles], RowBecomes(e, s),
         HasUser(e) => s.tenant = users[e].tenant
  PROVE  HasRoleNow' /\ Logging!TenantsHaveUsers' /\ tenants' \subseteq Tenants
<1>1. /\ HasUser(e)' /\ users'[e] = s /\ \A x \in Emails \ {e} : users'[x] = users[x] /\ had'[x] = had[x]
      /\ had'[e][s.role] = clock /\ clock' = clock /\ tenants' = tenants \cup {s.tenant}
  BY RowFields DEF RowBecomes
<1>2. HasRoleNow'
  BY <1>1 DEF HasRoleNow, HasUser, LoginsInv
<1>3. \A x : x \in tenants <=> \E y \in Emails : HasUser(y) /\ x = users[y].tenant
  BY DEF LoginsInv, Logging!TenantsHaveUsers, HasUser
<1>4. \A x : x \in tenants' <=> \E y \in Emails : HasUser(y)' /\ x = users'[y].tenant
  BY <1>1, <1>3 DEF HasUser
<1>5. Logging!TenantsHaveUsers'
  BY <1>4 DEF Logging!TenantsHaveUsers, HasUser
<1>6. QED BY <1>1, <1>2, <1>5 DEF LoginsInv, LoginTypes

(* Tokens that are out keep their user, its tenant, and when it had their  *)
(* role.                                                                   *)
LEMMA RowKeepsTokens ==
  ASSUME LoginsInv, NEW e \in Emails, NEW s \in [tenant : Tenants, role : Roles], RowBecomes(e, s),
         HasUser(e) => s.tenant = users[e].tenant, NEW t \in tokens
  PROVE  t.tenant = users'[t.email].tenant /\ t.exp <= had'[t.email][t.role] + TokenTTL + SlowLogin
<1>1. /\ t.email \in Emails /\ t.role \in Roles /\ HasUser(t.email) /\ t.exp \in Nat
      /\ t.tenant = users[t.email].tenant /\ t.exp <= had[t.email][t.role] + TokenTTL + SlowLogin
  BY TokenFields DEF LoginsInv, Logging!TokensAreRecent
<1>2. users'[t.email].tenant = users[t.email].tenant /\ had'[t.email][t.role] >= had[t.email][t.role]
  BY <1>1, RowFields
<1>3. had[t.email][t.role] \in Nat /\ had'[t.email][t.role] \in Nat
  BY <1>1, UserFields, RowFields DEF LoginsInv
<1>4. QED BY <1>1, <1>2, <1>3, LoginNumbers

(* Other logins still know their users, unless they are about to insert    *)
(* this one.                                                               *)
LEMMA RowKeepsLogins ==
  ASSUME LoginsInv, NEW e \in Emails, NEW s \in [tenant : Tenants, role : Roles], RowBecomes(e, s),
         HasUser(e) => s.tenant = users[e].tenant,
         NEW q \in Logins, LoggingIn(q), login'[q] = login[q], Inserts(q) => login[q].email # e
  PROVE  KnowsItsUser(q)'
<1>1. KnowsItsUser(q) /\ LoginTypes /\ clock' = clock
  BY DEF LoginsInv, RowBecomes
<1>2. login[q].email \in Emails /\ login[q].began \in Nat
  BY <1>1, LoginFields
<1>3. ASSUME login[q].user # Logging!NoUser
      PROVE  /\ login[q].step = "commit" /\ HasUser(login[q].email)'
             /\ users'[login[q].email].tenant = login[q].tenant
             /\ had'[login[q].email][login[q].user.role] >= login[q].began
  <2>1. login[q].user.role \in Roles
    BY <1>1, <1>3, LoginFields
  <2>2. /\ login[q].step = "commit" /\ HasUser(login[q].email) /\ users[login[q].email].tenant = login[q].tenant
        /\ had[login[q].email][login[q].user.role] >= login[q].began
    BY <1>1, <1>3 DEF KnowsItsUser
  <2>3. had[login[q].email][login[q].user.role] \in Nat
    BY <1>1, <1>2, <2>1, UserFields
  <2>4. /\ HasUser(login[q].email)' /\ users'[login[q].email].tenant = users[login[q].email].tenant
        /\ had'[login[q].email][login[q].user.role] >= had[login[q].email][login[q].user.role]
        /\ had'[login[q].email][login[q].user.role] \in 0 .. clock
    <3>1. HasUser(login[q].email)' /\ users'[login[q].email].tenant = users[login[q].email].tenant
      BY <1>2, <2>2, RowFields
    <3>2. /\ had'[login[q].email][login[q].user.role] >= had[login[q].email][login[q].user.role]
          /\ had'[login[q].email][login[q].user.role] \in 0 .. clock
      BY <1>2, <2>1, RowFields
    <3>3. QED BY <3>1, <3>2
  <2>5. QED BY <1>2, <2>2, <2>3, <2>4
<1>4. ASSUME Inserts(q) PROVE ~ HasUser(login[q].email)'
  <2>1. users'[login[q].email] = users[login[q].email] /\ ~ HasUser(login[q].email)
    BY <1>1, <1>2, <1>4, RowFields DEF KnowsItsUser
  <2>2. QED BY <2>1 DEF HasUser
<1>5. QED BY <1>1, <1>3, <1>4 DEF KnowsItsUser, Inserts, HasUser

(* The rest of what a committed row leaves true.                           *)
LEMMA RowKeepsTypes ==
  ASSUME LoginsInv, NEW e \in Emails, NEW s \in [tenant : Tenants, role : Roles], RowBecomes(e, s),
         HasUser(e) => s.tenant = users[e].tenant,
         login' \in [Logins -> LoginRecs \cup {Logging!Idle}],
         change' \in [Changes -> ChangeRecs \cup {Logging!NoChange}],
         tokens' \subseteq TokenRecs', trail' \in Seq(TrailRecs)
  PROVE  LoginTypes'
<1>1. LoginRecs' = LoginRecs /\ ChangeRecs' = ChangeRecs /\ TrailRecs' = TrailRecs /\ clock' = clock
  BY DEF LoginRecs, ChangeRecs, TrailRecs, RowBecomes
<1>2. /\ users' \in [Emails -> [tenant : tenants', role : Roles] \cup {Logging!NoUser}]
      /\ had' \in [Emails -> [Roles -> 0 .. clock]]
  BY RowFields
<1>3. tenants' \subseteq Tenants /\ clock \in 1 .. LoginTime
  BY RowKeepsTenants DEF LoginsInv, LoginTypes
<1>4. QED BY <1>1, <1>2, <1>3 DEF LoginTypes

-----------------------------------------------------------------------------

(* The row that a login leaves: a user's own, but for a bootstrap admin's. *)
LEMMA StoredRow ==
  ASSUME LoginsInv, NEW l \in Logins, Logging!CommitLogin(l), NEW e, e = login[l].email,
         NEW s, s = Logging!Stored(l)
  PROVE  /\ LoggingIn(l) /\ e \in Emails /\ s \in [tenant : Tenants, role : Roles]
         /\ s.tenant = login[l].tenant /\ (HasUser(e) => s.tenant = users[e].tenant)
         /\ HasUser(e) /\ s # users[e] => e \in Bootstrap /\ s.role = "admin"
         /\ ~ HasUser(e) => Inserts(l)
         /\ Logging!RoleOf(l) \in Roles
         /\ \/ s.role = Logging!RoleOf(l)
            \/ /\ HasUser(e) /\ s = users[e]
               /\ had[e][Logging!RoleOf(l)] >= login[l].began /\ login[l].began >= clock - SlowLogin
<1>1. login[l].step = "commit" /\ LoggingIn(l) /\ KnowsItsUser(l) /\ LoginTypes
  <2>1. login[l].step = "commit"
    BY DEF Logging!CommitLogin
  <2>2. LoggingIn(l)
    BY <2>1, NotIdle
  <2>3. QED BY <2>1, <2>2 DEF LoginsInv
<1>2. /\ e \in Emails /\ login[l].tenant \in Tenants /\ login[l].began \in Nat /\ clock \in Nat
      /\ login[l].user # Logging!NoUser => login[l].user.role \in Roles
  BY <1>1, LoginFields, UserFields
<1>3. Logging!RoleOf(l) \in Roles
  BY <1>2, LoginNumbers DEF Logging!RoleOf
<1>4. CASE login[l].user = Logging!NoUser
  <2>1. Inserts(l) /\ ~ HasUser(e)
    BY <1>1, <1>4 DEF Inserts, KnowsItsUser
  <2>2. s = [tenant |-> login[l].tenant, role |-> Logging!RoleOf(l)]
    BY <1>4 DEF Logging!Stored
  <2>3. QED BY <1>1, <1>2, <1>3, <2>1, <2>2
<1>5. CASE login[l].user # Logging!NoUser
  <2>1. /\ HasUser(e) /\ users[e].tenant = login[l].tenant /\ had[e][login[l].user.role] >= login[l].began
        /\ clock - login[l].began <= SlowLogin
    BY <1>1, <1>5 DEF KnowsItsUser
  <2>2. users[e] \in [tenant : Tenants, role : Roles]
    BY <1>1, <1>2, <2>1, UserFields DEF LoginTypes
  <2>3. login[l].began >= clock - SlowLogin
    BY <1>2, <2>1, LoginNumbers
  <2>4. CASE login[l].user.role = Logging!RoleOf(l)
    <3>1. s = users[e]
      BY <1>5, <2>4 DEF Logging!Stored
    <3>2. QED BY <1>1, <1>2, <1>3, <2>1, <2>2, <2>3, <2>4, <3>1
  <2>5. CASE login[l].user.role # Logging!RoleOf(l)
    <3>1. s = [tenant |-> login[l].tenant, role |-> Logging!RoleOf(l)]
      BY <2>5 DEF Logging!Stored
    <3>2. e \in Bootstrap /\ Logging!RoleOf(l) = "admin"
      BY <1>5, <2>5 DEF Logging!RoleOf
    <3>3. QED BY <1>1, <1>2, <1>3, <2>1, <3>1, <3>2
  <2>6. QED BY <2>4, <2>5
<1>6. QED BY <1>4, <1>5

LEMMA CommitLoginStep ==
  ASSUME LoginsInv, NEW l \in Logins, Logging!CommitLogin(l)
  PROVE  LoginsInv'
<1>e. PICK e : e = login[l].email
  OBVIOUS
<1>s. PICK s : s = Logging!Stored(l)
  OBVIOUS
<1>r. PICK r : r = Logging!RoleOf(l)
  OBVIOUS
<1>1. /\ LoggingIn(l) /\ e \in Emails /\ s \in [tenant : Tenants, role : Roles] /\ r \in Roles
      /\ s.tenant = login[l].tenant /\ (HasUser(e) => s.tenant = users[e].tenant)
      /\ HasUser(e) /\ s # users[e] => e \in Bootstrap
      /\ ~ HasUser(e) => Inserts(l)
      /\ \/ s.role = r
         \/ s = users[e] /\ had[e][r] >= login[l].began /\ login[l].began >= clock - SlowLogin
  BY <1>e, <1>s, <1>r, StoredRow
<1>2. LoginTypes /\ clock \in Nat /\ s.role \in Roles /\ s.tenant \in Tenants
  BY <1>1, UserFields DEF LoginsInv
<1>3. /\ users' = [users EXCEPT ![e] = s] /\ tenants' = tenants \cup {s.tenant} /\ clock' = clock
      /\ tokens' = tokens \cup {[email |-> e, tenant |-> s.tenant, role |-> r, exp |-> clock + TokenTTL]}
      /\ login' = [login EXCEPT ![l] = Logging!Idle] /\ change' = change /\ trail' = trail
  BY <1>e, <1>s, <1>r, <1>1 DEF Logging!CommitLogin, Logging!Expires, Logging!End
<1>4. users'[e] = s
  BY <1>1, <1>2, <1>3 DEF LoginTypes
<1>5. had' = [had EXCEPT ![e][s.role] = clock]
  BY <1>e, <1>4 DEF Logging!CommitLogin, Logging!Had
<1>6. RowBecomes(e, s)
  BY <1>3, <1>5 DEF RowBecomes
<1>7. /\ HasUser(e)' /\ \A x \in Emails : HasUser(x) => HasUser(x)'
      /\ \A x \in Emails \ {e} : users'[x] = users[x]
      /\ had'[e][s.role] = clock /\ had'[e][r] >= had[e][r] /\ had'[e][r] \in 0 .. clock
  BY <1>1, <1>6, RowFields
<1>8. LoginTypes'
  <2>1. tokens' \subseteq TokenRecs'
    <3>1. tokens \subseteq TokenRecs /\ tenants \subseteq tenants' /\ s.tenant \in tenants'
      BY <1>3 DEF LoginsInv, LoginTypes
    <3>2. TokenRecs \subseteq TokenRecs'
      BY <1>3, <3>1 DEF TokenRecs
    <3>3. [email |-> e, tenant |-> s.tenant, role |-> r, exp |-> clock + TokenTTL] \in TokenRecs'
      BY <1>1, <1>2, <1>3, <3>1, LoginNumbers DEF TokenRecs
    <3>4. QED BY <1>3, <3>1, <3>2, <3>3
  <2>2. /\ login' \in [Logins -> LoginRecs \cup {Logging!Idle}] /\ trail' \in Seq(TrailRecs)
        /\ change' \in [Changes -> ChangeRecs \cup {Logging!NoChange}]
    BY <1>2, <1>3 DEF LoginTypes
  <2>3. QED BY <1>1, <1>6, <2>1, <2>2, RowKeepsTypes
<1>9. HasRoleNow' /\ Logging!TenantsHaveUsers'
  BY <1>1, <1>6, RowKeepsTenants
<1>10. ~ LoggingIn(l)' /\ \A q \in Logins \ {l} : login'[q] = login[q]
  BY <1>2, <1>3 DEF LoggingIn, LoginTypes
<1>11. ASSUME NEW q \in Logins, LoggingIn(q)' PROVE KnowsItsUser(q)'
  <2>1. q # l /\ login'[q] = login[q] /\ LoggingIn(q)
    BY <1>10, <1>11 DEF LoggingIn
  <2>2. Inserts(q) => login[q].email # e
    <3>1. SUFFICES ASSUME Inserts(q), login[q].email = e PROVE FALSE
      OBVIOUS
    <3>2. ~ HasUser(e)
      BY <2>1, <3>1 DEF LoginsInv, KnowsItsUser
    <3>3. Inserts(l)
      BY <1>1, <3>2
    <3>4. QED BY <1>e, <1>1, <2>1, <3>1, <3>3 DEF LoginsInv, OneInsertsUser
  <2>3. QED BY <1>1, <1>6, <2>1, <2>2, RowKeepsLogins
<1>12. OneInsertsUser'
  BY <1>10 DEF LoginsInv, OneInsertsUser, LoggingIn, Inserts
<1>13. OneChange' /\ TrailHasUsers'
  <2>1. OneChange'
    BY <1>3 DEF LoginsInv, OneChange, Changing
  <2>2. \A i \in DOMAIN trail : trail[i].email \in Emails
    BY TrailFields
  <2>3. TrailHasUsers'
    <3>1. ASSUME NEW i \in DOMAIN trail PROVE users'[trail[i].email] # Logging!NoUser
      BY <1>7, <2>2 DEF LoginsInv, TrailHasUsers, HasUser
    <3>2. QED BY <1>3, <3>1 DEF TrailHasUsers, HasUser
  <2>4. QED BY <2>1, <2>3
<1>14. \A x \in Emails \ Bootstrap : HasUser(x) => users'[x] = users[x]
  BY <1>1, <1>4, <1>7
<1>15. ASSUME NEW c \in Changes, Changing(c)' PROVE KnowsTheRole(c)'
  <2>1. Changing(c) /\ change' = change /\ KnowsTheRole(c) /\ change[c].email \in Emails
    BY <1>2, <1>3, <1>15, ChangeFields DEF Changing, LoginsInv
  <2>2. QED BY <1>7, <1>14, <2>1 DEF KnowsTheRole, HasUser
<1>16. Logging!TokensAreRecent'
  <2>1. ASSUME NEW t \in tokens
        PROVE  t.tenant = users'[t.email].tenant /\ t.exp <= had'[t.email][t.role] + TokenTTL + SlowLogin
    BY <1>1, <1>6, RowKeepsTokens
  <2>2. clock + TokenTTL <= had'[e][r] + TokenTTL + SlowLogin
    <3>1. CASE s.role = r
      BY <1>2, <1>7, <3>1, LoginNumbers
    <3>2. CASE had[e][r] >= login[l].began /\ login[l].began >= clock - SlowLogin
      <4>1. had[e][r] \in Nat /\ had'[e][r] \in Nat /\ login[l].began \in Nat
        BY <1>1, <1>2, <1>7, UserFields, LoginFields
      <4>2. QED BY <1>2, <1>7, <3>2, <4>1, LoginNumbers
    <3>3. QED BY <1>1, <3>1, <3>2
  <2>3. PICK t0 : t0 = [email |-> e, tenant |-> s.tenant, role |-> r, exp |-> clock + TokenTTL]
    OBVIOUS
  <2>4. t0.tenant = users'[t0.email].tenant /\ t0.exp <= had'[t0.email][t0.role] + TokenTTL + SlowLogin
    BY <1>4, <2>2, <2>3
  <2>5. \A t \in tokens' : t \in tokens \/ t = t0
    BY <1>3, <2>3
  <2>6. QED BY <2>1, <2>4, <2>5 DEF Logging!TokensAreRecent
<1>17. Logging!TrailTellsRole'
  <2>1. \A i \in DOMAIN trail : trail[i].email \in Emails /\ HasUser(trail[i].email)
    BY TrailFields
  <2>2. ASSUME NEW i \in DOMAIN trail, \A j \in DOMAIN trail : j > i => trail[j].email # trail[i].email
        PROVE  trail[i].email \in Bootstrap \/ users'[trail[i].email].role = trail[i].role
    BY <1>14, <2>1, <2>2 DEF LoginsInv, Logging!TrailTellsRole
  <2>3. QED BY <1>3, <2>2 DEF Logging!TrailTellsRole
<1>18. QED BY <1>8, <1>9, <1>11, <1>12, <1>13, <1>15, <1>16, <1>17 DEF LoginsInv

-----------------------------------------------------------------------------
(* A role change reads, and writes the role and the trail together.        *)

LEMMA LoadUserStep ==
  ASSUME LoginsInv, NEW c \in Changes, Logging!LoadUser(c)
  PROVE  LoginsInv'
<1> USE DEF LoginsInv
<1>1. PICK e \in Emails, r \in Roles :
        /\ HasUser(e)
        /\ change' = [change EXCEPT ![c] = [email |-> e, loaded |-> users[e].role, role |-> r]]
  BY DEF Logging!LoadUser, HasUser
<1>2. UNCHANGED <<clock, tenants, users, login, tokens, trail, had>> /\ \A d \in Changes : ~ Changing(d)
  BY DEF Logging!LoadUser, Logging!rows, Changing
<1>3. PICK g : g = [email |-> e, loaded |-> users[e].role, role |-> r]
  OBVIOUS
<1>4. g \in ChangeRecs /\ g.email = e /\ g.loaded = users[e].role
  BY <1>1, <1>3, UserFields DEF ChangeRecs
<1>5. /\ change' \in [Changes -> ChangeRecs \cup {Logging!NoChange}] /\ change'[c] = g
      /\ \A d \in Changes \ {c} : change'[d] = change[d]
  BY <1>1, <1>3, <1>4 DEF LoginTypes
<1>6. LoginTypes'
  BY <1>2, <1>5 DEF LoginTypes, LoginRecs, ChangeRecs, TokenRecs, TrailRecs
<1>7. OneChange' /\ \A d \in Changes : Changing(d)' => d = c
  BY <1>2, <1>5 DEF OneChange, Changing
<1>8. KnowsTheRole(c)'
  BY <1>1, <1>2, <1>4, <1>5 DEF KnowsTheRole, HasUser
<1>9. OneInsertsUser' /\ HasRoleNow' /\ TrailHasUsers' /\ \A l \in Logins : LoggingIn(l)' => KnowsItsUser(l)'
  BY <1>2 DEF OneInsertsUser, HasRoleNow, TrailHasUsers, KnowsItsUser, LoggingIn, Inserts, HasUser
<1>10. Logging!TenantsHaveUsers' /\ Logging!TokensAreRecent' /\ Logging!TrailTellsRole'
  BY <1>2 DEF Logging!TenantsHaveUsers, Logging!TokensAreRecent, Logging!TrailTellsRole
<1>11. QED BY <1>6, <1>7, <1>8, <1>9, <1>10

LEMMA CommitRoleStep ==
  ASSUME LoginsInv, NEW c \in Changes, Logging!CommitRole(c)
  PROVE  LoginsInv'
<1>e. PICK e : e = change[c].email
  OBVIOUS
<1>n. PICK new : new = change[c].role
  OBVIOUS
<1>o. PICK old : old = change[c].loaded
  OBVIOUS
<1>1. LoginTypes /\ Changing(c) /\ KnowsTheRole(c)
  BY DEF LoginsInv, Logging!CommitRole, Changing
<1>2. /\ e \in Emails /\ new \in Roles /\ old \in Roles /\ HasUser(e) /\ clock \in Nat
      /\ e \notin Bootstrap => users[e].role = old
      /\ users[e] \in [tenant : tenants, role : Roles] /\ users[e].tenant \in tenants /\ tenants \subseteq Tenants
  <2>1. e \in Emails /\ new \in Roles /\ old \in Roles
    BY <1>e, <1>n, <1>o, <1>1, ChangeFields
  <2>2. HasUser(e) /\ (e \notin Bootstrap => users[e].role = old)
    BY <1>e, <1>o, <1>1 DEF KnowsTheRole
  <2>3. QED BY <1>1, <2>1, <2>2, UserFields DEF LoginTypes
<1>s. PICK s : s = IF old = new THEN users[e] ELSE [tenant |-> users[e].tenant, role |-> new]
  OBVIOUS
<1>3. s \in [tenant : Tenants, role : Roles] /\ s.tenant = users[e].tenant /\ s.role \in Roles
      /\ (e \notin Bootstrap => s.role = new)
  BY <1>2, <1>s
<1>4. users' = [users EXCEPT ![e] = s]
  <2>1. CASE old = new
    <3>1. users' = users
      BY <1>n, <1>o, <2>1 DEF Logging!CommitRole
    <3>2. users = [users EXCEPT ![e] = users[e]]
      BY <1>1, <1>2 DEF LoginTypes
    <3>3. QED BY <1>s, <2>1, <3>1, <3>2
  <2>2. CASE old # new
    <3>1. users' = [users EXCEPT ![e].role = new]
      BY <1>e, <1>n, <1>o, <2>2 DEF Logging!CommitRole
    <3>2. [users[e] EXCEPT !.role = new] = s
      BY <1>2, <1>s, <2>2
    <3>3. users' = [users EXCEPT ![e] = [users[e] EXCEPT !.role = new]]
      BY <3>1
    <3>4. QED BY <3>2, <3>3
  <2>3. QED BY <2>1, <2>2
<1>5. /\ trail' = Append(trail, [email |-> e, previous |-> old, role |-> new])
      /\ change' = [change EXCEPT ![c] = Logging!NoChange] /\ UNCHANGED <<clock, tenants, login, tokens>>
  BY <1>e, <1>n, <1>o DEF Logging!CommitRole
<1>6. users'[e] = s
  BY <1>1, <1>2, <1>4 DEF LoginTypes
<1>7. RowBecomes(e, s)
  <2>1. had' = [had EXCEPT ![e][s.role] = clock]
    BY <1>e, <1>6 DEF Logging!CommitRole, Logging!Had
  <2>2. tenants' = tenants \cup {s.tenant}
    BY <1>2, <1>3, <1>5
  <2>3. QED BY <1>4, <1>5, <2>1, <2>2 DEF RowBecomes
<1>8. /\ HasUser(e)' /\ \A x \in Emails : HasUser(x) => HasUser(x)'
      /\ \A x \in Emails \ {e} : users'[x] = users[x]
  BY <1>3, <1>2, <1>7, RowFields
<1>9. /\ trail \in Seq(TrailRecs) /\ Len(trail) \in Nat /\ DOMAIN trail = 1 .. Len(trail)
      /\ [email |-> e, previous |-> old, role |-> new] \in TrailRecs
  BY <1>1, <1>2 DEF LoginTypes, TrailRecs
<1>10. PICK n : n = Len(trail) + 1
  OBVIOUS
<1>11. /\ trail' \in Seq(TrailRecs) /\ DOMAIN trail' = 1 .. n /\ n \in Nat
       /\ trail'[n] = [email |-> e, previous |-> old, role |-> new]
       /\ \A i \in DOMAIN trail : trail'[i] = trail[i] /\ i < n /\ i \in Nat
       /\ \A i \in DOMAIN trail' : i \in DOMAIN trail \/ i = n
  BY <1>5, <1>9, <1>10
<1>12. \A i \in DOMAIN trail : trail[i].email \in Emails /\ HasUser(trail[i].email)
  BY TrailFields
<1>13. LoginTypes'
  <2>1. tokens' \subseteq TokenRecs'
    BY <1>1, <1>5 DEF LoginTypes, TokenRecs
  <2>2. /\ login' \in [Logins -> LoginRecs \cup {Logging!Idle}]
        /\ change' \in [Changes -> ChangeRecs \cup {Logging!NoChange}]
    BY <1>1, <1>5 DEF LoginTypes
  <2>3. QED BY <1>2, <1>3, <1>7, <1>11, <2>1, <2>2, RowKeepsTypes
<1>14. HasRoleNow' /\ Logging!TenantsHaveUsers'
  BY <1>2, <1>3, <1>7, RowKeepsTenants
<1>15. ASSUME NEW q \in Logins, LoggingIn(q)' PROVE KnowsItsUser(q)'
  <2>1. login'[q] = login[q] /\ LoggingIn(q)
    BY <1>5, <1>15 DEF LoggingIn
  <2>2. Inserts(q) => login[q].email # e
    BY <1>2, <2>1 DEF LoginsInv, KnowsItsUser
  <2>3. QED BY <1>2, <1>3, <1>7, <2>1, <2>2, RowKeepsLogins
<1>16. OneInsertsUser'
  BY <1>5 DEF LoginsInv, OneInsertsUser, LoggingIn, Inserts
<1>17. \A d \in Changes : ~ Changing(d)'
  BY <1>1, <1>5 DEF LoginsInv, OneChange, Changing, LoginTypes
<1>18. TrailHasUsers'
  <2>1. ASSUME NEW i \in DOMAIN trail' PROVE users'[trail'[i].email] # Logging!NoUser
    BY <1>8, <1>11, <1>12 DEF HasUser
  <2>2. QED BY <2>1 DEF TrailHasUsers, HasUser
<1>19. Logging!TokensAreRecent'
  <2>1. ASSUME NEW t \in tokens
        PROVE  t.tenant = users'[t.email].tenant /\ t.exp <= had'[t.email][t.role] + TokenTTL + SlowLogin
    BY <1>2, <1>3, <1>7, RowKeepsTokens
  <2>2. QED BY <1>5, <2>1 DEF Logging!TokensAreRecent
<1>20. Logging!TrailTellsRole'
  <2>1. ASSUME NEW i \in DOMAIN trail', \A j \in DOMAIN trail' : j > i => trail'[j].email # trail'[i].email
        PROVE  trail'[i].email \in Bootstrap \/ users'[trail'[i].email].role = trail'[i].role
    <3>1. CASE i = n
      BY <1>3, <1>6, <1>11, <3>1
    <3>2. CASE i \in DOMAIN trail
      <4>1. n \in DOMAIN trail' /\ n > i /\ trail'[i] = trail[i] /\ trail'[n].email = e
        BY <1>11, <3>2
      <4>2. trail[i].email # e
        BY <2>1, <4>1
      <4>3. \A j \in DOMAIN trail : j > i => trail[j].email # trail[i].email
        BY <1>11, <2>1, <3>2, <4>1
      <4>4. trail[i].email \in Bootstrap \/ users[trail[i].email].role = trail[i].role
        BY <3>2, <4>3 DEF LoginsInv, Logging!TrailTellsRole
      <4>5. QED BY <1>8, <1>12, <3>2, <4>1, <4>2, <4>4
    <3>3. QED BY <1>11, <2>1, <3>1, <3>2
  <2>2. QED BY <2>1 DEF Logging!TrailTellsRole
<1>21. QED BY <1>13, <1>14, <1>15, <1>16, <1>17, <1>18, <1>19, <1>20 DEF LoginsInv, OneChange

-----------------------------------------------------------------------------
(* Time passes: who has a role has it still, and what has expired is gone. *)

LEMMA LoginTickStep ==
  ASSUME LoginsInv, Logging!Tick
  PROVE  LoginsInv'
<1> USE DEF LoginsInv
<1>1. /\ clock < LoginTime /\ clock' = clock + 1
      /\ \A l \in Logins : LoggingIn(l) => clock - login[l].began < SlowLogin
      /\ had' = [e \in Emails |-> [r \in Roles |-> IF users[e].role = r THEN clock' ELSE had[e][r]]]
      /\ tokens' = {t \in tokens : t.exp > clock}
      /\ UNCHANGED <<tenants, users, login, change, trail>>
  BY DEF Logging!Tick, Logging!rows, LoggingIn
<1>2. clock \in 1 .. LoginTime /\ clock \in Nat /\ clock' \in 1 .. LoginTime /\ clock' \in Nat
  BY <1>1, LoginNumbers DEF LoginTypes
<1>3. ASSUME NEW e \in Emails, NEW r \in Roles
      PROVE  /\ had'[e][r] = IF users[e].role = r THEN clock + 1 ELSE had[e][r]
             /\ had'[e][r] \in 0 .. clock' /\ had'[e][r] >= had[e][r] /\ had[e][r] \in Nat
  <2>1. had[e][r] \in 0 .. clock
    BY UserFields
  <2>2. had'[e][r] = IF users[e].role = r THEN clock + 1 ELSE had[e][r]
    BY <1>1
  <2>3. QED BY <1>1, <1>2, <2>1, <2>2
<1>4. LoginTypes'
  <2>1. had' \in [Emails -> [Roles -> 0 .. clock']]
    <3>1. \A e \in Emails : [r \in Roles |-> IF users[e].role = r THEN clock' ELSE had[e][r]] \in [Roles -> 0 .. clock']
      <4>1. ASSUME NEW e \in Emails, NEW r \in Roles
            PROVE  (IF users[e].role = r THEN clock' ELSE had[e][r]) \in 0 .. clock'
        <5>1. had[e][r] \in 0 .. clock
          BY UserFields
        <5>2. QED BY <1>1, <1>2, <5>1
      <4>2. QED BY <4>1
    <3>2. QED BY <1>1, <3>1
  <2>2. tokens' \subseteq TokenRecs'
    <3>1. ASSUME NEW t \in tokens' PROVE t \in TokenRecs'
      <4>1. t \in tokens /\ t.exp > clock
        BY <1>1
      <4>2. /\ t.email \in Emails /\ t.role \in Roles /\ t.tenant \in tenants /\ t.exp \in Nat
            /\ t.exp <= clock + TokenTTL
            /\ t = [email |-> t.email, tenant |-> t.tenant, role |-> t.role, exp |-> t.exp]
        BY <4>1, TokenFields
      <4>3. t.exp \in clock' .. clock' + TokenTTL
        BY <1>1, <1>2, <4>1, <4>2, LoginNumbers
      <4>4. QED BY <1>1, <4>2, <4>3 DEF TokenRecs
    <3>2. QED BY <3>1
  <2>3. login' \in [Logins -> LoginRecs' \cup {Logging!Idle}]
    <3>1. 1 .. clock \subseteq 1 .. clock'
      BY <1>1, <1>2
    <3>2. LoginRecs \subseteq LoginRecs'
      BY <3>1 DEF LoginRecs
    <3>3. QED BY <1>1, <3>2 DEF LoginTypes
  <2>4. ChangeRecs' = ChangeRecs /\ TrailRecs' = TrailRecs
    BY DEF ChangeRecs, TrailRecs
  <2>5. QED BY <1>1, <1>2, <2>1, <2>2, <2>3, <2>4 DEF LoginTypes
<1>5. HasRoleNow'
  <2>1. ASSUME NEW e \in Emails, HasUser(e) PROVE had'[e][users[e].role] = clock'
    <3>1. users[e].role \in Roles
      BY <2>1, UserFields
    <3>2. QED BY <1>1, <1>3, <3>1
  <2>2. QED BY <1>1, <2>1 DEF HasRoleNow, HasUser
<1>6. ASSUME NEW l \in Logins, LoggingIn(l)' PROVE KnowsItsUser(l)'
  <2>1. LoggingIn(l) /\ KnowsItsUser(l) /\ login' = login /\ users' = users
    BY <1>1, <1>6 DEF LoggingIn
  <2>2. /\ login[l].email \in Emails /\ login[l].began \in Nat /\ clock - login[l].began < SlowLogin
        /\ login[l].user # Logging!NoUser => login[l].user.role \in Roles
    BY <1>1, <2>1, LoginFields
  <2>3. clock' - login[l].began <= SlowLogin
    BY <1>1, <1>2, <2>2, LoginNumbers
  <2>4. ASSUME login[l].user # Logging!NoUser
        PROVE  had'[login[l].email][login[l].user.role] >= login[l].began
    <3>1. had[login[l].email][login[l].user.role] >= login[l].began
      BY <2>1, <2>4 DEF KnowsItsUser
    <3>2. /\ had'[login[l].email][login[l].user.role] >= had[login[l].email][login[l].user.role]
          /\ had'[login[l].email][login[l].user.role] \in 0 .. clock'
          /\ had[login[l].email][login[l].user.role] \in Nat
      BY <1>3, <2>2, <2>4
    <3>3. QED BY <1>2, <2>2, <3>1, <3>2
  <2>5. QED BY <2>1, <2>3, <2>4 DEF KnowsItsUser, Inserts, HasUser
<1>7. OneInsertsUser' /\ OneChange' /\ TrailHasUsers' /\ \A c \in Changes : Changing(c)' => KnowsTheRole(c)'
  BY <1>1 DEF OneInsertsUser, OneChange, TrailHasUsers, KnowsTheRole, LoggingIn, Inserts, HasUser, Changing
<1>8. Logging!TenantsHaveUsers' /\ Logging!TrailTellsRole'
  BY <1>1 DEF Logging!TenantsHaveUsers, Logging!TrailTellsRole
<1>9. Logging!TokensAreRecent'
  <2>1. ASSUME NEW t \in tokens'
        PROVE  t.tenant = users[t.email].tenant /\ t.exp <= had'[t.email][t.role] + TokenTTL + SlowLogin
    <3>1. t \in tokens
      BY <1>1
    <3>2. /\ t.email \in Emails /\ t.role \in Roles /\ t.exp \in Nat
          /\ t.tenant = users[t.email].tenant /\ t.exp <= had[t.email][t.role] + TokenTTL + SlowLogin
      BY <3>1, TokenFields DEF Logging!TokensAreRecent
    <3>3. /\ had'[t.email][t.role] >= had[t.email][t.role] /\ had'[t.email][t.role] \in 0 .. clock'
          /\ had[t.email][t.role] \in Nat
      BY <1>3, <3>2
    <3>4. QED BY <1>2, <3>2, <3>3, LoginNumbers
  <2>2. QED BY <1>1, <2>1 DEF Logging!TokensAreRecent
<1>10. QED BY <1>4, <1>5, <1>6, <1>7, <1>8, <1>9

LEMMA NextLoginsInv == LoginsInv /\ [Logging!Next]_onlyLogins => LoginsInv'
<1> SUFFICES ASSUME LoginsInv, [Logging!Next]_onlyLogins PROVE LoginsInv'
  OBVIOUS
<1>1. CASE Logging!Next
  BY <1>1, LoginReads, CommitLoginStep, LoadUserStep, CommitRoleStep, LoginTickStep DEF Logging!Next, Logging!Login
<1>2. CASE UNCHANGED onlyLogins
  <2>1. UNCHANGED <<clock, tenants, users, login, change, tokens, trail, had>>
    BY <1>2 DEF onlyLogins
  <2>2. LoginTypes'
    BY <2>1 DEF LoginsInv, LoginTypes, LoginRecs, ChangeRecs, TokenRecs, TrailRecs
  <2>3. /\ OneInsertsUser' /\ HasRoleNow' /\ TrailHasUsers' /\ OneChange'
        /\ \A l \in Logins : LoggingIn(l)' => KnowsItsUser(l)'
        /\ \A c \in Changes : Changing(c)' => KnowsTheRole(c)'
    BY <2>1 DEF LoginsInv, OneInsertsUser, HasRoleNow, TrailHasUsers, OneChange, KnowsItsUser, KnowsTheRole,
       LoggingIn, Inserts, HasUser, Changing
  <2>4. Logging!TenantsHaveUsers' /\ Logging!TokensAreRecent' /\ Logging!TrailTellsRole'
    BY <2>1 DEF LoginsInv, Logging!TenantsHaveUsers, Logging!TokensAreRecent, Logging!TrailTellsRole
  <2>5. QED BY <2>2, <2>3, <2>4 DEF LoginsInv
<1>3. QED BY <1>1, <1>2

(* A login writes no role but a bootstrap admin's, and a change a trail.   *)
LEMMA RolesKept ==
  ASSUME LoginsInv, [Logging!Next]_onlyLogins, NEW e \in Emails, HasUser(e), users'[e] # users[e], trail' = trail
  PROVE  e \in Bootstrap /\ users'[e].role = "admin"
<1>1. ASSUME NEW l \in Logins, Logging!CommitLogin(l) PROVE e \in Bootstrap /\ users'[e].role = "admin"
  <2>1. PICK x, s : x = login[l].email /\ s = Logging!Stored(l)
    OBVIOUS
  <2>2. x \in Emails /\ (HasUser(x) /\ s # users[x] => x \in Bootstrap /\ s.role = "admin")
    BY <1>1, <2>1, StoredRow
  <2>3. users' = [users EXCEPT ![x] = s]
    BY <1>1, <2>1 DEF Logging!CommitLogin
  <2>4. users'[x] = s /\ (e # x => users'[e] = users[e])
    BY <2>2, <2>3 DEF LoginsInv, LoginTypes
  <2>5. QED BY <2>2, <2>4
<1>2. ASSUME NEW c \in Changes, Logging!CommitRole(c) PROVE FALSE
  <2>1. trail' = Append(trail, [email |-> change[c].email, previous |-> change[c].loaded, role |-> change[c].role])
    BY <1>2 DEF Logging!CommitRole
  <2>2. trail \in Seq(TrailRecs)
    BY DEF LoginsInv, LoginTypes
  <2>3. Len(trail') = Len(trail) + 1 /\ Len(trail) \in Nat
    BY <2>1, <2>2
  <2>4. QED BY <2>3
<1>3. ASSUME ~ \E l \in Logins : Logging!CommitLogin(l), ~ \E c \in Changes : Logging!CommitRole(c)
      PROVE  users' = users
  BY <1>3 DEF onlyLogins, Logging!Next, Logging!Login, Logging!Tick, Logging!Begin, Logging!FindTenant,
         Logging!InsertTenant, Logging!FindUser, Logging!InsertUser, Logging!LoginFails, Logging!LoadUser, Logging!rows
<1>4. QED BY <1>1, <1>2, <1>3

-----------------------------------------------------------------------------
(* The whole.  A step of one part leaves the others as they are, and the   *)
(* account's plan is the same for ever.                                    *)

MCInv ==
    /\ WalletInv /\ LoginsInv /\ KeysInv /\ GrantsInv
    /\ IF part = "prices" THEN PaygInv(Rising) ELSE PaygInv(Flat)

LEMMA InitMCInv == MCInit => MCInv
  BY InitWalletInv, InitLoginsInv, InitKeysInv, InitGrantsInv, InitPaygInv DEF MCInit, MCInv, Plans

LEMMA PartsStep ==
  [MCNext]_mcVars => /\ [Next]_vars /\ [Logging!Next]_onlyLogins /\ [Authenticating!Next]_onlyKeys
                     /\ [Granting!Next]_onlyGrants /\ part' = part
                     /\ part = "prices" => Payg(Rising)!Next \/ UNCHANGED onlyPayg
                     /\ part # "prices" => Payg(Flat)!Next \/ UNCHANGED onlyPayg
  BY DEF MCNext, Now, mcVars

LEMMA NextMCInv == MCInv /\ [MCNext]_mcVars => MCInv'
<1> SUFFICES ASSUME MCInv, [MCNext]_mcVars PROVE MCInv'
  OBVIOUS
<1>1. WalletInv' /\ LoginsInv' /\ KeysInv' /\ GrantsInv'
  BY PartsStep, NextWalletInv, NextLoginsInv, NextKeysInv, NextGrantsInv DEF MCInv
<1>2. CASE part = "prices"
  <2>1. Rising \in Plans /\ PaygInv(Rising) /\ (Payg(Rising)!Next \/ UNCHANGED onlyPayg) /\ part' = part
    BY <1>2, PartsStep DEF Plans, MCInv
  <2>2. PaygInv(Rising)'
    BY <2>1, NextPaygInv
  <2>3. QED BY <1>1, <1>2, <2>1, <2>2 DEF MCInv
<1>3. CASE part # "prices"
  <2>1. Flat \in Plans /\ PaygInv(Flat) /\ (Payg(Flat)!Next \/ UNCHANGED onlyPayg) /\ part' = part
    BY <1>3, PartsStep DEF Plans, MCInv
  <2>2. PaygInv(Flat)'
    BY <2>1, NextPaygInv
  <2>3. QED BY <1>1, <1>3, <2>1, <2>2 DEF MCInv
<1>4. QED BY <1>2, <1>3

(* Every part's invariant, whichever part is explored.                     *)
THEOREM MCInvHolds == MCSpec => []MCInv
  BY InitMCInv, NextMCInv, PTL DEF MCSpec

(* The variables of every part have their types.                           *)
THEOREM PartsAreTyped == MCSpec => []TypeCorrect
<1>1. MCInv => TypeCorrect
  BY LoginTypesMean DEF MCInv, TypeCorrect, WalletInv, LoginsInv, KeysInv, GrantsInv, PaygInv
<1>2. QED BY <1>1, MCInvHolds, PTL

(* Whichever reviewers race, and wherever a process dies between their two *)
(* commits, no request is approved that has not been paid out, or has not  *)
(* raised the cap.                                                         *)
THEOREM ApprovalsTakeEffect == MCSpec => []ApprovedTakesEffect
<1>1. MCInv => ApprovedTakesEffect
  BY PaygInvMeans DEF MCInv, WalletInv, ApprovedTakesEffect
<1>2. QED BY <1>1, MCInvHolds, PTL

(* The bounds on what a tenant owes are kept along with the rest.          *)
MoneyInv ==
    /\ DebtInv
    /\ IF part = "prices" THEN SpendInv(Rising) ELSE SpendInv(Flat)

LEMMA InitMoneyInv == MCInit => MoneyInv
  BY InitDebtInv, InitSpendInv DEF MCInit, MoneyInv, Plans

LEMMA NextMoneyInv == MCInv /\ MoneyInv /\ [MCNext]_mcVars => MoneyInv'
<1> SUFFICES ASSUME MCInv, MoneyInv, [MCNext]_mcVars PROVE MoneyInv'
  OBVIOUS
<1>1. DebtInv'
  BY PartsStep, NextDebtInv DEF MCInv, WalletInv, MoneyInv
<1>2. CASE part = "prices"
  <2>1. /\ Rising \in Plans /\ PaygInv(Rising) /\ SpendInv(Rising) /\ part' = part
        /\ Payg(Rising)!Next \/ UNCHANGED onlyPayg
    BY <1>2, PartsStep DEF Plans, MCInv, MoneyInv
  <2>2. SpendInv(Rising)'
    BY <2>1, NextSpendInv
  <2>3. QED BY <1>1, <1>2, <2>1, <2>2 DEF MoneyInv
<1>3. CASE part # "prices"
  <2>1. /\ Flat \in Plans /\ PaygInv(Flat) /\ SpendInv(Flat) /\ part' = part
        /\ Payg(Flat)!Next \/ UNCHANGED onlyPayg
    BY <1>3, PartsStep DEF Plans, MCInv, MoneyInv
  <2>2. SpendInv(Flat)'
    BY <2>1, NextSpendInv
  <2>3. QED BY <1>1, <1>3, <2>1, <2>2 DEF MoneyInv
<1>4. QED BY <1>2, <1>3

(* Any number of charges, top-ups and reviews that overwrite each other's  *)
(* balance, and any number of callers that are authorized before they are  *)
(* charged, for whatever their runs take: what is lost is never a charge   *)
(* too many; a balance is below zero by no more than all that was charged  *)
(* but the smallest estimate, if a top-up covers one; and of the month's   *)
(* runs all but one late one of each caller are within the cap, with the   *)
(* estimate at the lowest price added.                                     *)
THEOREM DebtIsBounded == MCSpec => []DebtBounded
<1>1. MCInv /\ MoneyInv => DebtBounded
  BY DebtInvMeans, SpendInvMeans DEF MCInv, WalletInv, MoneyInv, DebtBounded, Plans
<1>2. QED BY <1>1, InitMoneyInv, NextMoneyInv, MCInvHolds, PTL DEF MCSpec

(* What a draft may miss is kept along with the rest.                      *)
MissInv == IF part = "prices" THEN DraftsInv(Rising) ELSE DraftsInv(Flat)

LEMMA NextMissInv == MCInv /\ MissInv /\ [MCNext]_mcVars => MissInv'
<1> SUFFICES ASSUME MCInv, MissInv, [MCNext]_mcVars PROVE MissInv'
  OBVIOUS
<1>1. CASE part = "prices"
  <2>1. /\ Rising \in Plans /\ PaygInv(Rising) /\ DraftsInv(Rising) /\ part' = part
        /\ Payg(Rising)!Next \/ UNCHANGED onlyPayg
    BY <1>1, PartsStep DEF Plans, MCInv, MissInv
  <2>2. DraftsInv(Rising)'
    BY <2>1, NextDraftsInv
  <2>3. QED BY <1>1, <2>1, <2>2 DEF MissInv
<1>2. CASE part # "prices"
  <2>1. /\ Flat \in Plans /\ PaygInv(Flat) /\ DraftsInv(Flat) /\ part' = part
        /\ Payg(Flat)!Next \/ UNCHANGED onlyPayg
    BY <1>2, PartsStep DEF Plans, MCInv, MissInv
  <2>2. DraftsInv(Flat)'
    BY <2>1, NextDraftsInv
  <2>3. QED BY <1>2, <2>1, <2>2 DEF MissInv
<1>3. QED BY <1>1, <1>2

(* Whatever periods are drafted, when and how often: a draft that is made  *)
(* after its period's end misses no usage but that of the transactions     *)
(* that were under way when it was made.                                   *)
THEOREM OnlyOpenIsMissed == MCSpec => []DraftsMissOpenOnly
<1>1. MCInit => MissInv
  BY InitDraftsInv DEF MCInit, MissInv
<1>2. MissInv => DraftsMissOpenOnly
  BY DEF MissInv, DraftsMissOpenOnly, DraftsInv
<1>3. QED BY <1>1, <1>2, NextMissInv, MCInvHolds, PTL DEF MCSpec

(* Whoever sees a component is who the last answers to the admins say,     *)
(* whatever rows for other scopes and ranges they were upserting meanwhile,*)
(* as long as no two upserts of one target overlap.                        *)
THEOREM WhatIsSetIsSeen == MCSpec => []SeesWhatWasSet
<1>1. MCInv => SeesWhatWasSet
  BY GrantsInvMeans DEF MCInv, SeesWhatWasSet
<1>2. QED BY <1>1, MCInvHolds, PTL

(* A revoked key is never live again, and last_used_at lags behind the     *)
(* last use by no more than the interval and a slow request.               *)
THEOREM KeysStayHonest == MCSpec => KeysAreHonest
<1>1. MCInv => Authenticating!LastUsedIsRecent
  BY DEF MCInv, KeysInv
<1>2. MCInv /\ [MCNext]_mcVars
        => [\A k \in Keys : state[k] = "revoked" => state'[k] = "revoked"]_Authenticating!vars
  BY PartsStep, RevokedStays DEF MCInv
<1>3. QED BY <1>1, <1>2, MCInvHolds, PTL DEF MCSpec, KeysAreHonest, Authenticating!RevokedForGood

(* Without role changes that overlap: logins that conflict or fail leave   *)
(* no tenant without a user; a token's role is one that its user had when  *)
(* the login began or later; no login undoes a role change; and the last   *)
(* entry of the trail about a user tells its role.                         *)
THEOREM RolesStayTold == MCSpec => RolesAreTold
<1>1. MCInv => Logging!TenantsHaveUsers /\ Logging!TokensAreRecent /\ Logging!TrailTellsRole
  BY DEF MCInv, LoginsInv
<1>2. MCInv /\ [MCNext]_mcVars
        => [\A e \in Emails : users[e] # Logging!NoUser /\ users'[e] # users[e] /\ trail' = trail
                                  => e \in Bootstrap /\ users'[e].role = "admin"]_Logging!vars
  BY PartsStep, RolesKept DEF MCInv, HasUser
<1>3. QED BY <1>1, <1>2, MCInvHolds, PTL DEF MCSpec, RolesAreTold, Logging!LoginKeepsRoles

==============================================================================
