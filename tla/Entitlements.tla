----------------------------- MODULE Entitlements -----------------------------
(***************************************************************************)
(* What a tenant and its users see of the public catalog: admins upsert    *)
(* entitlement rows for a scope and a version range, with a select before  *)
(* the insert and no unique constraint; whoever has one visible row that   *)
(* matches sees the component.  Publish grants are upserted in the same    *)
(* way.  There is one component name.                                      *)
(***************************************************************************)
EXTENDS FiniteSetsExt

CONSTANTS
    Scopes,    \* the tenant and users of it
    Versions,
    Ranges,    \* Any, and exact versions
    Admins,    \* upserts under way
    RowIds,
    Faults     \* some of "overlap" (of upserts of one target)

Any == "*"
Tenant == "tenant"
Targets == [scope : Scopes, range : Ranges]

VARIABLES
    rows,    \* NoRow or [target, visible]
    upsert,  \* NoUpsert or [target, visible, row, loaded]
    asked    \* what the last upsert that succeeded asked for, for each target

vars == <<rows, upsert, asked>>

NoRow == [target |-> "none"]
NoUpsert == [target |-> "none"]

-----------------------------------------------------------------------------

TypeOK ==
    /\ rows \in [RowIds -> [target : Targets, visible : BOOLEAN] \cup {NoRow}]
    /\ upsert \in [Admins -> [target : Targets, visible : BOOLEAN, row : RowIds, new : BOOLEAN, loaded : BOOLEAN]
                                 \cup {NoUpsert}]
    /\ asked \in [Targets -> BOOLEAN]

Init ==
    /\ rows = [i \in RowIds |-> NoRow]
    /\ upsert = [a \in Admins |-> NoUpsert]
    /\ asked = [t \in Targets |-> FALSE]

-----------------------------------------------------------------------------

Matching(t) == {i \in RowIds : rows[i] # NoRow /\ rows[i].target = t}

Upserting(t) == {a \in Admins : upsert[a] # NoUpsert /\ upsert[a].target = t}

(* Two requests that both insert take different ids.                       *)
Fresh == {i \in RowIds : rows[i] = NoRow /\ \A a \in Admins : upsert[a] # NoUpsert => upsert[a].row # i}

(* Mutant: the version range is not part of what is looked for.            *)
AlreadyInScope(t) == {i \in RowIds : rows[i] # NoRow /\ rows[i].target.scope = t.scope}

Already(t) == Matching(t)

(* scalar_one_or_none; of two rows it makes an error.                      *)
Select(a, t, v) ==
    /\ upsert[a] = NoUpsert
    /\ "overlap" \in Faults \/ Upserting(t) = {}
    /\ \/ \E i \in Already(t) :
              /\ Cardinality(Already(t)) = 1
              /\ upsert' = [upsert EXCEPT ![a] = [target |-> t, visible |-> v, row |-> i, new |-> FALSE,
                                                  loaded |-> rows[i].visible]]
       \/ \E i \in Fresh :
              /\ Already(t) = {}
              /\ upsert' = [upsert EXCEPT ![a] = [target |-> t, visible |-> v, row |-> i, new |-> TRUE, loaded |-> v]]
    /\ UNCHANGED <<rows, asked>>

(* An update is sent if it differs from what was loaded.                   *)
Commit(a) ==
    /\ upsert[a] # NoUpsert
    /\ LET u == upsert[a] IN
           /\ rows' = IF u.new THEN [rows EXCEPT ![u.row] = [target |-> u.target, visible |-> u.visible]]
                      ELSE IF u.loaded # u.visible THEN [rows EXCEPT ![u.row].visible = u.visible]
                      ELSE rows
           /\ asked' = [asked EXCEPT ![u.target] = u.visible]
    /\ upsert' = [upsert EXCEPT ![a] = NoUpsert]

(* _is_entitled, for the tenant's keys (Tenant) or one of its users.       *)
Sees(who, version) ==
    \E i \in RowIds :
        /\ rows[i] # NoRow /\ rows[i].visible
        /\ rows[i].target.scope \in {Tenant, who}
        /\ rows[i].target.range \in {Any, version}

-----------------------------------------------------------------------------

Next == \E a \in Admins : Commit(a) \/ \E t \in Targets, v \in BOOLEAN : Select(a, t, v)

Spec == Init /\ [][Next]_vars

-----------------------------------------------------------------------------
(* Properties.                                                             *)

(* Who sees a version is what the admins' last answers say, whatever rows  *)
(* for other ranges and scopes there are.                                  *)
SeesWhatWasSet ==
    \A who \in Scopes, version \in Versions :
        Sees(who, version) =
            (\E t \in Targets : asked[t] /\ t.scope \in {Tenant, who} /\ t.range \in {Any, version})

(* "Create or update": an entitlement can be changed again, which a second *)
(* row for the same target prevents.                                       *)
OneRowPerTarget == \A t \in Targets : Cardinality(Matching(t)) <= 1

=============================================================================
