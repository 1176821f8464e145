------------------------------- MODULE Accounts -------------------------------
(***************************************************************************)
(* Tenants, users and their roles: the first login of an identity inserts  *)
(* them in one transaction, an admin changes roles, and a session token    *)
(* carries tenant and role until it expires, whatever becomes of the user. *)
(*                                                                         *)
(* A transaction sees what is committed.  A conflicting insert waits for   *)
(* the other transaction's end.  The ORM updates a column if its value     *)
(* differs from the one that was loaded.                                   *)
(***************************************************************************)
EXTENDS Naturals, Sequences

CONSTANTS
    Tenants, Emails,
    Roles,      \* "user", "admin" and others
    Bootstrap,  \* bootstrap_admin_emails, some of Emails
    Logins,     \* POST /v1/auth/token under way
    Changes,    \* PATCH /v1/admin/users/{id}/role under way
    TTL,        \* session_ttl_seconds
    Slow,       \* most ticks a login takes
    MaxTime, MaxTrail,
    Faults      \* some of "db", "overlap" (of role changes)

VARIABLES
    now,
    tenants,  \* names of the committed rows
    users,    \* of each email: NoUser or [tenant, role]
    login,    \* of each login: Idle or [step, email, tenant, newTenant, user, began]
    change,   \* of each change: NoChange or [email, loaded, role]
    tokens,   \* [email, tenant, role, exp]
    trail,    \* the audit entries of role changes: [email, previous, role]
    had       \* when each user last had each role

rows == <<tenants, users>>
vars == <<now, rows, login, change, tokens, trail, had>>

NoUser == [tenant |-> "none", role |-> "none"]
Idle == [step |-> "idle"]
NoChange == [email |-> "none"]
Never == 0

-----------------------------------------------------------------------------

TypeOK ==
    /\ now \in 1 .. MaxTime
    /\ tenants \subseteq Tenants
    /\ users \in [Emails -> [tenant : tenants, role : Roles] \cup {NoUser}]
    /\ \A l \in Logins :
           login[l] = Idle \/ login[l] \in
               [step : {"tenant", "insert tenant", "user", "insert user", "commit"}, email : Emails,
                tenant : Tenants, newTenant : BOOLEAN, user : [tenant : Tenants, role : Roles] \cup {NoUser},
                began : 1 .. now]
    /\ \A c \in Changes :
           change[c] = NoChange \/ change[c] \in [email : Emails, loaded : Roles, role : Roles]
    /\ tokens \subseteq [email : Emails, tenant : tenants, role : Roles, exp : now .. now + TTL]
    /\ trail \in Seq([email : Emails, previous : Roles, role : Roles])
    /\ had \in [Emails -> [Roles -> 0 .. now]]

Init ==
    /\ now = 1
    /\ tenants = {} /\ users = [e \in Emails |-> NoUser]
    /\ login = [l \in Logins |-> Idle] /\ change = [c \in Changes |-> NoChange]
    /\ tokens = {} /\ trail = <<>>
    /\ had = [e \in Emails |-> [r \in Roles |-> Never]]

-----------------------------------------------------------------------------
(* login: the claims have been verified.                                   *)

Step(l, where) == login' = [login EXCEPT ![l].step = where]
End(l) == login' = [login EXCEPT ![l] = Idle]

Begin(l) ==
    /\ login[l] = Idle
    /\ \E e \in Emails, t \in Tenants :
           login' = [login EXCEPT ![l] = [step |-> "tenant", email |-> e, tenant |-> t, newTenant |-> FALSE,
                                          user |-> NoUser, began |-> now]]
    /\ UNCHANGED <<now, rows, change, tokens, trail, had>>

FindTenant(l) ==
    /\ login[l].step = "tenant"
    /\ Step(l, IF login[l].tenant \in tenants THEN "user" ELSE "insert tenant")
    /\ UNCHANGED <<now, rows, change, tokens, trail, had>>

(* Others that have flushed the same new tenant, or the same new user.     *)
TenantInFlight(l) ==
    \E q \in Logins \ {l} : login[q] # Idle /\ login[q].newTenant /\ login[q].tenant = login[l].tenant
UserInFlight(l) ==
    \E q \in Logins \ {l} :
        login[q].step = "commit" /\ login[q].user = NoUser /\ login[q].email = login[l].email

(* Tenant.name is unique.                                                  *)
InsertTenant(l) ==
    /\ login[l].step = "insert tenant" /\ ~ TenantInFlight(l)
    /\ IF login[l].tenant \in tenants
       THEN End(l)
       ELSE login' = [login EXCEPT ![l].step = "user", ![l].newTenant = TRUE]
    /\ UNCHANGED <<now, rows, change, tokens, trail, had>>

(* User.email is unique over all tenants: one of another is refused, and   *)
(* the rollback takes the new tenant along.                                *)
FindUser(l) ==
    /\ login[l].step = "user"
    /\ LET u == users[login[l].email] IN
           IF u # NoUser /\ u.tenant # login[l].tenant
           THEN End(l)
           ELSE login' = [login EXCEPT ![l].step = IF u = NoUser THEN "insert user" ELSE "commit", ![l].user = u]
    /\ UNCHANGED <<now, rows, change, tokens, trail, had>>

InsertUser(l) ==
    /\ login[l].step = "insert user" /\ ~ UserInFlight(l)
    /\ IF users[login[l].email] # NoUser THEN End(l) ELSE Step(l, "commit")
    /\ UNCHANGED <<now, rows, change, tokens, trail, had>>

(* The role the login leaves, and the role of its token.                   *)
RoleOf(l) ==
    CASE login[l].email \in Bootstrap -> "admin"
      [] login[l].user = NoUser -> "user"
      [] OTHER -> login[l].user.role

(* Mutant: the row is written back as it was loaded.                       *)
StoredWhole(l) == [tenant |-> login[l].tenant, role |-> RoleOf(l)]

(* Only a role that differs from the loaded one is written.                *)
Stored(l) ==
    IF login[l].user # NoUser /\ login[l].user.role = RoleOf(l)
    THEN users[login[l].email]
    ELSE [tenant |-> login[l].tenant, role |-> RoleOf(l)]

Expires(l) == now + TTL

Had(e, r) == had' = [had EXCEPT ![e][r] = now]

CommitLogin(l) ==
    /\ login[l].step = "commit"
    /\ LET e == login[l].email IN
           /\ users' = [users EXCEPT ![e] = Stored(l)]
           /\ tokens' = tokens \cup {[email |-> e, tenant |-> login[l].tenant, role |-> RoleOf(l), exp |-> Expires(l)]}
           /\ Had(e, users'[e].role)
    /\ tenants' = tenants \cup {login[l].tenant}
    /\ End(l)
    /\ UNCHANGED <<now, change, trail>>

Rollback(l) == UNCHANGED tenants

LoginFails(l) ==
    /\ "db" \in Faults
    /\ login[l].step \in {"insert user", "commit"}
    /\ Rollback(l)
    /\ End(l)
    /\ UNCHANGED <<now, users, change, tokens, trail, had>>

-----------------------------------------------------------------------------
(* set_user_role, with a session token of an admin.                        *)

LoadUser(c) ==
    /\ change[c] = NoChange
    /\ "overlap" \in Faults \/ \A d \in Changes : change[d] = NoChange
    /\ Len(trail) < MaxTrail
    /\ \E t \in tokens : t.role = "admin"
    /\ \E e \in Emails, r \in Roles :
           /\ users[e] # NoUser
           /\ change' = [change EXCEPT ![c] = [email |-> e, loaded |-> users[e].role, role |-> r]]
    /\ UNCHANGED <<now, rows, login, tokens, trail, had>>

(* The role and the audit entry, in one transaction.                       *)
CommitRole(c) ==
    /\ change[c] # NoChange
    /\ LET e == change[c].email
           new == change[c].role IN
           /\ users' = IF change[c].loaded = new THEN users ELSE [users EXCEPT ![e].role = new]
           /\ trail' = Append(trail, [email |-> e, previous |-> change[c].loaded, role |-> new])
           /\ Had(e, users'[e].role)
    /\ change' = [change EXCEPT ![c] = NoChange]
    /\ UNCHANGED <<now, tenants, login, tokens>>

-----------------------------------------------------------------------------

(* What has a role has it still; verify_session_token drops what expired.  *)
Tick ==
    /\ now < MaxTime
    /\ \A l \in Logins : login[l] # Idle => now - login[l].began < Slow
    /\ now' = now + 1
    /\ had' = [e \in Emails |-> [r \in Roles |-> IF users[e].role = r THEN now' ELSE had[e][r]]]
    /\ tokens' = {t \in tokens : t.exp > now}
    /\ UNCHANGED <<rows, login, change, trail>>

Login(l) ==
    \/ Begin(l) \/ FindTenant(l) \/ InsertTenant(l) \/ FindUser(l) \/ InsertUser(l) \/ CommitLogin(l) \/ LoginFails(l)

Next ==
    \/ Tick
    \/ \E l \in Logins : Login(l)
    \/ \E c \in Changes : LoadUser(c) \/ CommitRole(c)

Spec == Init /\ [][Next]_vars

-----------------------------------------------------------------------------
(* Properties.                                                             *)

(* A login that is refused, conflicts or fails leaves no tenant without a  *)
(* user behind, and no user is in a tenant that is not there.              *)
TenantsHaveUsers == tenants = {users[e].tenant : e \in {x \in Emails : users[x] # NoUser}}

(* A session acts in its user's tenant, and with a role the user has had   *)
(* within the lifetime of a token and the duration of a login.             *)
TokensAreRecent ==
    \A t \in tokens : t.tenant = users[t.email].tenant /\ t.exp <= had[t.email][t.role] + TTL + Slow

(* "a promotion made through PATCH survives every subsequent login": a     *)
(* login changes no user's role but that of a bootstrap admin, to admin.   *)
LoginKeepsRoles ==
    [][\A e \in Emails :
           users[e] # NoUser /\ users'[e] # users[e] /\ trail' = trail => e \in Bootstrap /\ users'[e].role = "admin"]_vars

(* "Records both the previous and new role, so a privilege escalation is   *)
(* visible as a transition": the last entry about a user says what the     *)
(* role is, but for a bootstrap admin's.                                   *)
TrailTellsRole ==
    \A i \in DOMAIN trail :
        (\A j \in DOMAIN trail : j > i => trail[j].email # trail[i].email)
            => trail[i].email \in Bootstrap \/ users[trail[i].email].role = trail[i].role

=============================================================================
