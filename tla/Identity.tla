------------------------------ MODULE Identity ------------------------------
(* Accounts, memberships, invitations and login sessions                    *)
(* (services/identity.py, services/session_auth.py, routes/security.py).    *)
(*                                                                          *)
(* A handler loads rows, decides, and commits one unit of work: what it     *)
(* changes of the user, the sessions it revokes and what it issues.  Whether*)
(* a password or a code is right, and whether a window or a lock has run    *)
(* out, is a choice.  Nothing in the services suspends a user.              *)
EXTENDS Requests, Sequences, FiniteSets

CONSTANTS
    Users,           \* normalized e-mail addresses
    Tenants,
    Members,         \* the memberships <<tenant, user>> there are at the start,
                     \* each logged in once, with MFA or without
    RoleSets,        \* sets of role names
    LockThreshold,   \* account_lockout_threshold
    MaxAttempts,     \* mfa_max_attempts
    RecoveryCodes    \* recovery codes issued on enrolment

VARIABLES
    tenants,         \* tenants that have been onboarded
    user,            \* user -> its account
    member,          \* <<tenant, user>> -> None, or whether the membership is active
    role,            \* <<tenant, user>> -> its MembershipRole rows <<name, stamp>>
    invitation,      \* sequence of invitations
    session,         \* sequence of RefreshSession rows, with the version of the
                     \* access token issued with each
    challenge,       \* sequence of MfaChallenge rows
    reset,           \* sequence of PasswordResetToken rows
    written,         \* history: <<tenant, user>> -> the roles written last, and how often
    overlapped       \* history: memberships whose roles two requests wrote at once

accounts == <<tenants, user, member, role, invitation, written, overlapped>>
rows == <<accounts, session, challenge, reset>>
vars == <<rows, requests>>

Memberships == Tenants \X Users
NewUser == [version |-> 1, failed |-> 0, locked |-> None,
            mfa |-> FALSE, secret |-> 0, pending |-> FALSE, codes |-> 0]
Enrolled == [NewUser EXCEPT !.version = 2, !.mfa = TRUE, !.secret = 2, !.codes = RecoveryCodes]
Names(m) == {r[1] : r \in role[m]}
Active(m) == member[m] = TRUE /\ m[1] \in tenants

Init ==
    /\ tenants    = {m[1] : m \in Members}
    /\ \E initial \in {NewUser, Enrolled} :
         user = [u \in Users |-> IF \E m \in Members : m[2] = u THEN initial ELSE None]
    /\ member     = [m \in Memberships |-> IF m \in Members THEN TRUE ELSE None]
    /\ role       = [m \in Memberships |-> {}]
    /\ session \in {q \in [1 .. Cardinality(Members) ->
                            [user : Users, tenant : Tenants, version : {1, 2}, parent : {0},
                             next : {0}, revoked : {FALSE}]] :
                      /\ {<<q[i].tenant, q[i].user>> : i \in DOMAIN q} = Members
                      /\ \A i \in DOMAIN q : q[i].version = user[q[i].user].version}
    /\ invitation = <<>> /\ challenge = <<>> /\ reset = <<>>
    /\ written    = [m \in Memberships |-> [names |-> {}, times |-> 0]]
    /\ overlapped = {}
    /\ InitRequests

----------------------------------------------------------------------------
(* get_current_principal: an access token of the user's present version     *)
Principal(m) ==
    /\ Active(m)
    /\ \E i \in DOMAIN session : /\ <<session[i].tenant, session[i].user>> = m
                                 /\ session[i].version = user[m[2]].version

(* revoke_all_user_sessions asks for all sessions of the user, and row-level*)
(* security leaves it those of the tenant the request is for, as            *)
(* _revoke_user_sessions asks for.                                          *)
LiveIn(m) ==
    {i \in DOMAIN session :
        session[i].user = m[2] /\ session[i].tenant = m[1] /\ ~session[i].revoked}

(* Mutant: the token that is exchanged stays valid.                         *)
NotRetired(i) == {i} \ {i}

(* The sessions a rotation revokes.                                         *)
Retired(i) == {i}

(* A unit of work on the account of membership m.                           *)
Work(m, changed) ==
    [op |-> "account", member |-> m, loaded |-> user[m[2]], changed |-> changed,
     revoked |-> {}, issues |-> "nothing", parent |-> 0, used |-> 0, attempts |-> 0,
     done |-> FALSE, reset |-> 0]

Begin(s, work) == Receive(s, work) /\ UNCHANGED rows

(* authenticate_for_cookie_session: wrong credentials                       *)
LoadLoginFails(s, m, windowOver) ==
    LET u == user[m[2]]  failed == 1 + IF windowOver THEN 0 ELSE u.failed IN
    /\ u # None /\ u.locked # "locked"
    /\ Begin(s, Work(m, [failed |-> failed,
                         locked |-> IF failed >= LockThreshold THEN "locked" ELSE u.locked]))

(* ... the right ones: a session, or a challenge when MFA is enabled        *)
LoadLogin(s, m) ==
    LET u == user[m[2]] IN
    /\ u # None /\ u.locked # "locked" /\ m[1] \in tenants
    /\ Begin(s, [Work(m, [failed |-> 0, locked |-> None]) EXCEPT
                   !.issues = IF ~Active(m) THEN "nothing"
                              ELSE IF u.mfa THEN "challenge" ELSE "session"])

LockEnds(u) ==
    /\ user[u] # None /\ user[u].locked = "locked"
    /\ user' = [user EXCEPT ![u].locked = "past"]
    /\ UNCHANGED <<tenants, member, role, invitation, written, overlapped,
                   session, challenge, reset, requests>>

(* complete_mfa_login: by "totp", by "recovery", or with a wrong code       *)
LoadVerify(s, c, by) ==
    LET m == <<challenge[c].tenant, challenge[c].user>>
        u == user[m[2]]
        attempts == challenge[c].attempts + 1
        valid == by # "wrong" /\ Active(m) IN
    /\ ~challenge[c].done
    /\ by = "totp" => u.secret > 0
    /\ by = "recovery" => u.codes > 0
    /\ Begin(s, [Work(m, [codes |-> u.codes - IF by = "recovery" THEN 1 ELSE 0]) EXCEPT
                   !.issues = IF valid THEN "session" ELSE "nothing",
                   !.used = c, !.attempts = attempts,
                   !.done = valid \/ attempts >= MaxAttempts])

(* rotate_cookie_session: a revoked token revokes the user's other sessions *)
LoadRotate(s, i) ==
    LET m == <<session[i].tenant, session[i].user>>  empty == [version |-> user[m[2]].version] IN
    \/ /\ session[i].revoked
       /\ Begin(s, [Work(m, empty) EXCEPT !.revoked = LiveIn(m)])
    \/ /\ ~session[i].revoked /\ Active(m)
       /\ Begin(s, [Work(m, empty) EXCEPT
                      !.revoked = Retired(i), !.issues = "session", !.parent = i])

(* revoke_refresh_cookie_session                                            *)
Logout(i) ==
    /\ ~session[i].revoked
    /\ session' = [session EXCEPT ![i].revoked = TRUE]
    /\ ServeAtOnce
    /\ UNCHANGED <<accounts, challenge, reset>>

(* unlock_membership_account                                                *)
LoadUnlock(s, m) ==
    /\ member[m] # None
    /\ Begin(s, Work(m, [failed |-> 0, locked |-> None]))

Bumped(m) == user[m[2]].version + 1

(* change_password                                                          *)
LoadPassword(s, m) ==
    /\ Principal(m)
    /\ Begin(s, [Work(m, [version |-> Bumped(m)]) EXCEPT !.revoked = LiveIn(m)])

(* request_password_reset, confirm_password_reset                           *)
RequestReset(m) ==
    /\ Active(m)
    /\ reset' = Append(reset, [member |-> m, used |-> FALSE])
    /\ ServeAtOnce
    /\ UNCHANGED <<accounts, session, challenge>>

LoadReset(s, n) ==
    LET m == reset[n].member IN
    /\ ~reset[n].used
    /\ Begin(s, [Work(m, [version |-> Bumped(m)]) EXCEPT
                   !.revoked = LiveIn(m), !.reset = n])

(* start_mfa_enrollment, confirm_mfa_enrollment, disable_mfa                *)
Enroll(m) ==
    /\ Principal(m) /\ ~user[m[2]].pending
    /\ user' = [user EXCEPT ![m[2]].pending = TRUE]
    /\ ServeAtOnce
    /\ UNCHANGED <<tenants, member, role, invitation, written, overlapped,
                   session, challenge, reset>>

LoadConfirm(s, m) ==
    /\ Principal(m) /\ user[m[2]].pending
    /\ Begin(s, [Work(m, [version |-> Bumped(m), mfa |-> TRUE, secret |-> Bumped(m),
                          pending |-> FALSE, codes |-> RecoveryCodes]) EXCEPT
                   !.revoked = LiveIn(m)])

LoadDisable(s, m) ==
    /\ Principal(m) /\ user[m[2]].secret > 0
    /\ Begin(s, [Work(m, [version |-> Bumped(m), mfa |-> FALSE, secret |-> 0,
                          pending |-> FALSE, codes |-> 0]) EXCEPT
                   !.revoked = LiveIn(m)])

(* The commit of any of these.  issue_session takes the token version that  *)
(* was loaded.                                                              *)
CommitAccount(s) ==
    LET q == request[s]  u == q.member[2]
        issued == [user |-> u, tenant |-> q.member[1], version |-> q.loaded.version,
                   parent |-> q.parent, next |-> 0, revoked |-> FALSE]
        kept == [i \in DOMAIN session |->
                   [session[i] EXCEPT
                      !.revoked = @ \/ i \in q.revoked,
                      !.next = IF i = q.parent THEN Len(session) + 1 ELSE @]] IN
    /\ Serving(s, "account")
    /\ user' = [user EXCEPT ![u] = Update(@, q.loaded, q.changed)]
    /\ session' = IF q.issues = "session" THEN Append(kept, issued) ELSE kept
    /\ challenge' =
         LET old == IF q.used = 0 THEN challenge
                    ELSE [challenge EXCEPT ![q.used].attempts = q.attempts,
                                           ![q.used].done = @ \/ q.done] IN
         IF q.issues = "challenge"
         THEN Append(old, [user |-> u, tenant |-> q.member[1], attempts |-> 0, done |-> FALSE])
         ELSE old
    /\ reset' = IF q.reset = 0 THEN reset ELSE [reset EXCEPT ![q.reset].used = TRUE]
    /\ Done(s)
    /\ UNCHANGED <<tenants, member, role, invitation, written, overlapped>>

----------------------------------------------------------------------------
(* Invitations and memberships                                              *)
Invited(m, names) == Append(invitation, [member |-> m, names |-> names, status |-> "pending"])

(* onboard_tenant: a free slug, and an invitation of the owner              *)
Onboard(m) ==
    /\ m[1] \notin tenants
    /\ tenants' = tenants \union {m[1]}
    /\ invitation' = Invited(m, {"tenant_admin"})
    /\ ServeAtOnce
    /\ UNCHANGED <<user, member, role, written, overlapped, session, challenge, reset>>

(* create_invitation: nothing in the schema keeps a second one out          *)
LoadInvite(s, m, names) ==
    /\ m[1] \in tenants
    /\ \A n \in DOMAIN invitation : invitation[n].member = m => invitation[n].status # "pending"
    /\ Begin(s, [op |-> "invite", member |-> m, names |-> names])

CommitInvite(s) ==
    /\ Serving(s, "invite")
    /\ invitation' = Invited(request[s].member, request[s].names)
    /\ Done(s)
    /\ UNCHANGED <<tenants, user, member, role, written, overlapped, session, challenge, reset>>

(* expires_at passes; the stored status stays PENDING                       *)
Lapse(n) ==
    /\ invitation[n].status = "pending"
    /\ invitation' = [invitation EXCEPT ![n].status = "lapsed"]
    /\ UNCHANGED <<tenants, user, member, role, written, overlapped,
                   session, challenge, reset, requests>>

(* resend_owner_invitation: a new token, and a new expiry                   *)
Resend(n) ==
    /\ invitation[n].status = "lapsed" /\ invitation[n].names = {"tenant_admin"}
    /\ invitation' = [invitation EXCEPT ![n].status = "pending"]
    /\ ServeAtOnce
    /\ UNCHANGED <<tenants, user, member, role, written, overlapped, session, challenge, reset>>

(* Roles are replaced by a DELETE that sees the committed rows, and by      *)
(* INSERTs at the commit.                                                   *)
Writing(m, op, names, n) ==
    [op |-> op, member |-> m, names |-> names, invitation |-> n, loaded |-> user[m[2]],
     joined |-> member[m], revoked |-> {}, times |-> written[m].times,
     deleted |-> FALSE, seen |-> {}, first |-> FALSE]

(* Mutant: the invitation is marked before the membership is committed.     *)
LoadAcceptEarly(s, n) ==
    /\ invitation[n].status = "pending"
    /\ Receive(s, Writing(invitation[n].member, "accept", invitation[n].names, n))
    /\ invitation' = [invitation EXCEPT ![n].status = "accepted"]
    /\ UNCHANGED <<tenants, user, member, role, written, overlapped, session, challenge, reset>>

(* accept_invitation                                                        *)
LoadAccept(s, n) ==
    /\ invitation[n].status = "pending"
    /\ Begin(s, Writing(invitation[n].member, "accept", invitation[n].names, n))

(* update_membership_roles; a principal keeps its own administrator role    *)
LoadRoles(s, m, names, own) ==
    /\ member[m] # None
    /\ own => Principal(m) /\ "tenant_admin" \in names
    /\ Begin(s, Writing(m, "roles", names, 0))

WritesRoles(s, m) ==
    /\ request[s] # None /\ request[s].op \in {"accept", "roles"} /\ request[s].member = m

(* Another request has deleted some of these rows and not yet committed.    *)
Blocked(s, m, seen) ==
    \E r \in Sessions \ {s} : WritesRoles(r, m) /\ request[r].first /\ request[r].seen \cap seen # {}

DeleteRoles(s) ==
    LET q == request[s] IN
    /\ request[s] # None /\ q.op \in {"accept", "roles"} /\ ~q.deleted
    /\ Continue(s, [q EXCEPT !.deleted = TRUE, !.seen = role[q.member], !.revoked = LiveIn(q.member),
                             !.first = ~Blocked(s, q.member, role[q.member])])
    /\ UNCHANGED rows

(* Mutant: the new roles join the old ones.                                 *)
OldRoles(m, seen) == role[m]

(* The rows the DELETE leaves: those inserted since it looked.              *)
Remaining(m, seen) == role[m] \ seen

CommitRoles(s) ==
    LET q == request[s]  m == q.member  u == m[2]
        remaining == Remaining(m, q.seen) IN
    /\ request[s] # None /\ q.op \in {"accept", "roles"} /\ q.deleted
    /\ q.first \/ ~Blocked(s, m, q.seen)
    /\ \A r \in remaining : r[1] \notin q.names        \* uq_membership_roles_membership_role
    /\ q.loaded = None => user[u] = None               \* uq_users_email_normalized
    /\ q.joined = None => member[m] = None             \* uq_tenant_memberships_tenant_user
    /\ role' = [role EXCEPT ![m] = remaining \union (q.names \X {written[m].times + 1})]
    /\ written' = [written EXCEPT ![m] = [names |-> q.names, times |-> @.times + 1]]
    /\ overlapped' = IF q.times = written[m].times THEN overlapped ELSE overlapped \union {m}
    /\ user' = [user EXCEPT ![u] =
         IF q.loaded = None THEN NewUser
         ELSE Update(@, q.loaded, [version |-> q.loaded.version + 1])]
    /\ IF q.op = "accept"
       THEN /\ member' = [member EXCEPT ![m] = IF q.joined = TRUE THEN @ ELSE TRUE]
            /\ invitation' = [invitation EXCEPT ![q.invitation].status = "accepted"]
            /\ UNCHANGED session
       ELSE /\ session' = [i \in DOMAIN session |->
                             [session[i] EXCEPT !.revoked = @ \/ i \in q.revoked]]
            /\ UNCHANGED <<member, invitation>>
    /\ Done(s)
    /\ UNCHANGED <<tenants, challenge, reset>>

(* update_membership_status: nobody deactivates itself                      *)
LoadStatus(s, m, active) ==
    /\ member[m] # None
    /\ Begin(s, [op |-> "status", member |-> m, active |-> active, joined |-> member[m],
                 loaded |-> user[m[2]], revoked |-> IF active THEN {} ELSE LiveIn(m)])

CommitStatus(s) ==
    LET q == request[s]  m == q.member IN
    /\ Serving(s, "status")
    /\ member' = [member EXCEPT ![m] = IF q.active = q.joined THEN @ ELSE q.active]
    /\ user' = [user EXCEPT ![m[2]] = Update(@, q.loaded, [version |-> q.loaded.version + 1])]
    /\ session' = [i \in DOMAIN session |-> [session[i] EXCEPT !.revoked = @ \/ i \in q.revoked]]
    /\ Done(s)
    /\ UNCHANGED <<tenants, role, invitation, written, overlapped, challenge, reset>>

Abandon(s) == Fail(s) /\ UNCHANGED rows

Next ==
    \/ \E u \in Users : LockEnds(u)
    \/ \E i \in DOMAIN session : Logout(i)
    \/ \E n \in DOMAIN invitation : Lapse(n) \/ Resend(n)
    \/ \E m \in Memberships : RequestReset(m) \/ Enroll(m) \/ Onboard(m)
    \/ \E s \in Sessions :
          \/ \E m \in Memberships :
                \/ \E over \in BOOLEAN : LoadLoginFails(s, m, over) \/ LoadStatus(s, m, over)
                \/ LoadLogin(s, m) \/ LoadUnlock(s, m) \/ LoadPassword(s, m)
                \/ LoadConfirm(s, m) \/ LoadDisable(s, m)
                \/ \E names \in RoleSets, own \in BOOLEAN :
                      LoadInvite(s, m, names) \/ LoadRoles(s, m, names, own)
          \/ \E c \in DOMAIN challenge, by \in {"totp", "recovery", "wrong"} : LoadVerify(s, c, by)
          \/ \E i \in DOMAIN session : LoadRotate(s, i)
          \/ \E n \in DOMAIN reset : LoadReset(s, n)
          \/ \E n \in DOMAIN invitation : LoadAccept(s, n)
          \/ CommitAccount(s) \/ CommitInvite(s) \/ CommitStatus(s)
          \/ DeleteRoles(s) \/ CommitRoles(s) \/ Abandon(s)

Spec == Init /\ [][Next]_vars

----------------------------------------------------------------------------
UserRows == [version : Nat, failed : Nat, locked : {None, "locked", "past"},
             mfa : BOOLEAN, secret : Nat, pending : BOOLEAN, codes : Nat]
SessionRows == [user : Users, tenant : Tenants, version : Nat,
                parent : Nat, next : Nat, revoked : BOOLEAN]
InvitationRows == [member : Memberships, names : RoleSets \union {{"tenant_admin"}},
                   status : {"pending", "lapsed", "accepted"}]
ChallengeRows == [user : Users, tenant : Tenants, attempts : Nat, done : BOOLEAN]
ResetRows == [member : Memberships, used : BOOLEAN]

TypeOK ==
    /\ \A u \in Users : user[u] # None => user[u] \in UserRows
    /\ member \in [Memberships -> BOOLEAN \union {None}]
    /\ \A m \in Memberships : member[m] # None => user[m[2]] # None /\ m[1] \in tenants
    /\ session \in Seq(SessionRows)
    /\ \A i \in DOMAIN session : session[i].parent <= Len(session) /\ session[i].next <= Len(session)
    /\ invitation \in Seq(InvitationRows)
    /\ challenge \in Seq(ChallengeRows)
    /\ reset \in Seq(ResetRows)

(* Requests that do not overlap leave a membership with exactly the roles   *)
(* of the last of them, old ones removed and none missing, whether they are *)
(* role changes or accepted invitations (identity.py:393, :487).            *)
RolesAsWritten ==
    \A m \in Memberships \ overlapped : Names(m) = written[m].names

(* An accepted invitation has its account and its membership, however two   *)
(* acceptances, a new invitation or a failed commit interleave              *)
(* (identity.py:343-404).                                                   *)
AcceptedWhole ==
    \A n \in DOMAIN invitation : invitation[n].status = "accepted" =>
      user[invitation[n].member[2]] # None /\ member[invitation[n].member] # None

(* Every refresh session that was exchanged is revoked, and its link names a*)
(* session that descends from it, for the same user and tenant, also when   *)
(* one token is exchanged twice at the same time (session_auth.py:388-404). *)
ExchangedOnce ==
    \A i \in DOMAIN session :
      LET p == session[i].parent IN
      p # 0 => /\ session[p].revoked
               /\ session[session[p].next].parent = p
               /\ session[p].user = session[i].user /\ session[p].tenant = session[i].tenant
=============================================================================
