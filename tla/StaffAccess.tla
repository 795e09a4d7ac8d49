----------------------------- MODULE StaffAccess -----------------------------
(* Staff accounts: two-step login (password, then a one-time code or a       *)
(* recovery code), sessions, reset links, and the administration of status   *)
(* and roles with the rule that an active system administrator must remain.  *)
(* A login is several statements without a transaction around them; a change *)
(* of status or roles is one transaction that first writes and then, under   *)
(* one advisory lock, looks whether an administrator is left.                *)
EXTENDS Actors

CONSTANTS User,        \* accounts
          Challenge,   \* logins between password and second factor
          Code,        \* recovery codes of an account
          MaxStep      \* bound: time steps of the one-time codes

Role == {"admin", "desk"}
(* a row of staff_login_challenges *)
Login == [user : User, open : BOOLEAN, sessions : Nat, purpose : {"totp", "totp_setup"}]
ASSUME StaffAccessAssumption == MaxStep \in Nat \ {0} /\ None \notin Login

VARIABLES
    staff,       \* status, roles, second factor, last used time step, unused recovery codes
    challenge,   \* staff_login_challenges
    ssession,    \* staff_sessions: the one of each challenge, and the one of a login without
    reset        \* accounts with an open reset link
staffVars == <<staff, challenge, ssession, reset, visit, edits>>

NoSession == [state |-> "none"]

StaffInit ==
    /\ ActorsInit
    /\ \E admins \in (SUBSET User) \ {{}}, factor \in {"required", "on"} :
        staff = [u \in User |->
            [status |-> IF u \in admins THEN "active" ELSE "none",
             roles |-> IF u \in admins THEN {"admin"} ELSE {},
             factor |-> factor, pending |-> FALSE, step |-> 0, codes |-> IF factor = "on" THEN Code ELSE {}]]
    /\ challenge = [k \in Challenge |-> None]
    /\ ssession = [k \in Challenge |-> NoSession]
    /\ reset = {}

Working(u) == staff[u].status = "active"
AdminLeft(s) == \E u \in User : s[u].status = "active" /\ "admin" \in s[u].roles
IsSystemAdmin(u) == "admin" \in staff[u].roles

(* ---------------------------- administration --------------------------- *)
CreateEmployee(u) ==
    /\ Edit /\ staff[u].status = "none"
    /\ staff' = [staff EXCEPT ![u].status = "active"] /\ reset' = reset \cup {u}
    /\ UNCHANGED <<challenge, ssession, visit>>

(* the row is written, nobody else sees it before the commit *)
SetUserStatus(w, u, status) ==
    /\ Edit /\ staff[u].status \notin {"none", status}
    /\ \A v \in Clerk : visit[v].op = "status" => visit[v].user # u
    /\ Begin(w, [op |-> "status", user |-> u, status |-> status,
                 left |-> AdminLeft([staff EXCEPT ![u].status = status])])
    /\ UNCHANGED <<staff, challenge, ssession, reset>>

(* the roles seen now are deleted, the new ones inserted; only a system       *)
(* administrator may give or take the administrator role                      *)
SetUserRoles(w, actor, u, roles) ==
    /\ Edit /\ staff[u].status # "none" /\ Working(actor)
    /\ (("admin" \in roles) # IsSystemAdmin(u)) => IsSystemAdmin(actor)
    /\ \A v \in Clerk : visit[v].op = "roles" /\ visit[v].user = u => visit[v].seen = {}
    /\ Begin(w, [op |-> "roles", user |-> u, seen |-> staff[u].roles, roles |-> roles,
                 left |-> AdminLeft([staff EXCEPT ![u].roles = roles])])
    /\ UNCHANGED <<staff, challenge, ssession, reset>>

(* what the transaction makes of the rows that are committed by now *)
Written(w) ==
    LET v == visit[w]
    IN IF v.op = "status" THEN [staff EXCEPT ![v.user].status = v.status]
       ELSE [staff EXCEPT ![v.user].roles = (@ \ v.seen) \cup v.roles]
(* mutant: the administrators are counted before the lock *)
RemainsAsSeen(w) == visit[w].left
(* under the lock: the committed rows and the own ones *)
Remains(w) == AdminLeft(Written(w))
(* a role inserted by two is refused by the primary key *)
KeyFree(w) == visit[w].op = "roles" =>
    (staff[visit[w].user].roles \ visit[w].seen) \cap visit[w].roles = {}

CommitStatus(w) ==
    /\ visit[w].op = "status" /\ (visit[w].status = "active" \/ Remains(w))
    /\ staff' = Written(w)
    /\ IF visit[w].status = "active" THEN End(w)
       ELSE Continue(w, [op |-> "revoke", user |-> visit[w].user])
    /\ UNCHANGED <<challenge, ssession, reset, edits>>

CommitRoles(w) ==
    /\ visit[w].op = "roles" /\ KeyFree(w) /\ Remains(w)
    /\ staff' = Written(w) /\ End(w)
    /\ UNCHANGED <<challenge, ssession, reset, edits>>

RolledBack(w) ==
    /\ visit[w].op \in {"status", "roles"} /\ End(w)
    /\ UNCHANGED <<staff, challenge, ssession, reset, edits>>

DeleteRole ==
    /\ Edit /\ LET rest == [u \in User |-> [staff[u] EXCEPT !.roles = @ \ {"desk"}]]
               IN AdminLeft(rest) /\ staff' = rest
    /\ \A w \in Clerk : visit[w].op # "roles"
    /\ UNCHANGED <<challenge, ssession, reset, visit>>

ResetTotp(u) ==
    /\ Edit /\ staff[u].factor = "on"
    /\ staff' = [staff EXCEPT ![u].factor = "required", ![u].pending = FALSE, ![u].codes = {}]
    /\ UNCHANGED <<challenge, ssession, reset, visit>>

(* ------------------------------- sessions ------------------------------ *)
SessionsOf(u) == {k \in Challenge : ssession[k].state \in {"awake", "locked"} /\ ssession[k].user = u}
Revoked(ks) == [k \in Challenge |-> IF k \in ks THEN [ssession[k] EXCEPT !.state = "over"]
                                                ELSE ssession[k]]

(* after the commit, in a statement of its own; the process may die before *)
RevokeAllSessions(w) ==
    /\ visit[w].op = "revoke" /\ End(w)
    /\ ssession' \in {ssession, Revoked(SessionsOf(visit[w].user))}
    /\ UNCHANGED <<staff, challenge, reset, edits>>

(* a request with the session of an account that was closed ends the session *)
Authenticate(k) ==
    /\ ssession[k].state \in {"awake", "locked"} /\ ~Working(ssession[k].user)
    /\ ssession' = Revoked({k})
    /\ UNCHANGED <<staff, challenge, reset, visit, edits>>

(* fifteen minutes without a request lock the app, thirty days end the session *)
AppLock(k) ==
    /\ ssession[k].state = "awake" /\ ssession' = [ssession EXCEPT ![k].state = "locked"]
    /\ UNCHANGED <<staff, challenge, reset, visit, edits>>
SessionExpired(k) ==
    /\ ssession[k].state = "locked" /\ ssession' = Revoked({k})
    /\ UNCHANGED <<staff, challenge, reset, visit, edits>>
Unlock(k) ==
    /\ ssession[k].state = "locked" /\ Working(ssession[k].user)
    /\ ssession' = [ssession EXCEPT ![k].state = "awake"]
    /\ UNCHANGED <<staff, challenge, reset, visit, edits>>

(* -------------------------------- login -------------------------------- *)
CreateLoginChallenge(u) ==
    /\ Edit /\ Working(u) /\ \E k \in Challenge :
        /\ challenge[k] = None
        /\ challenge' = [challenge EXCEPT ![k] = [user |-> u, open |-> TRUE, sessions |-> 0,
                purpose |-> IF staff[u].factor = "on" THEN "totp" ELSE "totp_setup"]]
    /\ UNCHANGED <<staff, ssession, reset, visit>>

Consumeable(k, purpose) ==
    /\ challenge[k] # None /\ challenge[k].open /\ challenge[k].purpose = purpose
    /\ Working(challenge[k].user)

(* the challenge is read, then the time step is taken by one statement *)
CompleteTotpLogin(w, k, step) ==
    /\ Consumeable(k, "totp") /\ staff[challenge[k].user].step < step
    /\ staff' = [staff EXCEPT ![challenge[k].user].step = step]
    /\ Begin(w, [op |-> "factor", of |-> k])
    /\ UNCHANGED <<challenge, ssession, reset, edits>>

CompleteRecoveryLogin(w, k, code) ==
    /\ Consumeable(k, "totp") /\ code \in staff[challenge[k].user].codes
    /\ staff' = [staff EXCEPT ![challenge[k].user].codes = @ \ {code}]
    /\ Begin(w, [op |-> "factor", of |-> k])
    /\ UNCHANGED <<challenge, ssession, reset, edits>>

BeginTotpSetup(k) ==
    /\ Consumeable(k, "totp_setup") /\ staff' = [staff EXCEPT ![challenge[k].user].pending = TRUE]
    /\ UNCHANGED <<challenge, ssession, reset, visit, edits>>

(* the pending secret is read, the first code that fits turns the second      *)
(* factor on in a transaction of its own                                      *)
ConfirmTotpSetup(w, k) ==
    /\ Consumeable(k, "totp_setup") /\ staff[challenge[k].user].pending
    /\ Begin(w, [op |-> "setup", of |-> k])
    /\ UNCHANGED <<staff, challenge, ssession, reset, edits>>

TotpEnabled(w, step) ==
    LET k == visit[w].of
    IN /\ visit[w].op = "setup" /\ Continue(w, [op |-> "factor", of |-> k])
       /\ staff' = [staff EXCEPT ![challenge[k].user] =
            [@ EXCEPT !.factor = "on", !.pending = FALSE, !.step = step, !.codes = Code]]
       /\ UNCHANGED <<challenge, ssession, reset, edits>>

(* consumed by one statement that finds it still open *)
StillOpen(k) == challenge[k].open

ConsumeChallenge(w) ==
    LET k == visit[w].of
    IN /\ visit[w].op = "factor"
       /\ IF StillOpen(k)
          THEN /\ challenge' = [challenge EXCEPT ![k].open = FALSE]
               /\ Continue(w, [op |-> "session", of |-> k])
          ELSE End(w) /\ UNCHANGED challenge
       /\ UNCHANGED <<staff, ssession, reset, edits>>

CreateSession(w) ==
    LET k == visit[w].of
    IN /\ visit[w].op = "session" /\ End(w)
       /\ ssession' = [ssession EXCEPT ![k] = [user |-> challenge[k].user, state |-> "awake"]]
       /\ challenge' = [challenge EXCEPT ![k].sessions = @ + 1]
       /\ UNCHANGED <<staff, reset, edits>>

(* the process dies between two statements of a login *)
LoginDies(w) ==
    /\ visit[w].op \in {"setup", "factor", "session"} /\ End(w)
    /\ UNCHANGED <<staff, challenge, ssession, reset, edits>>

(* ------------------------------ passwords ------------------------------ *)
RequestPasswordReset(u) ==
    /\ Edit /\ Working(u) /\ u \notin reset /\ reset' = reset \cup {u}
    /\ UNCHANGED <<staff, challenge, ssession, visit>>
(* the link is used up, then every session of the account ends *)
ResetPassword(w, u) ==
    /\ u \in reset /\ Working(u) /\ reset' = reset \ {u}
    /\ Begin(w, [op |-> "revoke", user |-> u])
    /\ UNCHANGED <<staff, challenge, ssession, edits>>
(* logged in: the other sessions end, the own one stays *)
ChangePassword(k) ==
    /\ Edit /\ ssession[k].state = "awake" /\ Working(ssession[k].user)
    /\ reset' = reset \ {ssession[k].user}
    /\ ssession' = Revoked(SessionsOf(ssession[k].user) \ {k})
    /\ UNCHANGED <<staff, challenge, visit>>

StaffNext ==
    \/ \E u \in User : CreateEmployee(u) \/ ResetTotp(u) \/ CreateLoginChallenge(u) \/ RequestPasswordReset(u)
    \/ DeleteRole
    \/ \E w \in Clerk :
        \/ \E u \in User : \/ \E status \in {"active", "locked", "disabled"} : SetUserStatus(w, u, status)
                           \/ \E actor \in User, roles \in SUBSET Role : SetUserRoles(w, actor, u, roles)
                           \/ ResetPassword(w, u)
        \/ CommitStatus(w) \/ CommitRoles(w) \/ RolledBack(w) \/ RevokeAllSessions(w)
        \/ \E k \in Challenge : \/ \E s \in 1..MaxStep : CompleteTotpLogin(w, k, s)
                                \/ ConfirmTotpSetup(w, k)
                                \/ \E c \in Code : CompleteRecoveryLogin(w, k, c)
        \/ \E s \in 1..MaxStep : TotpEnabled(w, s)
        \/ ConsumeChallenge(w) \/ CreateSession(w) \/ LoginDies(w)
    \/ \E k \in Challenge : Authenticate(k) \/ AppLock(k) \/ SessionExpired(k) \/ Unlock(k)
                           \/ ChangePassword(k) \/ BeginTotpSetup(k)
StaffSpec == StaffInit /\ [][StaffNext]_staffVars

(* However changes of status and roles overlap, an active system            *)
(* administrator is left.                                                   *)
ActiveAdminRemains == AdminLeft(staff)

(* One login with a password makes at most one session, although the second *)
(* factor may be answered by several requests and in several ways.          *)
OneSessionPerLogin == \A k \in Challenge : challenge[k] # None => challenge[k].sessions <= 1
(* Somebody can always administer, and a password opens one session.         *)
StaffSafety == ActiveAdminRemains /\ OneSessionPerLogin
=============================================================================
