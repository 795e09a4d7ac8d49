---------------------------- MODULE OfficeProofs -----------------------------
(***************************************************************************)
(* Who is let in, and what is asked of others: the log-ins of the staff,   *)
(* the links and accesses of the customers, the shared limit of requests,  *)
(* what staff are told on their devices, and what the mirrored data of     *)
(* Lexware keeps: invoice, contact and connection.                         *)
(***************************************************************************)
EXTENDS StaffAccess, PortalAccess, RequestBudget, PushNotice, InvoiceSync, ContactSync, LexwareLink,
        FiniteSetTheorems, SequenceTheorems, WellFoundedInduction, TLAPS

Account == [status : {"none", "active", "locked", "disabled"}, roles : SUBSET Role,
            factor : {"required", "on"}, pending : BOOLEAN, step : Nat, codes : SUBSET Code]

StaffTyped ==
    /\ DOMAIN visit = Clerk
    /\ staff \in [User -> Account]
    /\ challenge \in [Challenge -> Login \cup {None}]
    /\ \A w \in Clerk :
        /\ visit[w].op = "status" => /\ visit[w].user \in User
                                     /\ visit[w].status \in {"active", "locked", "disabled"}
        /\ visit[w].op = "roles" => /\ visit[w].user \in User
                                    /\ visit[w].roles \in SUBSET Role

(* A request past the password belongs to a login that exists; the one that  *)
(* found it open has closed it, is the only one, and has made no session.    *)
Answers == {"setup", "factor", "session"}
LoginOpens ==
    /\ \A w \in Clerk : visit[w].op \in Answers =>
            visit[w].of \in Challenge /\ challenge[visit[w].of] # None
    /\ \A w \in Clerk : visit[w].op = "session" =>
            /\ ~challenge[visit[w].of].open /\ challenge[visit[w].of].sessions = 0
            /\ \A v \in Clerk : visit[v].op = "session" /\ visit[v].of = visit[w].of => v = w
    /\ \A k \in Challenge : challenge[k] # None =>
            IF challenge[k].open THEN challenge[k].sessions = 0 ELSE challenge[k].sessions <= 1

StaffInv == StaffTyped /\ LoginOpens /\ ActiveAdminRemains

(* Rows that keep their status and their roles keep their administrator.     *)
LEMMA SameAdmins ==
    ASSUME StaffInv, NEW s, \A u \in User : s[u].status = staff[u].status /\ s[u].roles = staff[u].roles
    PROVE  AdminLeft(s)
  BY DEF StaffInv, ActiveAdminRemains, AdminLeft

(* What the login has to do with is left alone.                              *)
LEMMA LoginRests ==
    ASSUME StaffInv, UNCHANGED challenge, NEW w \in Clerk, NEW v,
           visit' = [visit EXCEPT ![w] = v], v.op # "session",
           v.op \in Answers => v.of \in Challenge /\ challenge[v.of] # None
    PROVE  LoginOpens'
  BY DEF StaffInv, StaffTyped, LoginOpens

(* A request that goes on or ends touches neither an administrator nor a     *)
(* login that others answer.                                                 *)
LEMMA VisitGoesOn ==
    ASSUME StaffInv, UNCHANGED challenge, staff' \in [User -> Account], AdminLeft(staff'),
           NEW w \in Clerk, NEW v, visit' = [visit EXCEPT ![w] = v],
           \/ v.op \in {"none", "revoke"}
           \/ v.op \in {"setup", "factor"} /\ v.of \in Challenge /\ challenge[v.of] # None
    PROVE  StaffInv'
  BY DEF StaffInv, StaffTyped, LoginOpens, ActiveAdminRemains, Answers

LEMMA VisitEnds ==
    ASSUME StaffInv, UNCHANGED challenge, staff' \in [User -> Account], AdminLeft(staff'),
           NEW w \in Clerk, End(w)
    PROVE  StaffInv'
<1>1. NoVisit.op = "none" /\ visit' = [visit EXCEPT ![w] = NoVisit]
  BY DEF NoVisit, End
<1> QED BY <1>1, VisitGoesOn

LEMMA VisitRevokes ==
    ASSUME StaffInv, UNCHANGED challenge, staff' \in [User -> Account], AdminLeft(staff'),
           NEW w \in Clerk, NEW u, visit' = [visit EXCEPT ![w] = [op |-> "revoke", user |-> u]]
    PROVE  StaffInv'
<1>1. [op |-> "revoke", user |-> u].op = "revoke"
  OBVIOUS
<1> QED BY <1>1, VisitGoesOn

LEMMA VisitAnswers ==
    ASSUME StaffInv, UNCHANGED challenge, staff' \in [User -> Account], AdminLeft(staff'),
           NEW w \in Clerk, NEW k \in Challenge, challenge[k] # None, NEW op \in {"setup", "factor"},
           visit' = [visit EXCEPT ![w] = [op |-> op, of |-> k]]
    PROVE  StaffInv'
<1> DEFINE v == [op |-> op, of |-> k]
<1>1. v.op \in {"setup", "factor"} /\ v.of = k
  OBVIOUS
<1> HIDE DEF v
<1>2. visit' = [visit EXCEPT ![w] = v]
  BY DEF v
<1> QED BY <1>1, <1>2, VisitGoesOn

(* The second factor has nothing to do with status and roles.                *)
LEMMA FactorApart ==
    ASSUME NEW a \in Account, NEW step \in Nat
    PROVE  /\ [a EXCEPT !.pending = TRUE] \in Account
           /\ [a EXCEPT !.pending = TRUE].status = a.status
           /\ [a EXCEPT !.pending = TRUE].roles = a.roles
           /\ [a EXCEPT !.factor = "on", !.pending = FALSE, !.step = step, !.codes = Code] \in Account
           /\ [a EXCEPT !.factor = "on", !.pending = FALSE, !.step = step, !.codes = Code].status = a.status
           /\ [a EXCEPT !.factor = "on", !.pending = FALSE, !.step = step, !.codes = Code].roles = a.roles
<1>1. [a EXCEPT !.pending = TRUE] \in Account
  BY DEF Account
<1>2. [a EXCEPT !.pending = TRUE].status = a.status /\ [a EXCEPT !.pending = TRUE].roles = a.roles
  BY DEF Account
<1>3. [a EXCEPT !.factor = "on", !.pending = FALSE, !.step = step, !.codes = Code] \in Account
  BY DEF Account
<1>4. /\ [a EXCEPT !.factor = "on", !.pending = FALSE, !.step = step, !.codes = Code].status = a.status
      /\ [a EXCEPT !.factor = "on", !.pending = FALSE, !.step = step, !.codes = Code].roles = a.roles
  BY DEF Account
<1> QED BY <1>1, <1>2, <1>3, <1>4

LEMMA WrittenTyped ==
    ASSUME StaffInv, NEW w \in Clerk, visit[w].op \in {"status", "roles"}
    PROVE  /\ Written(w) \in [User -> Account]
           /\ visit[w].op = "status" =>
                /\ Written(w)[visit[w].user].status = visit[w].status
                /\ \A u \in User : /\ Written(w)[u].roles = staff[u].roles
                                   /\ u # visit[w].user => Written(w)[u].status = staff[u].status
  BY DEF StaffInv, StaffTyped, Written, Account

LEMMA StaffStep == ASSUME StaffInv, StaffNext PROVE StaffInv'
<1> USE DEF StaffInv, StaffTyped, ActiveAdminRemains, NoVisit, Answers
<1>1. ASSUME NEW u \in User, CreateEmployee(u) PROVE StaffInv'
  <2>1. staff' \in [User -> Account] /\ AdminLeft(staff')
    BY <1>1 DEF CreateEmployee, Account, AdminLeft
  <2> QED BY <1>1, <2>1 DEF CreateEmployee, LoginOpens
<1>2. ASSUME NEW u \in User, ResetTotp(u) PROVE StaffInv'
  <2>1. staff' = [staff EXCEPT ![u] = [@ EXCEPT !.factor = "required", !.pending = FALSE, !.codes = {}]]
    BY <1>2 DEF ResetTotp, Account
  <2>2. staff' \in [User -> Account] /\ \A v \in User : staff'[v].status = staff[v].status /\ staff'[v].roles = staff[v].roles
    <3>1. PICK row : row = [staff[u] EXCEPT !.factor = "required", !.pending = FALSE, !.codes = {}]
      OBVIOUS
    <3>2. row \in Account /\ row.status = staff[u].status /\ row.roles = staff[u].roles
      <4>1. staff[u] \in Account
        OBVIOUS
      <4>2. row \in Account
        BY <3>1, <4>1 DEF Account
      <4> QED BY <3>1, <4>1, <4>2 DEF Account
    <3>3. staff' = [staff EXCEPT ![u] = row]
      BY <2>1, <3>1
    <3> QED BY <3>2, <3>3
  <2>3. AdminLeft(staff')
    BY <2>2, SameAdmins
  <2> QED BY <1>2, <2>2, <2>3 DEF ResetTotp, LoginOpens
<1>3. ASSUME NEW u \in User, CreateLoginChallenge(u) PROVE StaffInv'
  <2>1. PICK k \in Challenge : /\ challenge[k] = None
        /\ challenge' = [challenge EXCEPT ![k] = [user |-> u, open |-> TRUE, sessions |-> 0,
                purpose |-> IF staff[u].factor = "on" THEN "totp" ELSE "totp_setup"]]
    BY <1>3 DEF CreateLoginChallenge
  <2>2. challenge' \in [Challenge -> Login \cup {None}]
    BY <2>1 DEF Login
  <2>3. LoginOpens'
    BY <1>3, <2>1 DEF CreateLoginChallenge, LoginOpens
  <2> QED BY <1>3, <2>2, <2>3 DEF CreateLoginChallenge
<1>4. ASSUME NEW u \in User, RequestPasswordReset(u) PROVE StaffInv'
  BY <1>4 DEF RequestPasswordReset, LoginOpens
<1>5. ASSUME DeleteRole PROVE StaffInv'
  <2>1. staff' \in [User -> Account] /\ AdminLeft(staff')
    BY <1>5 DEF DeleteRole, Account
  <2> QED BY <1>5, <2>1 DEF DeleteRole, LoginOpens
<1>6. ASSUME NEW w \in Clerk, NEW u \in User, NEW status \in {"active", "locked", "disabled"}, SetUserStatus(w, u, status)
      PROVE StaffInv'
  <2> DEFINE v == [op |-> "status", user |-> u, status |-> status,
                 left |-> AdminLeft([staff EXCEPT ![u].status = status])]
  <2>1. visit' = [visit EXCEPT ![w] = v] /\ UNCHANGED <<staff, challenge>>
    BY <1>6 DEF SetUserStatus, Begin
  <2>2. v.op = "status" /\ v.user \in User /\ v.status \in {"active", "locked", "disabled"}
    OBVIOUS
  <2> HIDE DEF v
  <2>3. LoginOpens'
    BY <2>1, <2>2, LoginRests
  <2> QED BY <2>1, <2>2, <2>3
<1>7. ASSUME NEW w \in Clerk, NEW u \in User, NEW actor \in User, NEW roles \in SUBSET Role,
             SetUserRoles(w, actor, u, roles)
      PROVE StaffInv'
  <2> DEFINE v == [op |-> "roles", user |-> u, seen |-> staff[u].roles, roles |-> roles,
                 left |-> AdminLeft([staff EXCEPT ![u].roles = roles])]
  <2>1. visit' = [visit EXCEPT ![w] = v] /\ UNCHANGED <<staff, challenge>>
    BY <1>7 DEF SetUserRoles, Begin
  <2>2. v.op = "roles" /\ v.user \in User /\ v.roles \in SUBSET Role
    OBVIOUS
  <2> HIDE DEF v
  <2>3. LoginOpens'
    BY <2>1, <2>2, LoginRests
  <2> QED BY <2>1, <2>2, <2>3
<1>8. ASSUME NEW w \in Clerk, NEW u \in User, ResetPassword(w, u) PROVE StaffInv'
  BY <1>8, VisitRevokes DEF ResetPassword, Begin
<1>9. ASSUME NEW w \in Clerk, CommitStatus(w) PROVE StaffInv'
  <2>1. staff' = Written(w) /\ visit[w].op = "status" /\ UNCHANGED challenge
    BY <1>9 DEF CommitStatus
  <2>2. staff' \in [User -> Account]
    BY <2>1, WrittenTyped
  <2>3. CASE Remains(w)
    <3>1. AdminLeft(staff')
      BY <2>1, <2>3 DEF Remains
    <3> QED BY <1>9, <2>1, <2>2, <3>1, VisitEnds, VisitRevokes DEF CommitStatus, Continue
  <2>4. CASE visit[w].status = "active"
    <3>1. \A u \in User : staff'[u].roles = staff[u].roles /\ (staff[u].status = "active" => staff'[u].status = "active")
      BY <2>1, <2>4, WrittenTyped
    <3>2. AdminLeft(staff')
      BY <3>1 DEF AdminLeft
    <3> QED BY <1>9, <2>1, <2>2, <3>2, VisitEnds, VisitRevokes DEF CommitStatus, Continue
  <2> QED BY <1>9, <2>3, <2>4 DEF CommitStatus
<1>10. ASSUME NEW w \in Clerk, CommitRoles(w) PROVE StaffInv'
  <2>1. staff' = Written(w) /\ visit[w].op = "roles" /\ UNCHANGED challenge /\ AdminLeft(staff')
    BY <1>10 DEF CommitRoles, Remains
  <2>2. staff' \in [User -> Account]
    BY <2>1, WrittenTyped
  <2> QED BY <1>10, <2>1, <2>2, VisitEnds DEF CommitRoles
<1>11. ASSUME NEW w \in Clerk, RolledBack(w) PROVE StaffInv'
  BY <1>11, VisitEnds DEF RolledBack
<1>12. ASSUME NEW w \in Clerk, RevokeAllSessions(w) PROVE StaffInv'
  BY <1>12, VisitEnds DEF RevokeAllSessions
<1>13. ASSUME NEW w \in Clerk, NEW k \in Challenge, NEW s \in 1..MaxStep, CompleteTotpLogin(w, k, s) PROVE StaffInv'
  <2>1. challenge[k] # None /\ challenge[k].user \in User
    BY <1>13 DEF CompleteTotpLogin, Consumeable, Login
  <2>2. staff' \in [User -> Account] /\ \A v \in User : staff'[v].status = staff[v].status /\ staff'[v].roles = staff[v].roles
    BY <1>13, <2>1, StaffAccessAssumption DEF CompleteTotpLogin, Account
  <2>3. AdminLeft(staff')
    BY <2>2, SameAdmins
  <2> QED BY <1>13, <2>1, <2>2, <2>3, VisitAnswers DEF CompleteTotpLogin, Begin
<1>14. ASSUME NEW w \in Clerk, NEW k \in Challenge, ConfirmTotpSetup(w, k) PROVE StaffInv'
  BY <1>14, VisitAnswers DEF ConfirmTotpSetup, Consumeable, Begin
<1>15. ASSUME NEW w \in Clerk, NEW k \in Challenge, NEW c \in Code, CompleteRecoveryLogin(w, k, c) PROVE StaffInv'
  <2>1. challenge[k] # None /\ challenge[k].user \in User
    BY <1>15 DEF CompleteRecoveryLogin, Consumeable, Login
  <2>2. staff' \in [User -> Account] /\ \A v \in User : staff'[v].status = staff[v].status /\ staff'[v].roles = staff[v].roles
    BY <1>15, <2>1 DEF CompleteRecoveryLogin, Account
  <2>3. AdminLeft(staff')
    BY <2>2, SameAdmins
  <2> QED BY <1>15, <2>1, <2>2, <2>3, VisitAnswers DEF CompleteRecoveryLogin, Begin
<1>16. ASSUME NEW w \in Clerk, NEW s \in 1..MaxStep, TotpEnabled(w, s) PROVE StaffInv'
  <2>1. PICK k \in Challenge : k = visit[w].of
    BY <1>16 DEF TotpEnabled, LoginOpens
  <2>2. /\ visit[w].op = "setup" /\ visit' = [visit EXCEPT ![w] = [op |-> "factor", of |-> k]]
        /\ staff' = [staff EXCEPT ![challenge[k].user] =
            [@ EXCEPT !.factor = "on", !.pending = FALSE, !.step = s, !.codes = Code]]
        /\ UNCHANGED challenge
    BY <1>16, <2>1 DEF TotpEnabled, Continue
  <2>3. challenge[k] # None /\ challenge[k].user \in User
    BY <2>1, <2>2 DEF LoginOpens, Login
  <2>4. staff' \in [User -> Account] /\ \A v \in User : staff'[v].status = staff[v].status /\ staff'[v].roles = staff[v].roles
    <3>0. PICK u \in User : u = challenge[k].user
      BY <2>3
    <3>1. PICK row : row = [staff[u] EXCEPT !.factor = "on", !.pending = FALSE, !.step = s, !.codes = Code]
      OBVIOUS
    <3>2. row \in Account /\ row.status = staff[u].status /\ row.roles = staff[u].roles
      <4>1. s \in Nat /\ staff[u] \in Account
        BY <3>0, StaffAccessAssumption
      <4> QED BY <4>1, <3>1, FactorApart
    <3>3. staff' = [staff EXCEPT ![u] = row]
      BY <2>2, <3>0, <3>1
    <3> QED BY <3>0, <3>2, <3>3
  <2>5. AdminLeft(staff')
    BY <2>4, SameAdmins
  <2> QED BY <2>2, <2>3, <2>4, <2>5, VisitAnswers
<1>17. ASSUME NEW w \in Clerk, ConsumeChallenge(w) PROVE StaffInv'
  <2>1. PICK k \in Challenge : k = visit[w].of
    BY <1>17 DEF ConsumeChallenge, LoginOpens
  <2>2. CASE StillOpen(k)
    <3>1. /\ visit[w].op = "factor" /\ visit' = [visit EXCEPT ![w] = [op |-> "session", of |-> k]]
          /\ challenge' = [challenge EXCEPT ![k].open = FALSE] /\ UNCHANGED staff
      BY <1>17, <2>1, <2>2 DEF ConsumeChallenge, Continue
    <3>2. challenge[k] # None /\ challenge[k] \in Login /\ challenge[k].sessions = 0 /\ challenge[k].open
      BY <2>1, <2>2, <3>1 DEF LoginOpens, StillOpen
    <3>3. /\ challenge' \in [Challenge -> Login \cup {None}] /\ challenge'[k] \in Login
          /\ ~challenge'[k].open /\ challenge'[k].sessions = 0
          /\ \A j \in Challenge : j # k => challenge'[j] = challenge[j]
      BY <3>1, <3>2 DEF Login
    <3>4. challenge'[k] # None /\ \A v \in Clerk : visit[v].op = "session" => visit[v].of # k
      BY <3>2, <3>3, StaffAccessAssumption DEF LoginOpens
    <3>5. visit'[w].op = "session" /\ visit'[w].of = k /\ \A v \in Clerk : v # w => visit'[v] = visit[v]
      BY <3>1
    <3>6. \A v \in Clerk : visit'[v].op \in Answers =>
            visit'[v].of \in Challenge /\ challenge'[visit'[v].of] # None
      BY <3>3, <3>4, <3>5 DEF LoginOpens
    <3>7. \A v \in Clerk : visit'[v].op = "session" =>
            /\ ~challenge'[visit'[v].of].open /\ challenge'[visit'[v].of].sessions = 0
            /\ \A x \in Clerk : visit'[x].op = "session" /\ visit'[x].of = visit'[v].of => x = v
      BY <3>3, <3>4, <3>5 DEF LoginOpens
    <3>8. \A j \in Challenge : challenge'[j] # None =>
            IF challenge'[j].open THEN challenge'[j].sessions = 0 ELSE challenge'[j].sessions <= 1
      BY <3>3 DEF LoginOpens
    <3>9. LoginOpens'
      BY <3>6, <3>7, <3>8 DEF LoginOpens
    <3> QED BY <3>1, <3>3, <3>9
  <2>3. CASE ~StillOpen(k)
    BY <1>17, <2>1, <2>3, VisitEnds DEF ConsumeChallenge
  <2> QED BY <2>2, <2>3
<1>18. ASSUME NEW w \in Clerk, CreateSession(w) PROVE StaffInv'
  <2>1. PICK k \in Challenge : k = visit[w].of
    BY <1>18 DEF CreateSession, LoginOpens
  <2>2. /\ visit[w].op = "session" /\ visit' = [visit EXCEPT ![w] = [op |-> "none"]]
        /\ challenge' = [challenge EXCEPT ![k].sessions = @ + 1] /\ UNCHANGED staff
    BY <1>18, <2>1 DEF CreateSession, End
  <2>3. challenge[k] # None /\ challenge[k] \in Login /\ challenge[k].sessions = 0 /\ ~challenge[k].open
    BY <2>1, <2>2 DEF LoginOpens
  <2>4. /\ challenge' \in [Challenge -> Login \cup {None}] /\ challenge'[k] \in Login
        /\ ~challenge'[k].open /\ challenge'[k].sessions = 1
        /\ \A j \in Challenge : j # k => challenge'[j] = challenge[j]
    BY <2>2, <2>3 DEF Login
  <2>5. LoginOpens'
    BY <2>1, <2>2, <2>3, <2>4, StaffAccessAssumption DEF LoginOpens
  <2> QED BY <2>2, <2>4, <2>5
<1>19. ASSUME NEW w \in Clerk, LoginDies(w) PROVE StaffInv'
  BY <1>19, VisitEnds DEF LoginDies
<1>20. ASSUME NEW k \in Challenge, BeginTotpSetup(k) PROVE StaffInv'
  <2>1. challenge[k].user \in User
    BY <1>20 DEF BeginTotpSetup, Consumeable, Login
  <2>2. staff' \in [User -> Account] /\ \A v \in User : staff'[v].status = staff[v].status /\ staff'[v].roles = staff[v].roles
    <3>0. PICK u \in User : u = challenge[k].user
      BY <2>1
    <3>1. PICK row : row = [staff[u] EXCEPT !.pending = TRUE]
      OBVIOUS
    <3>2. row \in Account /\ row.status = staff[u].status /\ row.roles = staff[u].roles
      BY <3>0, <3>1, FactorApart
    <3>3. staff' = [staff EXCEPT ![u] = row]
      BY <1>20, <3>0, <3>1 DEF BeginTotpSetup
    <3> QED BY <3>0, <3>2, <3>3
  <2>3. AdminLeft(staff')
    BY <2>2, SameAdmins
  <2> QED BY <1>20, <2>2, <2>3 DEF BeginTotpSetup, LoginOpens
<1>21. ASSUME NEW k \in Challenge,
              Authenticate(k) \/ AppLock(k) \/ SessionExpired(k) \/ Unlock(k) \/ ChangePassword(k)
       PROVE StaffInv'
  <2>1. UNCHANGED <<staff, challenge, visit>>
    BY <1>21 DEF Authenticate, AppLock, SessionExpired, Unlock, ChangePassword
  <2> QED BY <2>1 DEF LoginOpens
<1> QED BY <1>1, <1>2, <1>3, <1>4, <1>5, <1>6, <1>7, <1>8, <1>9, <1>10, <1>11, <1>12, <1>13, <1>14, <1>15,
  <1>16, <1>17, <1>18, <1>19, <1>20, <1>21 DEF StaffNext

LEMMA StaffStart == StaffInit => StaffInv
<1> SUFFICES ASSUME StaffInit PROVE StaffInv
  OBVIOUS
<1>1. PICK admins \in (SUBSET User) \ {{}}, factor \in {"required", "on"} :
        staff = [u \in User |->
            [status |-> IF u \in admins THEN "active" ELSE "none",
             roles |-> IF u \in admins THEN {"admin"} ELSE {},
             factor |-> factor, pending |-> FALSE, step |-> 0, codes |-> IF factor = "on" THEN Code ELSE {}]]
  BY DEF StaffInit
<1>2. PICK u \in User : u \in admins
  BY <1>1
<1>3. ActiveAdminRemains
  BY <1>1, <1>2 DEF ActiveAdminRemains, AdminLeft
<1>4. staff \in [User -> Account]
  BY <1>1 DEF Account, Role
<1> QED BY <1>3, <1>4 DEF StaffInit, ActorsInit, NoVisit, StaffInv, StaffTyped, LoginOpens, Answers

(* However requests to change status and roles overlap, an active system     *)
(* administrator is left; and however often the second factor of one login   *)
(* is answered at the same time, one session comes of it                     *)
(* (auth/admin-service.ts, auth/service.ts).                                 *)
THEOREM StaffIsSafe == StaffSpec => []StaffSafety
<1>1. StaffInv /\ [StaffNext]_staffVars => StaffInv'
  <2> SUFFICES ASSUME StaffInv, [StaffNext]_staffVars PROVE StaffInv'
    OBVIOUS
  <2>1. CASE StaffNext
    BY <2>1, StaffStep
  <2>2. CASE UNCHANGED staffVars
    BY <2>2 DEF staffVars, StaffInv, StaffTyped, LoginOpens, ActiveAdminRemains
  <2> QED BY <2>1, <2>2
<1>2. StaffInv => StaffSafety
  BY DEF StaffInv, StaffTyped, LoginOpens, StaffSafety, OneSessionPerLogin, Login
<1> QED BY StaffStart, <1>1, <1>2, PTL DEF StaffSpec
-----------------------------------------------------------------------------
Purpose == {"login", "reauth", "email_change"}
Customer == [mail : Person, alive : BOOLEAN, era : Nat]
Letter == {r \in [cust : PortalCustomer, purpose : Purpose, session : PSession \cup {None},
                  mail : Person \cup {None}, state : {"open", "used", "revoked"},
                  recent : BOOLEAN, era : Nat] : r.purpose = "email_change" => r.mail \in Person}
Access == [cust : PortalCustomer, state : {"valid", "over"}, reauth : BOOLEAN, era : Nat]
Request == [op : {"none"}]
           \cup [op : {"login"}, cust : PortalCustomer, mail : Person]
           \cup [op : {"reauth"}, cust : PortalCustomer, session : PSession]
           \cup [op : {"change"}, cust : PortalCustomer, session : PSession, mail : Person]
           \cup [op : {"open"}, cust : PortalCustomer, link : PLink, era : Nat]
           \cup [op : {"mark"}, session : PSession]

PortalTyped ==
    /\ visit \in [Clerk -> Request]
    /\ pcust \in [PortalCustomer -> Customer]
    /\ plink \in [PLink -> Letter \cup {NoRow}]
    /\ psession \in [PSession -> Access \cup {NoRow}]
    /\ plock \in [PortalCustomer -> Clerk \cup {None}]

OpenOf(l, c, purpose) == plink[l].state = "open" /\ plink[l].cust = c /\ plink[l].purpose = purpose

(* Whoever opens a login link holds the customer: the link is used, it is of *)
(* the access of today, and no other takes its place meanwhile.              *)
Opening ==
    \A w \in Clerk : visit[w].op = "open" =>
        LET c == visit[w].cust  l == visit[w].link
        IN /\ plock[c] = w /\ visit[w].era = pcust[c].era
           /\ plink[l].state = "used" /\ plink[l].cust = c /\ plink[l].purpose = "login"
           /\ plink[l].era = pcust[c].era
           /\ \A k \in PLink : ~OpenOf(k, c, "login")

(* Of the links of one purpose one is open.                                  *)
Single ==
    \A c \in PortalCustomer, purpose \in {"login", "email_change"}, k, l \in PLink :
        OpenOf(k, c, purpose) /\ OpenOf(l, c, purpose) => k = l

PortalInv == PortalTyped /\ Opening /\ Single /\ OldAccessEnds

(* Rows are told apart by their state.                                       *)
LEMMA LetterIsRow == ASSUME NEW r \in Letter PROVE r # NoRow /\ r.state # "none"
  BY DEF Letter, NoRow

LEMMA RowIsLetter ==
    ASSUME PortalTyped, NEW l \in PLink
    PROVE  /\ plink[l].state # "none" => plink[l] \in Letter
           /\ plink[l] # NoRow => plink[l] \in Letter
  BY DEF PortalTyped, NoRow

(* A link row that stays as it is, closes, or is removed.                    *)
Same(l) == /\ plink'[l].state = plink[l].state /\ plink'[l].cust = plink[l].cust
           /\ plink'[l].purpose = plink[l].purpose /\ plink'[l].era = plink[l].era
Closes(l) == plink'[l].state # "open" /\ plink[l].state # "used"
LinkRests(l) == plink'[l] \in Letter \cup {NoRow} /\ (Same(l) \/ Closes(l))

(* A row that is in the hands of a request that opens it.                    *)
Held(l) == \E w \in Clerk : visit[w].op = "open" /\ visit[w].link = l
LinkGoes(l) == plink'[l] \in Letter \cup {NoRow} /\ (Same(l) \/ (plink'[l].state # "open" /\ ~Held(l)))

LEMMA RestsGoes == ASSUME PortalInv, NEW l \in PLink, LinkRests(l) PROVE LinkGoes(l)
<1>1. Held(l) => plink[l].state = "used"
  BY DEF PortalInv, Opening, Held
<1> QED BY <1>1 DEF LinkRests, LinkGoes, Closes

(* What a request holds: fields of its kind.                                 *)
LEMMA RequestFields ==
    ASSUME PortalTyped, NEW w \in Clerk
    PROVE  /\ visit[w].op \in {"login", "reauth", "change", "open"} => visit[w].cust \in PortalCustomer
           /\ visit[w].op \in {"login", "change"} => visit[w].mail \in Person
           /\ visit[w].op \in {"reauth", "change", "mark"} => visit[w].session \in PSession
           /\ visit[w].op = "open" => /\ visit[w].link \in PLink /\ visit[w].era \in Nat
                                      /\ "link" \in DOMAIN visit[w]
  BY DEF PortalTyped, Request

(* Links that rest, customers as they were: what the links promise is kept.  *)
LEMMA LinksRest ==
    ASSUME PortalInv, \A l \in PLink : LinkGoes(l), DOMAIN plink' = PLink, plink' = [l \in PLink |-> plink'[l]],
           \A c \in PortalCustomer : pcust'[c].era = pcust[c].era
    PROVE  /\ plink' \in [PLink -> Letter \cup {NoRow}]
           /\ Single'
           /\ \A l \in PLink : plink'[l].state = "open" /\ plink'[l].purpose = "login" =>
                 plink'[l].era = pcust'[plink'[l].cust].era
           /\ \A w \in Clerk : visit[w].op = "open" =>
                 LET c == visit[w].cust  l == visit[w].link
                 IN /\ plink'[l].state = "used" /\ plink'[l].cust = c /\ plink'[l].purpose = "login"
                    /\ plink'[l].era = pcust'[c].era
                    /\ \A k \in PLink : ~(plink'[k].state = "open" /\ plink'[k].cust = c /\ plink'[k].purpose = "login")
<1> USE DEF PortalInv
<1>1. plink' \in [PLink -> Letter \cup {NoRow}]
  BY DEF LinkGoes
<1>2. Single'
  BY DEF Single, OpenOf, LinkGoes, Same
<1>3. \A l \in PLink : plink'[l].state = "open" /\ plink'[l].purpose = "login" =>
                 plink'[l].era = pcust'[plink'[l].cust].era
  <2> SUFFICES ASSUME NEW l \in PLink, plink'[l].state = "open", plink'[l].purpose = "login"
               PROVE  plink'[l].era = pcust'[plink'[l].cust].era
    OBVIOUS
  <2>1. Same(l) /\ plink[l] \in Letter
    BY RowIsLetter DEF LinkGoes, Same
  <2>2. plink[l].cust \in PortalCustomer
    BY <2>1 DEF Letter
  <2> QED BY <2>1, <2>2 DEF OldAccessEnds, Same
<1>4. ASSUME NEW w \in Clerk, visit[w].op = "open"
      PROVE  LET c == visit[w].cust  l == visit[w].link
             IN /\ plink'[l].state = "used" /\ plink'[l].cust = c /\ plink'[l].purpose = "login"
                /\ plink'[l].era = pcust'[c].era
                /\ \A k \in PLink : ~(plink'[k].state = "open" /\ plink'[k].cust = c /\ plink'[k].purpose = "login")
  <2>1. visit[w].link \in PLink /\ visit[w].cust \in PortalCustomer
    BY <1>4, RequestFields
  <2>2. Same(visit[w].link)
    BY <1>4, <2>1 DEF LinkGoes, Held
  <2> QED BY <1>4, <2>1, <2>2 DEF Opening, OpenOf, LinkGoes, Same
<1> QED BY <1>1, <1>2, <1>3, <1>4

(* New access of a customer nobody opens a link of.                          *)
LEMMA InsertGoes ==
    ASSUME PortalInv, NEW c \in PortalCustomer, NEW purpose \in Purpose, NEW s \in PSession \cup {None},
           NEW e \in Person \cup {None}, purpose = "email_change" => e \in Person,
           NEW st \in {"open", "revoked"},
           InsertLink(c, purpose, s, e, st), LockFree(c), UNCHANGED <<pcust, psession, plock>>,
           NEW w \in Clerk, End(w), visit[w].op # "open"
    PROVE  PortalInv'
<1> USE DEF PortalInv
<1>1. PICK n \in PLink :
        /\ plink[n] = NoRow
        /\ plink' = [RevokeLinks(plink, Covered(c, purpose, s)) EXCEPT ![n] =
            [cust |-> c, purpose |-> purpose, session |-> s, mail |-> e, state |-> st,
             recent |-> TRUE, era |-> pcust[c].era]]
  BY DEF InsertLink
<1>2. pcust[c].era \in Nat
  BY DEF PortalTyped, Customer
<1>3. /\ plink'[n] \in Letter /\ plink'[n].state = st /\ plink'[n].cust = c /\ plink'[n].purpose = purpose
      /\ plink'[n].era = pcust[c].era
  BY <1>1, <1>2 DEF Letter, RevokeLinks
<1>4. \A l \in PLink \ {n} : plink'[l] = IF l \in Covered(c, purpose, s) THEN [plink[l] EXCEPT !.state = "revoked"] ELSE plink[l]
  BY <1>1 DEF RevokeLinks
<1>5. ASSUME NEW l \in PLink \ {n}
      PROVE  /\ LinkRests(l)
             /\ purpose # "reauth" /\ OpenOf(l, c, purpose) => plink'[l].state = "revoked"
  <2>1. CASE l \in Covered(c, purpose, s)
    <3>1. plink[l].state = "open" /\ plink[l] \in Letter
      BY <2>1, RowIsLetter DEF Covered
    <3>2. plink'[l] = [plink[l] EXCEPT !.state = "revoked"]
      BY <1>4, <2>1
    <3>3. plink'[l] \in Letter /\ plink'[l].state = "revoked"
      BY <3>1, <3>2 DEF Letter
    <3> QED BY <3>1, <3>3 DEF LinkRests, Closes
  <2>2. CASE l \notin Covered(c, purpose, s)
    <3>1. plink'[l] = plink[l]
      BY <1>4, <2>2
    <3>2. LinkRests(l)
      BY <3>1 DEF LinkRests, Same, PortalTyped
    <3>3. ASSUME purpose # "reauth", OpenOf(l, c, purpose) PROVE FALSE
      <4>1. plink[l] \in Letter
        BY <3>3, RowIsLetter DEF OpenOf
      <4>2. plink[l] # NoRow
        BY <4>1, LetterIsRow
      <4> QED BY <2>2, <3>3, <4>2 DEF Covered, LinksOf, OpenOf
    <3> QED BY <3>2, <3>3
  <2> QED BY <2>1, <2>2
<1>6. plink' \in [PLink -> Letter \cup {NoRow}]
  <2>1. plink' = [l \in PLink |-> plink'[l]]
    BY <1>1 DEF RevokeLinks
  <2> QED BY <2>1, <1>3, <1>5 DEF LinkRests
<1>7. Single'
  <2> SUFFICES ASSUME NEW d \in PortalCustomer, NEW p \in {"login", "email_change"}, NEW k \in PLink, NEW l \in PLink,
                      OpenOf(k, d, p)', OpenOf(l, d, p)'
               PROVE  k = l
    BY DEF Single
  <2>1. \A m \in PLink \ {n} : OpenOf(m, d, p)' => OpenOf(m, d, p)
    BY <1>5 DEF OpenOf, LinkRests, Same, Closes
  <2>2. CASE k # n /\ l # n
    BY <2>1, <2>2 DEF Single
  <2>3. OpenOf(n, d, p)' => \A m \in PLink \ {n} : ~OpenOf(m, d, p)'
    BY <1>3, <1>5, <2>1 DEF OpenOf
  <2> QED BY <2>2, <2>3
<1>8. OldAccessEnds'
  <2>1. ASSUME NEW l \in PLink, plink'[l].state = "open", plink'[l].purpose = "login"
        PROVE  plink'[l].era = pcust'[plink'[l].cust].era
    <3>1. CASE l = n
      BY <3>1, <1>3
    <3>2. CASE l # n
      BY <2>1, <3>2, <1>5 DEF LinkRests, Same, Closes, OldAccessEnds
    <3> QED BY <3>1, <3>2
  <2> QED BY <2>1 DEF OldAccessEnds, Valid, Active
<1>9. visit' \in [Clerk -> Request] /\ \A v \in Clerk : visit'[v].op = "open" => v # w /\ visit'[v] = visit[v]
  BY DEF End, NoVisit, PortalTyped, Request
<1>10. Opening'
  <2> SUFFICES ASSUME NEW v \in Clerk, visit[v].op = "open", visit'[v] = visit[v]
               PROVE  LET d == visit[v].cust  l == visit[v].link
                      IN /\ plock'[d] = v /\ visit[v].era = pcust'[d].era
                         /\ plink'[l].state = "used" /\ plink'[l].cust = d /\ plink'[l].purpose = "login"
                         /\ plink'[l].era = pcust'[d].era
                         /\ \A k \in PLink : ~(plink'[k].state = "open" /\ plink'[k].cust = d /\ plink'[k].purpose = "login")
    BY <1>9 DEF Opening, OpenOf
  <2>1. visit[v].link \in PLink /\ visit[v].cust \in PortalCustomer
    BY RequestFields
  <2>2. plock[visit[v].cust] = v /\ plink[visit[v].link].state = "used" /\ plink[visit[v].link] # NoRow
    BY <2>1 DEF Opening, NoRow
  <2>3. visit[v].cust # c /\ visit[v].link # n
    BY <1>1, <2>2, ActorsAssumption DEF LockFree
  <2>4. Same(visit[v].link)
    BY <1>5, <2>1, <2>2, <2>3 DEF LinkRests, Closes
  <2>5. \A k \in PLink : ~(plink'[k].state = "open" /\ plink'[k].cust = visit[v].cust /\ plink'[k].purpose = "login")
    BY <1>3, <1>5, <2>3, <2>1 DEF Opening, OpenOf, LinkRests, Same, Closes
  <2> QED BY <2>1, <2>2, <2>4, <2>5 DEF Opening, Same
<1> QED BY <1>6, <1>7, <1>8, <1>9, <1>10 DEF PortalTyped

(* Links that rest under a customer who keeps his era: requests that do not  *)
(* open a login link go on as they like.                                     *)
LEMMA RestGoes ==
    ASSUME PortalInv, \A l \in PLink : LinkGoes(l), DOMAIN plink' = PLink, plink' = [l \in PLink |-> plink'[l]],
           \A c \in PortalCustomer : pcust'[c].era = pcust[c].era /\ (Active(c) => Active(c)'),
           pcust' \in [PortalCustomer -> Customer], psession' \in [PSession -> Access \cup {NoRow}],
           \A s \in PSession : psession'[s].state = "valid" =>
              \/ psession[s].state = "valid" /\ psession'[s].cust = psession[s].cust /\ psession'[s].era = psession[s].era
              \/ psession'[s].cust \in PortalCustomer /\ pcust'[psession'[s].cust].alive
                   /\ psession'[s].era = pcust'[psession'[s].cust].era,
           visit' \in [Clerk -> Request], plock' \in [PortalCustomer -> Clerk \cup {None}],
           \A w \in Clerk : visit'[w].op = "open" => visit'[w] = visit[w] /\ plock'[visit[w].cust] = w
    PROVE  PortalInv'
<1> USE DEF PortalInv
<1>1. /\ plink' \in [PLink -> Letter \cup {NoRow}]
      /\ Single'
      /\ \A l \in PLink : plink'[l].state = "open" /\ plink'[l].purpose = "login" =>
            plink'[l].era = pcust'[plink'[l].cust].era
      /\ \A w \in Clerk : visit[w].op = "open" =>
            LET c == visit[w].cust  l == visit[w].link
            IN /\ plink'[l].state = "used" /\ plink'[l].cust = c /\ plink'[l].purpose = "login"
               /\ plink'[l].era = pcust'[c].era
               /\ \A k \in PLink : ~(plink'[k].state = "open" /\ plink'[k].cust = c /\ plink'[k].purpose = "login")
  BY LinksRest
<1>2. PortalTyped'
  BY <1>1 DEF PortalTyped
<1>3. OldAccessEnds'
  <2>1. ASSUME NEW s \in PSession, psession'[s].state = "valid"
        PROVE  pcust'[psession'[s].cust].alive /\ psession'[s].era = pcust'[psession'[s].cust].era
    <3>1. CASE psession[s].state = "valid" /\ psession'[s].cust = psession[s].cust /\ psession'[s].era = psession[s].era
      <4>1. psession[s].cust \in PortalCustomer
        BY <3>1 DEF PortalTyped, Access, NoRow
      <4> QED BY <3>1, <4>1 DEF OldAccessEnds, Valid, Active
    <3> QED BY <2>1, <3>1
  <2> QED BY <2>1, <1>1 DEF OldAccessEnds, Valid, Active
<1>4. Opening'
  <2> SUFFICES ASSUME NEW w \in Clerk, visit'[w].op = "open", visit[w].op = "open", visit'[w] = visit[w]
               PROVE  LET c == visit[w].cust  l == visit[w].link
                      IN /\ plock'[c] = w /\ visit[w].era = pcust'[c].era
                         /\ plink'[l].state = "used" /\ plink'[l].cust = c /\ plink'[l].purpose = "login"
                         /\ plink'[l].era = pcust'[c].era
                         /\ \A k \in PLink : ~(plink'[k].state = "open" /\ plink'[k].cust = c /\ plink'[k].purpose = "login")
    BY DEF Opening, OpenOf
  <2>1. visit[w].cust \in PortalCustomer /\ visit[w].era = pcust[visit[w].cust].era
    BY RequestFields DEF Opening
  <2> QED BY <1>1, <2>1
<1> QED BY <1>1, <1>2, <1>3, <1>4

(* The links as they are.                                                    *)
LEMMA LinksUntouched == ASSUME PortalInv, UNCHANGED plink
    PROVE  (\A l \in PLink : LinkGoes(l)) /\ DOMAIN plink' = PLink /\ plink' = [l \in PLink |-> plink'[l]]
  BY DEF PortalInv, PortalTyped, LinkGoes, Same

(* A request that is read, goes on, or ends, and opens no login link.        *)
LEMMA VisitGoes ==
    ASSUME PortalInv, UNCHANGED <<pcust, plock>>, NEW w \in Clerk, visit[w].op # "open",
           NEW v \in Request, v.op # "open", visit' = [visit EXCEPT ![w] = v],
           \A l \in PLink : LinkGoes(l), DOMAIN plink' = PLink, plink' = [l \in PLink |-> plink'[l]],
           psession' \in [PSession -> Access \cup {NoRow}],
           \A s \in PSession : psession'[s].state = "valid" =>
              psession[s].state = "valid" /\ psession'[s].cust = psession[s].cust /\ psession'[s].era = psession[s].era
    PROVE  PortalInv'
<1>1. visit' \in [Clerk -> Request] /\ \A u \in Clerk : visit'[u].op = "open" => visit'[u] = visit[u] /\ plock'[visit[u].cust] = u
  BY DEF PortalInv, PortalTyped, Opening
<1>2. /\ pcust' \in [PortalCustomer -> Customer] /\ plock' \in [PortalCustomer -> Clerk \cup {None}]
      /\ \A c \in PortalCustomer : pcust'[c].era = pcust[c].era /\ (Active(c) => Active(c)')
  BY DEF PortalInv, PortalTyped, Active
<1> QED BY <1>1, <1>2, RestGoes

(* Sessions without a change.                                                *)
LEMMA SessionsUntouched == ASSUME PortalInv, UNCHANGED psession
    PROVE  /\ psession' \in [PSession -> Access \cup {NoRow}]
           /\ \A s \in PSession : psession'[s].state = "valid" =>
              psession[s].state = "valid" /\ psession'[s].cust = psession[s].cust /\ psession'[s].era = psession[s].era
  BY DEF PortalInv, PortalTyped

(* Everything the access of a customer carried ends with his era.            *)
LEMMA EraEnds ==
    ASSUME PortalInv, NEW c \in PortalCustomer, LockFree(c), UNCHANGED <<visit, plock>>,
           pcust' \in [PortalCustomer -> Customer], \A d \in PortalCustomer \ {c} : pcust'[d] = pcust[d],
           psession' = RevokedAll(c), plink' = [l \in PLink |-> plink'[l]],
           \A l \in PLink : LinkRests(l) /\ (plink'[l].state = "open" => plink[l].cust # c)
    PROVE  PortalInv'
<1> USE DEF PortalInv
<1>1. psession' \in [PSession -> Access \cup {NoRow}] /\ \A s \in PSession : psession'[s].state = "valid" =>
         psession[s].state = "valid" /\ psession'[s] = psession[s] /\ psession[s].cust # c
  <2> SUFFICES ASSUME NEW s \in PSession
               PROVE  /\ psession'[s] \in Access \cup {NoRow}
                      /\ psession'[s].state = "valid" =>
                           psession[s].state = "valid" /\ psession'[s] = psession[s] /\ psession[s].cust # c
    BY DEF RevokedAll
  <2>1. CASE Valid(s) /\ psession[s].cust = c
    <3>1. psession[s] \in Access
      BY <2>1 DEF PortalTyped, NoRow, Valid
    <3>2. psession'[s] = [psession[s] EXCEPT !.state = "over"]
      BY <2>1 DEF RevokedAll
    <3> QED BY <3>1, <3>2 DEF Access
  <2>2. CASE ~(Valid(s) /\ psession[s].cust = c)
    BY <2>2 DEF RevokedAll, PortalTyped, Valid
  <2> QED BY <2>1, <2>2
<1>2. PortalTyped'
  BY <1>1 DEF PortalTyped, LinkRests
<1>3. Single'
  BY DEF Single, OpenOf, LinkRests, Same, Closes
<1>4. ASSUME NEW l \in PLink, plink'[l].state = "open", plink'[l].purpose = "login"
      PROVE  plink'[l].era = pcust'[plink'[l].cust].era
  <2>1. Same(l) /\ plink[l] \in Letter /\ plink[l].cust # c
    BY <1>4, RowIsLetter DEF LinkRests, Same, Closes
  <2>2. plink[l].cust \in PortalCustomer \ {c}
    BY <2>1 DEF Letter
  <2> QED BY <1>4, <2>1, <2>2 DEF Same, OldAccessEnds
<1>5. ASSUME NEW s \in PSession, psession'[s].state = "valid"
      PROVE  pcust'[psession'[s].cust].alive /\ psession'[s].era = pcust'[psession'[s].cust].era
  <2>1. psession'[s] = psession[s] /\ psession[s].cust \in PortalCustomer \ {c} /\ psession[s].state = "valid"
    BY <1>1, <1>5 DEF PortalTyped, Access, NoRow
  <2> QED BY <2>1 DEF OldAccessEnds, Valid, Active
<1>6. Opening'
  <2> SUFFICES ASSUME NEW w \in Clerk, visit[w].op = "open"
               PROVE  LET d == visit[w].cust  l == visit[w].link
                      IN /\ plock[d] = w /\ visit[w].era = pcust'[d].era
                         /\ plink'[l].state = "used" /\ plink'[l].cust = d /\ plink'[l].purpose = "login"
                         /\ plink'[l].era = pcust'[d].era
                         /\ \A k \in PLink : ~(plink'[k].state = "open" /\ plink'[k].cust = d /\ plink'[k].purpose = "login")
    BY DEF Opening, OpenOf
  <2>1. visit[w].link \in PLink /\ visit[w].cust \in PortalCustomer
    BY RequestFields
  <2>2. plock[visit[w].cust] = w /\ plink[visit[w].link].state = "used"
    BY DEF Opening
  <2>3. visit[w].cust # c
    BY <2>2, ActorsAssumption DEF LockFree
  <2>4. Same(visit[w].link) /\ pcust'[visit[w].cust] = pcust[visit[w].cust]
    BY <2>1, <2>2, <2>3 DEF LinkRests, Closes
  <2>5. \A k \in PLink : ~(plink'[k].state = "open" /\ plink'[k].cust = visit[w].cust /\ plink'[k].purpose = "login")
    BY DEF Opening, OpenOf, LinkRests, Same, Closes
  <2> QED BY <2>1, <2>2, <2>4, <2>5 DEF Opening, Same
<1> QED BY <1>2, <1>3, <1>4, <1>5, <1>6 DEF OldAccessEnds, Valid, Active

(* A login link is taken in hand.                                            *)
LEMMA LoginOpened ==
    ASSUME PortalInv, NEW w \in Clerk, NEW l \in PLink, ConsumeLogin(w, l)
    PROVE  PortalInv'
<1> USE DEF PortalInv
<1>1. PICK c \in PortalCustomer : c = plink[l].cust
  BY RowIsLetter DEF ConsumeLogin, Letter
<1>2. /\ plink[l] \in Letter /\ plink[l].state = "open" /\ plink[l].purpose = "login" /\ plock[c] = None
      /\ visit[w] = NoVisit /\ UNCHANGED <<pcust, psession>>
      /\ visit' = [visit EXCEPT ![w] = [op |-> "open", cust |-> c, link |-> l, era |-> pcust[c].era]]
      /\ plock' = [plock EXCEPT ![c] = w] /\ plink' = [plink EXCEPT ![l].state = "used"]
  BY <1>1, RowIsLetter DEF ConsumeLogin, OpenLink, LockFree, Begin
<1>3. plink'[l] = [plink[l] EXCEPT !.state = "used"] /\ \A k \in PLink \ {l} : plink'[k] = plink[k]
  BY <1>2 DEF PortalTyped
<1>4. /\ plink'[l] \in Letter /\ plink'[l].state = "used" /\ plink'[l].cust = c
      /\ plink'[l].purpose = "login" /\ plink'[l].era = plink[l].era
  BY <1>1, <1>2, <1>3 DEF Letter
<1>5. plink[l].era = pcust[c].era /\ pcust[c].era \in Nat
  BY <1>1, <1>2 DEF OldAccessEnds, PortalTyped, Customer
<1>6. PortalTyped'
  <2>1. [op |-> "open", cust |-> c, link |-> l, era |-> pcust[c].era] \in Request
    BY <1>5 DEF Request
  <2> QED BY <1>2, <1>3, <1>4, <2>1 DEF PortalTyped
<1>7. Single' /\ OldAccessEnds'
  BY <1>2, <1>3, <1>4 DEF Single, OpenOf, OldAccessEnds, Valid, Active
<1>8. Opening'
  <2> SUFFICES ASSUME NEW v \in Clerk, visit'[v].op = "open"
               PROVE  LET d == visit'[v].cust  k == visit'[v].link
                      IN /\ plock'[d] = v /\ visit'[v].era = pcust'[d].era
                         /\ plink'[k].state = "used" /\ plink'[k].cust = d /\ plink'[k].purpose = "login"
                         /\ plink'[k].era = pcust'[d].era
                         /\ \A m \in PLink : ~(plink'[m].state = "open" /\ plink'[m].cust = d /\ plink'[m].purpose = "login")
    BY DEF Opening, OpenOf
  <2>1. CASE v = w
    <3>1. visit'[v].cust = c /\ visit'[v].link = l /\ visit'[v].era = pcust[c].era
      BY <1>2, <2>1 DEF PortalTyped
    <3>2. \A m \in PLink : ~(plink'[m].state = "open" /\ plink'[m].cust = c /\ plink'[m].purpose = "login")
      BY <1>1, <1>2, <1>3, <1>4 DEF Single, OpenOf
    <3> QED BY <1>2, <1>4, <1>5, <2>1, <3>1, <3>2 DEF PortalTyped
  <2>2. CASE v # w
    <3>1. visit'[v] = visit[v] /\ visit[v].link \in PLink /\ visit[v].cust \in PortalCustomer
      BY <1>2, <2>2, RequestFields
    <3>2. visit[v].cust # c /\ visit[v].link # l
      BY <1>2, <3>1, ActorsAssumption DEF Opening
    <3> QED BY <1>2, <1>3, <1>4, <3>1, <3>2 DEF Opening, OpenOf, PortalTyped
  <2> QED BY <2>1, <2>2
<1> QED BY <1>6, <1>7, <1>8

(* It is given back as it was.                                               *)
LEMMA LoginReturned ==
    ASSUME PortalInv, NEW w \in Clerk, LoginRolledBack(w)
    PROVE  PortalInv'
<1> USE DEF PortalInv
<1>1. PICK c \in PortalCustomer, l \in PLink : c = visit[w].cust /\ l = visit[w].link
  BY RequestFields DEF LoginRolledBack
<1>2. /\ visit[w].op = "open" /\ UNCHANGED <<pcust, psession>>
      /\ visit' = [visit EXCEPT ![w] = NoVisit] /\ plock' = [plock EXCEPT ![c] = None]
      /\ plink' = [plink EXCEPT ![l].state = "open"]
  BY <1>1 DEF LoginRolledBack, End
<1>3. /\ plock[c] = w /\ plink[l].state = "used" /\ plink[l].cust = c /\ plink[l].purpose = "login"
      /\ plink[l].era = pcust[c].era /\ \A k \in PLink : ~OpenOf(k, c, "login")
  BY <1>1, <1>2 DEF Opening
<1>4. plink[l] \in Letter
  BY <1>3, RowIsLetter
<1>5. plink'[l] = [plink[l] EXCEPT !.state = "open"] /\ \A k \in PLink \ {l} : plink'[k] = plink[k]
  BY <1>2 DEF PortalTyped
<1>6. /\ plink'[l] \in Letter /\ plink'[l].state = "open" /\ plink'[l].cust = c
      /\ plink'[l].purpose = "login" /\ plink'[l].era = pcust[c].era
  BY <1>3, <1>4, <1>5 DEF Letter
<1>7. PortalTyped'
  <2>1. NoVisit \in Request
    BY DEF NoVisit, Request
  <2> QED BY <1>2, <1>5, <1>6, <2>1 DEF PortalTyped
<1>8. Single'
  <2> SUFFICES ASSUME NEW d \in PortalCustomer, NEW p \in {"login", "email_change"}, NEW k \in PLink, NEW m \in PLink,
                      OpenOf(k, d, p)', OpenOf(m, d, p)'
               PROVE  k = m
    BY DEF Single
  <2>1. \A j \in PLink \ {l} : OpenOf(j, d, p)' => OpenOf(j, d, p)
    BY <1>5 DEF OpenOf
  <2>2. OpenOf(l, d, p)' => d = c /\ p = "login"
    BY <1>6 DEF OpenOf
  <2> QED BY <1>3, <2>1, <2>2 DEF Single
<1>9. OldAccessEnds'
  BY <1>2, <1>5, <1>6 DEF OldAccessEnds, Valid, Active
<1>10. Opening'
  <2> SUFFICES ASSUME NEW v \in Clerk, visit'[v].op = "open"
               PROVE  LET d == visit'[v].cust  k == visit'[v].link
                      IN /\ plock'[d] = v /\ visit'[v].era = pcust'[d].era
                         /\ plink'[k].state = "used" /\ plink'[k].cust = d /\ plink'[k].purpose = "login"
                         /\ plink'[k].era = pcust'[d].era
                         /\ \A m \in PLink : ~(plink'[m].state = "open" /\ plink'[m].cust = d /\ plink'[m].purpose = "login")
    BY DEF Opening, OpenOf
  <2>1. v # w /\ visit'[v] = visit[v]
    BY <1>2 DEF NoVisit, PortalTyped
  <2>2. visit[v].link \in PLink /\ visit[v].cust \in PortalCustomer
    BY <2>1, RequestFields
  <2>3. visit[v].cust # c /\ visit[v].link # l
    BY <1>3, <2>1, <2>2 DEF Opening
  <2> QED BY <1>2, <1>5, <1>6, <2>1, <2>2, <2>3 DEF Opening, OpenOf, PortalTyped
<1> QED BY <1>7, <1>8, <1>9, <1>10

LEMMA PortalStep == ASSUME PortalInv, PortalNext PROVE PortalInv'
<1> USE DEF PortalInv
<1>0. NoVisit \in Request /\ NoVisit.op # "open"
  BY DEF NoVisit, Request
<1>1. ASSUME NEW w \in Clerk, NEW e \in Person, RequestLogin(w, e) PROVE PortalInv'
  <2>1. PICK c \in PortalCustomer : Begin(w, [op |-> "login", cust |-> c, mail |-> e])
    BY <1>1 DEF RequestLogin, WithAddress
  <2>2. [op |-> "login", cust |-> c, mail |-> e] \in Request /\ [op |-> "login", cust |-> c, mail |-> e].op # "open"
    BY DEF Request
  <2> QED BY <1>0, <1>1, <2>1, <2>2, VisitGoes, LinksUntouched, SessionsUntouched DEF RequestLogin, Begin
<1>2. ASSUME NEW w \in Clerk, LoginLink(w) PROVE PortalInv'
  <2>1. PICK c \in PortalCustomer, e \in Person : c = visit[w].cust /\ e = visit[w].mail
    BY <1>2, RequestFields DEF LoginLink
  <2>2. CASE InsertLink(c, "login", None, e, "open")
    BY <1>2, <2>1, <2>2, InsertGoes DEF LoginLink, Purpose
  <2>3. CASE UNCHANGED plink
    BY <1>0, <1>2, <2>3, VisitGoes, LinksUntouched, SessionsUntouched DEF LoginLink, End
  <2> QED BY <1>2, <2>1, <2>2, <2>3 DEF LoginLink
<1>3. ASSUME NEW w \in Clerk, ReauthLink(w) PROVE PortalInv'
  <2>1. PICK c \in PortalCustomer, s \in PSession : c = visit[w].cust /\ s = visit[w].session
    BY <1>3, RequestFields DEF ReauthLink
  <2>2. CASE InsertLink(c, "reauth", s, None, "open")
    BY <1>3, <2>1, <2>2, InsertGoes DEF ReauthLink, Purpose
  <2>3. CASE UNCHANGED plink
    BY <1>0, <1>3, <2>3, VisitGoes, LinksUntouched, SessionsUntouched DEF ReauthLink, End
  <2> QED BY <1>3, <2>1, <2>2, <2>3 DEF ReauthLink
<1>4. ASSUME NEW w \in Clerk, EmailChangeLink(w) PROVE PortalInv'
  <2>1. PICK c \in PortalCustomer, s \in PSession, e \in Person :
            c = visit[w].cust /\ s = visit[w].session /\ e = visit[w].mail
    BY <1>4, RequestFields DEF EmailChangeLink
  <2>2. PICK st \in {"open", "revoked"} : st = IF TakenByOther(c, e) THEN "revoked" ELSE "open"
    OBVIOUS
  <2>3. CASE InsertLink(c, "email_change", s, e, st)
    BY <1>4, <2>1, <2>3, InsertGoes DEF EmailChangeLink, Purpose
  <2>4. CASE UNCHANGED plink
    BY <1>0, <1>4, <2>4, VisitGoes, LinksUntouched, SessionsUntouched DEF EmailChangeLink, End
  <2> QED BY <1>4, <2>1, <2>2, <2>3, <2>4 DEF EmailChangeLink
<1>5. ASSUME NEW w \in Clerk, NEW s \in PSession, RequestReauth(w, s) PROVE PortalInv'
  <2>1. PICK c \in PortalCustomer : c = psession[s].cust
    BY <1>5 DEF RequestReauth, Authenticated, Valid, PortalTyped, Access, NoRow
  <2>2. [op |-> "reauth", cust |-> c, session |-> s] \in Request /\ [op |-> "reauth", cust |-> c, session |-> s].op # "open"
    BY DEF Request
  <2> QED BY <1>0, <1>5, <2>1, <2>2, VisitGoes, LinksUntouched, SessionsUntouched DEF RequestReauth, Begin
<1>6. ASSUME NEW w \in Clerk, NEW s \in PSession, NEW e \in Person, RequestEmailChange(w, s, e) PROVE PortalInv'
  <2>1. PICK c \in PortalCustomer : c = psession[s].cust
    BY <1>6 DEF RequestEmailChange, Authenticated, Valid, PortalTyped, Access, NoRow
  <2>2. /\ [op |-> "change", cust |-> c, session |-> s, mail |-> e] \in Request
        /\ [op |-> "change", cust |-> c, session |-> s, mail |-> e].op # "open"
    BY DEF Request
  <2> QED BY <1>0, <1>6, <2>1, <2>2, VisitGoes, LinksUntouched, SessionsUntouched DEF RequestEmailChange, Begin
<1>7. ASSUME NEW w \in Clerk, NEW l \in PLink, ConsumeLogin(w, l) PROVE PortalInv'
  BY <1>7, LoginOpened
<1>8. ASSUME NEW w \in Clerk, NEW l \in PLink, NEW s \in PSession, ConsumeReauth(w, l, s) PROVE PortalInv'
  <2>1. plink[l] \in Letter /\ plink[l].state = "open" /\ plink' = [plink EXCEPT ![l].state = "used"]
    BY <1>8, RowIsLetter DEF ConsumeReauth, OpenLink
  <2>2. plink'[l] = [plink[l] EXCEPT !.state = "used"] /\ \A k \in PLink \ {l} : plink'[k] = plink[k]
    BY <2>1 DEF PortalTyped
  <2>3. plink'[l] \in Letter /\ plink'[l].state = "used"
    BY <2>1, <2>2 DEF Letter
  <2>4. \A k \in PLink : LinkRests(k)
    BY <2>1, <2>2, <2>3 DEF LinkRests, Same, Closes, PortalTyped
  <2>5. \A k \in PLink : LinkGoes(k)
    BY <2>4, RestsGoes
  <2>6. DOMAIN plink' = PLink /\ plink' = [k \in PLink |-> plink'[k]]
    BY <2>1 DEF PortalTyped
  <2>7. [op |-> "mark", session |-> s] \in Request /\ [op |-> "mark", session |-> s].op # "open"
    BY DEF Request
  <2> QED BY <1>0, <1>8, <2>5, <2>6, <2>7, VisitGoes, SessionsUntouched DEF ConsumeReauth, Begin
<1>9. ASSUME NEW w \in Clerk, SessionCreated(w) PROVE PortalInv'
  <2>1. PICK c \in PortalCustomer : c = visit[w].cust
    BY <1>9, RequestFields DEF SessionCreated
  <2>2. visit[w].op = "open" /\ visit[w].era = pcust[c].era /\ plock[c] = w /\ pcust[c].era \in Nat
    BY <1>9, <2>1 DEF SessionCreated, Opening, PortalTyped, Customer
  <2>3. visit' \in [Clerk -> Request] /\ plock' \in [PortalCustomer -> Clerk \cup {None}]
    BY <1>0, <1>9, <2>1 DEF SessionCreated, End, PortalTyped
  <2>4. \A v \in Clerk : visit'[v].op = "open" => visit'[v] = visit[v] /\ plock'[visit[v].cust] = v
    <3> SUFFICES ASSUME NEW v \in Clerk, visit'[v].op = "open"
                 PROVE  visit'[v] = visit[v] /\ plock'[visit[v].cust] = v
      OBVIOUS
    <3>1. v # w /\ visit'[v] = visit[v]
      BY <1>0, <1>9 DEF SessionCreated, End, PortalTyped
    <3>2. plock[visit[v].cust] = v /\ visit[v].cust # c /\ visit[v].cust \in PortalCustomer
      BY <2>2, <3>1, RequestFields DEF Opening
    <3> QED BY <1>9, <2>1, <3>1, <3>2 DEF SessionCreated, PortalTyped
  <2>5. psession' \in [PSession -> Access \cup {NoRow}] /\ \A s \in PSession : psession'[s].state = "valid" =>
              \/ psession[s].state = "valid" /\ psession'[s].cust = psession[s].cust /\ psession'[s].era = psession[s].era
              \/ psession'[s].cust \in PortalCustomer /\ pcust'[psession'[s].cust].alive
                   /\ psession'[s].era = pcust'[psession'[s].cust].era
    <3>1. CASE Active(c)
      <4>1. PICK n \in PSession : psession' = [psession EXCEPT ![n] =
                    [cust |-> c, state |-> "valid", reauth |-> TRUE, era |-> pcust[c].era]]
        BY <1>9, <2>1, <2>2, <3>1 DEF SessionCreated
      <4> QED BY <1>9, <2>2, <3>1, <4>1 DEF SessionCreated, PortalTyped, Access, Active
    <3>2. CASE ~Active(c)
      BY <1>9, <2>1, <3>2, SessionsUntouched DEF SessionCreated
    <3> QED BY <3>1, <3>2
  <2>6. /\ pcust' \in [PortalCustomer -> Customer]
        /\ \A d \in PortalCustomer : pcust'[d].era = pcust[d].era /\ (Active(d) => Active(d)')
    BY <1>9 DEF SessionCreated, PortalTyped, Active
  <2>7. UNCHANGED plink
    BY <1>9 DEF SessionCreated
  <2> QED BY <2>3, <2>4, <2>5, <2>6, <2>7, LinksUntouched, RestGoes
<1>10. ASSUME NEW w \in Clerk, LoginRolledBack(w) PROVE PortalInv'
  BY <1>10, LoginReturned
<1>11. ASSUME NEW w \in Clerk, MarkReauthenticated(w) PROVE PortalInv'
  <2>1. PICK s \in PSession : s = visit[w].session
    BY <1>11, RequestFields DEF MarkReauthenticated
  <2>2. psession' = [psession EXCEPT ![s] = IF @.state = "valid" THEN [@ EXCEPT !.reauth = TRUE] ELSE @]
    BY <1>11, <2>1 DEF MarkReauthenticated
  <2>3. psession[s].state = "valid" => psession[s] \in Access
    BY DEF PortalTyped, NoRow
  <2>4. /\ psession'[s] \in Access \cup {NoRow}
        /\ psession'[s].state = "valid" => psession[s].state = "valid" /\ psession'[s].cust = psession[s].cust
                                           /\ psession'[s].era = psession[s].era
    BY <2>2, <2>3 DEF PortalTyped, Access
  <2>5. psession' \in [PSession -> Access \cup {NoRow}] /\ \A k \in PSession : psession'[k].state = "valid" =>
              psession[k].state = "valid" /\ psession'[k].cust = psession[k].cust /\ psession'[k].era = psession[k].era
    BY <2>2, <2>4 DEF PortalTyped
  <2> QED BY <1>0, <1>11, <2>5, VisitGoes, LinksUntouched DEF MarkReauthenticated, End
<1>12. ASSUME NEW l \in PLink, ConsumeEmailChange(l) PROVE PortalInv'
  <2>1. PICK c \in PortalCustomer : c = plink[l].cust
    BY <1>12, RowIsLetter DEF ConsumeEmailChange, Letter
  <2>2. /\ plink[l] \in Letter /\ plink[l].state = "open" /\ LockFree(c) /\ UNCHANGED <<plock, visit>>
        /\ pcust' = [pcust EXCEPT ![c].mail = plink[l].mail, ![c].era = @ + 1]
        /\ psession' = RevokedAll(c) /\ plink' = [RevokeLinks(plink, AllOpen(c)) EXCEPT ![l].state = "used"]
    BY <1>12, <2>1, RowIsLetter DEF ConsumeEmailChange, OpenLink
  <2>3. pcust' \in [PortalCustomer -> Customer] /\ \A d \in PortalCustomer \ {c} : pcust'[d] = pcust[d]
    <3>1. plink[l].mail \in Person
      BY <1>12, <2>2 DEF ConsumeEmailChange, Letter
    <3> QED BY <2>2, <3>1 DEF PortalTyped, Customer
  <2>4. plink' = [k \in PLink |-> plink'[k]]
    BY <2>2 DEF RevokeLinks
  <2>5. \A k \in PLink : LinkRests(k) /\ (plink'[k].state = "open" => plink[k].cust # c)
    <3> SUFFICES ASSUME NEW k \in PLink PROVE LinkRests(k) /\ (plink'[k].state = "open" => plink[k].cust # c)
      OBVIOUS
    <3>1. CASE k \in AllOpen(c) \ {l}
      <4>1. plink[k] \in Letter /\ plink[k].state = "open" /\ plink'[k] = [plink[k] EXCEPT !.state = "revoked"]
        BY <2>2, <3>1, RowIsLetter DEF AllOpen, RevokeLinks
      <4> QED BY <4>1 DEF Letter, LinkRests, Closes
    <3>2. CASE k = l
      <4>1. l \in AllOpen(c)
        BY <2>1, <2>2, LetterIsRow DEF AllOpen
      <4>2. PICK r : r = [plink[l] EXCEPT !.state = "revoked"]
        OBVIOUS
      <4>3. r \in Letter
        BY <2>2, <4>2 DEF Letter
      <4>4. plink'[l] = [r EXCEPT !.state = "used"]
        BY <2>2, <4>1, <4>2 DEF RevokeLinks
      <4>5. plink'[l] \in Letter /\ plink'[l].state = "used"
        BY <4>3, <4>4 DEF Letter
      <4> QED BY <2>2, <3>2, <4>5 DEF LinkRests, Closes
    <3>3. CASE k \notin AllOpen(c) /\ k # l
      <4>1. plink'[k] = plink[k]
        BY <2>2, <3>3 DEF RevokeLinks
      <4>2. plink[k].state = "open" => plink[k].cust # c
        BY <3>3, RowIsLetter, LetterIsRow DEF AllOpen
      <4> QED BY <4>1, <4>2 DEF LinkRests, Same, PortalTyped
    <3> QED BY <3>1, <3>2, <3>3
  <2> QED BY <2>2, <2>3, <2>4, <2>5, EraEnds
<1>13. ASSUME NEW s \in PSession, Logout(s) \/ SessionAges(s) PROVE PortalInv'
  <2>1. psession[s] \in Access /\ psession[s].state = "valid"
    BY <1>13 DEF Logout, SessionAges, Valid, PortalTyped, NoRow
  <2>2. PICK row : /\ row \in {[psession[s] EXCEPT !.state = "over"], [psession[s] EXCEPT !.reauth = FALSE]}
                   /\ psession' = [psession EXCEPT ![s] = row]
    BY <1>13 DEF Logout, SessionAges
  <2>3. row \in Access /\ row.cust = psession[s].cust /\ row.era = psession[s].era
    BY <2>1, <2>2 DEF Access
  <2>4. psession' \in [PSession -> Access \cup {NoRow}] /\ \A k \in PSession : psession'[k].state = "valid" =>
              psession[k].state = "valid" /\ psession'[k].cust = psession[k].cust /\ psession'[k].era = psession[k].era
    BY <2>1, <2>2, <2>3 DEF PortalTyped
  <2>5. UNCHANGED <<pcust, plink, plock, visit>>
    BY <1>13 DEF Logout, SessionAges
  <2>6. /\ visit' \in [Clerk -> Request] /\ plock' \in [PortalCustomer -> Clerk \cup {None}]
        /\ pcust' \in [PortalCustomer -> Customer]
        /\ \A w \in Clerk : visit'[w].op = "open" => visit'[w] = visit[w] /\ plock'[visit[w].cust] = w
        /\ \A d \in PortalCustomer : pcust'[d].era = pcust[d].era /\ (Active(d) => Active(d)')
    BY <2>5 DEF PortalTyped, Opening, Active
  <2> QED BY <2>4, <2>5, <2>6, LinksUntouched, RestGoes
<1>14. ASSUME NEW c \in PortalCustomer, MoveToTrash(c) PROVE PortalInv'
  <2>1. /\ LockFree(c) /\ UNCHANGED <<plock, visit>> /\ psession' = RevokedAll(c)
        /\ pcust' = [pcust EXCEPT ![c].alive = FALSE, ![c].era = @ + 1]
        /\ plink' = RevokeLinks(plink, AllOpen(c))
    BY <1>14 DEF MoveToTrash
  <2>2. pcust' \in [PortalCustomer -> Customer] /\ \A d \in PortalCustomer \ {c} : pcust'[d] = pcust[d]
    BY <2>1 DEF PortalTyped, Customer
  <2>3. plink' = [k \in PLink |-> plink'[k]]
    BY <2>1 DEF RevokeLinks
  <2>4. \A k \in PLink : LinkRests(k) /\ (plink'[k].state = "open" => plink[k].cust # c)
    <3> SUFFICES ASSUME NEW k \in PLink PROVE LinkRests(k) /\ (plink'[k].state = "open" => plink[k].cust # c)
      OBVIOUS
    <3>1. CASE k \in AllOpen(c)
      <4>1. plink[k] \in Letter /\ plink[k].state = "open" /\ plink'[k] = [plink[k] EXCEPT !.state = "revoked"]
        BY <2>1, <3>1, RowIsLetter DEF AllOpen, RevokeLinks
      <4> QED BY <4>1 DEF Letter, LinkRests, Closes
    <3>2. CASE k \notin AllOpen(c)
      <4>1. plink'[k] = plink[k]
        BY <2>1, <3>2 DEF RevokeLinks
      <4>2. plink[k].state = "open" => plink[k].cust # c
        BY <3>2, RowIsLetter, LetterIsRow DEF AllOpen
      <4> QED BY <4>1, <4>2 DEF LinkRests, Same, PortalTyped
    <3> QED BY <3>1, <3>2
  <2> QED BY <2>1, <2>2, <2>3, <2>4, EraEnds
<1>15. ASSUME NEW c \in PortalCustomer, RestoreFromTrash(c) \/ \E e \in Person : UpdateCustomer(c, e)
       PROVE  PortalInv'
  <2>1. PICK e \in Person : pcust' \in {[pcust EXCEPT ![c].alive = TRUE], [pcust EXCEPT ![c].mail = e]}
    <3>1. pcust[c].mail \in Person
      BY DEF PortalTyped, Customer
    <3> QED BY <1>15, <3>1 DEF RestoreFromTrash, UpdateCustomer
  <2>2. /\ pcust' \in [PortalCustomer -> Customer]
        /\ \A d \in PortalCustomer : pcust'[d].era = pcust[d].era /\ (Active(d) => Active(d)')
    <3>1. PICK row : /\ row \in {[pcust[c] EXCEPT !.alive = TRUE], [pcust[c] EXCEPT !.mail = e]}
                     /\ pcust' = [pcust EXCEPT ![c] = row]
      BY <2>1
    <3>2. row \in Customer /\ row.era = pcust[c].era /\ (pcust[c].alive => row.alive)
      BY <3>1 DEF PortalTyped, Customer
    <3> QED BY <3>1, <3>2 DEF PortalTyped, Active
  <2>3. UNCHANGED <<plink, psession, plock, visit>>
    BY <1>15 DEF RestoreFromTrash, UpdateCustomer
  <2>4. /\ visit' \in [Clerk -> Request] /\ plock' \in [PortalCustomer -> Clerk \cup {None}]
        /\ \A w \in Clerk : visit'[w].op = "open" => visit'[w] = visit[w] /\ plock'[visit[w].cust] = w
    BY <2>3 DEF PortalTyped, Opening
  <2> QED BY <2>2, <2>3, <2>4, LinksUntouched, SessionsUntouched, RestGoes
<1>16. ASSUME NEW l \in PLink, LinkAges(l) PROVE PortalInv'
  <2>1. plink[l] \in Letter /\ plink' = [plink EXCEPT ![l].recent = FALSE]
    BY <1>16, RowIsLetter DEF LinkAges
  <2>2. plink'[l] = [plink[l] EXCEPT !.recent = FALSE] /\ \A k \in PLink \ {l} : plink'[k] = plink[k]
    BY <2>1 DEF PortalTyped
  <2>3. plink'[l] \in Letter /\ Same(l)
    <3>1. PICK r \in Letter : r = plink[l] /\ plink'[l] = [r EXCEPT !.recent = FALSE]
      BY <2>1, <2>2
    <3>2. plink'[l] \in Letter
      BY <3>1 DEF Letter
    <3>3. /\ plink'[l].state = r.state /\ plink'[l].cust = r.cust
          /\ plink'[l].purpose = r.purpose /\ plink'[l].era = r.era
      BY <3>1 DEF Letter
    <3> QED BY <3>1, <3>2, <3>3 DEF Same
  <2>4. \A k \in PLink : LinkGoes(k)
    BY <2>2, <2>3 DEF LinkGoes, Same, PortalTyped
  <2>5. DOMAIN plink' = PLink /\ plink' = [k \in PLink |-> plink'[k]]
    BY <2>1 DEF PortalTyped
  <2>6. /\ visit' \in [Clerk -> Request] /\ plock' \in [PortalCustomer -> Clerk \cup {None}]
        /\ pcust' \in [PortalCustomer -> Customer]
        /\ \A w \in Clerk : visit'[w].op = "open" => visit'[w] = visit[w] /\ plock'[visit[w].cust] = w
        /\ \A d \in PortalCustomer : pcust'[d].era = pcust[d].era /\ (Active(d) => Active(d)')
    BY <1>16 DEF LinkAges, PortalTyped, Opening, Active
  <2>7. UNCHANGED psession
    BY <1>16 DEF LinkAges
  <2> QED BY <2>4, <2>5, <2>6, <2>7, SessionsUntouched, RestGoes
<1>17. ASSUME PortalCleanup PROVE PortalInv'
  <2>1. /\ visit' \in [Clerk -> Request] /\ plock' \in [PortalCustomer -> Clerk \cup {None}]
        /\ pcust' \in [PortalCustomer -> Customer]
        /\ \A w \in Clerk : visit'[w].op = "open" => visit'[w] = visit[w] /\ plock'[visit[w].cust] = w
        /\ \A d \in PortalCustomer : pcust'[d].era = pcust[d].era /\ (Active(d) => Active(d)')
    BY <1>17 DEF PortalCleanup, PortalTyped, Opening, Active
  <2>2. ASSUME NEW l \in PLink, \A w \in Clerk : "link" \in DOMAIN visit[w] => visit[w].link # l,
               plink' = [plink EXCEPT ![l] = NoRow], UNCHANGED psession
        PROVE  PortalInv'
    <3>1. ~Held(l) /\ NoRow.state # "open"
      BY <2>2, RequestFields DEF Held, NoRow
    <3>2. \A k \in PLink : LinkGoes(k)
      BY <2>2, <3>1 DEF LinkGoes, Same, PortalTyped
    <3>3. DOMAIN plink' = PLink /\ plink' = [k \in PLink |-> plink'[k]]
      BY <2>2 DEF PortalTyped
    <3> QED BY <2>1, <2>2, <3>2, <3>3, SessionsUntouched, RestGoes
  <2>3. ASSUME NEW s \in PSession, psession' = [psession EXCEPT ![s] = NoRow], UNCHANGED plink
        PROVE  PortalInv'
    <3>1. psession' \in [PSession -> Access \cup {NoRow}] /\ \A k \in PSession : psession'[k].state = "valid" =>
              psession[k].state = "valid" /\ psession'[k].cust = psession[k].cust /\ psession'[k].era = psession[k].era
      BY <2>3 DEF PortalTyped, NoRow
    <3> QED BY <2>1, <2>3, <3>1, LinksUntouched, RestGoes
  <2> QED BY <1>17, <2>2, <2>3 DEF PortalCleanup
<1> QED BY <1>1, <1>2, <1>3, <1>4, <1>5, <1>6, <1>7, <1>8, <1>9, <1>10, <1>11, <1>12, <1>13, <1>14, <1>15,
  <1>16, <1>17 DEF PortalNext

(* A session that is there from the start.                                   *)
LEMMA AccessAtFirst ==
    ASSUME NEW L \in SUBSET PortalCustomer,
           NEW r \in [cust : L, state : {"valid"}, reauth : {TRUE}, era : {0}]
    PROVE  r \in Access /\ r.cust \in L /\ r.era = 0
<1>1. /\ r.cust \in L /\ r.state = "valid" /\ r.reauth \in BOOLEAN /\ r.era = 0
      /\ r = [cust |-> r.cust, state |-> r.state, reauth |-> r.reauth, era |-> r.era]
  OBVIOUS
<1> QED BY <1>1 DEF Access

LEMMA PortalStart == PortalInit => PortalInv
<1> SUFFICES ASSUME PortalInit PROVE PortalInv
  OBVIOUS
<1> DEFINE Live == {c \in PortalCustomer : pcust[c].alive}
<1>0. Live \subseteq PortalCustomer /\ \A c \in Live : pcust[c].alive /\ pcust[c].era = 0
  BY DEF PortalInit
<1>9. psession \in [PSession -> {NoRow} \cup [cust : Live, state : {"valid"}, reauth : {TRUE}, era : {0}]]
  BY DEF PortalInit
<1> HIDE DEF Live
<1>1. PortalTyped
  <2>1. visit \in [Clerk -> Request]
    BY DEF PortalInit, ActorsInit, NoVisit, Request
  <2>2. pcust \in [PortalCustomer -> Customer]
    BY DEF PortalInit, Customer
  <2>3. psession \in [PSession -> Access \cup {NoRow}]
    <3>1. [cust : Live, state : {"valid"}, reauth : {TRUE}, era : {0}] \subseteq Access
      BY <1>0, AccessAtFirst
    <3> QED BY <1>9, <3>1
  <2> QED BY <2>1, <2>2, <2>3 DEF PortalInit, PortalTyped
<1>2. OldAccessEnds
  <2>1. ASSUME NEW s \in PSession, psession[s].state = "valid"
        PROVE  pcust[psession[s].cust].alive /\ psession[s].era = pcust[psession[s].cust].era
    <3>1. psession[s] \in [cust : Live, state : {"valid"}, reauth : {TRUE}, era : {0}]
      <4>1. psession[s] # NoRow
        BY <2>1 DEF NoRow
      <4> QED BY <1>9, <4>1
    <3> QED BY <1>0, <3>1, AccessAtFirst
  <2> QED BY <2>1 DEF PortalInit, OldAccessEnds, Valid, Active, NoRow
<1> QED BY <1>1, <1>2 DEF PortalInit, ActorsInit, NoVisit, PortalInv, Opening, Single, OpenOf, NoRow

LEMMA SingleCounts == ASSUME PortalInv PROVE OneOpenLink
<1> SUFFICES ASSUME NEW c \in PortalCustomer, NEW purpose \in {"login", "email_change"}
             PROVE  Cardinality({l \in LinksOf(c, purpose) : plink[l].state = "open"}) <= 1
  BY DEF OneOpenLink
<1> DEFINE S == {l \in LinksOf(c, purpose) : plink[l].state = "open"}
<1>1. \A k, l \in S : k = l
  BY DEF PortalInv, Single, OpenOf, LinksOf
<1>2. CASE S = {}
  BY <1>2, FS_EmptySet
<1>3. CASE S # {}
  <2>1. PICK l \in S : TRUE
    BY <1>3
  <2>2. S = {l}
    BY <1>1, <2>1
  <2>3. Cardinality(S) = 1
    BY <2>2, FS_Singleton
  <2> QED BY <2>3
<1> QED BY <1>2, <1>3

(* No session and no login link outlives a change of the address or the      *)
(* trash, even one that is being opened at that moment; and of the login     *)
(* links and the changes of the address of a customer one is open            *)
(* (portal/auth/magic-link-service.ts).                                      *)
THEOREM PortalIsSafe == PortalSpec => []PortalSafety
<1>1. PortalInv /\ [PortalNext]_portalVars => PortalInv'
  <2> SUFFICES ASSUME PortalInv, [PortalNext]_portalVars PROVE PortalInv'
    OBVIOUS
  <2>1. CASE PortalNext
    BY <2>1, PortalStep
  <2>2. CASE UNCHANGED portalVars
    BY <2>2 DEF portalVars, PortalInv, PortalTyped, Opening, Single, OpenOf, OldAccessEnds, Valid, Active
  <2> QED BY <2>1, <2>2
<1>2. PortalInv => PortalSafety
  BY SingleCounts DEF PortalInv, PortalSafety
<1> QED BY PortalStart, <1>1, <1>2, PTL DEF PortalSpec
-----------------------------------------------------------------------------
LEMMA Larger == ASSUME NEW a \in Int, NEW b \in Int PROVE Max({a, b}) = IF a >= b THEN a ELSE b
  BY DEF Max

LEMMA CeilDivCovers ==
    ASSUME NEW a \in Nat, NEW b \in Nat \ {0} PROVE CeilDiv(a, b) \in Nat /\ CeilDiv(a, b) * b >= a
  BY DEF CeilDiv

LEMMA OneMore ==
    ASSUME NEW i \in Nat, NEW k \in Nat
    PROVE  i * (k + 1) = i * k + i /\ i * k \in Nat
  OBVIOUS

LEMMA MoreOfIt ==
    ASSUME NEW i \in Nat, NEW k \in Nat, NEW n \in Nat, k <= n
    PROVE  i * k <= i * n
  OBVIOUS

LEMMA Chain ==
    ASSUME NEW a \in Int, NEW x \in Int, NEW c \in Int, NEW d \in Int, a + x <= c, c <= d
    PROVE  a + x <= d
  OBVIOUS

LEMMA Further ==
    ASSUME NEW a \in Int, NEW x \in Int, NEW y \in Int, NEW i \in Int, NEW c \in Int, a + x <= c, y = x + i
    PROVE  a + y <= c + i
  OBVIOUS

LEMMA Least == ASSUME NEW T \in SUBSET Nat, T # {} PROVE \E m \in T : \A k \in T : m <= k
<1>1. PICK m \in T : \A k \in T : ~(<<k, m>> \in OpToRel(<, Nat))
  BY NatLessThanWellFounded, WFMin
<1>2. \A k \in T : ~(k < m)
  BY <1>1 DEF OpToRel
<1> QED BY <1>2

(* The bucket fits into the day.                                             *)
LEMMA Policy ==
    /\ Burst \in 1 .. DailyLimit /\ IntervalOf \in Nat \ {0} /\ Tolerance \in Nat
    /\ Tolerance + IntervalOf = Burst * IntervalOf
    /\ Day <= IntervalOf * (DailyLimit + 1 - Burst)
<1>1. Day \in Nat \ {0} /\ DailyLimit \in Nat \ {0}
  BY BudgetAssumption
<1>2. Burst \in 1 .. DailyLimit
  <2>1. DailyLimit \div 4 \in Nat /\ DailyLimit \div 4 <= DailyLimit
    BY <1>1
  <2>2. Burst = IF 1 >= DailyLimit \div 4 THEN 1 ELSE DailyLimit \div 4
    BY <2>1, Larger DEF Burst
  <2> QED BY <1>1, <2>1, <2>2
<1>3. DailyLimit + 1 - Burst \in Nat \ {0}
  BY <1>1, <1>2
<1>4. IntervalOf \in Nat /\ Day <= IntervalOf * (DailyLimit + 1 - Burst)
  BY <1>1, <1>3, CeilDivCovers DEF IntervalOf
<1>5. IntervalOf # 0
  BY <1>1, <1>3, <1>4
<1>6. Burst - 1 \in Nat /\ Tolerance = (Burst - 1) * IntervalOf
  BY <1>2 DEF Tolerance
<1>7. Tolerance \in Nat /\ Tolerance + IntervalOf = Burst * IntervalOf
  BY <1>2, <1>4, <1>6
<1> QED BY <1>2, <1>4, <1>5, <1>7

Asked == [op : {"none"}]
         \cup [op : {"budget"}, at : {"reserve"}, now : Nat]
         \cup [op : {"budget"}, at : {"pause"}, wait : Nat, granted : BOOLEAN]
         \cup [op : {"budget"}, at : {"fetch"}]

BudgetTyped ==
    /\ visit \in [Clerk -> Asked]
    /\ clock \in Nat /\ nextSlot \in Nat /\ cut \in Nat
    /\ paused \in [until : Nat, kind : {None, "credit_limited", "rate_limited"}]
    /\ granted \in Seq(Nat)
    /\ \A w \in Clerk : visit[w].op = "budget" /\ visit[w].at = "reserve" => visit[w].now <= clock

(* The slots that were granted, one interval apart, none of them later than  *)
(* the tolerance after its request, and the pointer past them.               *)
Slots(s) ==
    /\ s \in Seq(Nat) /\ Len(s) = Len(granted)
    /\ \A i \in 1 .. Len(s) : /\ granted[i] <= s[i] /\ s[i] <= granted[i] + Tolerance
                              /\ s[i] + IntervalOf * (Len(s) + 1 - i) <= nextSlot
                              /\ \A j \in i .. Len(s) : s[i] + IntervalOf * (j - i) <= s[j]

(* Those who moved the pointer and have not paused yet.  Let some of them    *)
(* pause: the pointer is then near the clock, or near the end of the pause,  *)
(* but for a slot of each of the others and of those who died.               *)
Pausing == {w \in Clerk : visit[w].op = "budget" /\ visit[w].at = "pause"}
NearBy(n, now, until, waits, k) ==
    \/ n <= now + Tolerance + IntervalOf * k
    \/ n <= until + Tolerance + IntervalOf * k
    \/ \E t \in waits : n <= now + t + IntervalOf + IntervalOf * k
Waits(q) == {visit[w].wait : w \in q}
Near(q, k) == NearBy(nextSlot, clock, paused.until, Waits(q), k)
PointerKnown == \A q \in SUBSET Pausing : Near(q, Cardinality(Pausing \ q) + cut)

BudgetInv == BudgetTyped /\ (\E s : Slots(s)) /\ PointerKnown /\ PointerStaysNear

LEMMA CountPausing ==
    ASSUME NEW P \in SUBSET Clerk, NEW q \in SUBSET P
    PROVE  /\ Cardinality(P \ q) \in Nat /\ Cardinality(P) <= Cardinality(Clerk) /\ Cardinality(Clerk) \in Nat
           /\ \A w \in Clerk \ P : Cardinality((P \cup {w}) \ q) = Cardinality(P \ q) + 1
  <1>1. IsFiniteSet(Clerk) /\ IsFiniteSet(P)
    BY BudgetAssumption, FS_Subset
  <1>2. IsFiniteSet(P \ q)
    BY <1>1, FS_Subset
  <1>3. ASSUME NEW w \in Clerk \ P PROVE Cardinality((P \cup {w}) \ q) = Cardinality(P \ q) + 1
    <2>1. (P \cup {w}) \ q = (P \ q) \cup {w} /\ w \notin P \ q
      OBVIOUS
    <2> QED BY <1>2, <2>1, FS_AddElement
  <1> QED BY <1>1, <1>2, <1>3, FS_Subset, FS_CardinalityType

(* In a window of a day no more slots than the limit lie so far apart.       *)
LEMMA WindowHolds == ASSUME BudgetTyped, NEW s, Slots(s) PROVE LimitKept
<1> SUFFICES ASSUME NEW i \in DOMAIN granted
             PROVE  Cardinality({j \in DOMAIN granted : granted[j] \in granted[i] .. granted[i] + Day - 1}) <= DailyLimit
  BY DEF LimitKept
<1> DEFINE S == {j \in DOMAIN granted : granted[j] \in granted[i] .. granted[i] + Day - 1}
<1>a. s \in Seq(Nat) /\ granted \in Seq(Nat) /\ Len(s) = Len(granted)
  BY DEF BudgetTyped, Slots
<1>b. DOMAIN granted = 1 .. Len(s) /\ DOMAIN s = 1 .. Len(s) /\ Len(s) \in Nat
  BY <1>a
<1>c. \A j \in 1 .. Len(s) : granted[j] \in Nat /\ s[j] \in Nat
  BY <1>a, <1>b
<1>0. /\ Day \in Nat \ {0} /\ DailyLimit \in Nat \ {0} /\ DOMAIN granted = 1 .. Len(s) /\ Len(s) \in Nat
      /\ \A j \in 1 .. Len(s) : granted[j] \in Nat /\ s[j] \in Nat
  BY <1>b, <1>c, BudgetAssumption
<1>1. S \in SUBSET Nat /\ S # {}
  BY <1>0
<1>2. PICK m \in S : \A j \in S : m <= j
  <2> HIDE DEF S
  <2> QED BY <1>1, Least
<1>3. ASSUME NEW j \in S PROVE j <= m + DailyLimit - 1
  <2>1. SUFFICES ASSUME j - m >= DailyLimit PROVE FALSE
    BY <1>0
  <2>2. m \in 1 .. Len(s) /\ j \in m .. Len(s) /\ j - m \in Nat
    BY <1>0, <1>2
  <2>3. s[m] + IntervalOf * (j - m) <= s[j] /\ s[j] <= granted[j] + Tolerance /\ granted[m] <= s[m]
    BY <1>0, <2>2 DEF Slots
  <2>4. granted[j] <= granted[i] + Day - 1 /\ granted[i] <= granted[m]
    BY <1>0
  <2>10. IntervalOf * (j - m) \in Nat
    BY <2>2, Policy, OneMore
  <2>11. granted[j] \in Nat /\ granted[m] \in Nat /\ granted[i] \in Nat /\ s[m] \in Nat /\ s[j] \in Nat /\ Tolerance \in Nat
    BY <1>0, <2>2, Policy
  <2>5. IntervalOf * (j - m) <= Day - 1 + Tolerance
    <3> DEFINE x == IntervalOf * (j - m)
    <3>1. x \in Nat /\ s[m] + x <= s[j]
      BY <2>3, <2>10
    <3> HIDE DEF x
    <3>2. s[j] <= granted[j] + Tolerance /\ granted[m] <= s[m] /\ Day \in Nat
      BY <1>0, <2>3
    <3>3. s[m] + x <= granted[j] + Tolerance
      BY <2>11, <3>1, <3>2
    <3>4. granted[j] <= s[m] + Day - 1
      BY <2>4, <2>11, <3>2
    <3>5. x <= Day - 1 + Tolerance
      BY <2>11, <3>1, <3>2, <3>3, <3>4
    <3> QED BY <3>5 DEF x
  <2>6. IntervalOf * DailyLimit <= IntervalOf * (j - m)
    BY <1>0, <2>1, <2>2, Policy, MoreOfIt
  <2>7. Day + Tolerance + IntervalOf <= IntervalOf * (DailyLimit + 1)
    <3>1. Burst * IntervalOf + IntervalOf * (DailyLimit + 1 - Burst) = IntervalOf * (DailyLimit + 1)
      BY <1>0, Policy
    <3> QED BY <3>1, <1>0, Policy
  <2>8. IntervalOf * (DailyLimit + 1) = IntervalOf * DailyLimit + IntervalOf /\ IntervalOf * DailyLimit \in Nat
    BY <1>0, Policy, OneMore
  <2>9. IntervalOf * (j - m) \in Nat
    BY <2>2, Policy, OneMore
  <2> QED BY <1>0, <2>5, <2>6, <2>7, <2>8, <2>9, Policy
<1>4. S \subseteq m .. (m + DailyLimit - 1) /\ m \in Nat
  BY <1>0, <1>1, <1>2, <1>3
<1>5. Cardinality(m .. (m + DailyLimit - 1)) = DailyLimit /\ IsFiniteSet(m .. (m + DailyLimit - 1))
  <2>1. m \in Int /\ m + DailyLimit - 1 \in Int /\ m <= m + DailyLimit - 1
    BY <1>0, <1>4
  <2>2. IsFiniteSet(m .. (m + DailyLimit - 1))
        /\ Cardinality(m .. (m + DailyLimit - 1)) = (m + DailyLimit - 1) - m + 1
    BY <2>1, FS_Interval
  <2> QED BY <1>0, <2>1, <2>2
<1> HIDE DEF S
<1>6. Cardinality(S) <= DailyLimit
  BY <1>4, <1>5, FS_Subset
<1> QED BY <1>6 DEF S

(* Whoever stays has the row of his visit.                                   *)
LEMMA Rest ==
    ASSUME NEW c \in Clerk, \A w \in Clerk \ {c} : visit'[w] = visit[w]
    PROVE  /\ c \notin Pausing /\ c \notin Pausing' => Pausing' = Pausing
           /\ c \in Pausing /\ c \notin Pausing' => Pausing' = Pausing \ {c}
           /\ c \notin Pausing /\ c \in Pausing' => Pausing' = Pausing \cup {c}
  BY DEF Pausing

(* The slots stay when nothing is granted and the pointer does not go back.  *)
LEMMA SlotsStay ==
    ASSUME BudgetTyped, BudgetTyped', NEW s, Slots(s), granted' = granted, nextSlot <= nextSlot'
    PROVE  Slots(s)'
<1>1. s \in Seq(Nat) /\ Len(s) = Len(granted) /\ Len(s) \in Nat /\ nextSlot \in Nat /\ nextSlot' \in Nat
  BY DEF Slots, BudgetTyped
<1>2. ASSUME NEW i \in 1 .. Len(s) PROVE s[i] + IntervalOf * (Len(s) + 1 - i) <= nextSlot'
  <2>1. IntervalOf * (Len(s) + 1 - i) \in Nat /\ s[i] \in Nat
    BY <1>1, Policy, OneMore
  <2>2. s[i] + IntervalOf * (Len(s) + 1 - i) <= nextSlot
    BY DEF Slots
  <2> QED BY <1>1, <2>1, <2>2
<1> QED BY <1>1, <1>2 DEF Slots

LEMMA SlotGranted ==
    ASSUME BudgetTyped, BudgetTyped', NEW s, Slots(s), NEW now \in Nat, NEW slot \in Nat,
           slot >= nextSlot, slot >= now, slot - now <= Tolerance,
           nextSlot' = slot + IntervalOf, granted' = Append(granted, now)
    PROVE  Slots(Append(s, slot))'
<1> DEFINE t == Append(s, slot)
<1>1. /\ s \in Seq(Nat) /\ granted \in Seq(Nat) /\ Len(s) = Len(granted) /\ Len(s) \in Nat
      /\ nextSlot \in Nat /\ IntervalOf \in Nat /\ Tolerance \in Nat
  BY Policy DEF Slots, BudgetTyped
<1>2. /\ t \in Seq(Nat) /\ Len(t) = Len(s) + 1 /\ Len(granted') = Len(s) + 1
      /\ t[Len(s) + 1] = slot /\ granted'[Len(s) + 1] = now
      /\ \A i \in 1 .. Len(s) : t[i] = s[i] /\ granted'[i] = granted[i] /\ s[i] \in Nat
  BY <1>1
<1> HIDE DEF t
<1>3. ASSUME NEW i \in 1 .. Len(s) + 1
      PROVE  /\ granted'[i] <= t[i] /\ t[i] <= granted'[i] + Tolerance
             /\ t[i] + IntervalOf * (Len(t) + 1 - i) <= nextSlot'
             /\ \A j \in i .. Len(s) + 1 : t[i] + IntervalOf * (j - i) <= t[j]
  <2>1. CASE i = Len(s) + 1
    <3>1. Len(t) + 1 - i = 1 /\ IntervalOf * 1 = IntervalOf /\ IntervalOf * 0 = 0
      BY <1>1, <1>2, <2>1
    <3>2. i .. Len(s) + 1 = {i} /\ i - i = 0
      BY <1>1, <2>1
    <3> QED BY <1>1, <1>2, <2>1, <3>1, <3>2
  <2>2. CASE i \in 1 .. Len(s)
    <3>1. /\ granted[i] <= s[i] /\ s[i] <= granted[i] + Tolerance
          /\ s[i] + IntervalOf * (Len(s) + 1 - i) <= nextSlot
          /\ \A j \in i .. Len(s) : s[i] + IntervalOf * (j - i) <= s[j]
      BY <2>2 DEF Slots
    <3>2. Len(s) + 1 - i \in Nat /\ Len(t) + 1 - i = (Len(s) + 1 - i) + 1
      BY <1>1, <1>2, <2>2
    <3>3. IntervalOf * (Len(t) + 1 - i) = IntervalOf * (Len(s) + 1 - i) + IntervalOf /\ IntervalOf * (Len(s) + 1 - i) \in Nat
      BY <1>1, <3>2, OneMore
    <3>4. s[i] + IntervalOf * (Len(s) + 1 - i) <= slot
      <4>1. s[i] \in Int /\ slot \in Int /\ nextSlot \in Int /\ IntervalOf * (Len(s) + 1 - i) \in Int
        BY <1>1, <1>2, <2>2, <3>3
      <4>2. nextSlot <= slot
        BY <4>1
      <4> QED BY <4>1, <4>2, <3>1, Chain
    <3>5. t[i] + IntervalOf * (Len(t) + 1 - i) <= nextSlot'
      <4>1. s[i] + IntervalOf * (Len(t) + 1 - i) <= slot + IntervalOf
        <5>1. s[i] \in Int /\ slot \in Int /\ IntervalOf \in Int /\ IntervalOf * (Len(s) + 1 - i) \in Int
              /\ IntervalOf * (Len(t) + 1 - i) \in Int
          BY <1>1, <1>2, <2>2, <3>3
        <5> QED BY <5>1, <3>3, <3>4, Further
      <4> QED BY <1>2, <2>2, <4>1
    <3>6. ASSUME NEW j \in i .. Len(s) + 1 PROVE t[i] + IntervalOf * (j - i) <= t[j]
      <4>1. CASE j = Len(s) + 1
        BY <1>2, <2>2, <3>4, <4>1
      <4>2. CASE j \in i .. Len(s)
        BY <1>2, <2>2, <3>1, <4>2
      <4> QED BY <1>1, <4>1, <4>2
    <3> QED BY <1>2, <2>2, <3>1, <3>5, <3>6
  <2> QED BY <1>1, <2>1, <2>2
<1>4. Slots(t)'
  BY <1>2, <1>3 DEF Slots
<1> QED BY <1>4 DEF t

(* Nearness grows with the clock, the end of the pause, those who wait, and  *)
(* those who are counted.                                                    *)
LEMMA NearByGrows ==
    ASSUME NEW n \in Int, NEW now \in Int, NEW until \in Int, NEW waits \in SUBSET Int, NEW k \in Nat,
           NEW now2 \in Int, NEW until2 \in Int, NEW waits2 \in SUBSET Int, NEW k2 \in Nat,
           now <= now2, until <= until2, waits \subseteq waits2, k <= k2, NearBy(n, now, until, waits, k)
    PROVE  NearBy(n, now2, until2, waits2, k2)
<1>1. PICK x \in Nat : x = IntervalOf * k
  BY Policy, OneMore
<1>2. PICK y \in Nat : y = IntervalOf * k2
  BY Policy, OneMore
<1>3. x <= y
  BY <1>1, <1>2, Policy, MoreOfIt
<1>4. IntervalOf \in Nat /\ Tolerance \in Nat
  BY Policy
<1> QED BY <1>1, <1>2, <1>3, <1>4 DEF NearBy

(* One more that is counted makes up for one more slot.                      *)
LEMMA NearByOneMore ==
    ASSUME NEW n \in Int, NEW now \in Int, NEW until \in Int, NEW waits \in SUBSET Int, NEW k \in Nat,
           NearBy(n, now, until, waits, k)
    PROVE  NearBy(n + IntervalOf, now, until, waits, k + 1)
<1>1. PICK x \in Nat : x = IntervalOf * k
  BY Policy, OneMore
<1>2. IntervalOf * (k + 1) = x + IntervalOf
  BY <1>1, Policy, OneMore
<1>3. IntervalOf \in Nat /\ Tolerance \in Nat
  BY Policy
<1> QED BY <1>1, <1>2, <1>3 DEF NearBy

LEMMA WaitsTyped == ASSUME BudgetTyped, NEW q \in SUBSET Pausing PROVE Waits(q) \in SUBSET Int
  BY DEF BudgetTyped, Asked, Pausing, Waits

LEMMA Counted ==
    ASSUME BudgetTyped, NEW q \in SUBSET Pausing
    PROVE  Cardinality(Pausing \ q) + cut \in Nat
<1>1. Pausing \in SUBSET Clerk
  BY DEF Pausing
<1> HIDE DEF Pausing
<1>2. Cardinality(Pausing \ q) \in Nat
  BY <1>1, CountPausing
<1> QED BY <1>2 DEF BudgetTyped

(* With no pause ahead the pointer is near the clock.                        *)
LEMMA KnownIsNear ==
    ASSUME BudgetTyped, PointerKnown, paused.until <= clock
    PROVE  PointerStaysNear
<1>1. Pausing \in SUBSET Clerk /\ {} \in SUBSET Pausing
  BY DEF Pausing
<1>2. Near({}, Cardinality(Pausing \ {}) + cut)
  BY <1>1 DEF PointerKnown
<1>3. PICK k \in Nat : k = Cardinality(Pausing \ {}) + cut
  BY <1>1, Counted
<1>4. PICK n \in Nat : n = Cardinality(Clerk) + cut
  <2>1. Cardinality(Clerk) \in Nat
    BY BudgetAssumption, FS_CardinalityType
  <2> QED BY <2>1 DEF BudgetTyped
<1>5. k <= n
  <2> HIDE DEF Pausing
  <2>1. Cardinality(Pausing \ {}) <= Cardinality(Clerk) /\ Cardinality(Pausing \ {}) \in Nat /\ Cardinality(Clerk) \in Nat
    <3>1. Pausing \ {} = Pausing
      OBVIOUS
    <3> QED BY <1>1, <3>1, CountPausing
  <2> QED BY <1>3, <1>4, <2>1 DEF BudgetTyped
<1>6. PICK x \in Nat : x = IntervalOf * k
  BY Policy, OneMore
<1>7. PICK y \in Nat : y = IntervalOf * n
  BY Policy, OneMore
<1>8. x <= y
  BY <1>5, <1>6, <1>7, Policy, MoreOfIt
<1>9. Waits({}) = {}
  BY DEF Waits
<1>10. nextSlot <= clock + Tolerance + x
  <2>1. clock \in Nat /\ paused.until \in Nat /\ nextSlot \in Nat /\ Tolerance \in Nat
    BY Policy DEF BudgetTyped
  <2>2. nextSlot <= clock + Tolerance + x \/ nextSlot <= paused.until + Tolerance + x
    BY <1>2, <1>3, <1>6, <1>9 DEF Near, NearBy
  <2> QED BY <2>1, <2>2
<1> QED BY <1>4, <1>7, <1>8, <1>10, Policy DEF PointerStaysNear, BudgetTyped

(* The same of the state after a step.                                       *)
LEMMA CountedThen ==
    (\A q : BudgetTyped /\ q \in SUBSET Pausing => Cardinality(Pausing \ q) + cut \in Nat)'
<1>1. \A q : BudgetTyped /\ q \in SUBSET Pausing => Cardinality(Pausing \ q) + cut \in Nat
  BY Counted
<1> QED BY <1>1, PTL

LEMMA NearThen == (BudgetTyped /\ PointerKnown /\ paused.until <= clock => PointerStaysNear)'
<1>1. BudgetTyped /\ PointerKnown /\ paused.until <= clock => PointerStaysNear
  BY KnownIsNear
<1> QED BY <1>1, PTL

(* Time passes, others ask: the pointer is as near as before.                *)
LEMMA KnownStays ==
    ASSUME BudgetTyped, BudgetTyped', PointerKnown, nextSlot' = nextSlot, clock <= clock',
           paused.until <= paused.until', cut' = cut, Pausing' = Pausing,
           \A w \in Pausing : visit'[w] = visit[w]
    PROVE  PointerKnown'
<1> SUFFICES ASSUME NEW q \in SUBSET Pausing' PROVE Near(q, Cardinality(Pausing \ q) + cut)'
  BY DEF PointerKnown
<1>1. PICK k \in Nat : k = Cardinality(Pausing \ q) + cut
  BY Counted
<1>2. Near(q, k)
  BY <1>1 DEF PointerKnown
<1>3. Waits(q)' = Waits(q) /\ Waits(q) \in SUBSET Int
  BY WaitsTyped DEF Waits
<1>4. clock \in Int /\ clock' \in Int /\ paused.until \in Int /\ paused.until' \in Int /\ nextSlot \in Int
  BY DEF BudgetTyped
<1>5. NearBy(nextSlot, clock', paused.until', Waits(q), k)
  BY <1>2, <1>3, <1>4, NearByGrows DEF Near
<1> QED BY <1>1, <1>3, <1>5 DEF Near

LEMMA NearStays ==
    ASSUME BudgetTyped, BudgetTyped', PointerStaysNear, nextSlot' = nextSlot, clock <= clock', cut <= cut'
    PROVE  PointerStaysNear'
<1>1. Cardinality(Clerk) \in Nat
  BY BudgetAssumption, FS_CardinalityType
<1>2. PICK k \in Nat : k = Cardinality(Clerk) + cut
  BY <1>1 DEF BudgetTyped
<1>3. PICK n \in Nat : n = Cardinality(Clerk) + cut'
  BY <1>1 DEF BudgetTyped
<1>4. k <= n
  BY <1>1, <1>2, <1>3 DEF BudgetTyped
<1>5. PICK x \in Nat : x = IntervalOf * k
  BY Policy, OneMore
<1>6. PICK y \in Nat : y = IntervalOf * n
  BY Policy, OneMore
<1>7. x <= y
  BY <1>4, <1>5, <1>6, Policy, MoreOfIt
<1>8. nextSlot <= clock + Tolerance + x
  BY <1>2, <1>5 DEF PointerStaysNear
<1>9. nextSlot' <= clock' + Tolerance + y
  <2>1. clock \in Nat /\ clock' \in Nat /\ nextSlot \in Nat /\ Tolerance \in Nat
    BY Policy DEF BudgetTyped
  <2> QED BY <1>5, <1>6, <1>7, <1>8, <2>1
<1> QED BY <1>3, <1>6, <1>9 DEF PointerStaysNear

LEMMA BudgetStart == BudgetInit => BudgetInv
<1> SUFFICES ASSUME BudgetInit PROVE BudgetInv
  OBVIOUS
<1>1. BudgetTyped
  BY DEF BudgetInit, ActorsInit, BudgetTyped, NoVisit, Asked
<1>2. Slots(<<>>)
  BY DEF BudgetInit, Slots
<1>3. Pausing = {}
  BY DEF BudgetInit, ActorsInit, Pausing, NoVisit
<1>4. ASSUME NEW q \in SUBSET Pausing PROVE Near(q, Cardinality(Pausing \ q) + cut)
  <2>1. PICK k \in Nat : k = Cardinality(Pausing \ q) + cut
    BY <1>1, Counted
  <2>2. PICK x \in Nat : x = IntervalOf * k
    BY Policy, OneMore
  <2> QED BY <2>1, <2>2, Policy DEF Near, NearBy, BudgetInit
<1>5. PointerKnown
  BY <1>4 DEF PointerKnown
<1>6. PointerStaysNear
  BY <1>1, <1>5, KnownIsNear DEF BudgetInit
<1> QED BY <1>1, <1>2, <1>5, <1>6 DEF BudgetInv

LEMMA Passes == BudgetInv /\ Tick => BudgetInv'
<1> SUFFICES ASSUME BudgetInv, Tick PROVE BudgetInv'
  OBVIOUS
<1> USE DEF Tick
<1>1. BudgetTyped'
  <2>1. ASSUME NEW w \in Clerk, visit[w].op = "budget", visit[w].at = "reserve" PROVE visit[w].now <= clock'
    <3>1. visit[w].now \in Nat /\ visit[w].now <= clock /\ clock \in Nat
      BY <2>1 DEF BudgetInv, BudgetTyped, Asked
    <3> QED BY <3>1
  <2> QED BY <2>1 DEF BudgetInv, BudgetTyped
<1>2. PICK s : Slots(s)
  BY DEF BudgetInv
<1>3. Slots(s)'
  BY <1>1, <1>2, SlotsStay DEF BudgetInv, BudgetTyped
<1>4. Pausing' = Pausing /\ clock <= clock'
  BY DEF Pausing, BudgetInv, BudgetTyped
<1>5. PointerKnown' /\ PointerStaysNear'
  BY <1>1, <1>4, KnownStays, NearStays DEF BudgetInv, BudgetTyped
<1> QED BY <1>1, <1>3, <1>5 DEF BudgetInv

(* A step of a request that leaves the row, or only prolongs the pause.      *)
LEMMA Prolongs ==
    ASSUME BudgetInv, BudgetTyped', UNCHANGED <<clock, nextSlot, granted, cut>>,
           paused.until <= paused'.until, NEW c \in Clerk, c \notin Pausing, c \notin Pausing',
           \A w \in Clerk \ {c} : visit'[w] = visit[w]
    PROVE  BudgetInv'
<1>1. PICK s : Slots(s)
  BY DEF BudgetInv
<1>2. Slots(s)'
  BY <1>1, SlotsStay DEF BudgetInv, BudgetTyped
<1>3. Pausing' = Pausing /\ clock <= clock' /\ \A w \in Pausing : visit'[w] = visit[w]
  BY Rest DEF Pausing, BudgetInv, BudgetTyped
<1>4. PointerKnown' /\ PointerStaysNear'
  BY <1>3, KnownStays, NearStays DEF BudgetInv, BudgetTyped
<1> QED BY <1>2, <1>4 DEF BudgetInv

LEMMA Asks == ASSUME BudgetInv, NEW c \in Clerk, TryConsume(c) PROVE BudgetInv'
<1>1. PICK row : row = [op |-> "budget", at |-> "reserve", now |-> clock] /\ visit' = [visit EXCEPT ![c] = row]
  BY DEF TryConsume, Begin
<1>2. row \in Asked
  BY <1>1 DEF Asked, BudgetInv, BudgetTyped
<1>3. BudgetTyped'
  BY <1>1, <1>2 DEF TryConsume, BudgetInv, BudgetTyped
<1>4. c \notin Pausing /\ c \notin Pausing' /\ \A w \in Clerk \ {c} : visit'[w] = visit[w]
  BY <1>1 DEF TryConsume, Begin, NoVisit, Pausing, BudgetInv, BudgetTyped
<1> QED BY <1>3, <1>4, Prolongs DEF TryConsume, BudgetInv, BudgetTyped

LEMMA Fetches == ASSUME BudgetInv, NEW c \in Clerk, FetchPlaceReviews(c) PROVE BudgetInv'
<1>1. visit' = [visit EXCEPT ![c] = NoVisit] /\ NoVisit \in Asked
  BY DEF FetchPlaceReviews, End, NoVisit, Asked
<1>2. paused' \in [until : Nat, kind : {None, "credit_limited", "rate_limited"}] /\ paused.until <= paused'.until
  BY BudgetAssumption DEF FetchPlaceReviews, PauseUntil, BudgetInv, BudgetTyped
<1>3. BudgetTyped'
  BY <1>1, <1>2 DEF FetchPlaceReviews, BudgetInv, BudgetTyped, NoVisit
<1>4. c \notin Pausing /\ c \notin Pausing' /\ \A w \in Clerk \ {c} : visit'[w] = visit[w]
  BY <1>1 DEF FetchPlaceReviews, NoVisit, Pausing, BudgetInv, BudgetTyped
<1> QED BY <1>2, <1>3, <1>4, Prolongs DEF FetchPlaceReviews

(* Who dies before the pause is counted from then on.                        *)
LEMMA Dies == ASSUME BudgetInv, NEW c \in Clerk, BudgetProcessDies(c) PROVE BudgetInv'
<1>1. visit' = [visit EXCEPT ![c] = NoVisit] /\ NoVisit \in Asked
  BY DEF BudgetProcessDies, End, NoVisit, Asked
<1>2. BudgetTyped'
  BY <1>1 DEF BudgetProcessDies, BudgetInv, BudgetTyped, NoVisit
<1>3. c \notin Pausing' /\ \A w \in Clerk \ {c} : visit'[w] = visit[w]
  BY <1>1 DEF NoVisit, Pausing, BudgetInv, BudgetTyped
<1>4. CASE c \notin Pausing
  BY <1>2, <1>3, <1>4, Prolongs DEF BudgetProcessDies, Pausing, BudgetInv, BudgetTyped
<1>5. CASE c \in Pausing
  <2>1. cut' = cut + 1 /\ nextSlot' = nextSlot /\ clock' = clock /\ paused' = paused /\ granted' = granted
    BY <1>5 DEF BudgetProcessDies, Pausing
  <2>2. Pausing' = Pausing \ {c} /\ Pausing \in SUBSET Clerk
    BY <1>3, <1>5, Rest DEF Pausing
  <2>3. ASSUME NEW q \in SUBSET Pausing' PROVE Near(q, Cardinality(Pausing \ q) + cut)'
    <3>1. Cardinality(Pausing \ q) = Cardinality(Pausing' \ q) + 1
      <4>1. Pausing' \in SUBSET Clerk /\ c \in Clerk \ Pausing' /\ Pausing' \cup {c} = Pausing /\ q \in SUBSET Pausing'
        BY <1>5, <2>2
      <4> HIDE DEF Pausing
      <4>2. PICK P : P = Pausing'
        OBVIOUS
      <4>3. Cardinality((P \cup {c}) \ q) = Cardinality(P \ q) + 1
        BY <4>1, <4>2, CountPausing
      <4> QED BY <4>1, <4>2, <4>3
    <3>2. q \in SUBSET Pausing
      BY <2>2
    <3>3. PICK k \in Nat : k = Cardinality(Pausing \ q) + cut
      BY <3>2, Counted DEF BudgetInv
    <3>4. Near(q, k)
      BY <3>2, <3>3 DEF BudgetInv, PointerKnown
    <3>5. Cardinality(Pausing' \ q) + cut' = k
      <4>1. Cardinality(Pausing' \ q) \in Nat
        <5>1. PICK P : P = Pausing'
          OBVIOUS
        <5>2. P \in SUBSET Clerk /\ q \in SUBSET P
          BY <2>2, <5>1
        <5>3. Cardinality(P \ q) \in Nat
          BY <5>2, CountPausing
        <5> QED BY <5>1, <5>3
      <4> QED BY <2>1, <3>1, <3>3, <4>1 DEF BudgetInv, BudgetTyped
    <3>6. Waits(q)' = Waits(q)
      BY <1>3, <2>2 DEF Waits
    <3> QED BY <2>1, <3>4, <3>5, <3>6 DEF Near
  <2>4. PointerKnown'
    BY <2>3 DEF PointerKnown
  <2>5. PICK s : Slots(s)
    BY DEF BudgetInv
  <2>6. Slots(s)'
    BY <1>2, <2>1, <2>5, SlotsStay DEF BudgetInv, BudgetTyped
  <2>7. PointerStaysNear'
    BY <1>2, <2>1, NearStays DEF BudgetInv, BudgetTyped
  <2> QED BY <1>2, <2>4, <2>6, <2>7 DEF BudgetInv
<1> QED BY <1>4, <1>5

(* The pause makes up for the wait of the one who waited.                    *)
LEMMA Paid ==
    ASSUME NEW n \in Int, NEW now \in Int, NEW until \in Int, NEW waits \in SUBSET Int, NEW k \in Nat,
           NEW t \in Int, NEW until2 \in Int, until <= until2,
           t + IntervalOf - Tolerance > 0 => now + t + IntervalOf - Tolerance <= until2,
           NearBy(n, now, until, waits \cup {t}, k)
    PROVE  NearBy(n, now, until2, waits, k)
<1>1. PICK x \in Nat : x = IntervalOf * k
  BY Policy, OneMore
<1>2. PICK d \in Nat : d = IntervalOf
  BY Policy
<1>3. PICK tol \in Nat : tol = Tolerance
  BY Policy
<1>4. n <= now + tol + x \/ n <= until + tol + x \/ n <= now + t + d + x \/ \E u \in waits : n <= now + u + d + x
  BY <1>1, <1>2, <1>3 DEF NearBy
<1>5. t + d - tol > 0 => now + t + d - tol <= until2
  BY <1>2, <1>3
<1>6. n <= now + tol + x \/ n <= until2 + tol + x \/ \E u \in waits : n <= now + u + d + x
  BY <1>4, <1>5
<1> QED BY <1>1, <1>2, <1>3, <1>6 DEF NearBy

LEMMA Prolonged ==
    ASSUME BudgetInv, NEW t \in Nat, NEW kind \in {"credit_limited", "rate_limited"}, PauseUntil(t, kind)
    PROVE  /\ paused' \in [until : Nat, kind : {None, "credit_limited", "rate_limited"}]
           /\ paused.until <= paused'.until /\ t <= paused'.until
  BY DEF PauseUntil, BudgetInv, BudgetTyped

LEMMA PausesThen == ASSUME BudgetInv, NEW c \in Clerk, BudgetPauses(c) PROVE BudgetInv'
<1>1. c \in Pausing /\ visit[c].wait \in Nat
  BY DEF BudgetPauses, Pausing, BudgetInv, BudgetTyped, Asked
<1>2. UNCHANGED <<clock, nextSlot, granted, cut>>
  BY DEF BudgetPauses
<1>3. PICK row \in Asked : visit' = [visit EXCEPT ![c] = row] /\ (row.op = "budget" => row.at = "fetch")
  <2>1. NoVisit \in Asked /\ NoVisit.op # "budget"
    BY DEF NoVisit, Asked
  <2>2. PICK row : row = [op |-> "budget", at |-> "fetch"]
    OBVIOUS
  <2>3. row \in Asked /\ row.at = "fetch"
    BY <2>2 DEF Asked
  <2>4. visit' = [visit EXCEPT ![c] = row] \/ visit' = [visit EXCEPT ![c] = NoVisit]
    BY <2>2 DEF BudgetPauses, Continue, End
  <2> QED BY <2>1, <2>3, <2>4
<1>4. PICK t \in Int : t = visit[c].wait
  BY <1>1
<1>5. /\ paused' \in [until : Nat, kind : {None, "credit_limited", "rate_limited"}]
      /\ paused.until <= paused'.until
      /\ t + IntervalOf - Tolerance > 0 => clock + t + IntervalOf - Tolerance <= paused'.until
  <2>1. CASE Pauses(c)
    <3>1. t + IntervalOf - Tolerance > 0
      BY <2>1, <1>4 DEF Pauses
    <3>2. PICK e \in Nat : e = clock + t + IntervalOf - Tolerance
      BY <3>1, <1>4, Policy DEF BudgetInv, BudgetTyped
    <3>3. PauseUntil(e, "credit_limited")
      BY <2>1, <3>2, <1>4 DEF BudgetPauses
    <3> QED BY <3>2, <3>3, Prolonged
  <2>2. CASE ~Pauses(c)
    <3>1. paused' = paused /\ ~(t + IntervalOf - Tolerance > 0)
      BY <2>2, <1>4 DEF BudgetPauses, Pauses
    <3> QED BY <3>1 DEF BudgetInv, BudgetTyped
  <2> QED BY <2>1, <2>2
<1>6. BudgetTyped'
  BY <1>2, <1>3, <1>5 DEF BudgetInv, BudgetTyped
<1>7. c \notin Pausing' /\ \A w \in Clerk \ {c} : visit'[w] = visit[w]
  BY <1>3 DEF Pausing, BudgetInv, BudgetTyped
<1>8. Pausing' = Pausing \ {c}
  BY <1>1, <1>7, Rest
<1>9. ASSUME NEW q \in SUBSET Pausing' PROVE Near(q, Cardinality(Pausing \ q) + cut)'
  <2>1. q \cup {c} \in SUBSET Pausing /\ Pausing \ (q \cup {c}) = Pausing' \ q
    BY <1>1, <1>8
  <2>2. PICK k \in Nat : k = Cardinality(Pausing \ (q \cup {c})) + cut
    BY <2>1, Counted DEF BudgetInv
  <2>3. Near(q \cup {c}, k)
    BY <2>1, <2>2 DEF BudgetInv, PointerKnown
  <2>4. Waits(q)' = Waits(q) /\ Waits(q \cup {c}) = Waits(q) \cup {t} /\ Waits(q) \in SUBSET Int
    <3>1. Waits(q)' = Waits(q)
      BY <1>7, <1>8 DEF Waits, Pausing
    <3>2. Waits(q \cup {c}) = Waits(q) \cup {t}
      BY <1>4 DEF Waits
    <3>3. q \in SUBSET Pausing
      BY <2>1
    <3> QED BY <3>1, <3>2, <3>3, WaitsTyped DEF BudgetInv
  <2>5. nextSlot \in Int /\ clock \in Int /\ paused.until \in Int /\ paused'.until \in Int
    BY <1>5 DEF BudgetInv, BudgetTyped
  <2>6. NearBy(nextSlot, clock, paused'.until, Waits(q), k)
    BY <2>3, <2>4, <2>5, <1>5, Paid DEF Near
  <2>7. Cardinality(Pausing' \ q) + cut' = k
    BY <2>1, <2>2, <1>2
  <2> QED BY <1>2, <2>4, <2>6, <2>7 DEF Near
<1>10. PointerKnown'
  BY <1>9 DEF PointerKnown
<1>11. PICK s : Slots(s)
  BY DEF BudgetInv
<1>12. Slots(s)'
  BY <1>6, <1>2, <1>11, SlotsStay DEF BudgetInv, BudgetTyped
<1>13. PointerStaysNear'
  BY <1>2, <1>6, NearStays DEF BudgetInv, BudgetTyped
<1> QED BY <1>6, <1>10, <1>12, <1>13 DEF BudgetInv

LEMMA Reserves == ASSUME BudgetInv, NEW c \in Clerk, ReserveSlot(c) PROVE BudgetInv'
<1>1. PICK now \in Nat : now = visit[c].now /\ now <= clock
  BY DEF ReserveSlot, BudgetInv, BudgetTyped, Asked
<1>2. visit[c].op = "budget" /\ visit[c].at = "reserve" /\ c \notin Pausing
  BY DEF ReserveSlot, Pausing
<1>3. CASE paused.until > now
  <2>1. visit' = [visit EXCEPT ![c] = NoVisit] /\ NoVisit \in Asked /\ UNCHANGED <<clock, nextSlot, paused, granted, cut>>
    BY <1>1, <1>3 DEF ReserveSlot, End, NoVisit, Asked
  <2>2. BudgetTyped'
    BY <2>1 DEF BudgetInv, BudgetTyped, NoVisit
  <2>3. c \notin Pausing' /\ \A w \in Clerk \ {c} : visit'[w] = visit[w]
    BY <2>1 DEF NoVisit, Pausing, BudgetInv, BudgetTyped
  <2> QED BY <1>2, <2>1, <2>2, <2>3, Prolongs DEF BudgetInv, BudgetTyped
<1>4. CASE ~(paused.until > now)
  <2>1. PICK slot \in Nat : slot = Max({now, nextSlot}) /\ slot >= now /\ slot >= nextSlot /\ (slot = now \/ slot = nextSlot)
    BY Larger DEF BudgetInv, BudgetTyped
  <2>2. PICK row : row = [op |-> "budget", at |-> "pause", wait |-> slot - now, granted |-> slot - now <= Tolerance]
    OBVIOUS
  <2>3. /\ nextSlot' = slot + IntervalOf /\ paused' = [until |-> 0, kind |-> None]
        /\ granted' = IF slot - now <= Tolerance THEN Append(granted, now) ELSE granted
        /\ visit' = [visit EXCEPT ![c] = row]
        /\ clock' = clock /\ cut' = cut
    BY <1>1, <1>4, <2>1, <2>2 DEF ReserveSlot
  <2>4. row \in Asked
    BY <2>1, <2>2 DEF Asked
  <2>5. BudgetTyped'
    <3>1. nextSlot' \in Nat
      BY <2>1, <2>3, Policy
    <3>2. granted' \in Seq(Nat)
      BY <2>3 DEF BudgetInv, BudgetTyped
    <3>3. visit' \in [Clerk -> Asked]
      BY <2>3, <2>4 DEF BudgetInv, BudgetTyped
    <3>4. \A w \in Clerk : visit'[w].op = "budget" /\ visit'[w].at = "reserve" => visit'[w].now <= clock'
      BY <2>2, <2>3 DEF BudgetInv, BudgetTyped
    <3> QED BY <2>3, <3>1, <3>2, <3>3, <3>4 DEF BudgetInv, BudgetTyped
  <2>6. visit'[c] = row /\ \A w \in Clerk \ {c} : visit'[w] = visit[w]
    BY <2>3 DEF BudgetInv, BudgetTyped
  <2>7. c \in Pausing' /\ Pausing' = Pausing \cup {c}
    BY <1>2, <2>2, <2>6, Rest DEF Pausing
  <2>8. \E s : Slots(s)'
    <3>1. PICK s : Slots(s)
      BY DEF BudgetInv
    <3>2. CASE slot - now <= Tolerance
      BY <2>1, <2>3, <2>5, <3>1, <3>2, SlotGranted DEF BudgetInv
    <3>3. CASE ~(slot - now <= Tolerance)
      <4>1. granted' = granted /\ nextSlot <= nextSlot'
        BY <2>1, <2>3, <3>3, Policy DEF BudgetInv, BudgetTyped
      <4> QED BY <2>5, <3>1, <4>1, SlotsStay DEF BudgetInv
    <3> QED BY <3>2, <3>3
  <2>9. ASSUME NEW q \in SUBSET Pausing' PROVE Near(q, Cardinality(Pausing \ q) + cut)'
    <3>1. PICK k \in Nat : k = (Cardinality(Pausing \ q) + cut)'
      <4>1. (BudgetTyped /\ q \in SUBSET Pausing => Cardinality(Pausing \ q) + cut \in Nat)'
        BY CountedThen
      <4> QED BY <2>5, <4>1
    <3>2. PICK x \in Nat : x = IntervalOf * k
      BY Policy, OneMore
    <3>3. CASE c \in q
      <4>1. slot - now \in Waits(q)'
        BY <2>2, <2>6, <3>3 DEF Waits
      <4>2. nextSlot' <= clock' + (slot - now) + IntervalOf + x
        <5>1. IntervalOf \in Nat /\ clock \in Nat
          BY Policy DEF BudgetInv, BudgetTyped
        <5>2. PICK d \in Nat : d = IntervalOf
          BY <5>1
        <5>3. slot + d <= clock + (slot - now) + d + x
          BY <1>1, <2>1, <3>2, <5>1, <5>2
        <5> QED BY <2>3, <5>2, <5>3
      <4> QED BY <3>1, <3>2, <4>1, <4>2 DEF Near, NearBy
    <3>4. CASE c \notin q
      <4>1. q \in SUBSET Pausing
        BY <2>7, <3>4
      <4>2. PICK m \in Nat : m = Cardinality(Pausing \ q) + cut
        BY <4>1, Counted DEF BudgetInv
      <4>3. k = m + 1
        <5>1. Pausing \in SUBSET Clerk /\ c \in Clerk \ Pausing
          BY <1>2 DEF Pausing
        <5> HIDE DEF Pausing
        <5>2. Cardinality((Pausing \cup {c}) \ q) = Cardinality(Pausing \ q) + 1 /\ Cardinality(Pausing \ q) \in Nat
          BY <5>1, <4>1, CountPausing
        <5>3. cut \in Nat
          BY DEF BudgetInv, BudgetTyped
        <5> QED BY <2>3, <2>7, <3>1, <4>2, <5>2, <5>3
      <4>4. Waits(q)' = Waits(q) /\ Waits(q) \in SUBSET Int
        BY <1>2, <2>6, <4>1, WaitsTyped DEF Waits, BudgetInv, Pausing
      <4>5. NearBy(nextSlot, clock, paused.until, Waits(q), m)
        BY <4>1, <4>2 DEF BudgetInv, PointerKnown, Near
      <4>6. /\ clock \in Int /\ paused.until \in Int /\ nextSlot \in Int /\ paused.until <= clock
            /\ Tolerance \in Nat
        BY <1>1, <1>4, Policy DEF BudgetInv, BudgetTyped
      <4>7. NearBy(slot, clock, 0, Waits(q), m)
        <5>1. PICK y \in Nat : y = IntervalOf * m
          BY Policy, OneMore
        <5>2. CASE slot = now
          BY <1>1, <4>6, <5>1, <5>2 DEF NearBy
        <5>3. CASE slot = nextSlot
          <6>1. \/ nextSlot <= clock + Tolerance + y \/ nextSlot <= paused.until + Tolerance + y
                \/ \E t \in Waits(q) : nextSlot <= clock + t + IntervalOf + y
            BY <4>5, <5>1 DEF NearBy
          <6>2. \/ nextSlot <= clock + Tolerance + y
                \/ \E t \in Waits(q) : nextSlot <= clock + t + IntervalOf + y
            BY <4>6, <5>1, <6>1
          <6> QED BY <5>1, <5>3, <6>2 DEF NearBy
        <5> QED BY <2>1, <5>2, <5>3
      <4>8. NearBy(slot + IntervalOf, clock, 0, Waits(q), m + 1)
        BY <2>1, <4>4, <4>6, <4>7, NearByOneMore
      <4> QED BY <2>3, <3>1, <4>3, <4>4, <4>8 DEF Near
    <3> QED BY <3>3, <3>4
  <2>10. PointerKnown'
    BY <2>9 DEF PointerKnown
  <2>11. paused'.until <= clock'
    BY <2>3 DEF BudgetInv, BudgetTyped
  <2>12. PointerStaysNear'
    <3>1. (BudgetTyped /\ PointerKnown /\ paused.until <= clock => PointerStaysNear)'
      BY NearThen
    <3> QED BY <2>5, <2>10, <2>11, <3>1
  <2> QED BY <2>5, <2>8, <2>10, <2>12 DEF BudgetInv
<1> QED BY <1>3, <1>4

LEMMA BudgetSteps == BudgetInv /\ [BudgetNext]_budgetVars => BudgetInv'
<1> SUFFICES ASSUME BudgetInv, [BudgetNext]_budgetVars PROVE BudgetInv'
  OBVIOUS
<1>1. CASE UNCHANGED budgetVars
  BY <1>1 DEF budgetVars, BudgetInv, BudgetTyped, Slots, PointerKnown, Pausing, Near, NearBy, Waits, PointerStaysNear
<1>2. CASE Tick
  BY <1>2, Passes
<1>3. ASSUME NEW c \in Clerk,
             TryConsume(c) \/ ReserveSlot(c) \/ BudgetPauses(c) \/ FetchPlaceReviews(c) \/ BudgetProcessDies(c)
      PROVE  BudgetInv'
  BY <1>3, Asks, Reserves, PausesThen, Fetches, Dies
<1> QED BY <1>1, <1>2, <1>3 DEF BudgetNext

(* However many processes ask, are refused, die, or wait for the row of the  *)
(* limit: in no window of a day more requests than the limit are granted,    *)
(* and refusals move the shared pointer no farther than those who ask at the *)
(* same time or died before their pause (reviews/budget.ts).                 *)
THEOREM BudgetIsSafe == BudgetSpec => []BudgetSafety
<1>1. BudgetInv => BudgetSafety
  BY WindowHolds DEF BudgetInv, BudgetSafety
<1> QED BY <1>1, BudgetStart, BudgetSteps, PTL DEF BudgetSpec

-----------------------------------------------------------------------------
(* Notices: the values a notice, the appointment and a running job can take. *)
Kinds == {"soon", "reassigned", "risk", "risk6h"}
Fates == {"current", "superseded", "closed", "recipient_changed"}
PushRow == [kind : Kinds, version : {"today"} \cup Nat, to : Person, free : BOOLEAN,
           status : {"pending", "skipped", "sent", "failed"},
           code : {"none", "SUPERSEDED", "SUPERSEDED_RECIPIENT"}, reached : Nat,
           job : {"missing", "ready", "running", "done"}, tries : Nat, hits : SUBSET Device]
Meetup == [status : {"scheduled", "cancelled"}, assigned : Person, start : StartDay \cup {None},
           requested : Nat, asked : Person \cup {None}, notified : BOOLEAN]
Remind == [op : {"remind"}, to : Person]
Reassign == [op : {"reassign"}, version : Nat, asked : Person \cup {None}]
Queueing == [op : {"claimed"}, id : Nat]
Tell == [op : {"risk"}, stage : {"risk", "risk6h"}, todo : SUBSET Person]
Send == [op : {"send"}, id : Nat, earlier : Nat, fate : Fates, todo : SUBSET Device,
         sent : Nat, transient : BOOLEAN]

Visit == {NoVisit} \cup Remind \cup Reassign \cup Queueing \cup Tell \cup Send

PushTyped ==
    /\ meetup \in Meetup /\ edits \in Nat
    /\ standIn \in [Person -> Person \cup {None}] /\ works \in SUBSET Person
    /\ device \in [Device -> [owner : Person, live : BOOLEAN, on : BOOLEAN]]
    /\ push \in Seq(PushRow)
    /\ marker \in [StartDay \X Person -> 0 .. Len(push)]
    /\ risk \in {"none", "open", "told", "told twice"}
    /\ visit \in [Clerk -> Visit]
    /\ \A w \in Clerk : visit[w].op \in {"claimed", "send"} => visit[w].id \in 1 .. Len(push)

(* A notice of a risk is never called off, so its key is never given back.   *)
RiskIsCurrent ==
    \A w \in Clerk : visit[w].op = "send" /\ push[visit[w].id].kind = "risk" => visit[w].fate = "current"

(* The scan has written a notice for everybody it need not tell any more; it *)
(* tells the second time only what was told once.                            *)
HasRisk(p) == KeyTaken("risk", 0, p) # {}
ScanTells ==
    \A w \in Clerk : visit[w].op = "risk" =>
        /\ visit[w].stage = "risk" => \A p \in works : p \in visit[w].todo \/ HasRisk(p)
        /\ visit[w].stage = "risk6h" => risk \in {"told", "told twice"}

PushInv == PushTyped /\ RiskIsCurrent /\ ScanTells /\ MarkedIsCarried /\ RiskReachesAll

LEMMA EffectiveIsPerson ==
    ASSUME PushTyped, NEW p \in Person
    PROVE  EffectiveOf(p) \in Person
BY DEF PushTyped, EffectiveOf

-----------------------------------------------------------------------------
LEMMA PushInitInv == PushInit => PushInv
<1> SUFFICES ASSUME PushInit PROVE PushInv OBVIOUS
<1>1. PushTyped
  <2>0. edits \in Nat /\ MaxEdits + 1 \in Nat
    BY ActorsAssumption DEF PushInit, ActorsInit
  <2>1. meetup \in Meetup
    <3>1. meetup \in [status : {"scheduled", "cancelled"}, assigned : Person, start : {"today"},
                      requested : {0, MaxEdits + 1}, asked : Person \cup {None}, notified : {FALSE}]
      BY DEF PushInit
    <3>2. /\ meetup = [status |-> meetup.status, assigned |-> meetup.assigned, start |-> meetup.start,
                       requested |-> meetup.requested, asked |-> meetup.asked, notified |-> meetup.notified]
          /\ meetup.status \in {"scheduled", "cancelled"} /\ meetup.assigned \in Person
          /\ meetup.start = "today" /\ meetup.requested \in {0, MaxEdits + 1}
          /\ meetup.asked \in Person \cup {None} /\ meetup.notified = FALSE
      BY <3>1
    <3>3. meetup.requested \in Nat BY <3>2, <2>0
    <3> QED BY <3>2, <3>3 DEF Meetup, StartDay
  <2>2. push \in Seq(PushRow) /\ Len(push) = 0 BY DEF PushInit
  <2>3. visit \in [Clerk -> Visit] BY DEF PushInit, ActorsInit, Visit
  <2>4. \A w \in Clerk : visit[w].op = "none" BY DEF PushInit, ActorsInit, NoVisit
  <2>5. marker \in [StartDay \X Person -> 0 .. Len(push)]
    BY <2>2 DEF PushInit
  <2> QED BY <2>0, <2>1, <2>2, <2>3, <2>4, <2>5 DEF PushInit, PushTyped
<1>2. \A w \in Clerk : visit[w].op = "none" BY DEF PushInit, ActorsInit, NoVisit
<1>3. MarkedIsCarried BY DEF PushInit, MarkedIsCarried
<1> QED BY <1>1, <1>2, <1>3 DEF PushInv, RiskIsCurrent, ScanTells, RiskReachesAll, PushInit

(* Rows are only added, and a notice of a risk keeps its key.                *)
RowsKept ==
    /\ Len(push) <= Len(push')
    /\ \A i \in 1 .. Len(push) :
          /\ push'[i].kind = push[i].kind /\ push'[i].version = push[i].version /\ push'[i].to = push[i].to
          /\ push[i].kind = "risk" /\ ~push[i].free => ~push'[i].free

LEMMA RiskNoticeStays ==
    ASSUME PushTyped, PushTyped', RowsKept, NEW p, HasRisk(p)
    PROVE  HasRisk(p)'
<1>1. PICK i \in DOMAIN push : push[i].kind = "risk" /\ push[i].version = 0 /\ push[i].to = p /\ ~push[i].free
  BY DEF HasRisk, KeyTaken
<1>a. push \in Seq(PushRow) /\ push' \in Seq(PushRow) BY DEF PushTyped
<1>b. /\ DOMAIN push = 1 .. Len(push) /\ DOMAIN push' = 1 .. Len(push')
      /\ Len(push) \in Nat /\ Len(push') \in Nat
  BY <1>a
<1>2. i \in 1 .. Len(push) /\ i \in 1 .. Len(push') /\ 1 .. Len(push') = DOMAIN push'
  BY <1>1, <1>b DEF RowsKept
<1>3. push'[i].kind = "risk" /\ push'[i].version = 0 /\ push'[i].to = p /\ ~push'[i].free
  BY <1>1, <1>2 DEF RowsKept
<1> QED BY <1>2, <1>3 DEF HasRisk, KeyTaken

(* What does not tell of a risk leaves what is known of it.                  *)
LEMMA RiskUndisturbed ==
    ASSUME PushInv, PushTyped', RowsKept, risk' = risk, works' \subseteq works,
           \A w \in Clerk : visit'[w].op = "risk" => visit'[w] = visit[w]
    PROVE  ScanTells' /\ RiskReachesAll'
<1>1. \A p : HasRisk(p) => HasRisk(p)' BY RiskNoticeStays DEF PushInv
<1>2. ScanTells' BY <1>1 DEF PushInv, ScanTells
<1>3. RiskReachesAll' BY <1>1 DEF PushInv, RiskReachesAll, HasRisk
<1> QED BY <1>2, <1>3

-----------------------------------------------------------------------------
(* What happens to the appointment, the persons and their devices.           *)
World ==
    \/ CallOff
    \/ \E p \in Person : AssignOnDay(p) \/ SubstitutionEnd(p) \/ LocksUser(p)
    \/ \E p, q \in Person : SubstitutionCreate(p, q)
    \/ \E day \in StartDay \cup {None} : MoveTo(day)
    \/ \E d \in Device : StatusForSession(d) \/ (\E p \in Person : Register(d, p))
                        \/ \E h \in BOOLEAN : SessionEnds(d, h)

LEMMA WorldStep == PushInv /\ World => PushInv'
<1> SUFFICES ASSUME PushInv, World PROVE PushInv' OBVIOUS
<1> USE DEF PushTyped
<1>0. PushTyped BY DEF PushInv
<1>1. /\ push' = push /\ marker' = marker /\ risk' = risk /\ visit' = visit
      /\ works' \subseteq works
  BY DEF World, CallOff, AssignOnDay, SubstitutionEnd, LocksUser, SubstitutionCreate, MoveTo,
         StatusForSession, Register, SessionEnds, AppointmentOnly, DeviceOnly
<1>2. edits' \in Nat
  <2>1. edits' = edits \/ (edits > 0 /\ edits' = edits - 1)
    BY DEF World, CallOff, AssignOnDay, SubstitutionEnd, LocksUser, SubstitutionCreate, MoveTo,
           StatusForSession, Register, SessionEnds, Edit
  <2>2. edits \in Nat BY <1>0
  <2> HIDE DEF PushTyped
  <2> QED BY <2>1, <2>2
<1>3. standIn' \in [Person -> Person \cup {None}]
  BY <1>0 DEF World, CallOff, AssignOnDay, SubstitutionEnd, LocksUser, SubstitutionCreate, MoveTo,
         StatusForSession, Register, SessionEnds, AppointmentOnly, DeviceOnly
<1>4. meetup' \in Meetup
  <2>1. meetup \in Meetup /\ edits \in Nat BY <1>0
  <2>2. CASE CallOff
    BY <2>1, <2>2 DEF CallOff, Meetup
  <2>3. ASSUME NEW p \in Person, AssignOnDay(p) PROVE meetup' \in Meetup
    <3>1. PICK r \in Nat, a \in Person \cup {None} :
            meetup' = [meetup EXCEPT !.assigned = p, !.notified = FALSE, !.requested = r, !.asked = a]
      BY <2>1, <2>3 DEF AssignOnDay
    <3> QED BY <2>1, <3>1 DEF Meetup
  <2>4. ASSUME NEW day \in StartDay \cup {None}, MoveTo(day) PROVE meetup' \in Meetup
    BY <2>1, <2>4 DEF MoveTo, Meetup
  <2>5. CASE meetup' = meetup BY <2>1, <2>5
  <2> QED BY <2>2, <2>3, <2>4, <2>5
        DEF World, SubstitutionEnd, LocksUser, SubstitutionCreate, StatusForSession, Register, SessionEnds, DeviceOnly
<1>5. device' \in [Device -> [owner : Person, live : BOOLEAN, on : BOOLEAN]]
  <2> DEFINE Row == [owner : Person, live : BOOLEAN, on : BOOLEAN]
  <2>1. device \in [Device -> Row] BY <1>0
  <2>2. ASSUME NEW p \in Person, LocksUser(p) PROVE device' \in [Device -> Row]
    BY <2>1, <2>2 DEF LocksUser
  <2>3. ASSUME NEW d \in Device, StatusForSession(d) PROVE device' \in [Device -> Row]
    BY <2>1, <2>3 DEF StatusForSession
  <2>4. ASSUME NEW d \in Device, NEW p \in Person, Register(d, p) PROVE device' \in [Device -> Row]
    BY <2>1, <2>4 DEF Register
  <2>5. ASSUME NEW d \in Device, NEW h \in BOOLEAN, SessionEnds(d, h) PROVE device' \in [Device -> Row]
    <3>1. PICK o \in BOOLEAN : device' = [device EXCEPT ![d].live = FALSE, ![d].on = o]
      BY <2>1, <2>5 DEF SessionEnds
    <3> QED BY <2>1, <3>1
  <2>6. CASE device' = device BY <2>1, <2>6
  <2> QED BY <2>2, <2>3, <2>4, <2>5, <2>6
        DEF World, CallOff, AssignOnDay, SubstitutionEnd, SubstitutionCreate, MoveTo, AppointmentOnly
<1>6. PushTyped' BY <1>0, <1>1, <1>2, <1>3, <1>4, <1>5
<1>7. RowsKept
  <2>1. push \in Seq(PushRow) BY <1>0
  <2>2. Len(push) \in Nat BY <2>1
  <2> QED BY <2>2, <1>1 DEF RowsKept
<1>8. ScanTells' /\ RiskReachesAll' BY <1>1, <1>6, <1>7, RiskUndisturbed
<1>9. RiskIsCurrent' /\ MarkedIsCarried' BY <1>1 DEF PushInv, RiskIsCurrent, MarkedIsCarried
<1> QED BY <1>6, <1>8, <1>9 DEF PushInv

-----------------------------------------------------------------------------
LEMMA VisitWritten ==
    ASSUME PushTyped, NEW w \in Clerk, NEW rec \in Visit, visit' = [visit EXCEPT ![w] = rec]
    PROVE  /\ visit' \in [Clerk -> Visit] /\ visit'[w] = rec
           /\ \A v \in Clerk : v # w => visit'[v] = visit[v]
BY DEF PushTyped

LEMMA OpOfVisit ==
    ASSUME PushTyped, NEW w \in Clerk
    PROVE  /\ visit[w].op = "remind" => visit[w] \in Remind
           /\ visit[w].op = "reassign" => visit[w] \in Reassign
           /\ visit[w].op = "claimed" => visit[w] \in Queueing
           /\ visit[w].op = "risk" => visit[w] \in Tell
           /\ visit[w].op = "send" => visit[w] \in Send
<1>1. visit[w] \in Visit BY DEF PushTyped
<1> QED BY <1>1 DEF Visit, NoVisit, Remind, Reassign, Queueing, Tell, Send

LEMMA RowsTyped ==
    ASSUME PushTyped
    PROVE  /\ push \in Seq(PushRow) /\ Len(push) \in Nat /\ DOMAIN push = 1 .. Len(push)
           /\ \A i \in 1 .. Len(push) : push[i] \in PushRow
<1>1. push \in Seq(PushRow) BY DEF PushTyped
<1> QED BY <1>1

LEMMA NoticeAdded ==
    ASSUME PushTyped, NEW n \in PushRow, push' = Append(push, n)
    PROVE  /\ push' \in Seq(PushRow) /\ Len(push') = Len(push) + 1 /\ push'[Len(push')] = n
           /\ \A i \in 1 .. Len(push) : push'[i] = push[i]
           /\ RowsKept
<1>1. push \in Seq(PushRow) /\ Len(push) \in Nat BY RowsTyped
<1>2. push' \in Seq(PushRow) /\ Len(push') = Len(push) + 1 BY <1>1
<1>3. \A i \in 1 .. Len(push) : push'[i] = push[i] BY <1>1
<1>4. push'[Len(push) + 1] = n BY <1>1
<1> QED BY <1>1, <1>2, <1>3, <1>4 DEF RowsKept

LEMMA NoticeChanged ==
    ASSUME PushTyped, NEW i \in 1 .. Len(push), NEW n \in PushRow, push' = [push EXCEPT ![i] = n],
           n.kind = push[i].kind, n.version = push[i].version, n.to = push[i].to,
           n.free => push[i].free \/ n.kind # "risk"
    PROVE  /\ push' \in Seq(PushRow) /\ Len(push') = Len(push) /\ push'[i] = n
           /\ \A j \in 1 .. Len(push) : j # i => push'[j] = push[j]
           /\ RowsKept
<1>1. push \in Seq(PushRow) /\ Len(push) \in Nat BY RowsTyped
<1>2. push' \in Seq(PushRow) /\ Len(push') = Len(push) BY <1>1
<1>3. \A j \in 1 .. Len(push) : push'[j] = IF j = i THEN n ELSE push[j] BY <1>1
<1> QED BY <1>1, <1>2, <1>3 DEF RowsKept

LEMMA IdsStay ==
    ASSUME PushTyped, NEW w \in Clerk, Len(push) <= Len(push'), Len(push') \in Nat,
           \A v \in Clerk : v # w => visit'[v] = visit[v],
           visit'[w].op \in {"claimed", "send"} => visit'[w].id \in 1 .. Len(push')
    PROVE  \A v \in Clerk : visit'[v].op \in {"claimed", "send"} => visit'[v].id \in 1 .. Len(push')
<1> SUFFICES ASSUME NEW v \in Clerk, v # w, visit'[v].op \in {"claimed", "send"}
             PROVE  visit'[v].id \in 1 .. Len(push')
  OBVIOUS
<1>1. visit'[v] = visit[v] OBVIOUS
<1>2. visit[v].id \in 1 .. Len(push) BY <1>1 DEF PushTyped
<1>3. Len(push) \in Nat BY RowsTyped
<1>4. 1 .. Len(push) \subseteq 1 .. Len(push') BY <1>3
<1> QED BY <1>1, <1>2, <1>4

(* A step of one request that leaves what is known of a risk as it is.       *)
LEMMA OneStep ==
    ASSUME PushInv, PushTyped', RowsKept, risk' = risk, works' = works, MarkedIsCarried',
           NEW w \in Clerk, \A v \in Clerk : v # w => visit'[v] = visit[v],
           visit'[w].op = "risk" => visit'[w] = visit[w],
           visit'[w].op = "send" /\ push'[visit'[w].id].kind = "risk" => visit'[w].fate = "current"
    PROVE  PushInv'
<1>1. ScanTells' /\ RiskReachesAll'
  <2>1. \A v \in Clerk : visit'[v].op = "risk" => visit'[v] = visit[v] OBVIOUS
  <2>2. works' \subseteq works OBVIOUS
  <2> QED BY <2>1, <2>2, RiskUndisturbed
<1>2. RiskIsCurrent'
  <2> SUFFICES ASSUME NEW v \in Clerk, visit'[v].op = "send", push'[visit'[v].id].kind = "risk"
               PROVE  visit'[v].fate = "current"
    BY DEF RiskIsCurrent
  <2>1. CASE v = w BY <2>1
  <2>2. CASE v # w
    <3>1. visit'[v] = visit[v] BY <2>2
    <3>2. visit[v].id \in 1 .. Len(push) BY <3>1 DEF PushInv, PushTyped
    <3> QED BY <3>1, <3>2 DEF PushInv, RiskIsCurrent, RowsKept
  <2> QED BY <2>1, <2>2
<1> QED BY <1>1, <1>2 DEF PushInv

(* A notice that is new carries its key, and is of the right shape.          *)
LEMMA NewNoticeShape ==
    ASSUME NEW kind \in Kinds, NEW version \in {"today"} \cup Nat, NEW p \in Person,
           NEW j \in {"missing", "ready"}
    PROVE  LET n == [NewNotice(kind, version, p) EXCEPT !.job = j]
           IN n \in PushRow /\ ~n.free /\ n.kind = kind /\ n.version = version /\ n.to = p
BY DEF NewNotice, PushRow

LEMMA CreatedShape ==
    ASSUME NEW kind \in Kinds, NEW version \in {"today"} \cup Nat, NEW p \in Person
    PROVE  NewNotice(kind, version, p) \in PushRow /\ ~NewNotice(kind, version, p).free
BY DEF NewNotice, PushRow

(* What the scans read and what they drop writes no notice.                  *)
Reading(w) == ScanReminders(w) \/ ScanReassignments(w) \/ DiesBeforeJob(w) \/ ScanDies(w)
LEMMA ReadingStep == \A w \in Clerk : PushInv /\ Reading(w) => PushInv'
<1> SUFFICES ASSUME NEW w \in Clerk, PushInv, Reading(w) PROVE PushInv' OBVIOUS
<1>0. PushTyped BY DEF PushInv
<1>1. UNCHANGED <<meetup, standIn, works, device, push, marker, risk, edits>>
  BY DEF Reading, ScanReminders, ScanReassignments, DiesBeforeJob, ScanDies
<1>2. PICK rec \in {NoVisit} \cup Remind \cup Reassign : visit' = [visit EXCEPT ![w] = rec]
  <2>1. CASE ScanReminders(w)
    <3>1. meetup.assigned \in Person BY <1>0 DEF PushTyped, Meetup
    <3>2. EffectiveOf(meetup.assigned) \in Person BY <1>0, <3>1, EffectiveIsPerson
    <3> QED BY <2>1, <3>2 DEF ScanReminders, Begin, Remind
  <2>2. CASE ScanReassignments(w)
    <3>1. meetup.requested \in Nat /\ meetup.asked \in Person \cup {None} BY <1>0 DEF PushTyped, Meetup
    <3> QED BY <2>2, <3>1 DEF ScanReassignments, Begin, Reassign
  <2>3. CASE DiesBeforeJob(w) \/ ScanDies(w) BY <2>3 DEF DiesBeforeJob, ScanDies, End
  <2> QED BY <2>1, <2>2, <2>3 DEF Reading
<1>3. /\ visit' \in [Clerk -> Visit] /\ visit'[w] = rec
      /\ \A v \in Clerk : v # w => visit'[v] = visit[v]
  BY <1>0, <1>2, VisitWritten DEF Visit
<1>4. rec.op \in {"none", "remind", "reassign"} BY <1>2 DEF NoVisit, Remind, Reassign
<1>5. PushTyped' BY <1>0, <1>1, <1>3, <1>4 DEF PushTyped
<1>6. RowsKept BY <1>0, <1>1, RowsTyped DEF RowsKept
<1>7. ScanTells' /\ RiskReachesAll' BY <1>1, <1>3, <1>4, <1>5, <1>6, RiskUndisturbed
<1>8. RiskIsCurrent' BY <1>1, <1>3, <1>4 DEF PushInv, RiskIsCurrent
<1>9. MarkedIsCarried' BY <1>1 DEF PushInv, MarkedIsCarried
<1> QED BY <1>5, <1>7, <1>8, <1>9 DEF PushInv

LEMMA ClaimReminderStep == \A w \in Clerk : PushInv /\ ClaimReminder(w) => PushInv'
<1> SUFFICES ASSUME NEW w \in Clerk, PushInv, ClaimReminder(w) PROVE PushInv' OBVIOUS
<1> DEFINE p == visit[w].to
           f == <<"today", p>>
           old == KeyTaken("soon", "today", p)
           id == IF old = {} THEN Len(push) + 1 ELSE CHOOSE i \in old : TRUE
<1>0. PushTyped BY DEF PushInv
<1>1. visit[w].op = "remind" /\ UNCHANGED <<meetup, standIn, works, device, risk, edits>>
  BY DEF ClaimReminder
<1>2. p \in Person BY <1>0, <1>1, OpOfVisit DEF Remind
<1>3. f \in StartDay \X Person BY <1>2 DEF StartDay
<1>4. /\ push \in Seq(PushRow) /\ Len(push) \in Nat /\ DOMAIN push = 1 .. Len(push)
      /\ marker \in [StartDay \X Person -> 0 .. Len(push)]
  BY <1>0, RowsTyped DEF PushTyped
<1>5. old # {} => id \in 1 .. Len(push) /\ ~push[id].free
  BY <1>4 DEF KeyTaken
<1>a. CASE visit' = [visit EXCEPT ![w] = NoVisit] /\ push' = push /\ marker' = marker
  <2>1. /\ visit' \in [Clerk -> Visit] /\ visit'[w] = NoVisit
        /\ \A v \in Clerk : v # w => visit'[v] = visit[v]
    BY <1>0, <1>a, VisitWritten DEF Visit
  <2>2. NoVisit.op = "none" BY DEF NoVisit
  <2>3. PushTyped' BY <1>0, <1>1, <1>a, <2>1, <2>2 DEF PushTyped
  <2>4. RowsKept BY <1>4, <1>a DEF RowsKept
  <2>5. ScanTells' /\ RiskReachesAll' BY <1>1, <2>1, <2>2, <2>3, <2>4, RiskUndisturbed
  <2>6. RiskIsCurrent' BY <1>a, <2>1, <2>2 DEF PushInv, RiskIsCurrent
  <2>7. MarkedIsCarried' BY <1>a DEF PushInv, MarkedIsCarried
  <2> QED BY <2>3, <2>5, <2>6, <2>7 DEF PushInv
<1>b. CASE /\ IF old = {} THEN CreateDelivery("soon", "today", p) ELSE push' = push
           /\ marker' = [marker EXCEPT ![f] = id] /\ visit' = [visit EXCEPT ![w] = [op |-> "claimed", id |-> id]]
  <2> DEFINE n == NewNotice("soon", "today", p)
  <2>1. /\ push' \in Seq(PushRow) /\ Len(push') \in Nat /\ Len(push) <= Len(push') /\ RowsKept
        /\ \A i \in 1 .. Len(push) : push'[i] = push[i]
        /\ id \in 1 .. Len(push') /\ ~push'[id].free
    <3>1. CASE old = {}
      <4>1. push' = Append(push, n) BY <1>b, <3>1 DEF CreateDelivery
      <4>2. n \in PushRow /\ ~n.free BY <1>2, CreatedShape DEF Kinds
      <4> HIDE DEF n
      <4>3. /\ push' \in Seq(PushRow) /\ Len(push') = Len(push) + 1 /\ push'[Len(push')] = n
            /\ \A i \in 1 .. Len(push) : push'[i] = push[i]
            /\ RowsKept
        BY <1>0, <4>1, <4>2, NoticeAdded
      <4>4. id = Len(push) + 1 BY <3>1
      <4> HIDE DEF id
      <4> QED BY <1>4, <4>2, <4>3, <4>4
    <3>2. CASE old # {}
      <4>1. push' = push BY <1>b, <3>2
      <4>2. id \in 1 .. Len(push) /\ ~push[id].free BY <1>5, <3>2
      <4> HIDE DEF id
      <4> QED BY <1>4, <4>1, <4>2 DEF RowsKept
    <3> QED BY <3>1, <3>2
  <2> HIDE DEF id, old
  <2>2. [op |-> "claimed", id |-> id] \in Visit BY <2>1 DEF Visit, Queueing
  <2>3. /\ visit' \in [Clerk -> Visit] /\ visit'[w] = [op |-> "claimed", id |-> id]
        /\ \A v \in Clerk : v # w => visit'[v] = visit[v]
    BY <1>0, <1>b, <2>2, VisitWritten
  <2>4. marker' \in [StartDay \X Person -> 0 .. Len(push')]
    <3>1. 0 .. Len(push) \subseteq 0 .. Len(push') /\ id \in 0 .. Len(push') BY <1>4, <2>1
    <3> HIDE DEF f
    <3> QED BY <1>b, <1>3, <1>4, <3>1
  <2>5. \A v \in Clerk : visit'[v].op \in {"claimed", "send"} => visit'[v].id \in 1 .. Len(push')
    BY <1>0, <2>1, <2>3, IdsStay
  <2>6. PushTyped' BY <1>0, <1>1, <2>1, <2>3, <2>4, <2>5 DEF PushTyped
  <2>7. MarkedIsCarried'
    <3> SUFFICES ASSUME NEW g \in DOMAIN marker', marker'[g] # 0 PROVE ~push'[marker'[g]].free
      BY DEF MarkedIsCarried
    <3>1. CASE g = f
      <4>1. marker'[g] = id BY <3>1, <1>b, <1>3, <1>4
      <4> QED BY <4>1, <2>1
    <3>2. CASE g # f
      <4>1. marker'[g] = marker[g] /\ g \in DOMAIN marker BY <3>2, <1>b, <1>4
      <4>2. marker[g] \in 1 .. Len(push) /\ ~push[marker[g]].free
        BY <4>1, <1>4 DEF PushInv, MarkedIsCarried
      <4> QED BY <4>1, <4>2, <2>1
    <3> QED BY <3>1, <3>2
  <2> QED BY <1>1, <2>1, <2>3, <2>6, <2>7, OneStep
<1> QED BY <1>a, <1>b DEF ClaimReminder, End, Claimed, Continue

LEMMA ClaimReassignmentStep == \A w \in Clerk : PushInv /\ ClaimReassignment(w) => PushInv'
<1> SUFFICES ASSUME NEW w \in Clerk, PushInv, ClaimReassignment(w) PROVE PushInv' OBVIOUS
<1> DEFINE v == visit[w].version
           p == EffectiveOf(meetup.assigned)
           n == NewNotice("reassigned", v, p)
<1>0. PushTyped BY DEF PushInv
<1>1. visit[w].op = "reassign" /\ UNCHANGED <<standIn, works, device, marker, risk, edits>>
  BY DEF ClaimReassignment
<1>2. v \in Nat BY <1>0, <1>1, OpOfVisit DEF Reassign
<1>3. p \in Person
  <2>1. meetup.assigned \in Person BY <1>0 DEF PushTyped, Meetup
  <2> QED BY <1>0, <2>1, EffectiveIsPerson
<1>4. push \in Seq(PushRow) /\ Len(push) \in Nat BY <1>0, RowsTyped
<1>5. meetup' \in Meetup
  <2>1. meetup \in Meetup BY <1>0 DEF PushTyped
  <2>2. meetup' = meetup \/ meetup' = [meetup EXCEPT !.notified = TRUE] BY DEF ClaimReassignment
  <2> QED BY <2>1, <2>2 DEF Meetup
<1>6. \/ push' = push /\ visit' = [visit EXCEPT ![w] = NoVisit]
      \/ push' = Append(push, n) /\ visit' = [visit EXCEPT ![w] = [op |-> "claimed", id |-> Len(push) + 1]]
  BY DEF ClaimReassignment, End, Claimed, Continue, CreateDelivery
<1>7. /\ push' \in Seq(PushRow) /\ Len(push') \in Nat /\ Len(push) <= Len(push') /\ RowsKept
      /\ \A i \in 1 .. Len(push) : push'[i] = push[i]
  <2>1. n \in PushRow BY <1>2, <1>3, CreatedShape DEF Kinds
  <2> HIDE DEF n
  <2>2. CASE push' = push BY <1>4, <2>2 DEF RowsKept
  <2>3. CASE push' = Append(push, n)
    <3>1. /\ push' \in Seq(PushRow) /\ Len(push') = Len(push) + 1
          /\ \A i \in 1 .. Len(push) : push'[i] = push[i]
          /\ RowsKept
      BY <1>0, <2>1, <2>3, NoticeAdded
    <3> QED BY <1>4, <3>1
  <2> QED BY <1>6, <2>2, <2>3
<1>8. PICK rec \in {NoVisit} \cup Queueing :
        visit' = [visit EXCEPT ![w] = rec] /\ (rec.op = "claimed" => rec.id \in 1 .. Len(push'))
  <2>1. CASE push' = push /\ visit' = [visit EXCEPT ![w] = NoVisit]
    <3>1. NoVisit.op # "claimed" BY DEF NoVisit
    <3> QED BY <2>1, <3>1
  <2>2. CASE push' = Append(push, n) /\ visit' = [visit EXCEPT ![w] = [op |-> "claimed", id |-> Len(push) + 1]]
    <3>1. Len(push') = Len(push) + 1 BY <1>4, <2>2
    <3>2. Len(push) + 1 \in 1 .. Len(push') /\ Len(push) + 1 \in Nat BY <1>4, <3>1
    <3> DEFINE r == [op |-> "claimed", id |-> Len(push) + 1]
    <3>3. r \in Queueing /\ r.id \in 1 .. Len(push') BY <3>2 DEF Queueing
    <3>4. visit' = [visit EXCEPT ![w] = r] BY <2>2
    <3> HIDE DEF r
    <3> QED BY <3>3, <3>4
  <2> QED BY <1>6, <2>1, <2>2
<1>9. /\ visit' \in [Clerk -> Visit] /\ visit'[w] = rec
      /\ \A u \in Clerk : u # w => visit'[u] = visit[u]
  BY <1>0, <1>8, VisitWritten DEF Visit
<1>10. rec.op \in {"none", "claimed"} BY <1>8 DEF NoVisit, Queueing
<1>11. \A u \in Clerk : visit'[u].op \in {"claimed", "send"} => visit'[u].id \in 1 .. Len(push')
  BY <1>0, <1>7, <1>8, <1>9, <1>10, IdsStay
<1>12. marker' \in [StartDay \X Person -> 0 .. Len(push')]
  <2>1. 0 .. Len(push) \subseteq 0 .. Len(push') BY <1>4, <1>7
  <2>2. marker \in [StartDay \X Person -> 0 .. Len(push)] BY <1>0 DEF PushTyped
  <2> QED BY <1>1, <2>1, <2>2
<1>13. PushTyped' BY <1>0, <1>1, <1>5, <1>7, <1>9, <1>11, <1>12 DEF PushTyped
<1>14. MarkedIsCarried'
  <2> SUFFICES ASSUME NEW g \in DOMAIN marker, marker[g] # 0 PROVE ~push'[marker[g]].free
    BY <1>1 DEF MarkedIsCarried
  <2>1. marker[g] \in 0 .. Len(push) BY <1>0 DEF PushTyped
  <2>2. marker[g] \in 1 .. Len(push) /\ ~push[marker[g]].free BY <1>4, <2>1 DEF PushInv, MarkedIsCarried
  <2> QED BY <2>2, <1>7
<1> QED BY <1>1, <1>7, <1>9, <1>10, <1>13, <1>14, OneStep

(* A step that changes one row, and neither gives its key back nor takes a   *)
(* mark.                                                                     *)
LEMMA MarksStay ==
    ASSUME PushInv, PushTyped', marker' = marker, RowsKept,
           \A i \in 1 .. Len(push) : push'[i].free => push[i].free
    PROVE  MarkedIsCarried'
<1> SUFFICES ASSUME NEW g \in DOMAIN marker, marker[g] # 0 PROVE ~push'[marker[g]].free
  BY DEF MarkedIsCarried
<1>0. PushTyped BY DEF PushInv
<1>1. marker[g] \in 0 .. Len(push) /\ Len(push) \in Nat BY <1>0, RowsTyped DEF PushTyped
<1>2. marker[g] \in 1 .. Len(push) /\ ~push[marker[g]].free BY <1>1 DEF PushInv, MarkedIsCarried
<1> QED BY <1>2

LEMMA JobStep ==
    \A i \in DOMAIN push :
        PushInv /\ (ScheduleOutboxBackstop(i) \/ (\E w \in Clerk : EnqueueSendJob(w))) => PushInv'
<1> SUFFICES ASSUME NEW i \in DOMAIN push, PushInv,
                    ScheduleOutboxBackstop(i) \/ (\E w \in Clerk : EnqueueSendJob(w))
             PROVE  PushInv'
  OBVIOUS
<1>0. PushTyped BY DEF PushInv
<1>1. UNCHANGED <<meetup, standIn, works, device, marker, risk, edits>>
  BY DEF ScheduleOutboxBackstop, EnqueueSendJob
<1>2. /\ push \in Seq(PushRow) /\ Len(push) \in Nat /\ DOMAIN push = 1 .. Len(push)
      /\ \A j \in 1 .. Len(push) : push[j] \in PushRow
  BY <1>0, RowsTyped
<1>3. PICK w \in Clerk : visit' = visit \/ visit' = [visit EXCEPT ![w] = NoVisit]
  BY ActorsAssumption DEF ScheduleOutboxBackstop, EnqueueSendJob, End
<1>4. PICK k \in 1 .. Len(push), j \in {"missing", "ready", "running", "done"} :
        push' = [push EXCEPT ![k].job = j]
  <2>1. CASE ScheduleOutboxBackstop(i) BY <2>1, <1>2 DEF ScheduleOutboxBackstop
  <2>2. ASSUME NEW u \in Clerk, EnqueueSendJob(u)
        PROVE  \E k \in 1 .. Len(push), j \in {"missing", "ready", "running", "done"} :
                  push' = [push EXCEPT ![k].job = j]
    <3> DEFINE k == visit[u].id
    <3>1. k \in 1 .. Len(push) BY <2>2, <1>0 DEF EnqueueSendJob, PushTyped
    <3>2. push[k] \in PushRow BY <3>1, <1>2
    <3>3. push[k].job \in {"missing", "ready", "running", "done"} BY <3>2 DEF PushRow
    <3>4. push' = [push EXCEPT ![k].job = "ready"] \/ push' = [push EXCEPT ![k].job = push[k].job]
      BY <2>2, <3>1, <1>2 DEF EnqueueSendJob
    <3> HIDE DEF k
    <3> QED BY <3>1, <3>3, <3>4
  <2> QED BY <2>1, <2>2
<1>5. /\ push' \in Seq(PushRow) /\ Len(push') = Len(push) /\ RowsKept
      /\ \A x \in 1 .. Len(push) : push'[x].free = push[x].free
  <2> DEFINE n == [push[k] EXCEPT !.job = j]
  <2>1. push[k] \in PushRow BY <1>2
  <2>2. /\ n \in PushRow /\ n.kind = push[k].kind /\ n.version = push[k].version /\ n.to = push[k].to
        /\ n.free = push[k].free
    BY <2>1 DEF PushRow
  <2>3. push' = [push EXCEPT ![k] = n] BY <1>4
  <2> HIDE DEF n
  <2>4. /\ push' \in Seq(PushRow) /\ Len(push') = Len(push) /\ push'[k] = n
        /\ \A x \in 1 .. Len(push) : x # k => push'[x] = push[x]
        /\ RowsKept
    BY <1>0, <2>2, <2>3, NoticeChanged
  <2> QED BY <2>2, <2>4
<1>6. /\ visit' \in [Clerk -> Visit]
      /\ \A u \in Clerk : u # w => visit'[u] = visit[u]
      /\ visit'[w] = visit[w] \/ visit'[w].op = "none"
  <2>1. CASE visit' = visit BY <1>0, <2>1 DEF PushTyped
  <2>2. CASE visit' = [visit EXCEPT ![w] = NoVisit]
    BY <1>0, <2>2, VisitWritten DEF Visit, NoVisit
  <2> QED BY <1>3, <2>1, <2>2
<1>7. \A u \in Clerk : visit'[u].op \in {"claimed", "send"} => visit'[u].id \in 1 .. Len(push')
  <2>1. visit'[w].op \in {"claimed", "send"} => visit'[w].id \in 1 .. Len(push')
    BY <1>0, <1>5, <1>6 DEF PushTyped
  <2> QED BY <1>0, <1>2, <1>5, <1>6, <2>1, IdsStay
<1>8. PushTyped' BY <1>0, <1>1, <1>5, <1>6, <1>7 DEF PushTyped
<1>9. MarkedIsCarried' BY <1>1, <1>5, <1>8, MarksStay
<1>10. visit'[w].op = "send" /\ push'[visit'[w].id].kind = "risk" => visit'[w].fate = "current"
  <2> SUFFICES ASSUME visit'[w].op = "send", push'[visit'[w].id].kind = "risk" PROVE visit'[w].fate = "current"
    OBVIOUS
  <2>1. visit'[w] = visit[w] /\ visit[w].id \in 1 .. Len(push) BY <1>0, <1>6 DEF PushTyped
  <2> QED BY <2>1, <1>5 DEF PushInv, RiskIsCurrent, RowsKept
<1>11. visit'[w].op = "risk" => visit'[w] = visit[w] BY <1>6
<1> QED BY <1>1, <1>5, <1>6, <1>8, <1>9, <1>10, <1>11, OneStep

-----------------------------------------------------------------------------
(* The scan that tells of a risk.                                            *)
LEMMA ScanMachineRisksStep == \A w \in Clerk : PushInv /\ ScanMachineRisks(w) => PushInv'
<1> SUFFICES ASSUME NEW w \in Clerk, PushInv, ScanMachineRisks(w) PROVE PushInv' OBVIOUS
<1> DEFINE rec == [op |-> "risk", stage |-> Stage, todo |-> works]
<1>0. PushTyped BY DEF PushInv
<1>1. /\ UNCHANGED <<meetup, standIn, works, device, push, marker, risk, edits>>
      /\ risk \in {"open", "told"} /\ visit' = [visit EXCEPT ![w] = rec]
  BY DEF ScanMachineRisks, Begin
<1>2. rec \in Visit /\ rec.op = "risk" /\ rec.todo = works /\ (rec.stage = "risk6h" => risk = "told")
  BY <1>0, <1>1 DEF PushTyped, Visit, Tell, Stage
<1> HIDE DEF rec
<1>3. /\ visit' \in [Clerk -> Visit] /\ visit'[w] = rec
      /\ \A v \in Clerk : v # w => visit'[v] = visit[v]
  BY <1>0, <1>1, <1>2, VisitWritten
<1>4. PushTyped' BY <1>0, <1>1, <1>2, <1>3 DEF PushTyped
<1>5. ScanTells'
  <2> SUFFICES ASSUME NEW v \in Clerk, visit'[v].op = "risk"
               PROVE  /\ visit'[v].stage = "risk" => \A p \in works : p \in visit'[v].todo \/ HasRisk(p)
                      /\ visit'[v].stage = "risk6h" => risk \in {"told", "told twice"}
    BY <1>1 DEF ScanTells, HasRisk, KeyTaken
  <2>1. CASE v = w BY <2>1, <1>2, <1>3
  <2>2. CASE v # w
    <3>1. visit'[v] = visit[v] BY <2>2, <1>3
    <3> QED BY <3>1 DEF PushInv, ScanTells
  <2> QED BY <2>1, <2>2
<1>6. RiskIsCurrent' BY <1>1, <1>2, <1>3 DEF PushInv, RiskIsCurrent
<1>7. MarkedIsCarried' /\ RiskReachesAll' BY <1>1 DEF PushInv, MarkedIsCarried, RiskReachesAll, KeyTaken
<1> QED BY <1>4, <1>5, <1>6, <1>7 DEF PushInv

LEMMA EnqueueForUserStep == \A w \in Clerk, p \in Person : PushInv /\ EnqueueForUser(w, p) => PushInv'
<1> SUFFICES ASSUME NEW w \in Clerk, NEW p \in Person, PushInv, EnqueueForUser(w, p) PROVE PushInv' OBVIOUS
<1> DEFINE st == visit[w].stage
           n == [NewNotice(st, 0, p) EXCEPT !.job = "ready"]
           rec == [visit[w] EXCEPT !.todo = @ \ {p}]
<1>0. PushTyped BY DEF PushInv
<1>1. /\ UNCHANGED <<meetup, standIn, works, device, marker, risk, edits>>
      /\ visit[w].op = "risk" /\ visit' = [visit EXCEPT ![w] = rec]
      /\ push' = IF KeyTaken(st, 0, p) # {} THEN push ELSE Append(push, n)
  BY DEF EnqueueForUser, Continue
<1>2. visit[w] \in Tell BY <1>0, <1>1, OpOfVisit
<1>3. /\ rec \in Tell /\ rec.op = "risk" /\ rec.stage = st /\ rec.todo = visit[w].todo \ {p}
      /\ st \in {"risk", "risk6h"}
  BY <1>2 DEF Tell
<1>4. n \in PushRow /\ ~n.free /\ n.kind = st /\ n.version = 0 /\ n.to = p
  BY <1>3 DEF NewNotice, PushRow, Kinds
<1>5. push \in Seq(PushRow) /\ Len(push) \in Nat /\ DOMAIN push = 1 .. Len(push) BY <1>0, RowsTyped
<1> HIDE DEF rec, n
<1>6. /\ push' \in Seq(PushRow) /\ Len(push') \in Nat /\ Len(push) <= Len(push') /\ RowsKept
      /\ \A i \in 1 .. Len(push) : push'[i] = push[i]
      /\ \E i \in 1 .. Len(push') : push'[i].kind = st /\ push'[i].version = 0 /\ push'[i].to = p /\ ~push'[i].free
  <2>1. CASE KeyTaken(st, 0, p) # {}
    <3>1. push' = push BY <1>1, <2>1
    <3>2. \E i \in 1 .. Len(push) : push[i].kind = st /\ push[i].version = 0 /\ push[i].to = p /\ ~push[i].free
      BY <2>1, <1>5 DEF KeyTaken
    <3> QED BY <3>1, <3>2, <1>5 DEF RowsKept
  <2>2. CASE KeyTaken(st, 0, p) = {}
    <3>1. push' = Append(push, n) BY <1>1, <2>2
    <3>2. /\ push' \in Seq(PushRow) /\ Len(push') = Len(push) + 1 /\ push'[Len(push')] = n
          /\ \A i \in 1 .. Len(push) : push'[i] = push[i]
          /\ RowsKept
      BY <1>0, <1>4, <3>1, NoticeAdded
    <3>3. Len(push') \in 1 .. Len(push') BY <3>2, <1>5
    <3> QED BY <1>4, <1>5, <3>2, <3>3
  <2> QED BY <2>1, <2>2
<1>7. st = "risk" => HasRisk(p)'
  <2> SUFFICES ASSUME st = "risk" PROVE KeyTaken("risk", 0, p)' # {} BY DEF HasRisk
  <2>1. PICK i \in 1 .. Len(push') :
          push'[i].kind = "risk" /\ push'[i].version = 0 /\ push'[i].to = p /\ ~push'[i].free
    BY <1>6
  <2>2. i \in DOMAIN push' BY <1>6
  <2> QED BY <2>1, <2>2 DEF KeyTaken
<1>8. /\ visit' \in [Clerk -> Visit] /\ visit'[w] = rec
      /\ \A v \in Clerk : v # w => visit'[v] = visit[v]
  BY <1>0, <1>1, <1>3, VisitWritten DEF Visit
<1>9. \A v \in Clerk : visit'[v].op \in {"claimed", "send"} => visit'[v].id \in 1 .. Len(push')
  BY <1>0, <1>3, <1>6, <1>8, IdsStay
<1>10. marker' \in [StartDay \X Person -> 0 .. Len(push')]
  <2>1. 0 .. Len(push) \subseteq 0 .. Len(push') BY <1>5, <1>6
  <2>2. marker \in [StartDay \X Person -> 0 .. Len(push)] BY <1>0 DEF PushTyped
  <2> QED BY <1>1, <2>1, <2>2
<1>11. PushTyped' BY <1>0, <1>1, <1>6, <1>8, <1>9, <1>10 DEF PushTyped
<1>12. \A q : HasRisk(q) => HasRisk(q)' BY <1>0, <1>6, <1>11, RiskNoticeStays
<1>13. ScanTells'
  <2> SUFFICES ASSUME NEW v \in Clerk, visit'[v].op = "risk"
               PROVE  /\ visit'[v].stage = "risk" => \A q \in works : q \in visit'[v].todo \/ HasRisk(q)'
                      /\ visit'[v].stage = "risk6h" => risk \in {"told", "told twice"}
    BY <1>1 DEF ScanTells
  <2>1. CASE v = w BY <2>1, <1>1, <1>3, <1>7, <1>8, <1>12 DEF PushInv, ScanTells
  <2>2. CASE v # w
    <3>1. visit'[v] = visit[v] BY <2>2, <1>8
    <3> QED BY <3>1, <1>12 DEF PushInv, ScanTells
  <2> QED BY <2>1, <2>2
<1>14. RiskReachesAll' BY <1>1, <1>12 DEF PushInv, RiskReachesAll, HasRisk
<1>15. RiskIsCurrent'
  <2> SUFFICES ASSUME NEW v \in Clerk, visit'[v].op = "send", push'[visit'[v].id].kind = "risk"
               PROVE  visit'[v].fate = "current"
    BY DEF RiskIsCurrent
  <2>1. visit'[v] = visit[v] BY <1>3, <1>8
  <2>2. visit[v].id \in 1 .. Len(push) BY <1>0, <2>1 DEF PushTyped
  <2> QED BY <2>1, <2>2, <1>6 DEF PushInv, RiskIsCurrent
<1>16. MarkedIsCarried' BY <1>1, <1>6, <1>11, MarksStay
<1> QED BY <1>11, <1>13, <1>14, <1>15, <1>16 DEF PushInv

LEMMA AdminNotifiedStep == \A w \in Clerk : PushInv /\ AdminNotified(w) => PushInv'
<1> SUFFICES ASSUME NEW w \in Clerk, PushInv, AdminNotified(w) PROVE PushInv' OBVIOUS
<1>0. PushTyped BY DEF PushInv
<1>1. /\ UNCHANGED <<meetup, standIn, works, device, push, marker, edits>>
      /\ visit[w].op = "risk" /\ visit[w].todo = {} /\ visit' = [visit EXCEPT ![w] = NoVisit]
      /\ risk' = IF visit[w].stage = "risk6h" THEN "told twice" ELSE IF risk = "open" THEN "told" ELSE risk
  BY DEF AdminNotified, End, ToldToAll
<1>2. visit[w] \in Tell BY <1>0, <1>1, OpOfVisit
<1>3. NoVisit.op = "none" BY DEF NoVisit
<1>4. /\ visit' \in [Clerk -> Visit] /\ visit'[w] = NoVisit
      /\ \A v \in Clerk : v # w => visit'[v] = visit[v]
  BY <1>0, <1>1, VisitWritten DEF Visit
<1>5. PushTyped' BY <1>0, <1>1, <1>3, <1>4 DEF PushTyped
<1>6. \A q : HasRisk(q)' = HasRisk(q) BY <1>1 DEF HasRisk, KeyTaken
<1>7. risk \in {"told", "told twice"} => risk' \in {"told", "told twice"} BY <1>1
<1>8. ScanTells'
  <2> SUFFICES ASSUME NEW v \in Clerk, visit'[v].op = "risk"
               PROVE  /\ visit'[v].stage = "risk" => \A q \in works : q \in visit'[v].todo \/ HasRisk(q)'
                      /\ visit'[v].stage = "risk6h" => risk' \in {"told", "told twice"}
    BY <1>1 DEF ScanTells
  <2>1. v # w /\ visit'[v] = visit[v] BY <1>3, <1>4
  <2> QED BY <2>1, <1>6, <1>7 DEF PushInv, ScanTells
<1>9. RiskReachesAll'
  <2> SUFFICES ASSUME NEW q \in works, risk' \in {"told", "told twice"} PROVE HasRisk(q)
    BY <1>1 DEF RiskReachesAll, HasRisk, KeyTaken
  <2>1. CASE visit[w].stage = "risk" BY <1>1, <2>1 DEF PushInv, ScanTells
  <2>2. CASE visit[w].stage = "risk6h" BY <1>1, <2>2 DEF PushInv, ScanTells, RiskReachesAll, HasRisk
  <2> QED BY <1>2, <2>1, <2>2 DEF Tell
<1>10. RiskIsCurrent' BY <1>1, <1>3, <1>4 DEF PushInv, RiskIsCurrent
<1>11. MarkedIsCarried' BY <1>1 DEF PushInv, MarkedIsCarried
<1> QED BY <1>5, <1>8, <1>9, <1>10, <1>11 DEF PushInv

-----------------------------------------------------------------------------
(* The job that sends.                                                       *)
LEMMA RiskAlwaysCurrent == \A n : n.kind = "risk" => Currency(n) = "current"
BY DEF Currency
LEMMA FateOfNotice == \A n : Currency(n) \in Fates
BY DEF Currency, Fates

(* A step of the job: one row is changed in what is sent and what became of  *)
(* it; a notice of a risk is not called off.                                 *)
LEMMA SendStep ==
    ASSUME PushInv, NEW w \in Clerk, NEW i \in 1 .. Len(push), NEW n \in PushRow, NEW rec \in {NoVisit} \cup Send,
           push' = [push EXCEPT ![i] = n], visit' = [visit EXCEPT ![w] = rec],
           n.kind = push[i].kind, n.version = push[i].version, n.to = push[i].to,
           n.kind = "risk" /\ n.free => push[i].free,
           \A f \in DOMAIN marker : marker'[f] # 0 => marker'[f] = marker[f] /\ (marker[f] = i => ~n.free),
           marker' \in [StartDay \X Person -> 0 .. Len(push)],
           rec.op = "send" => rec.id = i /\ (n.kind = "risk" => rec.fate = "current"),
           device' \in [Device -> [owner : Person, live : BOOLEAN, on : BOOLEAN]],
           UNCHANGED <<meetup, standIn, works, risk, edits>>
    PROVE  PushInv'
<1>0. PushTyped BY DEF PushInv
<1>1. /\ push' \in Seq(PushRow) /\ Len(push') = Len(push) /\ push'[i] = n
      /\ \A j \in 1 .. Len(push) : j # i => push'[j] = push[j]
      /\ RowsKept
  BY <1>0, NoticeChanged
<1>2. Len(push) \in Nat BY <1>0, RowsTyped
<1>3. /\ visit' \in [Clerk -> Visit] /\ visit'[w] = rec
      /\ \A v \in Clerk : v # w => visit'[v] = visit[v]
  BY <1>0, VisitWritten DEF Visit
<1>4. rec.op \in {"none", "send"} BY DEF NoVisit, Send
<1>5. \A v \in Clerk : visit'[v].op \in {"claimed", "send"} => visit'[v].id \in 1 .. Len(push')
  BY <1>0, <1>1, <1>2, <1>3, <1>4, IdsStay
<1>6. PushTyped' BY <1>0, <1>1, <1>3, <1>5 DEF PushTyped
<1>7. MarkedIsCarried'
  <2> SUFFICES ASSUME NEW f \in DOMAIN marker', marker'[f] # 0 PROVE ~push'[marker'[f]].free
    BY DEF MarkedIsCarried
  <2>1. f \in DOMAIN marker BY <1>0 DEF PushTyped
  <2>2. marker'[f] = marker[f] /\ (marker[f] = i => ~n.free) BY <2>1
  <2>a. marker[f] \in 0 .. Len(push) BY <1>0, <2>1 DEF PushTyped
  <2>b. marker[f] # 0 BY <2>2
  <2>3. marker[f] \in 1 .. Len(push) BY <1>2, <2>a, <2>b
  <2>4. ~push[marker[f]].free BY <2>1, <2>2 DEF PushInv, MarkedIsCarried
  <2> QED BY <1>1, <2>2, <2>3, <2>4
<1>8. visit'[w].op = "send" /\ push'[visit'[w].id].kind = "risk" => visit'[w].fate = "current"
  BY <1>1, <1>3
<1>9. visit'[w].op = "risk" => visit'[w] = visit[w] BY <1>3, <1>4
<1> QED BY <1>1, <1>3, <1>6, <1>7, <1>8, <1>9, OneStep

LEMMA StartSendStep ==
    \A w \in Clerk, i \in DOMAIN push : PushInv /\ StartSend(w, i) => PushInv'
<1> SUFFICES ASSUME NEW w \in Clerk, NEW i \in DOMAIN push, PushInv, StartSend(w, i) PROVE PushInv' OBVIOUS
<1> DEFINE n == [push[i] EXCEPT !.job = "running", !.tries = @ + 1]
           rec == [op |-> "send", id |-> i, earlier |-> push[i].reached, fate |-> Currency(push[i]),
                   todo |-> ActiveTargets(push[i].to), sent |-> 0, transient |-> FALSE]
<1>0. PushTyped BY DEF PushInv
<1>1. push \in Seq(PushRow) /\ i \in 1 .. Len(push) /\ push[i] \in PushRow BY <1>0, RowsTyped
<1>2. push' = [push EXCEPT ![i] = n] BY <1>1 DEF StartSend
<1>3. /\ n \in PushRow /\ n.kind = push[i].kind /\ n.version = push[i].version /\ n.to = push[i].to
      /\ n.free = push[i].free
  <2>1. PICK k \in Nat : n = [push[i] EXCEPT !.job = "running", !.tries = k]
    <3>1. push[i].tries + 1 \in Nat BY <1>1 DEF PushRow
    <3> QED BY <3>1
  <2> HIDE DEF n
  <2> QED BY <1>1, <2>1 DEF PushRow
<1>4. visit' = [visit EXCEPT ![w] = rec] BY DEF StartSend, Begin
<1>5. rec \in Send /\ rec.id = i /\ rec.fate = Currency(push[i])
  <2>1. push[i].reached \in Nat /\ push[i].to \in Person BY <1>1 DEF PushRow
  <2>2. ActiveTargets(push[i].to) \in SUBSET Device BY DEF ActiveTargets
  <2>3. Currency(push[i]) \in Fates BY FateOfNotice
  <2>4. i \in Nat BY <1>1
  <2> QED BY <2>1, <2>2, <2>3, <2>4 DEF Send
<1>6. n.kind = "risk" => rec.fate = "current" BY <1>3, <1>5, RiskAlwaysCurrent
<1>7. UNCHANGED <<meetup, standIn, works, marker, risk, edits>> BY DEF StartSend
<1>8. device' \in [Device -> [owner : Person, live : BOOLEAN, on : BOOLEAN]]
  <2>1. device \in [Device -> [owner : Person, live : BOOLEAN, on : BOOLEAN]] BY <1>0 DEF PushTyped
  <2>2. device' = [d \in Device |-> IF device[d].owner = push[i].to /\ ~device[d].live /\ Currency(push[i]) = "current"
                                     THEN [device[d] EXCEPT !.on = FALSE] ELSE device[d]]
    BY DEF StartSend
  <2> QED BY <2>1, <2>2
<1>9. marker' \in [StartDay \X Person -> 0 .. Len(push)] BY <1>0, <1>7 DEF PushTyped
<1> HIDE DEF n, rec
<1>10. \A f \in DOMAIN marker : marker'[f] # 0 => marker'[f] = marker[f] /\ (marker[f] = i => ~n.free)
  BY <1>3, <1>7 DEF PushInv, MarkedIsCarried
<1> QED BY <1>1, <1>2, <1>3, <1>4, <1>5, <1>6, <1>7, <1>8, <1>9, <1>10, SendStep

LEMMA SendToDeviceStep ==
    \A w \in Clerk, d \in Device, outcome \in {"sent", "gone", "transient_error"} :
        PushInv /\ SendToDevice(w, d, outcome) => PushInv'
<1> SUFFICES ASSUME NEW w \in Clerk, NEW d \in Device, NEW outcome \in {"sent", "gone", "transient_error"},
                    PushInv, SendToDevice(w, d, outcome)
             PROVE  PushInv'
  OBVIOUS
<1> DEFINE v == visit[w]
           i == v.id
<1>0. PushTyped BY DEF PushInv
<1>1. v.op = "send" /\ v.fate = "current" /\ UNCHANGED <<meetup, standIn, works, marker, risk, edits>>
  BY DEF SendToDevice
<1>2. v \in Send /\ i \in 1 .. Len(push) BY <1>0, <1>1, OpOfVisit DEF PushTyped
<1>3. push \in Seq(PushRow) /\ push[i] \in PushRow BY <1>0, <1>2, RowsTyped
<1>4. PICK hits \in SUBSET Device : push' = [push EXCEPT ![i] = [push[i] EXCEPT !.hits = hits]]
  <2>1. push[i].hits \in SUBSET Device BY <1>3 DEF PushRow
  <2>2. push' = push \/ push' = [push EXCEPT ![i].hits = IF outcome = "sent" THEN @ \cup {d} ELSE @]
    BY DEF SendToDevice
  <2>3. CASE push' = push
    <3>1. push = [push EXCEPT ![i] = [push[i] EXCEPT !.hits = push[i].hits]]
      <4>1. [push[i] EXCEPT !.hits = push[i].hits] = push[i] BY <1>3 DEF PushRow
      <4>2. [push EXCEPT ![i] = push[i]] = push BY <1>2, <1>3
      <4> QED BY <4>1, <4>2
    <3> QED BY <2>1, <2>3, <3>1
  <2>4. CASE push' = [push EXCEPT ![i].hits = IF outcome = "sent" THEN @ \cup {d} ELSE @]
    <3>1. (IF outcome = "sent" THEN push[i].hits \cup {d} ELSE push[i].hits) \in SUBSET Device BY <2>1
    <3>2. push' = [push EXCEPT ![i] = [push[i] EXCEPT !.hits =
                       IF outcome = "sent" THEN push[i].hits \cup {d} ELSE push[i].hits]]
      BY <2>4, <1>2, <1>3
    <3> QED BY <3>1, <3>2
  <2> QED BY <2>2, <2>3, <2>4
<1> DEFINE n == [push[i] EXCEPT !.hits = hits]
<1>5. /\ n \in PushRow /\ n.kind = push[i].kind /\ n.version = push[i].version /\ n.to = push[i].to
      /\ n.free = push[i].free
  BY <1>3, <1>4 DEF PushRow
<1>6. PICK rec \in Send : /\ visit' = [visit EXCEPT ![w] = rec] /\ rec.id = i
                          /\ push[i].kind = "risk" => rec.fate = "current"
  <2>1. CASE Currency(push[i]) # "current"
    <3> DEFINE r == [v EXCEPT !.fate = Currency(push[i])]
    <3>1. visit' = [visit EXCEPT ![w] = r] BY <2>1 DEF SendToDevice, Continue
    <3>2. r \in Send /\ r.id = i BY <1>2, FateOfNotice DEF Send
    <3>3. push[i].kind # "risk" BY <2>1, RiskAlwaysCurrent
    <3> HIDE DEF r
    <3> QED BY <3>1, <3>2, <3>3
  <2>2. CASE Currency(push[i]) = "current"
    <3> DEFINE r == [v EXCEPT !.todo = @ \ {d}, !.sent = @ + (IF outcome = "sent" THEN 1 ELSE 0),
                              !.transient = @ \/ outcome = "transient_error"]
    <3>1. visit' = [visit EXCEPT ![w] = r] BY <2>2 DEF SendToDevice, Continue
    <3>2. PICK todo \in SUBSET Device, sent \in Nat, tr \in BOOLEAN :
            r = [v EXCEPT !.todo = todo, !.sent = sent, !.transient = tr]
      <4>1. v.todo \ {d} \in SUBSET Device BY <1>2 DEF Send
      <4>2. v.sent + (IF outcome = "sent" THEN 1 ELSE 0) \in Nat BY <1>2 DEF Send
      <4> QED BY <4>1, <4>2
    <3>3. r \in Send /\ r.id = i /\ r.fate = v.fate BY <1>2, <3>2 DEF Send
    <3> HIDE DEF r
    <3> QED BY <1>1, <3>1, <3>3
  <2> QED BY <2>1, <2>2
<1>7. device' \in [Device -> [owner : Person, live : BOOLEAN, on : BOOLEAN]]
  <2>1. device \in [Device -> [owner : Person, live : BOOLEAN, on : BOOLEAN]] BY <1>0 DEF PushTyped
  <2>2. device' = device \/ device' = [device EXCEPT ![d].on = @ /\ outcome # "gone"] BY DEF SendToDevice
  <2>3. CASE device' = [device EXCEPT ![d].on = @ /\ outcome # "gone"]
    <3>1. PICK b \in BOOLEAN : device' = [device EXCEPT ![d].on = b] BY <2>1, <2>3
    <3> QED BY <2>1, <3>1
  <2> QED BY <2>1, <2>2, <2>3
<1>8. marker' \in [StartDay \X Person -> 0 .. Len(push)] BY <1>0, <1>1 DEF PushTyped
<1>9. push' = [push EXCEPT ![i] = n] BY <1>4
<1> HIDE DEF n
<1>10. \A f \in DOMAIN marker : marker'[f] # 0 => marker'[f] = marker[f] /\ (marker[f] = i => ~n.free)
  BY <1>5, <1>1 DEF PushInv, MarkedIsCarried
<1> QED BY <1>1, <1>2, <1>5, <1>6, <1>7, <1>8, <1>9, <1>10, SendStep

LEMMA MarkSupersededStep == \A w \in Clerk : PushInv /\ MarkSuperseded(w) => PushInv'
<1> SUFFICES ASSUME NEW w \in Clerk, PushInv, MarkSuperseded(w) PROVE PushInv' OBVIOUS
<1> DEFINE v == visit[w]
           i == v.id
           reached == Higher(v.sent, v.earlier)
           released == v.fate # "closed" /\ reached = 0
           code == IF v.fate = "recipient_changed" THEN "SUPERSEDED_RECIPIENT" ELSE "SUPERSEDED"
           n == [push[i] EXCEPT !.status = "skipped", !.reached = reached, !.free = released,
                                !.job = "done", !.code = code]
<1>0. PushTyped BY DEF PushInv
<1>1. /\ v.op = "send" /\ v.fate # "current" /\ UNCHANGED <<meetup, standIn, works, device, risk, edits>>
      /\ visit' = [visit EXCEPT ![w] = NoVisit]
      /\ marker' = IF released THEN MarkerFreed(i) ELSE marker
  BY DEF MarkSuperseded, End
<1>2. v \in Send /\ i \in 1 .. Len(push) BY <1>0, <1>1, OpOfVisit DEF PushTyped
<1>3. push \in Seq(PushRow) /\ push[i] \in PushRow /\ Len(push) \in Nat BY <1>0, <1>2, RowsTyped
<1>4. push' = [push EXCEPT ![i] = n] BY <1>2, <1>3 DEF MarkSuperseded
<1>5. reached \in Nat BY <1>2 DEF Send, Higher
<1>6. push[i].kind # "risk" BY <1>1 DEF PushInv, RiskIsCurrent
<1>7. /\ n \in PushRow /\ n.kind = push[i].kind /\ n.version = push[i].version /\ n.to = push[i].to
      /\ n.free = released
  <2>1. PICK b \in BOOLEAN : b = released OBVIOUS
  <2>2. PICK c \in {"SUPERSEDED", "SUPERSEDED_RECIPIENT"} : c = code OBVIOUS
  <2>3. n = [push[i] EXCEPT !.status = "skipped", !.reached = reached, !.free = b, !.job = "done", !.code = c]
    BY <2>1, <2>2
  <2>4. n \in PushRow
    <3> HIDE DEF n, reached
    <3> QED BY <1>3, <1>5, <2>1, <2>2, <2>3 DEF PushRow
  <2>5. n.kind = push[i].kind /\ n.version = push[i].version /\ n.to = push[i].to /\ n.free = b
    <3> HIDE DEF n, reached
    <3> QED BY <1>3, <2>3 DEF PushRow
  <2> QED BY <2>1, <2>4, <2>5
<1>8. marker \in [StartDay \X Person -> 0 .. Len(push)] BY <1>0 DEF PushTyped
<1>9. MarkerFreed(i) \in [StartDay \X Person -> 0 .. Len(push)]
  <2>1. 0 \in 0 .. Len(push) BY <1>3
  <2> QED BY <1>8, <2>1 DEF MarkerFreed
<1> HIDE DEF n
<1>10. marker' \in [StartDay \X Person -> 0 .. Len(push)] BY <1>1, <1>8, <1>9
<1>11. \A f \in DOMAIN marker : marker'[f] # 0 => marker'[f] = marker[f] /\ (marker[f] = i => ~n.free)
  <2> SUFFICES ASSUME NEW f \in DOMAIN marker, marker'[f] # 0
               PROVE  marker'[f] = marker[f] /\ (marker[f] = i => ~n.free)
    OBVIOUS
  <2>1. CASE released
    <3>1. marker'[f] = IF marker[f] = i THEN 0 ELSE marker[f] BY <1>1, <2>1 DEF MarkerFreed
    <3> QED BY <3>1
  <2>2. CASE ~released
    <3>1. marker' = marker /\ ~n.free BY <1>1, <1>7, <2>2
    <3> QED BY <3>1
  <2> QED BY <2>1, <2>2
<1>12. device' \in [Device -> [owner : Person, live : BOOLEAN, on : BOOLEAN]] BY <1>0, <1>1 DEF PushTyped
<1>13. NoVisit.op # "send" BY DEF NoVisit
<1> QED BY <1>1, <1>2, <1>4, <1>6, <1>7, <1>10, <1>11, <1>12, <1>13, SendStep

LEMMA SendEndsStep == \A w \in Clerk : PushInv /\ SendEnds(w) => PushInv'
<1> SUFFICES ASSUME NEW w \in Clerk, PushInv, SendEnds(w) PROVE PushInv' OBVIOUS
<1> DEFINE v == visit[w]
           i == v.id
<1>0. PushTyped BY DEF PushInv
<1>1. /\ v.op = "send" /\ UNCHANGED <<meetup, standIn, works, device, marker, risk, edits>>
      /\ visit' = [visit EXCEPT ![w] = NoVisit]
  BY DEF SendEnds, End
<1>2. v \in Send /\ i \in 1 .. Len(push) BY <1>0, <1>1, OpOfVisit DEF PushTyped
<1>3. push \in Seq(PushRow) /\ push[i] \in PushRow BY <1>0, <1>2, RowsTyped
<1>4. PICK k \in Nat, j \in {"ready", "done"}, st \in {"pending", "skipped", "sent", "failed"} :
        push' = [push EXCEPT ![i] = [push[i] EXCEPT !.reached = k, !.job = j, !.status = st]]
  <2>1. v.sent \in Nat /\ push[i].status \in {"pending", "skipped", "sent", "failed"}
    BY <1>2, <1>3 DEF Send, PushRow
  <2> DEFINE again == v.transient /\ push[i].tries < PushAttempts
             j == IF again THEN "ready" ELSE "done"
             st == IF again THEN push[i].status ELSE IF v.sent > 0 THEN "sent" ELSE "failed"
  <2>2. push' = [push EXCEPT ![i] = [push[i] EXCEPT !.reached = v.sent, !.job = j, !.status = st]]
    BY <1>2, <1>3 DEF SendEnds
  <2>3. j \in {"ready", "done"} /\ st \in {"pending", "skipped", "sent", "failed"} BY <2>1
  <2> HIDE DEF j, st
  <2> QED BY <2>1, <2>2, <2>3
<1> DEFINE n == [push[i] EXCEPT !.reached = k, !.job = j, !.status = st]
<1>5. /\ n \in PushRow /\ n.kind = push[i].kind /\ n.version = push[i].version /\ n.to = push[i].to
      /\ n.free = push[i].free
  BY <1>3, <1>4 DEF PushRow
<1>6. push' = [push EXCEPT ![i] = n] BY <1>4
<1> HIDE DEF n
<1>7. \A f \in DOMAIN marker : marker'[f] # 0 => marker'[f] = marker[f] /\ (marker[f] = i => ~n.free)
  BY <1>5, <1>1 DEF PushInv, MarkedIsCarried
<1>8. device' \in [Device -> [owner : Person, live : BOOLEAN, on : BOOLEAN]] BY <1>0, <1>1 DEF PushTyped
<1>9. NoVisit.op # "send" BY DEF NoVisit
<1>10. marker' \in [StartDay \X Person -> 0 .. Len(push)] BY <1>0, <1>1 DEF PushTyped
<1> QED BY <1>1, <1>2, <1>5, <1>6, <1>7, <1>8, <1>9, <1>10, SendStep

-----------------------------------------------------------------------------
LEMMA PushNextInv == PushInv /\ PushNext => PushInv'
<1> SUFFICES ASSUME PushInv, PushNext PROVE PushInv' OBVIOUS
<1>1. CASE World BY <1>1, WorldStep
<1>2. ASSUME NEW w \in Clerk,
             \/ ScanReminders(w) \/ ClaimReminder(w) \/ ScanReassignments(w) \/ ClaimReassignment(w)
             \/ DiesBeforeJob(w) \/ ScanMachineRisks(w) \/ AdminNotified(w) \/ ScanDies(w)
             \/ MarkSuperseded(w) \/ SendEnds(w)
      PROVE  PushInv'
  BY <1>2, ReadingStep, ClaimReminderStep, ClaimReassignmentStep, ScanMachineRisksStep, AdminNotifiedStep,
     MarkSupersededStep, SendEndsStep DEF Reading
<1>3. ASSUME NEW w \in Clerk, EnqueueSendJob(w) PROVE PushInv'
  <2>1. visit[w].op = "claimed" /\ PushTyped BY <1>3 DEF EnqueueSendJob, PushInv
  <2>2. visit[w].id \in DOMAIN push BY <2>1, RowsTyped DEF PushTyped
  <2> QED BY <1>3, <2>2, JobStep
<1>4. ASSUME NEW w \in Clerk, NEW p \in Person, EnqueueForUser(w, p) PROVE PushInv'
  BY <1>4, EnqueueForUserStep
<1>5. ASSUME NEW w \in Clerk, NEW d \in Device, NEW o \in {"sent", "gone", "transient_error"}, SendToDevice(w, d, o)
      PROVE  PushInv'
  BY <1>5, SendToDeviceStep
<1>6. ASSUME NEW i \in DOMAIN push, ScheduleOutboxBackstop(i) \/ (\E w \in Clerk : StartSend(w, i))
      PROVE  PushInv'
  BY <1>6, JobStep, StartSendStep
<1> QED BY <1>1, <1>2, <1>3, <1>4, <1>5, <1>6 DEF PushNext, World

LEMMA PushStutter == PushInv /\ UNCHANGED pushVars => PushInv'
<1> SUFFICES ASSUME PushInv, UNCHANGED pushVars PROVE PushInv' OBVIOUS
<1>1. UNCHANGED <<meetup, standIn, works, device, push, marker, risk, visit, edits>> BY DEF pushVars
<1>2. PushTyped' BY <1>1 DEF PushInv, PushTyped
<1>3. RiskIsCurrent' BY <1>1 DEF PushInv, RiskIsCurrent
<1>4. ScanTells' BY <1>1 DEF PushInv, ScanTells, HasRisk, KeyTaken
<1>5. MarkedIsCarried' BY <1>1 DEF PushInv, MarkedIsCarried
<1>6. RiskReachesAll' BY <1>1 DEF PushInv, RiskReachesAll, KeyTaken
<1> QED BY <1>2, <1>3, <1>4, <1>5, <1>6 DEF PushInv

(* Whoever is assigned, substituted, locked out or logs on while notices are *)
(* claimed and sent, and whichever process dies in between: a reminder that  *)
(* is marked as told has a notice that was not called off before it reached  *)
(* a device, and a machine risk marked as told has a notice for every active *)
(* planner (push/push-service.ts, reminders and risks of its scans).         *)
THEOREM PushIsSafe == PushSpec => []PushSafety
<1>1. PushInv => PushSafety BY DEF PushInv, PushSafety
<1> QED BY <1>1, PushInitInv, PushNextInv, PushStutter, PTL DEF PushSpec
-----------------------------------------------------------------------------
(* An invoice as Lexware shows it.  As long as nothing was taken back the    *)
(* invoice only goes on, from open over overdue to paid, voided or deleted;  *)
(* so whatever a synchronisation has read may be old, never wrong.           *)
Said == {"open", "overdue", "paid", "voided", "gone", "draft", "attention", None}
Codes == OwnCodes \cup {None, "TOTAL_MISMATCH"}
RowStates == {"none", "queued", "processed", "ignored", "failed", "answered"}
JobStates == {"none", "queued", "running", "done", "dead"}
NoticeRow == [sent : BOOLEAN, row : RowStates, job : JobStates, runs : Int]
MappingRow == [linked : BOOLEAN, voucher : Said, pay : Said, code : Codes]
SyncVisit ==
    [op : {"sync"}, at : {"invoice"}, for : Notice \cup {None}, row : MappingRow]
    \cup [op : {"sync"}, at : {"payment"}, for : Notice \cup {None}, row : MappingRow, bill : Said]
    \cup [op : {"sync"}, at : {"write", "mirror"}, for : Notice \cup {None}, row : MappingRow, bill : Said, pay : Said]

SyncTyped ==
    /\ bill \in [is : {"open", "overdue", "paid", "voided", "gone", "draft"}, reverted : BOOLEAN]
    /\ notice \in [Notice -> NoticeRow]
    /\ mapping \in MappingRow
    /\ transfer \in [st : {"in_progress", "attention", "succeeded"}, code : Codes]
    /\ visit \in [Clerk -> SyncVisit \cup {NoVisit}]

GoesForward == ~bill.reverted /\ bill.is # "draft"
CodeIsTrue(c) == \/ c = None
                 \/ c = "MISSING" /\ bill.is = "gone"
                 \/ c = "VOIDED" /\ bill.is = "voided"
BeenThere(s) == s \in {"open", "overdue"} \/ (s = "paid" /\ bill.is \in {"paid", "voided"})

(* What a request has read of invoice and row.                               *)
ReadIsTrue(w) ==
    /\ visit[w].at = "invoice" => CodeIsTrue(visit[w].row.code)
    /\ visit[w].at \in {"payment", "write", "mirror"} =>
          visit[w].row.code = None /\ BeenThere(visit[w].bill)
    /\ visit[w].at \in {"write", "mirror"} => BeenThere(visit[w].pay)

(* That it was voided is known, or announced by an event that nobody has     *)
(* looked into yet.                                                          *)
Unread(n) == /\ notice[n].sent /\ ~Finished(n)
             /\ \A w \in Clerk : visit[w] # NoVisit /\ visit[w].for = n => visit[w].at = "invoice"
VoidIsNews == bill.is = "voided" => mapping.code = "VOIDED" \/ \E n \in Notice : Unread(n)

SyncInv ==
    /\ SyncTyped
    /\ transfer.st = "succeeded" => mapping.linked
    /\ \A n \in Notice : ~notice[n].sent =>
          /\ ~Finished(n) /\ notice[n].job = "none"
          /\ \A w \in Clerk : visit[w] # NoVisit => visit[w].for # n
    /\ ~mapping.linked => \A w \in Clerk : visit[w] = NoVisit
    /\ GoesForward /\ transfer.st = "succeeded" =>
          /\ CodeIsTrue(mapping.code) /\ BeenThere(mapping.pay)
          /\ \A w \in Clerk : visit[w] # NoVisit => ReadIsTrue(w)
          /\ VoidIsNews

LEMMA SyncStart == InvoiceSyncInit => SyncInv
BY DEF InvoiceSyncInit, ActorsInit, NoNotice, SyncInv, SyncTyped, NoticeRow, RowStates, JobStates, MappingRow, Said, Codes, Finished, NoVisit

LEMMA SyncRead ==
    ASSUME SyncInv, Calm, transfer.st = "succeeded", GoesForward PROVE Tells \/ Candidate
<1>1. CodeIsTrue(mapping.code) /\ BeenThere(mapping.pay) /\ VoidIsNews /\ mapping.linked BY DEF SyncInv
<1>2. bill.is \in {"open", "overdue", "paid", "voided", "gone"} BY DEF SyncInv, SyncTyped, GoesForward
<1>3. \A n \in Notice : ~Unread(n) BY DEF Calm, Unread
<1>4. bill.is = "voided" => mapping.code = "VOIDED" BY <1>1, <1>3 DEF VoidIsNews
<1> QED BY <1>1, <1>2, <1>4, NoticeAssumption DEF Tells, Candidate, CodeIsTrue, BeenThere

LEMMA SyncShapes ==
    ASSUME SyncTyped, NEW w \in Clerk
    PROVE  \/ visit[w] = NoVisit
           \/ /\ visit[w] # NoVisit /\ visit[w].op = "sync" /\ visit[w].for \in Notice \cup {None}
              /\ visit[w].row \in MappingRow
              /\ \/ visit[w].at = "invoice"
                 \/ visit[w].at = "payment" /\ visit[w].bill \in Said
                 \/ visit[w].at \in {"write", "mirror"} /\ visit[w].bill \in Said /\ visit[w].pay \in Said
BY DEF SyncTyped, SyncVisit, NoVisit

LEMMA FinishTypes ==
    ASSUME SyncTyped, NEW n \in Notice, NEW row \in {None, "queued", "processed", "ignored", "failed", "answered"},
           NEW job \in JobStates, Finish(n, row, job)
    PROVE  /\ notice' \in [Notice -> NoticeRow]
           /\ \A m \in Notice : notice'[m].sent = notice[m].sent
           /\ \A m \in Notice : m # n => notice'[m] = notice[m]
           /\ notice'[n].row = IF row = None THEN notice[n].row ELSE row
<1> DEFINE rw == IF row = None THEN notice[n].row ELSE row
<1>1. rw \in RowStates BY DEF SyncTyped, NoticeRow, RowStates
<1>2. notice' = [notice EXCEPT ![n].row = rw, ![n].job = job] BY DEF Finish
<1>3. rw = IF row = None THEN notice[n].row ELSE row OBVIOUS
<1> HIDE DEF rw
<1>4. /\ \A m \in Notice : m # n => notice'[m] = notice[m]
      /\ notice'[n] = [sent |-> notice[n].sent, row |-> rw, job |-> job, runs |-> notice[n].runs]
      /\ notice' = [m \in Notice |-> notice'[m]]
  BY <1>2 DEF SyncTyped, NoticeRow
<1>5. notice'[n] \in NoticeRow
      /\ notice'[n].row = rw /\ notice'[n].sent = notice[n].sent
  BY <1>1, <1>4 DEF SyncTyped, NoticeRow
<1> QED BY <1>3, <1>4, <1>5 DEF SyncTyped

LEMMA OverTypes ==
    ASSUME SyncTyped, NEW w \in Clerk, visit[w] # NoVisit, Over(w, "processed")
    PROVE  /\ notice' \in [Notice -> NoticeRow]
           /\ visit' \in [Clerk -> SyncVisit \cup {NoVisit}]
           /\ visit' = [visit EXCEPT ![w] = NoVisit]
           /\ \A m \in Notice : notice'[m].sent = notice[m].sent
           /\ \A m \in Notice : m # visit[w].for => notice'[m] = notice[m]
<1>1. visit' = [visit EXCEPT ![w] = NoVisit] BY DEF Over
<1>2. visit' \in [Clerk -> SyncVisit \cup {NoVisit}] BY <1>1 DEF SyncTyped
<1>3. CASE visit[w].for = None BY <1>1, <1>2, <1>3 DEF Over, SyncTyped
<1>4. CASE visit[w].for # None
  <2>1. visit[w].for \in Notice BY <1>4, SyncShapes
  <2>2. Finish(visit[w].for, "processed", "done") BY <1>4 DEF Over
  <2> QED BY <1>1, <1>2, <2>1, <2>2, FinishTypes DEF RowStates, JobStates
<1> QED BY <1>3, <1>4

LEMMA SyncTypes == ASSUME SyncInv, InvoiceSyncNext PROVE SyncTyped'
<1> DEFINE NoticeRows == [Notice -> NoticeRow]
           Bills == [is : {"open", "overdue", "paid", "voided", "gone", "draft"}, reverted : BOOLEAN]
           Transfers == [st : {"in_progress", "attention", "succeeded"}, code : Codes]
           Visits == [Clerk -> SyncVisit \cup {NoVisit}]
<1>t. SyncTyped /\ bill \in Bills /\ notice \in NoticeRows /\ mapping \in MappingRow /\ transfer \in Transfers /\ visit \in Visits
  BY DEF SyncInv, SyncTyped
<1>q. ASSUME bill' \in Bills, notice' \in NoticeRows, mapping' \in MappingRow, transfer' \in Transfers, visit' \in Visits
      PROVE  SyncTyped'
  BY <1>q DEF SyncTyped
<1>1. ASSUME NEW n \in Notice, NEW s \in {"open", "overdue", "paid", "voided", "gone", "draft"}, Becomes(s, n)
      PROVE  SyncTyped'
  <2>1. bill' \in Bills BY <1>1, <1>t DEF Becomes, NoticeRow
  <2>2. notice' \in NoticeRows BY <1>1, <1>t DEF Becomes, NoticeRow
  <2> QED BY <1>1, <1>q, <1>t, <2>1, <2>2 DEF Becomes
<1>2. ASSUME NEW n \in Notice, NEW dies \in BOOLEAN, ReceiveNotice(n, dies) PROVE SyncTyped'
  <2> DEFINE j == IF dies THEN notice[n].job ELSE Enqueue(n)
  <2>0. notice' = [notice EXCEPT ![n].row = "queued", ![n].job = j] BY <1>2 DEF ReceiveNotice
  <2>j. j \in JobStates BY <1>t DEF Enqueue, NoticeRow, JobStates
  <2> HIDE DEF j
  <2>1. notice' \in NoticeRows BY <1>t, <2>0, <2>j DEF NoticeRow, RowStates
  <2> QED BY <1>2, <1>q, <1>t, <2>1 DEF ReceiveNotice
<1>3. ASSUME NEW n \in Notice, NEW w \in Clerk, NoticeStarts(w, n) PROVE SyncTyped'
  <2>1. CASE Finish(n, None, "done") /\ UNCHANGED visit
    BY <1>3, <1>q, <1>t, <2>1, FinishTypes DEF NoticeStarts, RowStates, JobStates
  <2>2. CASE Finish(n, "ignored", "done") /\ UNCHANGED visit
    BY <1>3, <1>q, <1>t, <2>2, FinishTypes DEF NoticeStarts, RowStates, JobStates
  <2>3. CASE /\ notice' = [notice EXCEPT ![n].job = "running", ![n].runs = @ + 1]
             /\ visit' = [visit EXCEPT ![w] = [op |-> "sync", at |-> "invoice", for |-> n, row |-> mapping]]
    <3>1. visit' \in Visits BY <2>3, <1>t DEF SyncVisit
    <3>2. notice' \in NoticeRows BY <2>3, <1>t DEF NoticeRow, JobStates
    <3> QED BY <1>3, <1>q, <1>t, <3>1, <3>2 DEF NoticeStarts
  <2> QED BY <1>3, <2>1, <2>2, <2>3 DEF NoticeStarts
<1>4. ASSUME NEW mismatch \in BOOLEAN, InvoiceLinked(mismatch) PROVE SyncTyped'
  <2>0. bill.is \in Said /\ VoucherStatus(bill.is) \in Said BY <1>t DEF VoucherStatus, Said
  <2>1. mapping' \in MappingRow
    <3>1. CASE mismatch
      <4>1. mapping' = [linked |-> TRUE, voucher |-> None, pay |-> None, code |-> "TOTAL_MISMATCH"]
        BY <1>4, <3>1 DEF InvoiceLinked
      <4> QED BY <4>1 DEF MappingRow, Said, Codes
    <3>2. CASE ~mismatch
      <4>1. mapping' = [linked |-> TRUE, voucher |-> VoucherStatus(bill.is), pay |-> bill.is, code |-> None]
        BY <1>4, <3>2 DEF InvoiceLinked
      <4> QED BY <2>0, <4>1 DEF MappingRow, Codes
    <3> QED BY <3>1, <3>2
  <2>2. transfer' \in Transfers BY <1>4 DEF InvoiceLinked, Codes
  <2> QED BY <1>4, <1>q, <1>t, <2>1, <2>2 DEF InvoiceLinked
<1>5. ASSUME NEW w \in Clerk, ReconcileStarts(w) PROVE SyncTyped'
  <2>1. visit' \in Visits BY <1>5, <1>t DEF ReconcileStarts, SyncVisit
  <2> QED BY <1>5, <1>q, <1>t, <2>1 DEF ReconcileStarts
<1>a. ASSUME NEW w \in Clerk, visit[w] # NoVisit, NEW c \in OwnCodes, SetAttention(w, c),
             c = "UNEXPECTED" => visit[w].at = "payment", UNCHANGED bill
      PROVE  SyncTyped'
  <2>1. notice' \in NoticeRows /\ visit' \in Visits BY <1>t, <1>a, OverTypes DEF SetAttention
  <2>2. c = "UNEXPECTED" => visit[w].bill \in Said BY <1>t, <1>a, SyncShapes
  <2>3. mapping' \in MappingRow BY <1>t, <1>a, <2>2 DEF SetAttention, MappingRow, Said, Codes
  <2>4. transfer' \in Transfers BY <1>t, <1>a DEF SetAttention, Codes
  <2> QED BY <1>q, <1>t, <1>a, <2>1, <2>3, <2>4
<1>6. ASSUME NEW w \in Clerk, GetInvoice(w) PROVE SyncTyped'
  <2>0. visit[w] # NoVisit /\ UNCHANGED bill BY <1>6 DEF GetInvoice, NoVisit
  <2>1. CASE bill.is = "gone" BY <1>6, <1>a, <2>0, <2>1 DEF GetInvoice, OwnCodes
  <2>2. CASE bill.is = "voided" BY <1>6, <1>a, <2>0, <2>2 DEF GetInvoice, OwnCodes
  <2>3. CASE bill.is \notin {"gone", "voided"}
    <3>1. /\ visit' = [visit EXCEPT ![w] = [op |-> "sync", at |-> "payment", for |-> visit[w].for,
                                            row |-> visit[w].row, bill |-> bill.is]]
          /\ UNCHANGED <<notice, mapping, transfer>>
      BY <1>6, <2>3 DEF GetInvoice
    <3>2. visit' \in Visits BY <1>t, <2>0, <3>1, SyncShapes DEF SyncVisit, Said
    <3> QED BY <1>q, <1>t, <2>0, <3>1, <3>2
  <2> QED BY <2>1, <2>2, <2>3
<1>7. ASSUME NEW w \in Clerk, GetPayment(w) PROVE SyncTyped'
  <2> DEFINE s == NormalizeLexwarePaymentStatus(visit[w].bill, Balanced(bill.is))
  <2>0. visit[w] # NoVisit /\ visit[w].at = "payment" /\ UNCHANGED bill BY <1>7 DEF GetPayment, NoVisit
  <2>1. CASE bill.is = "gone" BY <1>7, <1>a, <2>0, <2>1 DEF GetPayment, OwnCodes
  <2>2. CASE bill.is # "gone" /\ s = "attention" BY <1>7, <1>a, <2>0, <2>2 DEF GetPayment, OwnCodes
  <2>3. CASE bill.is # "gone" /\ s # "attention"
    <3>1. /\ visit' = [visit EXCEPT ![w] = [op |-> "sync", at |-> "write", for |-> visit[w].for,
                                            row |-> visit[w].row, bill |-> visit[w].bill, pay |-> s]]
          /\ UNCHANGED <<notice, mapping, transfer>>
      BY <1>7, <2>3 DEF GetPayment
    <3>2. visit[w].bill \in Said /\ visit[w].row \in MappingRow /\ visit[w].for \in Notice \cup {None}
      BY <1>t, <2>0, SyncShapes
    <3>3. s \in Said BY <3>2 DEF NormalizeLexwarePaymentStatus, Said
    <3> HIDE DEF s
    <3>4. visit' \in Visits BY <1>t, <3>1, <3>2, <3>3 DEF SyncVisit
    <3> QED BY <1>q, <1>t, <2>0, <3>1, <3>4
  <2> QED BY <2>1, <2>2, <2>3
<1>8. ASSUME NEW w \in Clerk, WriteMapping(w) PROVE SyncTyped'
  <2>0. visit[w] # NoVisit /\ visit[w].at = "write" /\ UNCHANGED bill BY <1>8 DEF WriteMapping, NoVisit
  <2>1. visit[w].bill \in Said /\ visit[w].pay \in Said /\ visit[w] \in SyncVisit BY <1>t, <2>0, SyncShapes
  <2>2. mapping' \in MappingRow BY <1>8, <1>t, <2>1 DEF WriteMapping, MappingRow, Said, Codes, VoucherStatus
  <2>3. transfer' \in Transfers BY <1>8, <1>t DEF WriteMapping, Codes
  <2>4. notice' \in NoticeRows /\ visit' \in Visits
    <3>1. CASE Over(w, "processed") BY <1>t, <2>0, <3>1, OverTypes
    <3>2. CASE visit' = [visit EXCEPT ![w].at = "mirror"] /\ UNCHANGED notice
      BY <1>t, <2>0, <2>1, <3>2 DEF SyncVisit
    <3> QED BY <1>8, <3>1, <3>2 DEF WriteMapping
  <2> QED BY <1>q, <1>t, <2>0, <2>2, <2>3, <2>4
<1>9. ASSUME NEW w \in Clerk, SetPaymentStatus(w) PROVE SyncTyped'
  <2>0. visit[w] # NoVisit BY <1>9 DEF SetPaymentStatus, NoVisit
  <2>1. notice' \in NoticeRows /\ visit' \in Visits BY <1>9, <1>t, <2>0, OverTypes DEF SetPaymentStatus
  <2> QED BY <1>9, <1>q, <1>t, <2>1 DEF SetPaymentStatus
<1>10. ASSUME NEW w \in Clerk, NEW unauthorized \in BOOLEAN, SyncFails(w, unauthorized) PROVE SyncTyped'
  <2>1. visit' \in Visits BY <1>10, <1>t DEF SyncFails
  <2>2. notice' \in NoticeRows
    <3>1. CASE visit[w].for = None BY <1>10, <1>t, <3>1 DEF SyncFails
    <3>2. CASE visit[w].for # None
      <4>1. visit[w].for \in Notice BY <1>10, <1>t, <3>2, SyncShapes DEF SyncFails
      <4>2. (IF unauthorized THEN "done" ELSE Retried(visit[w].for)) \in JobStates
        BY DEF Retried, JobStates
      <4> QED BY <1>10, <1>t, <3>2, <4>1, <4>2, FinishTypes DEF SyncFails, RowStates
    <3> QED BY <3>1, <3>2
  <2> QED BY <1>10, <1>q, <1>t, <2>1, <2>2 DEF SyncFails
<1>11. ASSUME Reconnected PROVE SyncTyped' BY <1>11, <1>q, <1>t DEF Reconnected
<1> QED BY <1>1, <1>2, <1>3, <1>4, <1>5, <1>6, <1>7, <1>8, <1>9, <1>10, <1>11 DEF InvoiceSyncNext, BillChanges

(* How one visit goes on, and what it does to the row of its notice.         *)
LEMMA AnnouncedStays ==
    ASSUME SyncInv, InvoiceSyncNext
    PROVE  /\ transfer'.st = "succeeded" => mapping'.linked
           /\ \A n \in Notice : ~notice'[n].sent =>
                 /\ ~Finished(n)' /\ notice'[n].job = "none"
                 /\ \A w \in Clerk : visit'[w] # NoVisit => visit'[w].for # n
           /\ ~mapping'.linked => \A w \in Clerk : visit'[w] = NoVisit
<1> DEFINE Announced == \A n \in Notice : ~notice'[n].sent =>
                 /\ ~Finished(n)' /\ notice'[n].job = "none"
                 /\ \A w \in Clerk : visit'[w] # NoVisit => visit'[w].for # n
           Linked == /\ transfer'.st = "succeeded" => mapping'.linked
                     /\ ~mapping'.linked => \A w \in Clerk : visit'[w] = NoVisit
<1>t. /\ notice \in [Notice -> NoticeRow] /\ mapping \in MappingRow
      /\ transfer \in [st : {"in_progress", "attention", "succeeded"}, code : Codes]
      /\ visit \in [Clerk -> SyncVisit \cup {NoVisit}] /\ SyncTyped
  BY DEF SyncInv, SyncTyped
<1>i. /\ transfer.st = "succeeded" => mapping.linked
      /\ \A n \in Notice : ~notice[n].sent =>
             /\ ~Finished(n) /\ notice[n].job = "none"
             /\ \A w \in Clerk : visit[w] # NoVisit => visit[w].for # n
      /\ ~mapping.linked => \A w \in Clerk : visit[w] = NoVisit
  BY DEF SyncInv
<1>1. ASSUME NEW n \in Notice, NEW s, Becomes(s, n) PROVE Announced /\ Linked
  BY <1>1, <1>i, <1>t DEF Becomes, Finished, NoticeRow
<1>2. ASSUME NEW n \in Notice, NEW dies \in BOOLEAN, ReceiveNotice(n, dies) PROVE Announced /\ Linked
  <2>1. notice[n].sent /\ notice'[n].sent = notice[n].sent /\ \A m \in Notice : m # n => notice'[m] = notice[m]
    BY <1>2, <1>t DEF ReceiveNotice, NoticeRow
  <2> QED BY <1>2, <1>i, <2>1 DEF ReceiveNotice, Finished
<1>3. ASSUME NEW n \in Notice, NEW w \in Clerk, NoticeStarts(w, n) PROVE Announced /\ Linked
  <2>1. notice[n].sent BY <1>3, <1>i DEF NoticeStarts
  <2>2. notice'[n].sent = notice[n].sent /\ \A m \in Notice : m # n => notice'[m] = notice[m]
    BY <1>3, <1>t DEF NoticeStarts, Finish, NoticeRow
  <2>3. \A v \in Clerk : visit'[v] = visit[v] \/ (mapping.linked /\ visit'[v].for = n)
    BY <1>3, <1>t DEF NoticeStarts
  <2>4. UNCHANGED <<mapping, transfer>> BY <1>3 DEF NoticeStarts
  <2>5. Linked BY <1>i, <2>3, <2>4
  <2>6. ASSUME NEW m \in Notice, ~notice'[m].sent
        PROVE  ~Finished(m)' /\ notice'[m].job = "none" /\ \A v \in Clerk : visit'[v] # NoVisit => visit'[v].for # m
    <3>1. m # n /\ notice'[m] = notice[m] BY <2>1, <2>2, <2>6
    <3> QED BY <1>i, <2>3, <2>6, <3>1 DEF Finished
  <2> QED BY <2>5, <2>6
<1>4. ASSUME NEW mismatch \in BOOLEAN, InvoiceLinked(mismatch) PROVE Announced /\ Linked
  <2>1. mapping'.linked BY <1>4 DEF InvoiceLinked
  <2> QED BY <1>4, <1>i, <2>1 DEF InvoiceLinked, Finished
<1>5. ASSUME NEW w \in Clerk, ReconcileStarts(w) PROVE Announced /\ Linked
  <2>1. mapping.linked BY <1>5 DEF ReconcileStarts, Candidate
  <2>2. \A v \in Clerk : visit'[v] = visit[v] \/ visit'[v].for = None BY <1>5, <1>t DEF ReconcileStarts
  <2> QED BY <1>5, <1>i, <2>1, <2>2, NoticeAssumption DEF ReconcileStarts, Finished
<1>o. ASSUME NEW w \in Clerk, visit[w] # NoVisit, Over(w, "processed"), mapping'.linked = mapping.linked, transfer'.st = transfer.st
      PROVE  Announced /\ Linked
  <2>1. /\ visit' = [visit EXCEPT ![w] = NoVisit]
        /\ \A m \in Notice : notice'[m].sent = notice[m].sent
        /\ \A m \in Notice : m # visit[w].for => notice'[m] = notice[m]
    BY <1>o, <1>t, OverTypes
  <2> QED BY <1>i, <1>o, <1>t, <2>1 DEF Finished
<1>c. ASSUME NEW w \in Clerk, visit[w] # NoVisit, visit'[w] # NoVisit, visit'[w].for = visit[w].for,
             \A v \in Clerk : v # w => visit'[v] = visit[v],
             UNCHANGED notice, mapping'.linked = mapping.linked, transfer'.st = transfer.st
      PROVE  Announced /\ Linked
  BY <1>c, <1>i DEF Finished
<1>a. ASSUME NEW w \in Clerk, visit[w] # NoVisit, NEW c, SetAttention(w, c) PROVE Announced /\ Linked
  <2>1. mapping'.linked = mapping.linked /\ transfer'.st = transfer.st BY <1>a, <1>t DEF SetAttention, MappingRow
  <2> QED BY <1>a, <1>o, <2>1 DEF SetAttention
<1>6. ASSUME NEW w \in Clerk, GetInvoice(w) PROVE Announced /\ Linked
  <2>0. visit[w] # NoVisit BY <1>6 DEF GetInvoice, NoVisit
  <2>1. CASE bill.is \in {"gone", "voided"} BY <1>6, <1>a, <2>0, <2>1 DEF GetInvoice
  <2>2. CASE bill.is \notin {"gone", "voided"}
    <3>1. /\ visit' = [visit EXCEPT ![w] = [op |-> "sync", at |-> "payment", for |-> visit[w].for,
                                            row |-> visit[w].row, bill |-> bill.is]]
          /\ UNCHANGED <<notice, mapping, transfer>>
      BY <1>6, <2>2 DEF GetInvoice
    <3>2. visit'[w] # NoVisit /\ visit'[w].for = visit[w].for /\ \A v \in Clerk : v # w => visit'[v] = visit[v]
      BY <1>t, <3>1 DEF NoVisit
    <3> QED BY <1>c, <2>0, <3>1, <3>2
  <2> QED BY <2>1, <2>2
<1>7. ASSUME NEW w \in Clerk, GetPayment(w) PROVE Announced /\ Linked
  <2> DEFINE s == NormalizeLexwarePaymentStatus(visit[w].bill, Balanced(bill.is))
  <2>0. visit[w] # NoVisit BY <1>7 DEF GetPayment, NoVisit
  <2>1. CASE bill.is = "gone" BY <1>7, <1>a, <2>0, <2>1 DEF GetPayment
  <2>2. CASE bill.is # "gone" /\ s = "attention" BY <1>7, <1>a, <2>0, <2>2 DEF GetPayment
  <2>3. CASE bill.is # "gone" /\ s # "attention"
    <3>1. /\ visit' = [visit EXCEPT ![w] = [op |-> "sync", at |-> "write", for |-> visit[w].for,
                                            row |-> visit[w].row, bill |-> visit[w].bill, pay |-> s]]
          /\ UNCHANGED <<notice, mapping, transfer>>
      BY <1>7, <2>3 DEF GetPayment
    <3> HIDE DEF s
    <3>2. visit'[w] # NoVisit /\ visit'[w].for = visit[w].for /\ \A v \in Clerk : v # w => visit'[v] = visit[v]
      BY <1>t, <3>1 DEF NoVisit
    <3> QED BY <1>c, <2>0, <3>1, <3>2
  <2> QED BY <2>1, <2>2, <2>3
<1>8. ASSUME NEW w \in Clerk, WriteMapping(w) PROVE Announced /\ Linked
  <2>0. visit[w] # NoVisit /\ visit[w] \in SyncVisit /\ visit[w].at = "write"
    BY <1>8, <1>t DEF WriteMapping, NoVisit
  <2>1. mapping'.linked = mapping.linked /\ transfer'.st = transfer.st BY <1>8, <1>t DEF WriteMapping, MappingRow
  <2>2. CASE Over(w, "processed") BY <1>o, <2>0, <2>1, <2>2
  <2>3. CASE visit' = [visit EXCEPT ![w].at = "mirror"] /\ UNCHANGED notice
    <3>1. visit'[w] \in SyncVisit /\ visit'[w].for = visit[w].for /\ \A v \in Clerk : v # w => visit'[v] = visit[v]
      BY <1>t, <2>0, <2>3 DEF SyncVisit
    <3>2. visit'[w] # NoVisit BY <3>1 DEF SyncVisit, NoVisit
    <3> QED BY <1>c, <2>0, <2>1, <2>3, <3>1, <3>2
  <2> QED BY <1>8, <2>2, <2>3 DEF WriteMapping
<1>9. ASSUME NEW w \in Clerk, SetPaymentStatus(w) PROVE Announced /\ Linked
  BY <1>9, <1>o DEF SetPaymentStatus, NoVisit
<1>10. ASSUME NEW w \in Clerk, NEW unauthorized \in BOOLEAN, SyncFails(w, unauthorized) PROVE Announced /\ Linked
  <2>1. /\ visit[w] # NoVisit /\ visit' = [visit EXCEPT ![w] = NoVisit] /\ UNCHANGED <<mapping, transfer>>
        /\ \A m \in Notice : notice'[m].sent = notice[m].sent
        /\ \A m \in Notice : m # visit[w].for => notice'[m] = notice[m]
    BY <1>10, <1>t DEF SyncFails, Finish, NoticeRow
  <2> QED BY <1>i, <1>t, <2>1 DEF Finished
<1>11. ASSUME Reconnected PROVE Announced /\ Linked BY <1>11, <1>i DEF Reconnected, Finished
<1> QED BY <1>1, <1>2, <1>3, <1>4, <1>5, <1>6, <1>7, <1>8, <1>9, <1>10, <1>11 DEF InvoiceSyncNext, BillChanges

(* What goes forward has not been taken back before.                         *)
LEMMA GoneForward ==
    ASSUME SyncTyped, InvoiceSyncNext, GoesForward'
    PROVE  /\ GoesForward
           /\ \A c : CodeIsTrue(c) => CodeIsTrue(c)'
           /\ \A s : BeenThere(s) => BeenThere(s)'
<1>1. ASSUME NEW n \in Notice, BillChanges(n) PROVE
        /\ GoesForward
        /\ \/ bill.is \in {"open", "overdue"}
           \/ bill.is = "paid" /\ bill'.is = "voided"
  <2>0. \E s : bill' = [is |-> s, reverted |-> bill.reverted \/ s = "open"] BY <1>1 DEF BillChanges, Becomes
  <2>1. PICK s : bill' = [is |-> s, reverted |-> bill.reverted \/ s = "open"] BY <2>0
  <2>2. bill'.is = s /\ (bill'.reverted <=> bill.reverted \/ s = "open") BY <2>1, Zenon
  <2>3. bill'.is # "open" /\ ~bill.reverted /\ bill'.is # "draft" BY <2>2 DEF GoesForward
  <2>4. bill.is \in {"open", "overdue"} \/ (bill.is = "paid" /\ bill'.is = "voided")
    BY <1>1, <2>3 DEF BillChanges, Becomes
  <2> QED BY <2>3, <2>4 DEF GoesForward
<1>2. CASE \E n \in Notice : BillChanges(n) BY <1>1, <1>2 DEF CodeIsTrue, BeenThere
<1>3. CASE UNCHANGED bill BY <1>3 DEF GoesForward, CodeIsTrue, BeenThere
<1> QED
  BY <1>2, <1>3 DEF InvoiceSyncNext, ReceiveNotice, NoticeStarts, InvoiceLinked, ReconcileStarts, GetInvoice, GetPayment,
       WriteMapping, SetPaymentStatus, SyncFails, Reconnected

LEMMA SyncTrue ==
    ASSUME SyncInv, InvoiceSyncNext, GoesForward', transfer'.st = "succeeded"
    PROVE  /\ CodeIsTrue(mapping.code)' /\ BeenThere(mapping.pay)'
           /\ \A w \in Clerk : visit'[w] # NoVisit => ReadIsTrue(w)'
           /\ VoidIsNews'
<1> DEFINE Row == CodeIsTrue(mapping.code)' /\ BeenThere(mapping.pay)'
           Reads == \A w \in Clerk : visit'[w] # NoVisit => ReadIsTrue(w)'
           Goal == Row /\ Reads /\ VoidIsNews'
<1>t. /\ notice \in [Notice -> NoticeRow] /\ mapping \in MappingRow /\ SyncTyped
      /\ transfer \in [st : {"in_progress", "attention", "succeeded"}, code : Codes]
      /\ visit \in [Clerk -> SyncVisit \cup {NoVisit}]
      /\ bill \in [is : {"open", "overdue", "paid", "voided", "gone", "draft"}, reverted : BOOLEAN]
  BY DEF SyncInv, SyncTyped
<1>f. /\ GoesForward /\ bill.is # "draft"
      /\ \A c : CodeIsTrue(c) => CodeIsTrue(c)'
      /\ \A s : BeenThere(s) => BeenThere(s)'
  BY <1>t, GoneForward DEF GoesForward
<1>i. transfer.st = "succeeded" =>
          /\ CodeIsTrue(mapping.code) /\ BeenThere(mapping.pay)
          /\ \A w \in Clerk : visit[w] # NoVisit => ReadIsTrue(w)
          /\ VoidIsNews
  BY <1>f DEF SyncInv
<1>n. \A n \in Notice : ~notice[n].sent =>
          /\ ~Finished(n) /\ notice[n].job = "none"
          /\ \A w \in Clerk : visit[w] # NoVisit => visit[w].for # n
  BY DEF SyncInv
<1>k. ASSUME NEW w \in Clerk, visit[w] # NoVisit, ReadIsTrue(w), visit'[w] = visit[w] PROVE ReadIsTrue(w)'
  BY <1>f, <1>k DEF ReadIsTrue
<1>1. ASSUME NEW n \in Notice, BillChanges(n) PROVE Goal
  <2>1. /\ ~notice[n].sent /\ UNCHANGED <<mapping, transfer, visit>>
        /\ notice' = [notice EXCEPT ![n].sent = TRUE]
    BY <1>1 DEF BillChanges, Becomes
  <2>2. Row BY <1>f, <1>i, <2>1
  <2>3. Reads BY <1>i, <1>k, <2>1
  <2>4. /\ notice'[n].sent = TRUE /\ ~Finished(n)' /\ \A w \in Clerk : visit'[w] # NoVisit => visit'[w].for # n
    BY <1>n, <1>t, <2>1 DEF Finished, NoticeRow
  <2>5. Unread(n)' BY <2>4 DEF Unread
  <2> QED BY <2>2, <2>3, <2>5 DEF VoidIsNews
<1>b. ASSUME ~\E n \in Notice : BillChanges(n) PROVE UNCHANGED bill
  BY <1>b DEF InvoiceSyncNext, ReceiveNotice, NoticeStarts, InvoiceLinked, ReconcileStarts, GetInvoice, GetPayment,
       WriteMapping, SetPaymentStatus, SyncFails, Reconnected
<1>u. ASSUME UNCHANGED bill, VoidIsNews, mapping'.code = mapping.code,
             \A n \in Notice : Unread(n) => Unread(n)'
      PROVE  VoidIsNews'
  BY <1>u DEF VoidIsNews
<1>2. ASSUME NEW n \in Notice, NEW dies \in BOOLEAN, ReceiveNotice(n, dies) PROVE Goal
  <2>1. /\ UNCHANGED <<bill, mapping, transfer, visit>> /\ \A m \in Notice : m # n => notice'[m] = notice[m]
        /\ notice'[n].row = "queued" /\ notice'[n].sent = notice[n].sent
    BY <1>2, <1>t DEF ReceiveNotice, NoticeRow
  <2>2. \A m \in Notice : Unread(m) => Unread(m)' BY <2>1 DEF Unread, Finished
  <2> QED BY <1>f, <1>i, <1>k, <1>u, <2>1, <2>2
<1>v. ASSUME NEW w \in Clerk, NEW n \in Notice \cup {None}, UNCHANGED <<bill, mapping, transfer>>,
             visit' = [visit EXCEPT ![w] = [op |-> "sync", at |-> "invoice", for |-> n, row |-> mapping]],
             \A m \in Notice : notice'[m].row = notice[m].row /\ notice'[m].sent = notice[m].sent
      PROVE  Goal
  <2>1. /\ visit'[w].at = "invoice" /\ visit'[w].row = mapping
        /\ \A v \in Clerk : v # w => visit'[v] = visit[v]
    BY <1>t, <1>v
  <2>2. ReadIsTrue(w)' BY <1>f, <1>i, <1>v, <2>1 DEF ReadIsTrue
  <2>3. Reads BY <1>i, <1>k, <1>v, <2>1, <2>2
  <2>4. \A m \in Notice : Unread(m) => Unread(m)' BY <1>v, <2>1 DEF Unread, Finished
  <2> QED BY <1>f, <1>i, <1>u, <1>v, <2>3, <2>4
<1>3. ASSUME NEW n \in Notice, NEW w \in Clerk, NoticeStarts(w, n) PROVE Goal
  <2>0. UNCHANGED <<bill, mapping, transfer>> /\ mapping.linked BY <1>3 DEF NoticeStarts, SyncInv
  <2>1. CASE Finish(n, None, "done") /\ UNCHANGED visit
    <3>1. \A m \in Notice : notice'[m].row = notice[m].row /\ notice'[m].sent = notice[m].sent
      BY <1>t, <2>1 DEF Finish, NoticeRow
    <3>2. \A m \in Notice : Unread(m) => Unread(m)' BY <2>1, <3>1 DEF Unread, Finished
    <3> QED BY <1>f, <1>i, <1>k, <1>u, <2>0, <2>1, <3>2
  <2>2. CASE /\ notice' = [notice EXCEPT ![n].job = "running", ![n].runs = @ + 1]
             /\ visit' = [visit EXCEPT ![w] = [op |-> "sync", at |-> "invoice", for |-> n, row |-> mapping]]
    <3>1. \A m \in Notice : notice'[m].row = notice[m].row /\ notice'[m].sent = notice[m].sent
      BY <1>t, <2>2 DEF NoticeRow
    <3> QED BY <1>v, <2>0, <2>2, <3>1
  <2> QED BY <1>3, <2>0, <2>1, <2>2 DEF NoticeStarts
<1>4. ASSUME NEW mismatch \in BOOLEAN, InvoiceLinked(mismatch) PROVE Goal
  <2>1. ~mismatch
    <3>1. CASE mismatch BY <1>4, <3>1 DEF InvoiceLinked
    <3> QED BY <3>1
  <2>2. /\ mapping' = [linked |-> TRUE, voucher |-> VoucherStatus(bill.is), pay |-> bill.is, code |-> None]
        /\ bill.is \in {"open", "overdue", "paid"} /\ UNCHANGED <<bill, visit>> /\ ~mapping.linked
    BY <1>4, <2>1 DEF InvoiceLinked
  <2>3. \A w \in Clerk : visit[w] = NoVisit BY <2>2 DEF SyncInv
  <2>4. Row BY <2>2 DEF CodeIsTrue, BeenThere
  <2> QED BY <2>2, <2>3, <2>4 DEF VoidIsNews
<1>5. ASSUME NEW w \in Clerk, ReconcileStarts(w) PROVE Goal
  BY <1>5, <1>v DEF ReconcileStarts
<1>o. ASSUME NEW w \in Clerk, visit[w] # NoVisit, Over(w, "processed"), UNCHANGED <<bill, transfer>>, Row,
             mapping'.code = mapping.code, visit[w].at # "invoice"
      PROVE  Goal
  <2>1. /\ visit' = [visit EXCEPT ![w] = NoVisit]
        /\ \A m \in Notice : m # visit[w].for => notice'[m] = notice[m]
    BY <1>o, <1>t, OverTypes
  <2>2. Reads BY <1>i, <1>k, <1>o, <1>t, <2>1
  <2>3. \A m \in Notice : Unread(m) => Unread(m)' BY <1>o, <1>t, <2>1 DEF Unread, Finished
  <2> QED BY <1>i, <1>o, <1>u, <2>2, <2>3
<1>a. ASSUME NEW w \in Clerk, visit[w] # NoVisit, NEW c, SetAttention(w, c), UNCHANGED bill,
             (c = "MISSING" /\ bill.is = "gone") \/ (c = "VOIDED" /\ bill.is = "voided")
      PROVE  Goal
  <2>1. visit' = [visit EXCEPT ![w] = NoVisit] /\ transfer'.st = transfer.st
    BY <1>a, <1>t, OverTypes DEF SetAttention
  <2>2. mapping'.code = c /\ mapping'.pay = mapping.pay BY <1>a, <1>t DEF SetAttention, MappingRow
  <2>3. Row BY <1>a, <1>i, <2>1, <2>2 DEF CodeIsTrue, BeenThere
  <2>4. Reads BY <1>i, <1>k, <1>t, <2>1
  <2> QED BY <1>a, <2>2, <2>3, <2>4 DEF VoidIsNews
<1>c. ASSUME NEW w \in Clerk, visit[w] # NoVisit, visit'[w] # NoVisit, visit'[w].for = visit[w].for,
             \A v \in Clerk : v # w => visit'[v] = visit[v], ReadIsTrue(w)', Row,
             visit[w].at = "invoice" => bill.is # "voided",
             UNCHANGED <<bill, notice, transfer>>, mapping'.code = mapping.code
      PROVE  Goal
  <2>1. Reads BY <1>c, <1>i, <1>k
  <2>2. VoidIsNews'
    <3>1. CASE bill.is # "voided" BY <1>c, <3>1 DEF VoidIsNews
    <3>2. CASE bill.is = "voided"
      <4>1. \A m \in Notice : Unread(m) => Unread(m)' BY <1>c, <3>2 DEF Unread, Finished
      <4> QED BY <1>c, <1>i, <1>u, <4>1
    <3> QED BY <3>1, <3>2
  <2> QED BY <1>c, <2>1, <2>2
<1>6. ASSUME NEW w \in Clerk, GetInvoice(w) PROVE Goal
  <2>0. visit[w] # NoVisit /\ visit[w].at = "invoice" /\ UNCHANGED bill BY <1>6 DEF GetInvoice, NoVisit
  <2>1. CASE bill.is = "gone"
    <3>1. SetAttention(w, "MISSING") BY <1>6, <2>1 DEF GetInvoice
    <3> QED BY <1>a, <2>0, <2>1, <3>1
  <2>2. CASE bill.is = "voided" BY <1>6, <1>a, <2>0, <2>2 DEF GetInvoice
  <2>3. CASE bill.is \notin {"gone", "voided"}
    <3>1. /\ visit' = [visit EXCEPT ![w] = [op |-> "sync", at |-> "payment", for |-> visit[w].for,
                                            row |-> visit[w].row, bill |-> bill.is]]
          /\ UNCHANGED <<notice, mapping, transfer>>
      BY <1>6, <2>3 DEF GetInvoice
    <3>2. /\ visit'[w] # NoVisit /\ visit'[w].for = visit[w].for /\ visit'[w].at = "payment"
          /\ visit'[w].row = visit[w].row /\ visit'[w].bill = bill.is
          /\ \A v \in Clerk : v # w => visit'[v] = visit[v]
      BY <1>t, <3>1 DEF NoVisit
    <3>3. visit[w].row.code = None BY <1>i, <2>0, <2>3, <3>1 DEF ReadIsTrue, CodeIsTrue
    <3>4. bill.is \in {"open", "overdue", "paid"} BY <1>f, <1>t, <2>3
    <3>5. ReadIsTrue(w)' BY <2>0, <3>2, <3>3, <3>4 DEF ReadIsTrue, BeenThere
    <3>6. Row BY <1>f, <1>i, <3>1
    <3> QED BY <1>c, <2>0, <2>3, <3>1, <3>2, <3>5, <3>6
  <2> QED BY <2>1, <2>2, <2>3
<1>7. ASSUME NEW w \in Clerk, GetPayment(w) PROVE Goal
  <2> DEFINE s == NormalizeLexwarePaymentStatus(visit[w].bill, Balanced(bill.is))
  <2>0. visit[w] # NoVisit /\ visit[w].at = "payment" /\ UNCHANGED bill BY <1>7 DEF GetPayment, NoVisit
  <2>s. transfer.st = "succeeded"
    BY <1>7, <1>t DEF GetPayment, SetAttention
  <2>r. visit[w].row.code = None /\ BeenThere(visit[w].bill) BY <1>i, <2>0, <2>s DEF ReadIsTrue
  <2>b. BeenThere(s) BY <2>r DEF NormalizeLexwarePaymentStatus, Balanced, BeenThere
  <2>1. CASE bill.is = "gone"
    <3>1. SetAttention(w, "MISSING") BY <1>7, <2>1 DEF GetPayment
    <3> QED BY <1>a, <2>0, <2>1, <3>1
  <2>2. CASE bill.is # "gone"
    <3>0. s # "attention" BY <2>b DEF BeenThere
    <3>1. /\ visit' = [visit EXCEPT ![w] = [op |-> "sync", at |-> "write", for |-> visit[w].for,
                                            row |-> visit[w].row, bill |-> visit[w].bill, pay |-> s]]
          /\ UNCHANGED <<notice, mapping, transfer>>
      BY <1>7, <2>2, <3>0 DEF GetPayment
    <3> HIDE DEF s
    <3>2. /\ visit'[w] # NoVisit /\ visit'[w].for = visit[w].for /\ visit'[w].at = "write"
          /\ visit'[w].row = visit[w].row /\ visit'[w].bill = visit[w].bill /\ visit'[w].pay = s
          /\ \A v \in Clerk : v # w => visit'[v] = visit[v]
      BY <1>t, <3>1 DEF NoVisit
    <3>5. ReadIsTrue(w)' BY <2>0, <2>r, <2>b, <3>2 DEF ReadIsTrue, BeenThere
    <3>6. Row BY <1>f, <1>i, <3>1
    <3> QED BY <1>c, <2>0, <3>1, <3>2, <3>5, <3>6
  <2> QED BY <2>1, <2>2
<1>8. ASSUME NEW w \in Clerk, WriteMapping(w) PROVE Goal
  <2>0. visit[w] # NoVisit /\ visit[w].at = "write" /\ UNCHANGED bill /\ transfer'.st = transfer.st
    BY <1>8, <1>t DEF WriteMapping, NoVisit
  <2>r. /\ visit[w].row.code = None /\ BeenThere(visit[w].bill) /\ BeenThere(visit[w].pay)
        /\ CodeIsTrue(mapping.code)
    BY <1>i, <2>0 DEF ReadIsTrue
  <2>1. ~ClearsOwnAttention(w) BY <2>r, NoticeAssumption DEF ClearsOwnAttention, OwnCodes
  <2>2. mapping'.code = mapping.code /\ mapping'.pay = visit[w].pay /\ transfer' = transfer
    BY <1>8, <1>t, <2>1 DEF WriteMapping, MappingRow
  <2>3. Row BY <2>0, <2>r, <2>2 DEF CodeIsTrue, BeenThere
  <2>4. CASE Over(w, "processed") BY <1>o, <2>0, <2>2, <2>3, <2>4
  <2>5. CASE visit' = [visit EXCEPT ![w].at = "mirror"] /\ UNCHANGED notice
    <3>0. visit[w] \in SyncVisit BY <1>t, <2>0
    <3>1. /\ visit'[w] \in SyncVisit /\ visit'[w].for = visit[w].for /\ visit'[w].at = "mirror"
          /\ visit'[w].row = visit[w].row /\ visit'[w].bill = visit[w].bill /\ visit'[w].pay = visit[w].pay
          /\ \A v \in Clerk : v # w => visit'[v] = visit[v]
      BY <1>t, <2>0, <2>5, <3>0 DEF SyncVisit
    <3>2. visit'[w] # NoVisit BY <3>1 DEF SyncVisit, NoVisit
    <3>3. ReadIsTrue(w)' BY <2>0, <2>r, <3>1 DEF ReadIsTrue, BeenThere
    <3> QED BY <1>c, <2>0, <2>2, <2>3, <2>5, <3>1, <3>2, <3>3
  <2> QED BY <1>8, <2>4, <2>5 DEF WriteMapping
<1>9. ASSUME NEW w \in Clerk, SetPaymentStatus(w) PROVE Goal
  <2>1. Row BY <1>9, <1>f, <1>i DEF SetPaymentStatus
  <2> QED BY <1>9, <1>o, <2>1 DEF SetPaymentStatus, NoVisit
<1>10. ASSUME NEW w \in Clerk, NEW unauthorized \in BOOLEAN, SyncFails(w, unauthorized) PROVE Goal
  <2>1. /\ visit[w] # NoVisit /\ visit' = [visit EXCEPT ![w] = NoVisit] /\ UNCHANGED <<bill, mapping, transfer>>
        /\ \A m \in Notice : notice'[m].sent = notice[m].sent
        /\ \A m \in Notice : notice'[m].row \in {notice[m].row, "failed"}
    BY <1>10, <1>t DEF SyncFails, Finish, NoticeRow
  <2>2. Reads BY <1>i, <1>k, <1>t, <2>1
  <2>3. \A m \in Notice : Unread(m) => Unread(m)' BY <1>t, <2>1 DEF Unread, Finished
  <2> QED BY <1>f, <1>i, <1>u, <2>1, <2>2, <2>3
<1>11. ASSUME Reconnected PROVE Goal
  <2>1. UNCHANGED <<bill, notice, mapping, transfer, visit>> BY <1>11 DEF Reconnected
  <2>2. \A m \in Notice : Unread(m) => Unread(m)' BY <2>1 DEF Unread, Finished
  <2> QED BY <1>f, <1>i, <1>k, <1>u, <2>1, <2>2
<1> QED BY <1>1, <1>2, <1>3, <1>4, <1>5, <1>6, <1>7, <1>8, <1>9, <1>10, <1>11 DEF InvoiceSyncNext

LEMMA SyncStep == ASSUME SyncInv, [InvoiceSyncNext]_invoiceSyncVars PROVE SyncInv'
<1>1. CASE InvoiceSyncNext
  <2>1. SyncTyped' BY <1>1, SyncTypes
  <2> QED BY <1>1, <2>1, AnnouncedStays, SyncTrue DEF SyncInv
<1>2. CASE UNCHANGED invoiceSyncVars
  <2> USE <1>2 DEF invoiceSyncVars
  <2>1. SyncTyped' = SyncTyped BY DEF SyncTyped
  <2>2. \A n \in Notice : Finished(n)' = Finished(n) /\ Unread(n)' = Unread(n) BY DEF Finished, Unread
  <2>3. \A w \in Clerk : ReadIsTrue(w)' = ReadIsTrue(w) BY DEF ReadIsTrue, CodeIsTrue, BeenThere
  <2>4. GoesForward' = GoesForward /\ CodeIsTrue(mapping.code)' = CodeIsTrue(mapping.code)
        /\ BeenThere(mapping.pay)' = BeenThere(mapping.pay)
    BY DEF GoesForward, CodeIsTrue, BeenThere
  <2>5. VoidIsNews' = VoidIsNews BY <2>2 DEF VoidIsNews
  <2> QED BY <2>1, <2>2, <2>3, <2>4, <2>5 DEF SyncInv
<1> QED BY <1>1, <1>2

(* When every announced change has been handled, in whatever order and after *)
(* whatever failures, the row says what Lexware says or is read again        *)
(* (lexware/invoice-sync.ts).                                                *)
THEOREM NothingStaysStale == InvoiceSyncSpec => []StaleIsReconciled
<1>1. InvoiceSyncSpec => []SyncInv BY SyncStart, SyncStep, PTL DEF InvoiceSyncSpec
<1>2. SyncInv => StaleIsReconciled BY SyncRead DEF StaleIsReconciled, GoesForward
<1> QED BY <1>1, <1>2, PTL
-----------------------------------------------------------------------------
(* The contacts of a customer.  As long as nothing excuses a second one,     *)
(* either the customer has been linked and all that still goes on is to      *)
(* bring the contact up to date (Settled), or (Unsettled) the customer is    *)
(* who it was in the beginning, whoever holds the claim is the only one at   *)
(* work, and it creates only when nobody of that name is there.              *)
Named == Person \cup {None}
NoneThere == \A k \in DOMAIN contacts : ~contacts[k].there
OneThere == \A j, k \in DOMAIN contacts : contacts[j].there /\ contacts[k].there => j = k

ContactVisit ==
    [op : {"contact"},
     at : {"claim", "search", "create", "store", "release", "forget", "update", "adrift"},
     who : Named, contact : Nat \cup {None}, recovering : BOOLEAN, asked : BOOLEAN]

ContactTyped ==
    /\ customer \in Named /\ excused \subseteq {"renamed", "asked", "linked", "blind"}
    /\ card \in [st : {"none", "unknown", "linked", "review"}, contact : Nat \cup {None},
                 claim : Clerk \cup {None}, as : Named]
    /\ contacts \in Seq([as : Named, there : BOOLEAN])
    /\ visit \in [Clerk -> ContactVisit \cup {NoVisit}]

Refreshing(w) == visit[w] = NoVisit \/ visit[w].at \in {"update", "adrift"}
Creating(w) == visit[w] # NoVisit /\ visit[w].at \in {"search", "create", "store", "release", "forget"}
Settled == card.st \in {"linked", "review"} /\ \A w \in Clerk : Refreshing(w)

(* An unanswered creation of a customer one cannot search for stays known.   *)
WaitsForHuman(w) ==
    At(w, "claim") /\ visit[w].recovering /\ visit[w].who = None =>
        card.st # "none" /\ \A v \in Clerk : ~Creating(v)

NobodyYet(w) ==
    At(w, "create") \/ ((At(w, "search") \/ At(w, "forget")) /\ visit[w].who = None) => NoneThere

Unsettled ==
    /\ \A w \in Clerk : visit[w] # NoVisit => visit[w].who = customer /\ ~visit[w].asked
    /\ \A k \in DOMAIN contacts : contacts[k].there => contacts[k].as = customer
    /\ \A w \in Clerk : Creating(w) => card.claim = w /\ card.st \in {"unknown", "review"}
    /\ \A w \in Clerk : WaitsForHuman(w) /\ NobodyYet(w)
    /\ customer = None /\ card.st = "none" => NoneThere

ContactInv ==
    /\ ContactTyped
    /\ excused = {} => OneThere /\ (Settled \/ Unsettled)

LEMMA OneIsNotTwo == ASSUME OneThere PROVE ~TwoContacts
<1> DEFINE S == {k \in DOMAIN contacts : contacts[k].there}
<1>1. CASE S = {} BY <1>1, FS_EmptySet DEF TwoContacts
<1>2. CASE S # {}
  <2>1. PICK k : k \in S BY <1>2
  <2>2. S = {k} BY <2>1 DEF OneThere
  <2>3. Cardinality(S) = 1 BY <2>2, FS_Singleton
  <2> QED BY <2>3 DEF TwoContacts
<1> QED BY <1>1, <1>2

LEMMA ContactStart == ContactInit => ContactInv
<1> SUFFICES ASSUME ContactInit PROVE ContactInv OBVIOUS
<1>1. ContactTyped
  BY DEF ContactInit, ActorsInit, NoCard, ContactTyped, Named
<1>2. OneThere BY DEF ContactInit, OneThere
<1>3. Unsettled
  BY DEF ContactInit, ActorsInit, NoCard, NoVisit, Unsettled, NoneThere, WaitsForHuman, NobodyYet, At, Creating
<1> QED BY <1>1, <1>2, <1>3 DEF ContactInv

LEMMA VisitShape ==
    ASSUME ContactTyped, NEW w \in Clerk
    PROVE  visit[w] = NoVisit \/ (visit[w] # NoVisit /\ visit[w] \in ContactVisit)
BY DEF ContactTyped, ContactVisit, NoVisit


LEMMA SeqRow ==
    ASSUME NEW R, NEW s \in Seq(R)
    PROVE  /\ \A k \in DOMAIN s : s[k] \in R
           /\ DOMAIN s = 1 .. Len(s) /\ Len(s) \in Nat
           /\ \A r \in R : Append(s, r) \in Seq(R) /\ Len(Append(s, r)) = Len(s) + 1
           /\ \A k \in DOMAIN s, r \in R : [s EXCEPT ![k] = r] \in Seq(R)
BY AppendProperties, ExceptSeq

LEMMA ContactTypes == ASSUME ContactTyped, ContactNext PROVE ContactTyped'
<1> DEFINE R == [as : Named, there : BOOLEAN]
<1>t. /\ \A k \in DOMAIN contacts : contacts[k] \in R
      /\ DOMAIN contacts = 1 .. Len(contacts) /\ Len(contacts) \in Nat
      /\ \A r \in R : Append(contacts, r) \in Seq(R)
      /\ \A k \in DOMAIN contacts, r \in R : [contacts EXCEPT ![k] = r] \in Seq(R)
  BY SeqRow DEF ContactTyped
<1>c. card \in [st : {"none", "unknown", "linked", "review"}, contact : Nat \cup {None},
                claim : Clerk \cup {None}, as : Named]
  BY DEF ContactTyped
<1>v. \A w \in Clerk, a \in {"claim", "search", "create", "store", "release", "forget", "update", "adrift"} :
         visit[w] \in ContactVisit => /\ [visit EXCEPT ![w].at = a] \in [Clerk -> ContactVisit \cup {NoVisit}]
                                      /\ visit[w].who \in Named /\ visit[w].contact \in Nat \cup {None}
  BY DEF ContactTyped, ContactVisit
<1>e. \A w \in Clerk : [visit EXCEPT ![w] = NoVisit] \in [Clerk -> ContactVisit \cup {NoVisit}]
  BY DEF ContactTyped
<1>a. \A w \in Clerk : \A a : At(w, a) => visit[w] \in ContactVisit BY VisitShape DEF At
<1>m. NoCard \in [st : {"none", "unknown", "linked", "review"}, contact : Nat \cup {None},
                  claim : Clerk \cup {None}, as : Named]
  BY DEF NoCard, Named
<1>x. \A reason \in {"renamed", "asked", "linked", "blind"}, cond \in BOOLEAN :
         Excuse(reason, cond) => excused' \subseteq {"renamed", "asked", "linked", "blind"}
  BY DEF Excuse, ContactTyped
<1>1. ASSUME NEW w \in Clerk, ResolveForTransfer(w) PROVE ContactTyped'
  <2>1. Plan(w) \in {"claim", "update"} BY <1>1 DEF ResolveForTransfer, Plan
  <2> QED BY <1>1, <2>1 DEF ResolveForTransfer, Begin, ContactTyped, ContactVisit
<1>2. ASSUME NEW w \in Clerk, ClaimCreate(w) PROVE ContactTyped'
  <2>1. visit[w] \in ContactVisit BY <1>2, <1>a DEF ClaimCreate
  <2>2. card' \in [st : {"none", "unknown", "linked", "review"}, contact : Nat \cup {None},
                   claim : Clerk \cup {None}, as : Named]
    BY <1>2, <1>c DEF ClaimCreate, MarkReview, NoCard, Named
  <2>3. visit' \in [Clerk -> ContactVisit \cup {NoVisit}]
    BY <1>2, <2>1, <1>c DEF ClaimCreate, MarkReview, Go, End, ContactTyped, ContactVisit
  <2>4. excused' \subseteq {"renamed", "asked", "linked", "blind"} BY <1>2, <1>x DEF ClaimCreate, ContactTyped
  <2> QED BY <1>2, <2>2, <2>3, <2>4 DEF ClaimCreate, ContactTyped
<1>3. ASSUME NEW w \in Clerk, SearchOrCreate(w) PROVE ContactTyped'
  <2>1. visit[w] \in ContactVisit BY <1>3, <1>a DEF SearchOrCreate
  <2>2. \/ \E k \in StrongMatches(w) : LinkWithin(k) /\ visit' = [visit EXCEPT ![w].at = "update", ![w].contact = k]
        \/ MarkReview(w)
        \/ Go(w, "create") /\ UNCHANGED card
    BY <1>3 DEF SearchOrCreate
  <2>3. \A k \in StrongMatches(w) : k \in Nat BY <1>t DEF StrongMatches
  <2>4. card' \in [st : {"none", "unknown", "linked", "review"}, contact : Nat \cup {None},
                   claim : Clerk \cup {None}, as : Named]
    BY <1>c, <2>2, <2>3 DEF MarkReview, NoCard, Named, LinkWithin
  <2>5. visit' \in [Clerk -> ContactVisit \cup {NoVisit}]
    BY <2>1, <2>2, <2>3 DEF MarkReview, Go, End, ContactTyped, ContactVisit
  <2> QED BY <1>3, <2>4, <2>5 DEF SearchOrCreate, ContactTyped
<1>4. ASSUME NEW w \in Clerk, SearchFails(w) \/ CreateUnanswered(w) PROVE ContactTyped'
  BY <1>4, <1>c, <1>e DEF SearchFails, CreateUnanswered, ReleaseClaim, End, ContactTyped
<1>5. ASSUME NEW w \in Clerk, CreateContact(w) PROVE ContactTyped'
  <2>1. visit[w] \in ContactVisit BY <1>5, <1>a DEF CreateContact
  <2>2. PICK o \in Outcomes :
           /\ contacts' = IF o.made THEN Append(contacts, [as |-> visit[w].who, there |-> TRUE]) ELSE contacts
           /\ visit' = [visit EXCEPT ![w].at = o.then,
                                     ![w].contact = IF o.made THEN Len(contacts) + 1 ELSE None]
           /\ Excuse("blind", o.made /\ o.then = "forget" /\ visit[w].who = None)
    BY <1>5 DEF CreateContact
  <2>3. contacts' \in Seq(R)
    <3>1. [as |-> visit[w].who, there |-> TRUE] \in R BY <2>1 DEF ContactVisit
    <3> QED BY <3>1, <2>2, <1>t DEF ContactTyped
  <2>4. visit' \in [Clerk -> ContactVisit \cup {NoVisit}]
    <3> DEFINE c == IF o.made THEN Len(contacts) + 1 ELSE None
    <3>1. o.then \in {"store", "release", "forget"} BY DEF Outcomes
    <3>2. c \in Nat \cup {None} BY <1>t
    <3>3. visit' = [visit EXCEPT ![w].at = o.then, ![w].contact = c] BY <2>2
    <3> HIDE DEF c
    <3> QED BY <2>1, <3>1, <3>2, <3>3 DEF ContactTyped, ContactVisit
  <2>5. excused' \subseteq {"renamed", "asked", "linked", "blind"} BY <2>2 DEF Excuse, ContactTyped
  <2> QED BY <1>5, <2>3, <2>4, <2>5 DEF CreateContact, ContactTyped
<1>6. ASSUME NEW w \in Clerk, CreatedStored(w) PROVE ContactTyped'
  <2>1. visit[w] \in ContactVisit BY <1>6, <1>a DEF CreatedStored
  <2> QED BY <1>6, <1>c, <1>e, <2>1 DEF CreatedStored, End, ContactTyped, ContactVisit
<1>7. ASSUME NEW w \in Clerk, CreateRefused(w) PROVE ContactTyped'
  <2>1. visit' \in [Clerk -> ContactVisit \cup {NoVisit}]
    <3> SUFFICES ASSUME NEW v \in Clerk PROVE visit'[v] \in ContactVisit \cup {NoVisit}
      BY <1>7 DEF CreateRefused
    <3>1. visit'[v] \in {NoVisit, visit[v], [visit[v] EXCEPT !.at = "adrift"]}
          /\ (visit'[v] \notin {NoVisit, visit[v]} => At(v, "update"))
      BY <1>7 DEF CreateRefused
    <3>2. At(v, "update") => [visit[v] EXCEPT !.at = "adrift"] \in ContactVisit BY <1>a DEF ContactVisit
    <3> QED BY <3>1, <3>2 DEF ContactTyped
  <2> QED BY <1>7, <1>m, <2>1 DEF CreateRefused, ContactTyped
<1>8. ASSUME NEW w \in Clerk, UpdateLinked(w) PROVE ContactTyped'
  <2>1. visit[w] \in ContactVisit BY <1>8, <1>a DEF UpdateLinked
  <2>2. card' \in [st : {"none", "unknown", "linked", "review"}, contact : Nat \cup {None},
                   claim : Clerk \cup {None}, as : Named]
    BY <1>8, <1>c, <2>1 DEF UpdateLinked, ContactVisit
  <2>3. contacts' \in Seq(R)
    <3>1. CASE visit[w].contact # Foreign /\ Exists(visit[w].contact)
      <4> DEFINE k == visit[w].contact
      <4>1. k \in DOMAIN contacts BY <3>1 DEF Exists
      <4>2. contacts' = [contacts EXCEPT ![k] = [contacts[k] EXCEPT !.as = visit[w].who]]
        BY <1>8, <3>1 DEF UpdateLinked
      <4>3. [contacts[k] EXCEPT !.as = visit[w].who] \in R BY <4>1, <1>t, <2>1 DEF ContactVisit
      <4> QED BY <4>1, <4>2, <4>3, <1>t
    <3>2. CASE ~(visit[w].contact # Foreign /\ Exists(visit[w].contact))
      BY <1>8, <3>2 DEF UpdateLinked, ContactTyped
    <3> QED BY <3>1, <3>2
  <2> QED BY <1>8, <1>e, <2>2, <2>3 DEF UpdateLinked, End, ContactTyped
<1>9. ASSUME NEW k \in 0 .. Len(contacts), AdminLinks(k) PROVE ContactTyped'
  <2>1. k \in Nat BY <1>t
  <2>2. excused' \subseteq {"renamed", "asked", "linked", "blind"} BY <1>9, <1>x DEF AdminLinks, ClaimActive
  <2>3. card' = [st |-> "linked", contact |-> k, claim |-> None, as |-> None] BY <1>9 DEF AdminLinks, LinkWithin
  <2> QED BY <1>9, <2>1, <2>2, <2>3 DEF AdminLinks, ContactTyped, Named
<1>10. ASSUME NEW w \in Clerk, CreateForCustomer(w) PROVE ContactTyped'
  BY <1>10 DEF CreateForCustomer, Begin, ContactTyped, ContactVisit
<1>11. ASSUME NEW p \in Person \cup {None}, CustomerChanged(p) PROVE ContactTyped'
  BY <1>11, <1>x DEF CustomerChanged, ContactTyped, Named
<1>12. ASSUME NEW k \in 0 .. Len(contacts), ContactVanishes(k) PROVE ContactTyped'
  <2>1. k \in DOMAIN contacts BY <1>12, <1>t DEF ContactVanishes, Exists
  <2>2. contacts' = [contacts EXCEPT ![k] = [contacts[k] EXCEPT !.there = FALSE]]
    BY <1>12 DEF ContactVanishes
  <2>3. [contacts[k] EXCEPT !.there = FALSE] \in R BY <2>1, <1>t
  <2>4. contacts' \in Seq(R) BY <2>1, <2>2, <2>3, <1>t
  <2> QED BY <1>12, <2>4 DEF ContactVanishes, ContactTyped
<1>13. ASSUME NEW w \in Clerk, ContactWorkerDies(w) PROVE ContactTyped'
  BY <1>13, <1>e DEF ContactWorkerDies, End, ContactTyped
<1>14. ASSUME ClaimExpires PROVE ContactTyped'
  BY <1>14, <1>c DEF ClaimExpires, ContactTyped
<1> QED BY <1>1, <1>2, <1>3, <1>4, <1>5, <1>6, <1>7, <1>8, <1>9, <1>10, <1>11, <1>12, <1>13, <1>14
       DEF ContactNext

LEMMA ExcusesStay == ASSUME ContactNext, excused' = {} PROVE excused = {}
BY DEF ContactNext, ResolveForTransfer, ClaimCreate, SearchOrCreate, SearchFails, CreateContact, CreatedStored,
       CreateUnanswered, CreateRefused, UpdateLinked, AdminLinks, CreateForCustomer, CustomerChanged,
       ContactVanishes, ContactWorkerDies, ClaimExpires, Excuse

LEMMA FewerThere ==
    ASSUME OneThere, DOMAIN contacts' = DOMAIN contacts,
           \A k \in DOMAIN contacts : contacts'[k].there => contacts[k].there
    PROVE  OneThere'
BY DEF OneThere

(* What becomes of the contacts when nobody creates one.                     *)
LEMMA NoneMade ==
    ASSUME ContactTyped,
           \/ UNCHANGED contacts
           \/ \E w \in Clerk : UpdateLinked(w)
           \/ \E k \in 0 .. Len(contacts) : ContactVanishes(k)
    PROVE  /\ DOMAIN contacts' = DOMAIN contacts
           /\ \A k \in DOMAIN contacts : contacts'[k].there => contacts[k].there
           /\ \A k \in DOMAIN contacts : \/ contacts'[k].as = contacts[k].as
                                         \/ \E w \in Clerk : (At(w, "update") \/ At(w, "adrift")) /\ contacts'[k].as = visit[w].who
<1>t. \A k \in DOMAIN contacts : contacts[k] \in [as : Named, there : BOOLEAN] BY SeqRow DEF ContactTyped
<1>1. CASE UNCHANGED contacts BY <1>1
<1>2. ASSUME NEW w \in Clerk, UpdateLinked(w), ~UNCHANGED contacts
      PROVE  \E k \in DOMAIN contacts : contacts' = [contacts EXCEPT ![k] = [contacts[k] EXCEPT !.as = visit[w].who]]
  BY <1>2 DEF UpdateLinked, Exists
<1>3. ASSUME NEW k \in 0 .. Len(contacts), ContactVanishes(k)
      PROVE  k \in DOMAIN contacts /\ contacts' = [contacts EXCEPT ![k] = [contacts[k] EXCEPT !.there = FALSE]]
  BY <1>3 DEF ContactVanishes, Exists
<1>4. ASSUME NEW w \in Clerk, UpdateLinked(w), ~UNCHANGED contacts
      PROVE  /\ DOMAIN contacts' = DOMAIN contacts
             /\ \A k \in DOMAIN contacts : contacts'[k].there => contacts[k].there
             /\ \A k \in DOMAIN contacts : contacts'[k].as = contacts[k].as \/ contacts'[k].as = visit[w].who
             /\ At(w, "update") \/ At(w, "adrift")
  <2>1. PICK k \in DOMAIN contacts : contacts' = [contacts EXCEPT ![k] = [contacts[k] EXCEPT !.as = visit[w].who]]
    BY <1>4, <1>2
  <2>2. At(w, "update") \/ At(w, "adrift") BY <1>4 DEF UpdateLinked
  <2> QED BY <2>1, <2>2, <1>t
<1>5. ASSUME NEW k \in 0 .. Len(contacts), ContactVanishes(k)
      PROVE  /\ DOMAIN contacts' = DOMAIN contacts
             /\ \A j \in DOMAIN contacts : contacts'[j].there => contacts[j].there
             /\ \A j \in DOMAIN contacts : contacts'[j].as = contacts[j].as
  BY <1>3, <1>5, <1>t
<1> QED BY <1>1, <1>4, <1>5

LEMMA SettledKept ==
    ASSUME ContactInv, ContactNext, excused' = {}, Settled PROVE Settled' /\ OneThere'
<1>0. ContactTyped /\ OneThere BY ExcusesStay DEF ContactInv
<1>f. \A w \in Clerk : \A a : At(w, a) => a \in {"update", "adrift"} BY DEF Settled, Refreshing, At
<1>v. visit \in [Clerk -> ContactVisit \cup {NoVisit}] BY <1>0 DEF ContactTyped
<1>g. card \in [st : {"none", "unknown", "linked", "review"}, contact : Nat \cup {None},
                claim : Clerk \cup {None}, as : Named]
  BY <1>0 DEF ContactTyped
<1>1. ASSUME NEW w \in Clerk, ResolveForTransfer(w) PROVE UNCHANGED contacts /\ Settled'
  <2>1. Plan(w) = "update" BY <1>1 DEF ResolveForTransfer, Plan, Settled
  <2> QED BY <1>1, <1>v, <2>1 DEF ResolveForTransfer, Begin, Settled, Refreshing
<1>2. ASSUME NEW w \in Clerk, UpdateLinked(w) PROVE Settled'
  BY <1>2, <1>v, <1>g DEF UpdateLinked, End, Settled, Refreshing
<1>3. ASSUME NEW k \in 0 .. Len(contacts), AdminLinks(k) PROVE UNCHANGED contacts /\ Settled'
  BY <1>3 DEF AdminLinks, LinkWithin, Settled, Refreshing
<1>4. ASSUME NEW p \in Person \cup {None}, CustomerChanged(p) PROVE UNCHANGED contacts /\ Settled'
  BY <1>4 DEF CustomerChanged, Settled, Refreshing
<1>5. ASSUME NEW k \in 0 .. Len(contacts), ContactVanishes(k) PROVE Settled'
  BY <1>5 DEF ContactVanishes, Settled, Refreshing
<1>6. ASSUME NEW w \in Clerk, ContactWorkerDies(w) PROVE UNCHANGED contacts /\ Settled'
  BY <1>6, <1>v DEF ContactWorkerDies, End, Settled, Refreshing
<1>7. ASSUME ClaimExpires PROVE UNCHANGED contacts /\ Settled'
  BY <1>7, <1>g DEF ClaimExpires, Settled, Refreshing
<1>8. ASSUME NEW w \in Clerk, CreateForCustomer(w) PROVE FALSE BY <1>8 DEF CreateForCustomer
<1>9. ASSUME NEW w \in Clerk, \/ ClaimCreate(w) \/ SearchOrCreate(w) \/ SearchFails(w) \/ CreateContact(w)
                              \/ CreatedStored(w) \/ CreateUnanswered(w) \/ CreateRefused(w)
      PROVE  FALSE
  BY <1>9, <1>f DEF ClaimCreate, SearchOrCreate, SearchFails, CreateContact, CreatedStored, CreateUnanswered, CreateRefused
<1>10. Settled' /\ (\/ UNCHANGED contacts
                    \/ \E w \in Clerk : UpdateLinked(w)
                    \/ \E k \in 0 .. Len(contacts) : ContactVanishes(k))
  BY <1>1, <1>2, <1>3, <1>4, <1>5, <1>6, <1>7, <1>8, <1>9 DEF ContactNext
<1> QED BY <1>0, <1>10, NoneMade, FewerThere

(* Nobody begins to create.                                                  *)
LEMMA Undisturbed ==
    ASSUME ContactTyped, OneThere, Unsettled, UNCHANGED customer,
           \/ UNCHANGED contacts
           \/ \E w \in Clerk : UpdateLinked(w)
           \/ \E k \in 0 .. Len(contacts) : ContactVanishes(k),
           \A w \in Clerk : \/ visit'[w] = visit[w]
                            \/ visit'[w] = NoVisit
                            \/ visit'[w] # NoVisit /\ visit'[w].at \in {"update", "adrift"}
                               /\ visit'[w].who = customer /\ ~visit'[w].asked,
           \A w \in Clerk : Creating(w) /\ visit'[w] = visit[w] => card'.claim = w /\ card'.st \in {"unknown", "review"},
           card'.st = "none" => card.st = "none"
    PROVE  OneThere' /\ Unsettled'
<1>1. /\ DOMAIN contacts' = DOMAIN contacts
      /\ \A k \in DOMAIN contacts : contacts'[k].there => contacts[k].there
      /\ \A k \in DOMAIN contacts : contacts'[k].as = contacts[k].as \/ contacts'[k].as = customer
  <2>1. \A w \in Clerk : At(w, "update") \/ At(w, "adrift") => visit[w].who = customer BY DEF Unsettled, At
  <2> QED BY <2>1, NoneMade
<1>2. OneThere' BY <1>1, FewerThere
<1>3. NoneThere => NoneThere' BY <1>1 DEF NoneThere
<1>4. \A w \in Clerk : Creating(w)' => Creating(w) /\ visit'[w] = visit[w] BY DEF Creating
<1>5. \A w \in Clerk : WaitsForHuman(w)'
  <2> SUFFICES ASSUME NEW w \in Clerk, At(w, "claim")', visit'[w].recovering /\ visit'[w].who = None
               PROVE  card'.st # "none" /\ \A v \in Clerk : ~Creating(v)'
    BY DEF WaitsForHuman
  <2>1. visit'[w] = visit[w] BY DEF At
  <2>2. WaitsForHuman(w) BY DEF Unsettled
  <2> QED BY <1>4, <2>1, <2>2 DEF WaitsForHuman, At
<1>6. \A w \in Clerk : NobodyYet(w)'
  <2> SUFFICES ASSUME NEW w \in Clerk, At(w, "create")' \/ ((At(w, "search")' \/ At(w, "forget")') /\ visit'[w].who = None)
               PROVE  NoneThere'
    BY DEF NobodyYet
  <2>1. visit'[w] = visit[w] BY DEF At
  <2>2. NobodyYet(w) BY DEF Unsettled
  <2> QED BY <1>3, <2>1, <2>2 DEF NobodyYet, At
<1>7. \A w \in Clerk : visit'[w] # NoVisit => visit'[w].who = customer /\ ~visit'[w].asked BY DEF Unsettled
<1>8. \A k \in DOMAIN contacts' : contacts'[k].there => contacts'[k].as = customer BY <1>1 DEF Unsettled
<1>9. customer = None /\ card'.st = "none" => NoneThere' BY <1>3 DEF Unsettled
<1> QED BY <1>2, <1>4, <1>5, <1>6, <1>7, <1>8, <1>9 DEF Unsettled

LEMMA UnsettledKept ==
    ASSUME ContactInv, ContactNext, excused' = {}, ~Settled PROVE OneThere' /\ (Settled' \/ Unsettled')
<1>0. ContactTyped /\ OneThere /\ Unsettled /\ excused = {} BY ExcusesStay DEF ContactInv
<1>v. visit \in [Clerk -> ContactVisit \cup {NoVisit}] BY <1>0 DEF ContactTyped
<1>s. \A w \in Clerk : visit[w] # NoVisit => visit[w] \in ContactVisit /\ visit[w].who = customer /\ visit[w].asked = FALSE
  BY <1>0, VisitShape DEF Unsettled, ContactVisit
<1>n. \A r \in ContactVisit : r # NoVisit BY DEF ContactVisit, NoVisit
<1>g. card \in [st : {"none", "unknown", "linked", "review"}, contact : Nat \cup {None},
                claim : Clerk \cup {None}, as : Named]
  BY <1>0 DEF ContactTyped
<1>c. \A w \in Clerk : Creating(w) => card.claim = w /\ card.st \in {"unknown", "review"} BY <1>0 DEF Unsettled
<1>1. ASSUME NEW w \in Clerk, ResolveForTransfer(w), Plan(w) = "update" PROVE OneThere' /\ Unsettled'
  <2>1. visit' = [visit EXCEPT ![w] = [op |-> "contact", at |-> "update", who |-> customer, contact |-> card.contact,
                                       recovering |-> (card.st = "unknown"), asked |-> FALSE]]
        /\ UNCHANGED <<customer, card, contacts>>
    BY <1>1 DEF ResolveForTransfer, Begin
  <2>2. visit'[w] # NoVisit /\ visit'[w].at = "update" /\ visit'[w].who = customer /\ ~visit'[w].asked
    BY <2>1, <1>v DEF NoVisit
  <2>3. \A v \in Clerk : v # w => visit'[v] = visit[v] BY <2>1, <1>v
  <2> QED BY <1>0, <1>c, <2>1, <2>2, <2>3, Undisturbed
<1>2. ASSUME NEW w \in Clerk, ResolveForTransfer(w), Plan(w) # "update" PROVE OneThere' /\ Unsettled'
  <2>1. card.st \in {"none", "unknown"} /\ card.claim = None /\ Plan(w) = "claim"
    BY <1>2 DEF ResolveForTransfer, Plan, ClaimActive
  <2>2. visit' = [visit EXCEPT ![w] = [op |-> "contact", at |-> "claim", who |-> customer, contact |-> card.contact,
                                       recovering |-> (card.st = "unknown"), asked |-> FALSE]]
        /\ UNCHANGED <<customer, card, contacts>>
    BY <1>2, <2>1 DEF ResolveForTransfer, Begin
  <2>3. /\ visit'[w] # NoVisit /\ visit'[w].at = "claim" /\ visit'[w].who = customer /\ ~visit'[w].asked
        /\ visit'[w].recovering => card.st = "unknown"
    BY <2>2, <1>v DEF NoVisit
  <2>4. \A v \in Clerk : v # w => visit'[v] = visit[v] BY <2>2, <1>v
  <2>5. \A v \in Clerk : ~Creating(v) BY <1>c, <2>1, ActorsAssumption
  <2>6. \A v \in Clerk : ~Creating(v)' BY <2>3, <2>4, <2>5 DEF Creating
  <2>7. \A v \in Clerk : WaitsForHuman(v)'
    BY <1>0, <2>2, <2>3, <2>4, <2>6 DEF Unsettled, WaitsForHuman, At
  <2>8. \A v \in Clerk : NobodyYet(v)'
    BY <2>6 DEF Creating, NobodyYet, At
  <2>9. \A v \in Clerk : visit'[v] # NoVisit => visit'[v].who = customer /\ ~visit'[v].asked
    BY <1>0, <2>3, <2>4 DEF Unsettled
  <2> QED BY <1>0, <2>2, <2>6, <2>7, <2>8, <2>9 DEF Unsettled, OneThere, NoneThere
<1>3. ASSUME NEW w \in Clerk, ClaimCreate(w) PROVE OneThere' /\ Unsettled'
  <2>0. At(w, "claim") /\ visit[w] \in ContactVisit /\ visit[w].who = customer /\ ~visit[w].asked
        /\ ~Creating(w) /\ UNCHANGED <<customer, contacts>>
    BY <1>3, <1>s DEF ClaimCreate, At, Creating
  <2>1. CASE visit[w].recovering /\ visit[w].who = None
    <3>1. card' = [NoCard EXCEPT !.st = "review"] /\ visit' = [visit EXCEPT ![w] = NoVisit]
      BY <1>3, <2>1 DEF ClaimCreate, MarkReview, End
    <3>2. card'.st = "review" BY <3>1 DEF NoCard
    <3>3. \A v \in Clerk : ~Creating(v) BY <1>0, <2>0, <2>1 DEF Unsettled, WaitsForHuman
    <3> QED BY <1>0, <1>v, <2>0, <3>1, <3>2, <3>3, Undisturbed
  <2>2. CASE ~(visit[w].recovering /\ visit[w].who = None) /\ ~Claimable
    <3>1. card' = card
          /\ \/ visit' = [visit EXCEPT ![w] = NoVisit]
             \/ visit' = [visit EXCEPT ![w].at = "update", ![w].contact = card.contact]
      BY <1>3, <2>2 DEF ClaimCreate, End
    <3>2. /\ \A v \in Clerk : v # w => visit'[v] = visit[v]
          /\ \/ visit'[w] = NoVisit
             \/ visit'[w] \in ContactVisit /\ visit'[w].at = "update"
                /\ visit'[w].who = visit[w].who /\ visit'[w].asked = visit[w].asked
      BY <1>v, <1>g, <2>0, <3>1 DEF ContactVisit
    <3> QED BY <1>0, <1>c, <1>n, <2>0, <3>1, <3>2, Undisturbed
  <2>3. CASE ~(visit[w].recovering /\ visit[w].who = None) /\ Claimable
    <3>1. /\ card' = [st |-> "unknown", contact |-> None, claim |-> w, as |-> None]
          /\ visit' = [visit EXCEPT ![w].at = "search"]
          /\ customer = None => card.st = "none"
      BY <1>3, <2>0, <2>3 DEF ClaimCreate, Go, Excuse
    <3>2. card.claim = None BY <2>3 DEF Claimable, ClaimActive
    <3>3. \A v \in Clerk : ~Creating(v) BY <1>c, <3>2, ActorsAssumption
    <3>4. /\ visit'[w] # NoVisit /\ visit'[w].at = "search" /\ visit'[w].who = customer /\ ~visit'[w].asked
          /\ \A v \in Clerk : v # w => visit'[v] = visit[v]
      BY <1>v, <1>n, <2>0, <3>1 DEF ContactVisit
    <3>5. \A v \in Clerk : Creating(v)' => v = w BY <3>3, <3>4 DEF Creating
    <3>6. \A v \in Clerk : Creating(v)' => card'.claim = v /\ card'.st \in {"unknown", "review"} BY <3>1, <3>5
    <3>7. customer = None => NoneThere BY <1>0, <3>1 DEF Unsettled
    <3>8. \A v \in Clerk : NobodyYet(v)'
      <4> SUFFICES ASSUME NEW v \in Clerk,
                          At(v, "create")' \/ ((At(v, "search")' \/ At(v, "forget")') /\ visit'[v].who = None)
                   PROVE  NoneThere'
        BY DEF NobodyYet
      <4>1. v = w BY <3>5 DEF Creating, At
      <4> QED BY <2>0, <3>4, <3>7, <4>1 DEF At, NoneThere
    <3>9. \A v \in Clerk : WaitsForHuman(v)'
      <4> SUFFICES ASSUME NEW v \in Clerk, At(v, "claim")', visit'[v].recovering /\ visit'[v].who = None PROVE FALSE
        BY DEF WaitsForHuman
      <4>1. v # w /\ visit'[v] = visit[v] BY <3>4 DEF At
      <4>2. visit[v].who = customer /\ At(v, "claim") BY <1>0, <4>1 DEF Unsettled, At
      <4>3. card.st # "none" BY <1>0, <4>1, <4>2 DEF Unsettled, WaitsForHuman
      <4> QED BY <3>1, <4>1, <4>2, <4>3
    <3>10. \A v \in Clerk : visit'[v] # NoVisit => visit'[v].who = customer /\ ~visit'[v].asked
      BY <1>0, <3>4 DEF Unsettled
    <3> QED BY <1>0, <2>0, <3>1, <3>6, <3>8, <3>9, <3>10 DEF Unsettled, OneThere
  <2> QED BY <2>1, <2>2, <2>3
<1>4. ASSUME NEW w \in Clerk, SearchOrCreate(w) PROVE OneThere' /\ Unsettled'
  <2>0. At(w, "search") /\ visit[w] \in ContactVisit /\ visit[w].who = customer /\ ~visit[w].asked
        /\ Creating(w) /\ UNCHANGED <<customer, contacts>>
    BY <1>4, <1>s DEF SearchOrCreate, At, Creating
  <2>1. \A v \in Clerk : v # w => ~Creating(v) BY <1>c, <2>0
  <2>2. CASE MarkReview(w)
    <3>1. card' = [NoCard EXCEPT !.st = "review"] /\ visit' = [visit EXCEPT ![w] = NoVisit]
      BY <2>2 DEF MarkReview, End
    <3>2. card'.st = "review" BY <3>1 DEF NoCard
    <3>3. visit'[w] = NoVisit /\ \A v \in Clerk : v # w => visit'[v] = visit[v] BY <1>v, <3>1
    <3>4. Creating(w) => visit'[w] # visit[w] BY <3>3 DEF Creating
    <3> QED BY <1>0, <2>0, <2>1, <3>2, <3>3, <3>4, Undisturbed
  <2>3. ASSUME NEW k \in StrongMatches(w), LinkWithin(k), visit' = [visit EXCEPT ![w].at = "update", ![w].contact = k]
        PROVE  OneThere' /\ Unsettled'
    <3>1. k \in Nat BY <1>0, SeqRow, <2>3 DEF StrongMatches, ContactTyped
    <3>2. /\ visit'[w] \in ContactVisit /\ visit'[w].at = "update" /\ visit'[w].who = customer /\ ~visit'[w].asked
          /\ \A v \in Clerk : v # w => visit'[v] = visit[v]
      BY <1>v, <2>0, <2>3, <3>1 DEF ContactVisit
    <3>3. Creating(w) => visit'[w] # visit[w] BY <2>0, <3>2 DEF At
    <3>4. card'.st = "linked" BY <2>3 DEF LinkWithin
    <3> QED BY <1>0, <1>n, <2>0, <2>1, <3>2, <3>3, <3>4, Undisturbed
  <2>4. ASSUME StrongMatches(w) = {}, Go(w, "create"), UNCHANGED card PROVE OneThere' /\ Unsettled'
    <3>1. NoneThere
      <4>1. CASE customer = None BY <1>0, <2>0, <4>1 DEF Unsettled, NobodyYet
      <4>2. CASE customer # None BY <1>0, <2>0, <2>4, <4>2 DEF Unsettled, StrongMatches, NoneThere
      <4> QED BY <4>1, <4>2
    <3>2. /\ visit'[w] \in ContactVisit /\ visit'[w].at = "create" /\ visit'[w].who = customer /\ ~visit'[w].asked
          /\ \A v \in Clerk : v # w => visit'[v] = visit[v]
      BY <1>v, <2>0, <2>4 DEF ContactVisit, Go
    <3>3. NoneThere' BY <3>1, <2>0 DEF NoneThere
    <3>4. \A v \in Clerk : Creating(v)' => card.claim = v /\ card.st \in {"unknown", "review"}
      BY <1>c, <2>0, <3>2 DEF Creating
    <3>5. \A v \in Clerk : Creating(v)' => Creating(v) BY <2>0, <3>2 DEF Creating
    <3>6. \A v \in Clerk : WaitsForHuman(v)'
      BY <1>0, <2>4, <3>2, <3>5 DEF Unsettled, WaitsForHuman, At
    <3>7. \A v \in Clerk : visit'[v] # NoVisit => visit'[v].who = customer /\ ~visit'[v].asked
      BY <1>0, <3>2 DEF Unsettled
    <3> QED BY <1>0, <2>0, <2>4, <3>3, <3>4, <3>6, <3>7 DEF Unsettled, OneThere, NobodyYet
  <2> QED BY <1>4, <2>2, <2>3, <2>4 DEF SearchOrCreate
<1>5. ASSUME NEW w \in Clerk, CreateContact(w) PROVE OneThere' /\ Unsettled'
  <2>0. At(w, "create") /\ visit[w] \in ContactVisit /\ visit[w].who = customer /\ ~visit[w].asked
        /\ Creating(w) /\ UNCHANGED <<customer, card>> /\ NoneThere
    BY <1>5, <1>s, <1>0 DEF CreateContact, At, Creating, Unsettled, NobodyYet
  <2>1. PICK o \in Outcomes :
           /\ contacts' = IF o.made THEN Append(contacts, [as |-> visit[w].who, there |-> TRUE]) ELSE contacts
           /\ visit' = [visit EXCEPT ![w].at = o.then,
                                     ![w].contact = IF o.made THEN Len(contacts) + 1 ELSE None]
           /\ Excuse("blind", o.made /\ o.then = "forget" /\ visit[w].who = None)
    BY <1>5 DEF CreateContact
  <2>2. o.then \in {"store", "release", "forget"} BY DEF Outcomes
  <2>3. o.made /\ customer = None => o.then # "forget" BY <2>0, <2>1 DEF Excuse
  <2>4. /\ visit'[w] # NoVisit /\ visit'[w].at = o.then /\ visit'[w].who = customer /\ ~visit'[w].asked
        /\ \A v \in Clerk : v # w => visit'[v] = visit[v]
    <3> DEFINE c == IF o.made THEN Len(contacts) + 1 ELSE None
    <3>1. c \in Nat \cup {None} BY <1>0, SeqRow DEF ContactTyped
    <3>2. visit' = [visit EXCEPT ![w].at = o.then, ![w].contact = c] BY <2>1
    <3> HIDE DEF c
    <3>3. visit'[w] \in ContactVisit BY <1>v, <2>0, <2>2, <3>1, <3>2 DEF ContactVisit
    <3> QED BY <1>v, <1>n, <2>0, <2>2, <3>1, <3>2, <3>3 DEF ContactVisit
  <2>5. ~o.made => NoneThere' BY <2>0, <2>1 DEF NoneThere
  <2>6. OneThere' /\ \A k \in DOMAIN contacts' : contacts'[k].there => contacts'[k].as = customer
    <3>1. CASE ~o.made BY <2>5, <3>1 DEF NoneThere, OneThere
    <3>2. CASE o.made
      <4> DEFINE r == [as |-> visit[w].who, there |-> TRUE]
      <4>1. r \in [as : Named, there : BOOLEAN] BY <2>0 DEF ContactVisit
      <4>2. contacts' = Append(contacts, r) BY <2>1, <3>2
      <4>3. \A k \in DOMAIN contacts' : (k \in DOMAIN contacts /\ contacts'[k] = contacts[k])
                                        \/ (k = Len(contacts) + 1 /\ contacts'[k] = r)
        BY <1>0, <4>1, <4>2, AppendProperties DEF ContactTyped
      <4> QED BY <2>0, <4>3 DEF NoneThere, OneThere
    <3> QED BY <2>2, <3>1, <3>2
  <2>7. \A v \in Clerk : Creating(v)' => Creating(v) BY <2>0, <2>4 DEF Creating
  <2>8. \A v \in Clerk : WaitsForHuman(v)'
    BY <1>0, <2>0, <2>2, <2>4, <2>7 DEF Unsettled, WaitsForHuman, At
  <2>9. \A v \in Clerk : NobodyYet(v)'
    <3> SUFFICES ASSUME NEW v \in Clerk,
                        At(v, "create")' \/ ((At(v, "search")' \/ At(v, "forget")') /\ visit'[v].who = None)
                 PROVE  NoneThere'
      BY DEF NobodyYet
    <3>1. Creating(v)' BY DEF Creating, At
    <3>2. v = w BY <1>c, <2>0, <2>7, <3>1
    <3> QED BY <2>2, <2>3, <2>4, <2>5, <3>2 DEF At
  <2>10. \A v \in Clerk : visit'[v] # NoVisit => visit'[v].who = customer /\ ~visit'[v].asked
    BY <1>0, <2>4 DEF Unsettled
  <2>11. card.st # "none" BY <1>c, <2>0
  <2> QED BY <1>0, <1>c, <2>0, <2>6, <2>7, <2>8, <2>9, <2>10, <2>11 DEF Unsettled
<1>6. ASSUME NEW w \in Clerk, SearchFails(w) \/ CreateUnanswered(w) \/ CreatedStored(w) PROVE OneThere' /\ Unsettled'
  <2>0. Creating(w) /\ UNCHANGED <<customer, contacts>> /\ visit' = [visit EXCEPT ![w] = NoVisit]
    BY <1>6 DEF SearchFails, CreateUnanswered, CreatedStored, ReleaseClaim, End, At, Creating
  <2>1. \A v \in Clerk : v # w => ~Creating(v) BY <1>c, <2>0
  <2>2. card'.st = "none" => card.st = "none"
    BY <1>6, <1>g DEF SearchFails, CreateUnanswered, CreatedStored, ReleaseClaim
  <2>3. visit'[w] = NoVisit /\ \A v \in Clerk : v # w => visit'[v] = visit[v] BY <1>v, <2>0
  <2>4. visit'[w] # visit[w] BY <2>0, <2>3 DEF Creating
  <2> QED BY <1>0, <2>0, <2>1, <2>2, <2>3, <2>4, Undisturbed
<1>7. ASSUME NEW w \in Clerk, CreateRefused(w) PROVE OneThere' /\ Unsettled'
  <2>0. At(w, "forget") /\ Creating(w) /\ visit[w].who = customer /\ UNCHANGED <<customer, contacts>>
        /\ card'.st = "none" /\ visit'[w] = NoVisit
        /\ \A v \in Clerk : v # w => visit'[v] = IF At(v, "update") THEN [visit[v] EXCEPT !.at = "adrift"] ELSE visit[v]
    BY <1>7, <1>s DEF CreateRefused, NoCard, At, Creating
  <2>1. \A v \in Clerk : v # w /\ At(v, "update") => /\ visit'[v] # NoVisit /\ visit'[v].at = "adrift"
                                                     /\ visit'[v].who = visit[v].who /\ visit'[v].asked = visit[v].asked
    BY <1>s, <1>n, <2>0 DEF At, ContactVisit
  <2>2. \A v \in Clerk : v # w => ~Creating(v) BY <1>c, <2>0
  <2>3. \A v \in Clerk : ~Creating(v)' BY <2>0, <2>1, <2>2 DEF Creating
  <2>4. \A v \in Clerk : visit'[v] # NoVisit => visit'[v].who = customer /\ ~visit'[v].asked
    BY <1>0, <2>0, <2>1 DEF Unsettled, At
  <2>5. customer = None => NoneThere' BY <1>0, <2>0 DEF Unsettled, NobodyYet, NoneThere
  <2>6. \A v \in Clerk : WaitsForHuman(v)'
    <3> SUFFICES ASSUME NEW v \in Clerk, At(v, "claim")', visit'[v].recovering /\ visit'[v].who = None PROVE FALSE
      BY DEF WaitsForHuman
    <3>1. v # w /\ visit'[v] = visit[v] /\ At(v, "claim") BY <2>0, <2>1 DEF At
    <3> QED BY <1>0, <2>0, <3>1 DEF Unsettled, WaitsForHuman
  <2>7. \A v \in Clerk : NobodyYet(v)' BY <2>3 DEF NobodyYet, Creating, At
  <2> QED BY <1>0, <2>0, <2>3, <2>4, <2>5, <2>6, <2>7 DEF Unsettled, OneThere
<1>8. ASSUME NEW w \in Clerk, UpdateLinked(w) PROVE OneThere' /\ Unsettled'
  <2>0. UNCHANGED customer /\ visit' = [visit EXCEPT ![w] = NoVisit]
        /\ card' \in {card, [card EXCEPT !.as = visit[w].who], [card EXCEPT !.st = "review"]}
    BY <1>8 DEF UpdateLinked, End
  <2>1. card'.claim = card.claim /\ card'.st \in {card.st, "review"} BY <1>g, <2>0
  <2> QED BY <1>0, <1>c, <1>v, <1>8, <2>0, <2>1, Undisturbed
<1>9. ASSUME NEW k \in 0 .. Len(contacts), AdminLinks(k) PROVE OneThere' /\ Unsettled'
  <2>0. UNCHANGED <<customer, contacts, visit>> /\ card'.st = "linked" /\ card.claim = None
    BY <1>9 DEF AdminLinks, LinkWithin, Excuse, ClaimActive
  <2>1. \A v \in Clerk : ~Creating(v) BY <1>c, <2>0, ActorsAssumption
  <2> QED BY <1>0, <2>0, <2>1, Undisturbed
<1>10. ASSUME NEW w \in Clerk, CreateForCustomer(w) PROVE FALSE BY <1>10 DEF CreateForCustomer
<1>11. ASSUME NEW p \in Person \cup {None}, CustomerChanged(p) PROVE FALSE
  <2>1. card.st = "linked" /\ \A w \in Clerk : visit[w] = NoVisit BY <1>11 DEF CustomerChanged, Excuse
  <2> QED BY <2>1 DEF Settled, Refreshing
<1>12. ASSUME NEW k \in 0 .. Len(contacts), ContactVanishes(k) PROVE OneThere' /\ Unsettled'
  <2>0. UNCHANGED <<customer, card, visit>> BY <1>12 DEF ContactVanishes
  <2> QED BY <1>0, <1>c, <1>12, <2>0, Undisturbed
<1>13. ASSUME NEW w \in Clerk, ContactWorkerDies(w) PROVE OneThere' /\ Unsettled'
  <2>0. UNCHANGED <<customer, card, contacts>> /\ visit' = [visit EXCEPT ![w] = NoVisit]
    BY <1>13 DEF ContactWorkerDies, End
  <2> QED BY <1>0, <1>c, <1>v, <2>0, Undisturbed
<1>14. ASSUME ClaimExpires PROVE OneThere' /\ Unsettled'
  <2>0. UNCHANGED <<customer, contacts, visit>> /\ card'.st = card.st /\ visit[card.claim] = NoVisit
    BY <1>14, <1>g DEF ClaimExpires
  <2>1. \A v \in Clerk : ~Creating(v) BY <1>c, <2>0 DEF Creating
  <2> QED BY <1>0, <2>0, <2>1, Undisturbed
<1> QED BY <1>1, <1>2, <1>3, <1>4, <1>5, <1>6, <1>7, <1>8, <1>9, <1>10, <1>11, <1>12, <1>13, <1>14
       DEF ContactNext

LEMMA ContactStep == ASSUME ContactInv, [ContactNext]_contactVars PROVE ContactInv'
<1>1. CASE ContactNext
  <2>1. ContactTyped' BY <1>1, ContactTypes DEF ContactInv
  <2>2. excused' = {} => excused = {} BY <1>1, ExcusesStay
  <2>3. excused' = {} => OneThere' /\ (Settled' \/ Unsettled') BY <1>1, SettledKept, UnsettledKept
  <2> QED BY <2>1, <2>3 DEF ContactInv
<1>2. CASE UNCHANGED contactVars
  <2> USE <1>2 DEF contactVars
  <2>1. ContactTyped' = ContactTyped BY DEF ContactTyped
  <2>2. OneThere' = OneThere /\ Settled' = Settled BY DEF OneThere, Settled, Refreshing
  <2>3. Unsettled' = Unsettled BY DEF Unsettled, Creating, WaitsForHuman, NobodyYet, NoneThere, At
  <2> QED BY <2>1, <2>2, <2>3 DEF ContactInv
<1> QED BY <1>1, <1>2

(* One customer, one contact at Lexware, whatever answers are lost and       *)
(* whatever runs overlap, but for what OneContact names                      *)
(* (lexware/contact-sync-service.ts).                                        *)
THEOREM ContactIsOne == ContactSpec => []OneContact
<1>1. ContactSpec => []ContactInv BY ContactStart, ContactStep, PTL DEF ContactSpec
<1>2. ContactInv => OneContact BY OneIsNotTwo DEF ContactInv, OneContact
<1> QED BY <1>1, <1>2, PTL
-----------------------------------------------------------------------------
(* The connection to Lexware.  What a check has read, it still may write:   *)
(* an organisation seen while none was pinned stays one seen then.          *)
LinkVisited(w) ==
    \/ visit[w] = NoVisit
    \/ visit[w] \in [op : {"check"}, at : {"state"}, org : Organisation]
    \/ visit[w] \in [op : {"check"}, at : {"write"}, org : Organisation, previous : Organisation \cup {None}]
    \/ "op" \in DOMAIN visit[w] /\ visit[w].op = "setup"

CheckKnows(w) ==
    visit[w].op = "check" /\ visit[w].at = "write" =>
        /\ visit[w].previous \in confirmed \cup {None}
        /\ visit[w].previous = None => visit[w].org \in confirmed

LinkRow == [status : {"not_configured", "disconnected", "error", "organization_mismatch", "connected", "incomplete"},
            org : Organisation \cup {None}, pending : Organisation \cup {None}]
LinkInv ==
    /\ PinnedKnowingly /\ link \in LinkRow
    /\ owner \in Organisation /\ confirmed \subseteq Organisation
    /\ DOMAIN visit = Clerk /\ visit = [w \in Clerk |-> visit[w]]
    /\ \A w \in Clerk : LinkVisited(w) /\ CheckKnows(w)

(* A step that ends requests, begins new ones or carries a setup further.   *)
LEMMA LinkKeeps ==
    ASSUME LinkInv, PinnedKnowingly', link' \in LinkRow, owner' \in Organisation,
           confirmed \subseteq confirmed', confirmed' \subseteq Organisation,
           visit' = [w \in Clerk |-> visit'[w]],
           \A w \in Clerk : \/ visit'[w] = visit[w]
                            \/ visit'[w] = NoVisit
                            \/ visit'[w] \in [op : {"check"}, at : {"state"}, org : Organisation]
                            \/ "op" \in DOMAIN visit'[w] /\ visit'[w].op = "setup"
    PROVE  LinkInv'
<1>1. \A w \in Clerk : LinkVisited(w)' BY DEF LinkInv, LinkVisited
<1>2. \A w \in Clerk : CheckKnows(w)' BY DEF LinkInv, CheckKnows, NoVisit
<1> QED BY <1>1, <1>2 DEF LinkInv

LEMMA LinkStep == ASSUME LinkInv, [LinkNext]_linkVars PROVE LinkInv'
<1> USE DEF LinkInv
<1>1. ASSUME UNCHANGED linkVars PROVE LinkInv' BY <1>1, LinkKeeps DEF linkVars, PinnedKnowingly
<1>2. ASSUME NEW o \in Organisation, KeyExchanged(o) PROVE LinkInv'
  BY <1>2, LinkKeeps DEF KeyExchanged, PinnedKnowingly
<1>3. ASSUME NEW u \in Url \cup {None}, Reconfigured(u) PROVE LinkInv'
  BY <1>3, LinkKeeps DEF Reconfigured, PinnedKnowingly
<1>4. ASSUME NEW w \in Clerk, CheckProfile(w) PROVE LinkInv'
  <2>1. UNCHANGED <<owner, confirmed>> /\ link'.org = link.org /\ link' \in LinkRow
    BY <1>4 DEF CheckProfile, LinkRow
  <2>2. \/ visit' = visit
        \/ visit' = [visit EXCEPT ![w] = [op |-> "check", at |-> "state", org |-> owner]]
    BY <1>4 DEF CheckProfile, Begin
  <2> QED BY <2>1, <2>2, LinkKeeps DEF PinnedKnowingly
<1>5. ASSUME NEW w \in Clerk, CheckState(w) PROVE LinkInv'
  <2>1. visit[w] \in [op : {"check"}, at : {"state"}, org : Organisation]
    BY <1>5 DEF CheckState, LinkVisited, NoVisit
  <2>2. visit' = [visit EXCEPT ![w] = [op |-> "check", at |-> "write", org |-> visit[w].org, previous |-> link.org]]
    BY <1>5 DEF CheckState
  <2>3. confirmed' = IF link.org = None THEN confirmed \cup {visit[w].org} ELSE confirmed
    BY <1>5 DEF CheckState
  <2>4. UNCHANGED <<link, owner>> BY <1>5 DEF CheckState
  <2>5. \A v \in Clerk : LinkVisited(v)' BY <2>1, <2>2, <2>3 DEF LinkVisited, PinnedKnowingly
  <2>6. \A v \in Clerk : CheckKnows(v)'
    <3> SUFFICES ASSUME NEW v \in Clerk PROVE CheckKnows(v)' OBVIOUS
    <3>1. CASE v = w BY <2>1, <2>2, <2>3, <3>1 DEF CheckKnows, PinnedKnowingly
    <3>2. CASE v # w BY <2>2, <2>3, <3>2 DEF CheckKnows
    <3> QED BY <3>1, <3>2
  <2> QED BY <2>1, <2>2, <2>3, <2>4, <2>5, <2>6 DEF PinnedKnowingly
<1>6. ASSUME NEW w \in Clerk, CheckWrites(w) PROVE LinkInv'
  <2>1. visit[w].op = "check" /\ visit[w].at = "write" /\ visit' = [visit EXCEPT ![w] = NoVisit]
        /\ UNCHANGED <<owner, confirmed>> /\ link'.org \in {Pinned(w), visit[w].org}
        /\ (link'.org # Pinned(w) => visit[w].previous \in {None, visit[w].org})
    BY <1>6 DEF CheckWrites, End
  <2>2. PinnedKnowingly' BY <2>1 DEF CheckKnows, Pinned, PinnedKnowingly
  <2>3. visit[w] \in [op : {"check"}, at : {"write"}, org : Organisation, previous : Organisation \cup {None}]
    BY <2>1 DEF LinkVisited, NoVisit
  <2>4. link' \in LinkRow BY <1>6, <2>3 DEF CheckWrites, Pinned, LinkRow
  <2> QED BY <2>1, <2>2, <2>4, LinkKeeps
<1>7. ASSUME NEW w \in Clerk, NEW o \in Organisation, ConfirmOrganization(w, o) PROVE LinkInv'
  <2>1. PinnedKnowingly' /\ link' \in LinkRow BY <1>7 DEF ConfirmOrganization, PinnedKnowingly, LinkRow
  <2> QED BY <1>7, <2>1, LinkKeeps DEF ConfirmOrganization, Begin
<1>8. ASSUME NEW w \in Clerk, SetupStarts(w) \/ SetupLists(w) \/ SetupEnds(w) PROVE LinkInv'
  BY <1>8, LinkKeeps DEF SetupStarts, SetupLists, SetupEnds, Begin, End, PinnedKnowingly
<1>9. ASSUME NEW w \in Clerk, SetupUnauthorized(w) PROVE LinkInv'
  BY <1>9, LinkKeeps DEF SetupUnauthorized, MarkDisconnected, End, PinnedKnowingly, LinkRow
<1>10. ASSUME NEW w \in Clerk, NEW t \in NeededTopics \cup Retired, SetupTopic(w, t) \/ SetupTopicFails(w, t)
       PROVE LinkInv'
  <2>1. visit[w].op = "setup" /\ UNCHANGED <<owner, link, confirmed>>
    BY <1>10 DEF SetupTopic, SetupTopicFails
  <2>2. "op" \in DOMAIN visit[w] BY <2>1 DEF LinkVisited, NoVisit
  <2>3. PICK r, f : TopicDone(w, t, r, f) BY <1>10 DEF SetupTopic, SetupTopicFails
  <2>4. visit'[w].op = "setup" /\ "op" \in DOMAIN visit'[w] BY <2>1, <2>2, <2>3 DEF TopicDone
  <2>5. visit' = [v \in Clerk |-> visit'[v]] /\ \A v \in Clerk : v # w => visit'[v] = visit[v]
    BY <2>3 DEF TopicDone
  <2> QED BY <2>1, <2>4, <2>5, LinkKeeps DEF PinnedKnowingly
<1> QED BY <1>1, <1>2, <1>3, <1>4, <1>5, <1>6, <1>7, <1>8, <1>9, <1>10 DEF LinkNext

LEMMA LinkStart == LinkInit => LinkInv
BY DEF LinkInit, LinkRow, ActorsInit, LinkInv, PinnedKnowingly, LinkVisited, CheckKnows, NoVisit

(* The pinned organisation is one that was found while none was pinned, or   *)
(* one an administrator confirmed, whatever checks overlap                   *)
(* (lexware/connection-service.ts).                                          *)
THEOREM PinnedIsKnown == LinkSpec => []PinnedKnowingly
<1>1. LinkSpec => []LinkInv BY LinkStart, LinkStep, PTL DEF LinkSpec
<1>2. LinkInv => PinnedKnowingly BY DEF LinkInv
<1> QED BY <1>1, <1>2, PTL
==============================================================================
