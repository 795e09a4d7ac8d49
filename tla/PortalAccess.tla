---------------------------- MODULE PortalAccess ----------------------------
(* The pcust portal: magic links (login, renewed confirmation of a       *)
(* session, change of the e-mail address), the sessions they open, and what *)
(* the staff does to the same pcust meanwhile (new address, trash,       *)
(* restore).  Every path that grants or ends access takes the advisory lock *)
(* of the pcust; the paths that only write pcust fields do not.       *)
(* Person stands for e-mail addresses.                                      *)
EXTENDS Actors

CONSTANTS PortalCustomer, PLink, PSession,   \* customers, rows of the two tables
          LinkMax                            \* links of one purpose within 15 minutes
ASSUME PortalAssumption == LinkMax \in Nat \ {0} /\ IsFiniteSet(PLink)

VARIABLES
    pcust,   \* address, not in the trash, how often access was ended
    plink,      \* customer_portal_magic_links
    psession,   \* customer_portal_sessions
    plock       \* who holds the advisory lock of a pcust
portalVars == <<pcust, plink, psession, plock, visit, edits>>

NoRow == [state |-> "none"]

PortalInit ==
    /\ ActorsInit
    /\ pcust \in [PortalCustomer -> [mail : Person, alive : BOOLEAN, era : {0}]]
    /\ plink = [l \in PLink |-> NoRow]
    /\ psession \in [PSession -> {NoRow} \cup [cust : {c \in PortalCustomer : pcust[c].alive},
                                              state : {"valid"}, reauth : {TRUE}, era : {0}]]
    /\ plock = [c \in PortalCustomer |-> None]

(* mutant: the lock of the pcust is not waited for *)
LockIgnored(c) == TRUE
LockFree(c) == plock[c] = None

Valid(s) == psession[s].state = "valid"
Active(c) == pcust[c].alive
Authenticated(s) == Valid(s) /\ Active(psession[s].cust)
WithAddress(e) == {c \in PortalCustomer : Active(c) /\ pcust[c].mail = e}
LinksOf(c, purpose) ==
    {l \in PLink : plink[l] # NoRow /\ plink[l].cust = c /\ plink[l].purpose = purpose}
OpenLink(l) == plink[l].state = "open" /\ plink[l].recent
ReauthFresh(s) == psession[s].reauth
(* reauth links are counted per session, the others per pcust *)
Throttled(c, purpose, s) ==
    LinkMax <= Cardinality({l \in LinksOf(c, purpose) :
        plink[l].recent /\ (purpose = "reauth" => plink[l].session = s)})

(* rows a revocation covers: reauth per session, login and e-mail change per pcust *)
Covered(c, purpose, s) ==
    {l \in LinksOf(c, purpose) : plink[l].state = "open" /\ (purpose = "reauth" => plink[l].session = s)}

RevokeLinks(rows, revoked) ==
    [l \in PLink |-> IF l \in revoked THEN [rows[l] EXCEPT !.state = "revoked"] ELSE rows[l]]

(* the new row; the mail leaves after the commit and may be lost: a link that is never opened *)
InsertLink(c, purpose, s, e, st) ==
    LET free == {l \in PLink : plink[l] = NoRow}
    IN /\ free # {}
       /\ plink' = [RevokeLinks(plink, Covered(c, purpose, s)) EXCEPT ![CHOOSE l \in free : TRUE] =
            [cust |-> c, purpose |-> purpose, session |-> s, mail |-> e, state |-> st,
             recent |-> TRUE, era |-> pcust[c].era]]

(* ------------------------------ requests ------------------------------- *)
RequestLogin(w, e) ==
    /\ Edit /\ \E c \in WithAddress(e) :
        /\ WithAddress(e) = {c}
        /\ Begin(w, [op |-> "login", cust |-> c, mail |-> e])
    /\ UNCHANGED <<pcust, plink, psession, plock>>

LoginLink(w) ==
    LET c == visit[w].cust
    IN /\ visit[w].op = "login" /\ LockFree(c) /\ End(w)
       /\ IF Active(c) /\ pcust[c].mail = visit[w].mail /\ ~Throttled(c, "login", None)
          THEN InsertLink(c, "login", None, visit[w].mail, "open")
          ELSE UNCHANGED plink
       /\ UNCHANGED <<pcust, psession, plock, edits>>

RequestReauth(w, s) ==
    /\ Edit /\ Authenticated(s)
    /\ Begin(w, [op |-> "reauth", cust |-> psession[s].cust, session |-> s])
    /\ UNCHANGED <<pcust, plink, psession, plock>>

ReauthLink(w) ==
    LET c == visit[w].cust  s == visit[w].session
    IN /\ visit[w].op = "reauth" /\ LockFree(c) /\ End(w)
       /\ IF Throttled(c, "reauth", s) THEN UNCHANGED plink
          ELSE InsertLink(c, "reauth", s, None, "open")
       /\ UNCHANGED <<pcust, psession, plock, edits>>

RequestEmailChange(w, s, e) ==
    /\ Edit /\ Authenticated(s) /\ ReauthFresh(s)
    /\ pcust[psession[s].cust].mail # e
    /\ Begin(w, [op |-> "change", cust |-> psession[s].cust, session |-> s, mail |-> e])
    /\ UNCHANGED <<pcust, plink, psession, plock>>

TakenByOther(c, e) == WithAddress(e) \ {c} # {}

(* an address of somebody else leaves a revoked row behind, so that the      *)
(* throttle does not tell                                                    *)
EmailChangeLink(w) ==
    LET c == visit[w].cust  s == visit[w].session  e == visit[w].mail
    IN /\ visit[w].op = "change" /\ LockFree(c) /\ End(w)
       /\ IF Throttled(c, "email_change", s) THEN UNCHANGED plink
          ELSE InsertLink(c, "email_change", s, e, IF TakenByOther(c, e) THEN "revoked" ELSE "open")
       /\ UNCHANGED <<pcust, psession, plock, edits>>

(* --------------------------- opened links ------------------------------ *)
(* under the lock: the link is used, the session is seen at the commit *)
ConsumeLogin(w, l) ==
    /\ plink[l] # NoRow /\ plink[l].purpose = "login" /\ OpenLink(l) /\ LockFree(plink[l].cust)
    /\ Begin(w, [op |-> "open", cust |-> plink[l].cust, link |-> l, era |-> pcust[plink[l].cust].era])
    /\ plock' = [plock EXCEPT ![plink[l].cust] = w]
    /\ plink' = [plink EXCEPT ![l].state = "used"]
    /\ UNCHANGED <<pcust, psession, edits>>

SessionCreated(w) ==
    LET c == visit[w].cust  free == {s \in PSession : psession[s] = NoRow}
    IN /\ visit[w].op = "open" /\ End(w) /\ plock' = [plock EXCEPT ![c] = None]
       /\ IF Active(c)
          THEN free # {} /\ psession' = [psession EXCEPT ![CHOOSE s \in free : TRUE] =
                    [cust |-> c, state |-> "valid", reauth |-> TRUE, era |-> visit[w].era]]
          ELSE UNCHANGED psession
       /\ UNCHANGED <<pcust, plink, edits>>

(* the transaction ends without a commit: the link is as before *)
LoginRolledBack(w) ==
    /\ visit[w].op = "open" /\ End(w) /\ plock' = [plock EXCEPT ![visit[w].cust] = None]
    /\ plink' = [plink EXCEPT ![visit[w].link].state = "open"]
    /\ UNCHANGED <<pcust, psession, edits>>

(* consumed in one statement, the session is marked in the next *)
ConsumeReauth(w, l, s) ==
    /\ plink[l] # NoRow /\ plink[l].purpose = "reauth" /\ OpenLink(l) /\ plink[l].session = s
    /\ Authenticated(s)
    /\ Begin(w, [op |-> "mark", session |-> s])
    /\ plink' = [plink EXCEPT ![l].state = "used"]
    /\ UNCHANGED <<pcust, psession, plock, edits>>

MarkReauthenticated(w) ==
    /\ visit[w].op = "mark" /\ End(w)
    /\ psession' = [psession EXCEPT ![visit[w].session] =
            IF @.state = "valid" THEN [@ EXCEPT !.reauth = TRUE] ELSE @]
    /\ UNCHANGED <<pcust, plink, plock, edits>>

(* everything the request of the pcust carried: all sessions, all open links *)
RevokedAll(c) ==
    [s \in PSession |-> IF Valid(s) /\ psession[s].cust = c
                        THEN [psession[s] EXCEPT !.state = "over"] ELSE psession[s]]
AllOpen(c) == {l \in PLink : plink[l] # NoRow /\ plink[l].cust = c /\ plink[l].state = "open"}

ConsumeEmailChange(l) ==
    LET c == plink[l].cust  s == plink[l].session
    IN /\ plink[l] # NoRow /\ plink[l].purpose = "email_change" /\ OpenLink(l)
       /\ Edit /\ LockFree(c) /\ Valid(s) /\ psession[s].cust = c
       /\ Active(c) /\ ~TakenByOther(c, plink[l].mail)
       /\ pcust' = [pcust EXCEPT ![c].mail = plink[l].mail, ![c].era = @ + 1]
       /\ psession' = RevokedAll(c)
       /\ plink' = [RevokeLinks(plink, AllOpen(c)) EXCEPT ![l].state = "used"]
       /\ UNCHANGED <<plock, visit>>

Logout(s) ==
    /\ Valid(s) /\ psession' = [psession EXCEPT ![s].state = "over"]
    /\ UNCHANGED <<pcust, plink, plock, visit, edits>>

(* ---------------------- the staff, time, clean-up ---------------------- *)
UpdateCustomer(c, e) ==
    /\ Edit /\ Active(c) /\ pcust[c].mail # e /\ pcust' = [pcust EXCEPT ![c].mail = e]
    /\ UNCHANGED <<plink, psession, plock, visit>>

MoveToTrash(c) ==
    /\ Edit /\ LockFree(c) /\ Active(c)
    /\ pcust' = [pcust EXCEPT ![c].alive = FALSE, ![c].era = @ + 1]
    /\ psession' = RevokedAll(c) /\ plink' = RevokeLinks(plink, AllOpen(c))
    /\ UNCHANGED <<plock, visit>>

RestoreFromTrash(c) ==
    /\ ~Active(c) /\ pcust' = [pcust EXCEPT ![c].alive = TRUE]
    /\ UNCHANGED <<plink, psession, plock, visit, edits>>

(* fifteen minutes: the life of a link, the window of the throttle *)
LinkAges(l) ==
    /\ plink[l] # NoRow /\ plink[l].recent /\ plink' = [plink EXCEPT ![l].recent = FALSE]
    /\ UNCHANGED <<pcust, psession, plock, visit, edits>>

(* the confirmation is no longer recent, or the thirty days are over *)
SessionAges(s) ==
    /\ Valid(s)
    /\ \/ psession[s].reauth /\ psession' = [psession EXCEPT ![s].reauth = FALSE]
       \/ psession' = [psession EXCEPT ![s].state = "over"]
    /\ UNCHANGED <<pcust, plink, plock, visit, edits>>

(* old links first, then old sessions no link names; ids are used again *)
PortalCleanup ==
    /\ \/ \E l \in PLink : /\ plink[l] # NoRow /\ ~plink[l].recent
                           /\ \A w \in Clerk : "link" \in DOMAIN visit[w] => visit[w].link # l
                           /\ plink' = [plink EXCEPT ![l] = NoRow] /\ UNCHANGED psession
       \/ \E s \in PSession :
            /\ psession[s].state = "over"
            /\ \A l \in PLink : plink[l] # NoRow => plink[l].session # s
            /\ \A w \in Clerk : "session" \in DOMAIN visit[w] => visit[w].session # s
            /\ psession' = [psession EXCEPT ![s] = NoRow] /\ UNCHANGED plink
    /\ UNCHANGED <<pcust, plock, visit, edits>>

PortalNext ==
    \/ \E w \in Clerk :
        \/ \E e \in Person : RequestLogin(w, e)
        \/ LoginLink(w) \/ ReauthLink(w) \/ EmailChangeLink(w)
        \/ \E s \in PSession : RequestReauth(w, s) \/ \E e \in Person : RequestEmailChange(w, s, e)
        \/ \E l \in PLink : ConsumeLogin(w, l) \/ \E s \in PSession : ConsumeReauth(w, l, s)
        \/ SessionCreated(w) \/ LoginRolledBack(w) \/ MarkReauthenticated(w)
    \/ \E l \in PLink : ConsumeEmailChange(l) \/ LinkAges(l)
    \/ \E s \in PSession : Logout(s) \/ SessionAges(s)
    \/ \E c \in PortalCustomer :
        MoveToTrash(c) \/ RestoreFromTrash(c) \/ \E e \in Person : UpdateCustomer(c, e)
    \/ PortalCleanup
PortalSpec == PortalInit /\ [][PortalNext]_portalVars

(* No session and no login link outlives a confirmed change of the address  *)
(* or the trash, whatever login was being opened at that moment.            *)
OldAccessEnds ==
    /\ \A s \in PSession : Valid(s) => LET c == psession[s].cust
                                       IN Active(c) /\ psession[s].era = pcust[c].era
    /\ \A l \in PLink : plink[l].state = "open" /\ plink[l].purpose = "login" =>
            plink[l].era = pcust[plink[l].cust].era

(* A customer has one open change of the address and one open login link at *)
(* a time, even when two of his sessions ask together.                      *)
OneOpenLink ==
    \A c \in PortalCustomer, purpose \in {"login", "email_change"} :
        Cardinality({l \in LinksOf(c, purpose) : plink[l].state = "open"}) <= 1
(* Nobody gets in on what was taken away, and nothing is handed out twice.   *)
PortalSafety == OldAccessEnds /\ OneOpenLink
=============================================================================
