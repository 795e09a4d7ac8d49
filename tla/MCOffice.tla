------------------------------ MODULE MCOffice -------------------------------
(* The services of the office, one at a time: each stage plays one service   *)
(* with all its interleavings, the others rest.                              *)
EXTENDS InvoiceSync, ContactSync, LexwareLink, RequestBudget, PortalAccess, StaffAccess, PushNotice, ChatInbox, TLC

VARIABLE stage      \* the service that is played

\* changes that are begun in each
Allowance ==
  "invoice" :> {5} @@ "contact" :> {5} @@ "link" :> {4} @@ "budget" :> {5} @@
  "portal" :> {2} @@ "staff" :> {2} @@ "push" :> {0, 2} @@ "chat" :> {1, 2}

invoiceRows == <<bill, notice, mapping, transfer, mirrored, connected>>
contactRows == <<customer, card, contacts, alike, excused>>
linkRows == <<owner, callback, link, subs, remembered, confirmed>>
budgetRows == <<clock, nextSlot, paused, granted, cut>>
portalRows == <<pcust, plink, psession, plock>>
staffRows == <<staff, challenge, ssession, reset>>
pushRows == <<meetup, standIn, works, device, push, marker, risk>>
chatRows == <<dossier, moment, mailbox, mark, receipts, chat, photo, files, hook, heard,
            media, sending, closing, handed, cleared, mishap>>

P1 == CHOOSE p \in Person : TRUE
C1 == CHOOSE c \in PortalCustomer : TRUE
G1 == CHOOSE m \in Msg : TRUE

\* a state to rest in while another service is played
ContactAtRest ==
  customer = P1 /\ alike = FALSE

\* a state to rest in while another service is played
LinkAtRest ==
  owner = (CHOOSE o \in Organisation : TRUE) /\ callback = (CHOOSE u \in Url : TRUE)

\* a state to rest in while another service is played
PortalAtRest ==
  /\ pcust = [c \in PortalCustomer |-> [mail |-> P1, alive |-> c = C1, era |-> 0]]
  /\ \A s \in PSession : psession[s] = NoRow

\* where the play begins
PortalOnStage ==
  pcust = [c \in PortalCustomer |-> [mail |-> P1, alive |-> c = C1, era |-> 0]]

\* a state to rest in while another service is played
StaffAtRest ==
  \A u \in User : staff[u].status = "active" /\ staff[u].factor = "on"

\* a state to rest in while another service is played
PushAtRest ==
  /\ meetup.assigned = P1 /\ meetup.requested = 0 /\ meetup.status = "scheduled" /\ risk = "none"
  /\ \A d \in Device : device[d].owner = P1

\* where the play begins
PushOnStage ==
  /\ meetup.assigned = P1 /\ \A d \in Device : device[d].owner = P1
  /\ \/ edits = 2 /\ meetup.requested # 0 /\ meetup.status = "scheduled" /\ risk = "none"
     \/ edits = 0 /\ meetup.requested = 0 /\ meetup.status = "cancelled" /\ risk = "open"

\* a state to rest in while another service is played
ChatAtRest ==
  mark.last = 0

\* where the play begins
ChatOnStage ==
  /\ edits = IF mark.last = 0 THEN 1 ELSE 2
  /\ \A m \in Msg : chat[m] # NoMessage => m = G1

Init ==
  /\ stage \in DOMAIN Allowance
  /\ edits \in Allowance[stage]
  /\ (stage # "contact" => ContactInit /\ ContactAtRest)
  /\ (stage # "link" => LinkInit /\ LinkAtRest)
  /\ (stage # "portal" => PortalInit /\ PortalAtRest)
  /\ (stage # "staff" => StaffInit /\ StaffAtRest)
  /\ (stage # "push" => PushInit /\ PushAtRest)
  /\ (stage # "chat" => ChatInit /\ ChatAtRest)
  /\ InvoiceSyncInit
  /\ (stage = "contact" => ContactInit)
  /\ (stage = "link" => LinkInit)
  /\ BudgetInit
  /\ (stage = "portal" => PortalInit /\ PortalOnStage)
  /\ (stage = "staff" => StaffInit)
  /\ (stage = "push" => PushInit /\ PushOnStage)
  /\ (stage = "chat" => ChatInit /\ ChatOnStage)

Next ==
  \/ stage = "invoice" /\ InvoiceSyncNext
       /\ UNCHANGED <<stage, contactRows, linkRows, budgetRows, portalRows, staffRows,
                       pushRows, chatRows>>
  \/ stage = "contact" /\ ContactNext
       /\ UNCHANGED <<stage, invoiceRows, linkRows, budgetRows, portalRows, staffRows,
                       pushRows, chatRows>>
  \/ stage = "link" /\ LinkNext
       /\ UNCHANGED <<stage, invoiceRows, contactRows, budgetRows, portalRows, staffRows,
                       pushRows, chatRows>>
  \/ stage = "budget" /\ BudgetNext
       /\ UNCHANGED <<stage, invoiceRows, contactRows, linkRows, portalRows, staffRows,
                       pushRows, chatRows>>
  \/ stage = "portal" /\ PortalNext
       /\ UNCHANGED <<stage, invoiceRows, contactRows, linkRows, budgetRows, staffRows,
                       pushRows, chatRows>>
  \/ stage = "staff" /\ StaffNext
       /\ UNCHANGED <<stage, invoiceRows, contactRows, linkRows, budgetRows, portalRows,
                       pushRows, chatRows>>
  \/ stage = "push" /\ PushNext
       /\ UNCHANGED <<stage, invoiceRows, contactRows, linkRows, budgetRows, portalRows,
                       staffRows, chatRows>>
  \/ stage = "chat" /\ ChatNext
       /\ UNCHANGED <<stage, invoiceRows, contactRows, linkRows, budgetRows, portalRows,
                       staffRows, pushRows>>

vars == <<stage, visit, edits, invoiceRows, contactRows, linkRows, budgetRows, portalRows,
           staffRows, pushRows, chatRows>>
Spec == Init /\ [][Next]_vars

\* the requests are served alike
Alike == Permutations(Clerk)
==============================================================================
