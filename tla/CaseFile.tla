------------------------------ MODULE CaseFile ------------------------------
(***************************************************************************)
(* The life of a process as the facts of StaffGateway tell it.             *)
(*                                                                         *)
(* A dimension is a set of facts of which a process has at most one.  An   *)
(* effect says which facts an accepted operation makes true, .when these   *)
(* are; whatever the process had in the same dimensions is over.  An       *)
(* operation with several effects has one of those that apply, one without *)
(* leaves the facts as they are.                                           *)
(***************************************************************************)
EXTENDS StaffGateway

Effect(ops, when, makes) == {[op |-> o, when |-> when, makes |-> makes] : o \in ops}

MainStatus    == {"open", "reopened", "completed", "cancelled"}
Visibility    == {"in view", "out of view"}
InquiryState  == {"no inquiry", "has inquiry"}
OfferState    == {"no offer", "draft", "sent", "accepted", "expired", "declined", "recheck_requested"}
BookingState  == {"no booking", "booking"}
ConfirmationState ==
  {"confirmation prepared", "confirmation approved", "confirmation queued",
   "confirmation sent", "confirmation failed"}
SlotState     == {"slot open", "slot assigned", "slot prepared", "slot issued",
                  "slot returned", "slot cancelled"}
IssueState    == {"not issued", "issued"}
OutState      == {"no machine out", "machine out"}
HandoverState == {"handover open", "handover finalized"}
ReturnState   == {"returnable", "return open", "return finalized"}
SettlementState  == {"no settlement", "settlement open", "settlement locked"}
SettlementStatus ==
  {"clarification_required", "customer_notice_required", "customer_waiting",
   "ready_for_accounting", "transferred", "transfer_failed"}
CostState     == {"clarification open", "costs decided", "no costs"}
NoticeState   == {"notice unsent", "notice queued", "notice sent"}
ResponseState == {"no response", "response open", "response settled"}
ReleaseState  == {"released"}
FollowUpState == {"no follow-up", "follow-up"}
BeforeState   == {"not cancelled before", "cancelled before"}
FeeState      == {"no fee", "accounting_pending", "fee transferred"}
MailState     == {"mail prepared", "mail queued", "mail sent", "mail failed", "mail blocked", "mail unknown"}
AdvanceState  == {"no advance", "advance active", "advance cancelled"}
DepositState  == {"no deposit", "deposit held", "deposit applied", "deposit released"}
Fulfilment    == {"pickup", "delivery"}
RepresentativeState == {"no representative", "representative"}

\* what a handover or a return still lacks, in the order in which the wizards ask for it
Progress == {"not prepared", "nobody named", "not checked", "not signed", "nothing missing"}

CaseDimensions ==
  {MainStatus, Visibility, InquiryState, OfferState, BookingState, ConfirmationState, SlotState,
   IssueState, OutState, HandoverState, ReturnState, SettlementState, SettlementStatus, CostState,
   NoticeState, ResponseState, ReleaseState, FollowUpState, BeforeState, FeeState, MailState,
   AdvanceState, DepositState, Fulfilment, RepresentativeState, Progress}

\* createProcess
NewProcess ==
  {"open", "in view", "no inquiry", "no offer", "no booking", "not issued", "no machine out",
   "no settlement", "no follow-up", "not cancelled before", "no advance", "no deposit"}

-----------------------------------------------------------------------------
(* Process.                                                                *)

\* complete, reopen, cancel of crm/process-service
StatusEffects ==
       Effect({"completeProcess"}, {}, {"completed"})
  \cup Effect({"reopenProcess"}, {}, {"reopened", "out of view"})
  \cup Effect({"cancelProcess"}, {"no booking"}, {"cancelled"})

\* the window of finished processes runs out
AgesOut == Effect({"time"}, {"completed"}, {"out of view"}) \cup Effect({"time"}, {"cancelled"}, {"out of view"})

InquiryEffects == Effect({"saveInquiry"}, {}, {"has inquiry"})

-----------------------------------------------------------------------------
(* Offer and confirmation.                                                 *)

OfferEffects ==
       Effect({"createOffer"}, {}, {"draft"})
  \cup Effect({"sendOffer"}, {}, {"sent"})
  \cup Effect({"newVersion"}, {}, {"draft"})
  \cup Effect({"declineOffer"}, {}, {"declined"})

\* effectiveStatus: a version that was sent is expired after its time
Expiry == Effect({"time"}, {"sent"}, {"expired"})

\* accept: the booking with its confirmation and its slots
Acceptance ==
  Effect({"customerAccepts"}, {"sent"},
         {"accepted", "booking", "confirmation prepared", "slot open", "handover open", "not prepared",
          "no representative"})

Recheck == Effect({"customerAsksAgain"}, {"expired"}, {"recheck_requested"})

ConfirmationEffects ==
       Effect({"approveConfirmation"}, {}, {"confirmation approved"})
  \cup Effect({"sendConfirmation"}, {}, {"confirmation queued"})

ConfirmationMail ==
       Effect({"mailRuns"}, {"confirmation queued"}, {"confirmation sent"})
  \cup Effect({"mailRuns"}, {"confirmation queued"}, {"confirmation failed"})

-----------------------------------------------------------------------------
(* Handover and return.                                                    *)

SlotEffects ==
       Effect({"assignMachine", "overrideBlock", "unprepareMachine"}, {}, {"slot assigned", "not prepared"})
  \cup Effect({"releaseMachine"}, {}, {"slot open", "not prepared"})
  \cup Effect({"prepareMachine"}, {}, {"slot prepared", "not checked"})

RepresentativeEffects ==
       Effect({"setRepresentative"}, {}, {"representative"})
  \cup Effect({"clearRepresentative"}, {}, {"no representative"})

\* what a wizard records brings the next thing, what changes the paper takes the signatures
HandoverProgress ==
       Effect({"checkMachine", "addHandoverPhoto"}, {"not checked"}, {"nobody named"})
  \cup Effect({"setRecipient"}, {"nobody named"}, {"not signed"})
  \cup Effect({"signHandover"}, {"not signed"}, {"nothing missing"})
  \cup Effect({"changeQuantity", "addAddition"}, {"nothing missing"}, {"not signed"})

HandoverEffect ==
  Effect({"finalizeHandover", "finalizeHandoverAt"}, {},
         {"handover finalized", "slot issued", "issued", "machine out", "returnable"})

ReturnEffects ==
       Effect({"startReturn"}, {}, {"return open", "nobody named"})
  \cup Effect({"finalizeReturn"}, {}, {"return finalized", "slot returned", "no machine out",
                                     "settlement open", "ready_for_accounting", "notice unsent", "no response"})
  \cup Effect({"finalizeReturn"}, {}, {"return finalized", "slot returned", "no machine out",
                                     "settlement open", "clarification_required", "clarification open",
                                     "notice unsent", "no response"})

ReturnProgress ==
       Effect({"setReturner"}, {"nobody named"}, {"not checked"})
  \cup Effect({"confirmAccessories", "setCleanliness"}, {"not checked"}, {"not signed"})
  \cup Effect({"signReturn"}, {"not signed"}, {"nothing missing"})
  \cup Effect({"addMissing", "deleteMissing", "addDamage", "deleteDamage", "returnQuantity", "markCleanupIssue"},
              {"nothing missing"}, {"not signed"})

-----------------------------------------------------------------------------
(* Settlement.                                                             *)

\* with a charge the customer is to be told first, without one nothing is left to do
CostEffects ==
       Effect({"resolveDamageCost", "resolveMissingCost"}, {}, {"costs decided", "customer_notice_required"})
  \cup Effect({"resolveDamageCost", "resolveMissingCost"}, {}, {"no costs", "ready_for_accounting"})

NoticeEffects ==
       Effect({"sendNotice"}, {}, {"notice queued"})
  \cup Effect({"mailRuns"}, {"notice queued"}, {"notice sent", "customer_waiting"})

\* the response is an open clarification until it is released or the amounts are changed
ResponseEffects ==
       Effect({"customerResponse"}, {}, {"response open", "clarification_required"})
  \cup Effect({"releaseSettlement"}, {}, {"response settled", "released", "ready_for_accounting"})

WaitEffects ==
       Effect({"endWait"}, {}, {"ready_for_accounting"})
  \cup Effect({"time"}, {"customer_waiting"}, {"ready_for_accounting"})

\* markAmountsChangedAfterNotice: an open response counts as dealt with
LineEffects ==
  Effect({"editDamageLine"}, {"response open"}, {"response settled", "customer_waiting"})
    \cup Effect({"editDamageLine"}, {"response open"}, {"response settled", "ready_for_accounting"})

TransferEffects ==
       Effect({"transferSettlement"}, {"open"}, {"settlement locked", "transferred", "completed"})
  \cup Effect({"transferSettlement"}, {"reopened"}, {"settlement locked", "transferred", "completed"})
  \cup Effect({"transferSettlement"}, {"completed"}, {"settlement locked", "transferred"})
  \cup Effect({"transferSettlement"}, {}, {"settlement locked", "transfer_failed"})

PaymentEffects ==
       Effect({"recordAdvance"}, {}, {"advance active"})
  \cup Effect({"cancelAdvance"}, {}, {"advance cancelled"})
  \cup Effect({"recordDeposit"}, {}, {"deposit held"})

DepositEffects ==
       Effect({"applyDeposit"}, {}, {"deposit applied"})
  \cup Effect({"releaseDeposit"}, {}, {"deposit released"})

-----------------------------------------------------------------------------
(* Cancellation of a booking.                                              *)

CancellationEffects ==
  LET over == {"cancelled", "cancelled before", "slot cancelled"}
  IN  UNION {UNION {Effect({"cancelBooking"}, {}, over \cup {fee, mail})
                      \cup Effect({"cancelProcess"}, {"booking"}, over \cup {fee, mail})
                : mail \in {"mail prepared", "mail queued"}} : fee \in {"no fee", "accounting_pending"}}

CancellationMailEffects ==
       Effect({"sendCancellationMail"}, {}, {"mail queued"})
  \cup Effect({"mailRuns"}, {"mail queued"}, {"mail sent"})
  \cup Effect({"mailRuns"}, {"mail queued"}, {"mail failed"})

CancellationTransferEffects == Effect({"transferCancellation"}, {}, {"fee transferred"})

FollowUpEffects == Effect({"createFollowUp"}, {}, {"follow-up"})

-----------------------------------------------------------------------------
(* What the pages of the staff app are made of.  A page loads, keeps what   *)
(* the answers told it and shows controls.  Loads and controls are records  *)
(* like the endpoints of StaffGateway: .op is the request behind it, .asks  *)
(* what must be so before the page makes the request or shows the control - *)
(* rights the app read at sign-in (hasPermission), facts the page knows,    *)
(* and operations the page has an answer of.                                *)

\* a request a page makes when it opens, and again when what .on names has changed
Loads(ops, tells)    == {[op |-> o, asks |-> {}, tells |-> tells, on |-> {}, kind |-> "detail"] : o \in ops}
LoadsAs(right, L)    == Asking({right}, L)
LoadsWhen(facts, L)  == Asking(facts, {[l EXCEPT !.on = @ \cup facts] : l \in L})
LoadsAgain(facts, L) == {[l EXCEPT !.on = @ \cup facts] : l \in L}

\* a list: what an answer does not hold the page no longer shows; and what only a click loads
Lists(L)     == {[l EXCEPT !.kind = "list"] : l \in L}
OnRequest(L) == {[l EXCEPT !.kind = "on request"] : l \in L}

\* controls, and the conditions around them
Shown(ops)         == {[op |-> o, asks |-> {}] : o \in ops}
With(right, ops)   == Asking({right}, Shown(ops))
Having(answer, E)  == Asking({answer}, E)

\* the requests made again after an accepted and after a refused one
Then(ops, again, refused) == {[op |-> o, again |-> again, refused |-> refused] : o \in ops}

\* without an answer about .of the page behaves as if .as
Unless(of, as) == {[of |-> of, as |-> as]}

-----------------------------------------------------------------------------
(* What a page knows.                                                      *)

Sees(page, known) == known \cup {a.as : a \in {b \in page.assumes : b.of \cap known = {}}}

\* the server answers a request that the page makes
Answered(l, page, me, known, facts) ==
  /\ Passes(l, me, Sees(page, known))
  /\ \E e \in RoutesOf(l.op) : Passes(e, me, facts)

\* an answer replaces what the page knew of its subject, no answer leaves it as it was, and
\* a list without the subject takes it off the page
Reads(L, page, me, known, facts) ==
  LET answered == {l \in L : Answered(l, page, me, known, facts)}
      gone     == {l \in L \ answered : l.kind = "list"}
      subject  == UNION {l.tells : l \in answered}
  IN  (known \ (subject \cup UNION {l.tells \cup {l.op} : l \in gone}))
        \cup (facts \cap subject) \cup {l.op : l \in answered}

Moved(a, b) == (a \ b) \cup (b \ a)

\* the requests that hang on something that has changed (effects and their dependencies)
Follows(page, before, now) ==
  LET moved == Moved(Sees(page, before), Sees(page, now))
  IN  {l.op : l \in {k \in page.loads : \E f \in k.on : f \in moved}}

LoadsOf(page, ops) == {l \in page.loads : l.op \in ops}
AllLoads(page)     == {l.op : l \in {k \in page.loads : k.kind # "on request"}}

\* the operations a page offers to someone with these rights
Offered(page, me, known) == {c.op : c \in {d \in page.controls : Passes(d, me, Sees(page, known))}}

\* every request that the page has reason to make is answered
Informed(page, me, known, facts) ==
  \A l \in {k \in page.loads : k.kind # "on request"} : Passes(l, Rights, Sees(page, known)) => Answered(l, page, me, known, facts)
=============================================================================
