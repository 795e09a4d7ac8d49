--------------------------- MODULE ScreensProcess ---------------------------
(***************************************************************************)
(* The pages about one process: the process itself, its inquiry, offer,    *)
(* dates and messages, its settlement, and the customer.                   *)
(***************************************************************************)
EXTENDS CaseFile

(* vorgaenge/[id]: the process.                                            *)

ProcessLoads ==
       Loads({"process"}, MainStatus \cup FollowUpState)
  \cup Loads({"staffOptions"}, {})
  \cup Loads({"inquiry"}, InquiryState)
  \cup Loads({"offer"}, OfferState \cup ConfirmationState \cup BookingState)
  \cup LoadsAgain(ConfirmationState, LoadsAs("handover.view",
         Loads({"handover"}, HandoverState \cup SlotState \cup IssueState)))
  \cup LoadsAgain(HandoverState, LoadsAs("return.view", Loads({"return"}, ReturnState)))
  \cup LoadsWhen({"return finalized"}, LoadsAs("settlement.view", Loads({"settlement"}, SettlementState)))
  \cup LoadsWhen({"booking"}, LoadsAs("settlement.view",
         Loads({"payments"}, AdvanceState \cup DepositState)))
  \cup LoadsWhen({"cancelled"}, Loads({"cancellation"}, FeeState \cup MailState \cup FollowUpState))
  \cup LoadsWhen({"cancelled"}, LoadsAs("settlement.view", Loads({"accountingStatus"}, {})))

\* the preview of a cancellation holds what is in its way
ProcessPreview == OnRequest(Loads({"cancellationPreview"}, BeforeState))

ProcessAssumes ==
       Unless(BookingState, "no booking")
  \cup Unless(InquiryState, "no inquiry")
  \cup Unless({"issued"}, "not issued")
  \cup Unless(ReturnState, "no return")
  \cup Unless(ConfirmationState, "no confirmation")
  \cup Unless({"settlement locked"}, "settlement open")

Editable(E) == Having("process", Asking({"open", "reopened"}, E))
Ended(E)    == Having("process", Asking({"completed", "cancelled"}, E))

ProcessMasterData ==
  Editable(With("process.edit", {"updateEventDate", "addNote"})
      \cup With("process.reassign", {"assignProcess"}))

\* of a booking the page knows from the offer, of an issue from handover and return
ProcessActions ==
       Editable(With("process.complete", {"completeProcess"})
           \cup Asking({"no booking"}, With("process.cancel", {"cancelProcess"}))
           \cup Asking({"booking"}, Asking({"not issued"}, Asking({"no return", "returnable"},
                  With("booking.cancel", {"cancellationPreview"})
             \cup Having("cancellationPreview", Asking({"not cancelled before"},
                    With("booking.cancel", {"cancelBooking"})))))))
  \cup Ended(With("process.reopen_completed", {"reopenProcess"}))

ProcessSettlement ==
  LET Card(E) == Asking({"booking"}, Asking({"open", "reopened", "completed"}, E))
  IN  Card(Asking({"return finalized"}, Asking({"no settlement"},
        With("settlement.view", {"ensureSettlement"}))))

ProcessAdvances ==
  Having("payments", Asking({"settlement open"},
       Asking({"advance active"}, With("deposit.record_advance", {"cancelAdvance"}))
  \cup Asking({"open", "reopened"}, With("deposit.record_advance", {"recordAdvance"}))))

ProcessDeposits ==
  Having("payments",
       Asking({"deposit held"}, With("deposit.refund_security", {"releaseDeposit"}))
  \cup Asking({"deposit held"}, Asking({"return finalized"}, Having("settlement",
         Asking({"settlement open"}, With("deposit.retain_security", {"applyDeposit"})))))
  \cup Asking({"settlement open"}, Asking({"open", "reopened"},
         With("deposit.record_security", {"recordDeposit"}))))

ProcessCancellation ==
  Having("cancellation", Asking({"cancelled"},
       Asking({"accounting_pending"}, With("lexware.manual_transfer", {"transferCancellation"}))
  \cup Asking({"mail prepared", "mail failed"}, With("email.approve_prepared", {"sendCancellationMail"}))
  \cup Asking({"no follow-up"}, With("process.create", {"createFollowUp"}))))

\* mutant: after a refusal only the payments are read again
PaymentsAlone ==
  Then({"recordAdvance", "cancelAdvance", "recordDeposit", "applyDeposit", "releaseDeposit"},
       {"payments", "settlement"}, {"payments"})

\* runPayment, whether the request was accepted or not
ProcessPaymentAnswers ==
  Then({"recordAdvance", "cancelAdvance", "recordDeposit", "applyDeposit", "releaseDeposit"},
       {"payments", "settlement"}, {"payments", "settlement"})

ProcessCancelAnswers ==
       Then({"cancelBooking"}, {"process", "inquiry", "offer", "payments", "handover"}, {"process"})
  \cup Then({"cancellationPreview"}, {"cancellationPreview"}, {})
  \cup Then({"transferCancellation", "sendCancellationMail", "createFollowUp"},
            {"cancellation", "process"}, {"cancellation"})

\* runAction, saveEventDate and addNote read the process again, and only when accepted
ProcessActionAnswers ==
       Then({"completeProcess", "reopenProcess", "cancelProcess", "assignProcess", "updateEventDate",
             "addNote"}, {"process"}, {})
  \cup Then({"ensureSettlement"}, {"settlement"}, {})

ProcessPage ==
  [loads    |-> ProcessLoads \cup ProcessPreview,
   assumes  |-> ProcessAssumes,
   controls |-> ProcessMasterData \cup ProcessActions \cup ProcessSettlement \cup ProcessAdvances
                  \cup ProcessDeposits \cup ProcessCancellation,
   answers  |-> ProcessPaymentAnswers \cup ProcessCancelAnswers \cup ProcessActionAnswers]

\* the next step the page announces and the page its link leads to
NextSteps ==
  LET Step(facts, page, does) == {[asks |-> {{f} : f \in facts}, page |-> page, does |-> does]}
      steps == Step({"confirmation failed"}, "offer", {"sendConfirmation"})
          \cup Step({"confirmation prepared"}, "offer", {"approveConfirmation"})
          \cup Step({"confirmation approved"}, "offer", {"sendConfirmation"})
          \cup Step({"no confirmation", "draft"}, "offer", {"sendOffer"})
          \cup Step({"no confirmation", "recheck_requested"}, "offer", {"newVersion"})
          \cup Asking({"open", "reopened"}, Step({"no inquiry"}, "inquiry", {"saveInquiry"})
                 \cup Step({"no confirmation", "has inquiry", "no offer"}, "offer", {"createOffer"}))
  IN  Asking({"open", "reopened", "completed"}, steps)

-----------------------------------------------------------------------------
(* vorgaenge/[id]/angebot: the current version and the confirmation.       *)

OfferLoads ==
       Loads({"offer"}, OfferState \cup ConfirmationState \cup BookingState)
  \cup LoadsWhen({"booking"}, Loads({"confirmation"}, {}))

OfferStart == Having("offer", Asking({"no offer"}, With("offer.create", {"createOffer"})))

OfferPrices ==
  Having("offer", Asking({"draft"},
       With("offer.apply_special_price", {"setSpecialPrice", "setSpecialPriceZero"})
  \cup With("offer.apply_discount", {"setDiscount", "setDiscountOver10", "setDiscountOver20", "removeDiscount"})
  \cup Asking({"discount.over_20_approve"}, With("offer.apply_discount", {"approveDiscount"}))))

OfferDraftEditor ==
  Having("offer", Asking({"draft"},
       With("offer.edit_draft", {"syncFromInquiry", "updateDraft", "applyVoucher", "removeVoucher"})
  \cup Asking({"offer.change_price"}, With("offer.edit_draft", {"setDeliveryPrice"}))))

OfferVersions ==
  Having("offer",
       Asking({"draft"}, With("offer.send", {"sendOffer"}))
  \cup Asking({"sent", "recheck_requested"}, With("offer.create_new_version", {"newVersion"}))
  \cup Asking({"sent", "expired"}, With("offer.edit_draft", {"declineOffer"})))

OfferConfirmation ==
  Having("offer",
       Asking({"confirmation prepared"}, With("booking.confirm", {"approveConfirmation"}))
  \cup Asking({"confirmation approved", "confirmation failed"},
             With("booking.confirm", {"sendConfirmation"})))

OfferPage ==
  [loads    |-> OfferLoads,
   assumes  |-> {},
   controls |-> OfferStart \cup OfferPrices \cup OfferDraftEditor \cup OfferVersions \cup OfferConfirmation,
   \* run and the voucher's call: the offer is read again, and only when the request was accepted
   answers  |-> Then({"createOffer", "setSpecialPrice", "setSpecialPriceZero", "setDiscount", "setDiscountOver10",
                      "setDiscountOver20", "removeDiscount", "approveDiscount", "syncFromInquiry",
                      "updateDraft", "applyVoucher", "removeVoucher", "setDeliveryPrice", "sendOffer",
                      "newVersion", "declineOffer", "approveConfirmation", "sendConfirmation"},
                     {"offer"}, {})]

-----------------------------------------------------------------------------
(* vorgaenge/[id]/anfrage: one form for the first and for every later      *)
(* inquiry; what was not loaded is an inquiry not yet made.                *)

InquiryPage ==
  [loads    |-> Loads({"listProducts"}, {}) \cup Loads({"inquiry"}, InquiryState),
   assumes  |-> Unless(InquiryState, "no inquiry"),
   controls |-> Asking({"no inquiry"}, With("inquiry.create", {"saveInquiry"}))
                  \cup Asking({"has inquiry"}, With("inquiry.edit", {"saveInquiry"})),
   answers  |-> Then({"saveInquiry"}, {"listProducts", "inquiry"}, {})]

-----------------------------------------------------------------------------
(* vorgaenge/[id]/termine and the preview of an appointment, which the     *)
(* calendar and the start page open too.                                   *)

AppointmentState == {"scheduled", "appointment completed", "appointment cancelled"}
InfoState        == {"info due", "nobody to inform"}
TimeState        == {"overdue", "in time"}
AskedState       == {"asked of me", "nobody asked"}
ConflictState    == {"conflict", "no conflict"}
AssigneeState    == {"assigned", "unassigned"}
DayState         == {"today's", "another day"}
ClosingState     == {"closed by hand", "closed by a protocol"}
AppointmentFacts ==
  AppointmentState \cup InfoState \cup TimeState \cup AskedState \cup ConflictState \cup AssigneeState
    \cup DayState \cup ClosingState

AppointmentDimensions ==
  {AppointmentState, InfoState, TimeState, AskedState, ConflictState, AssigneeState, DayState, ClosingState}

\* a new time of an agreed one is to be told, a new assignee of today's is asked; what a
\* protocol or a cancellation ends needs nobody any more
AppointmentEffects ==
       Effect({"schedule"}, {}, {"info due", "in time"})
  \cup Effect({"acknowledge"}, {}, {"nobody asked"})
  \cup Effect({"resolveConflict"}, {}, {"no conflict"})
  \cup Effect({"assignAppointment"}, {"today's"}, {"assigned", "asked of me", "mine"})
  \cup Effect({"assignAppointment"}, {}, {"assigned", "nobody asked", "not mine"})
  \cup Effect({"completeAppointment", "protocolSigned"}, {"scheduled"},
              {"appointment completed", "in time", "no conflict"})
  \cup Effect({"bookingEnds"}, {"scheduled"}, {"appointment cancelled", "in time", "no conflict"})
  \cup Effect({"time"}, {"scheduled", "in time"}, {"overdue"})
  \cup Effect({"mailRuns"}, {"info due"}, {"nobody to inform"})

PreviewControls ==
       Asking({"conflict"}, Shown({"resolveConflict"}))
  \cup Asking({"overdue"}, Shown({"customerContacted"}))
  \cup Asking({"asked of me"}, Shown({"acknowledge"}))
  \cup Asking({"scheduled"},
            Asking({"info due"}, With("email.approve_prepared", {"informCustomer"}))
       \cup With("calendar.drag_drop", {"schedule"})
       \cup Having("schedulingStaff", With("appointment.assign", {"assignAppointment"}))
       \cup With("calendar.manage", {"completeAppointment"}))

\* run tells the page around the preview after an accepted request, sendCustomerInfo after any
PreviewAnswers(again) ==
       Then({"resolveConflict", "customerContacted", "acknowledge", "schedule", "assignAppointment",
             "completeAppointment"}, again, {})
  \cup Then({"informCustomer"}, again, again)

\* whom an appointment can be given to
PreviewLoads == LoadsAs("appointment.assign", Loads({"schedulingStaff"}, {}))

DatesPage ==
  [loads    |-> Loads({"processAppointments"}, AppointmentFacts \cup Fulfilment) \cup PreviewLoads,
   assumes  |-> {},
   controls |-> Having("processAppointments", PreviewControls
                  \cup Asking({"pickup"}, With("calendar.drag_drop", {"weekendStandard"}))),
   answers  |-> PreviewAnswers({"processAppointments"})
                  \cup Then({"weekendStandard"}, {"processAppointments"}, {})]

-----------------------------------------------------------------------------
(* vorgaenge/[id]/kommunikation.  The channels come with the answer.       *)

MessageControls ==
  Having("conversation",
       With("message.reply_customer", {"replyByEmail"})
  \cup Asking({"whatsapp window"}, With("whatsapp.reply", {"replyByWhatsapp"}))
  \cup Asking({"portal open"}, With("message.reply_customer", {"replyByPortal"})))

MessagesPage ==
  [loads    |-> Loads({"conversation"}, {"whatsapp window", "portal open"}) \cup Loads({"process"}, {}),
   assumes  |-> {},
   controls |-> MessageControls,
   answers  |-> Then({"replyByEmail", "replyByWhatsapp", "replyByPortal"}, {"conversation"}, {"conversation"})]

-----------------------------------------------------------------------------
(* vorgaenge/[id]/abrechnung.  The rights are those of the server's view,  *)
(* which has no right per line.                                            *)

SettlementLoads ==
  Loads({"settlement"}, SettlementState \cup SettlementStatus \cup CostState \cup NoticeState
                          \cup ResponseState \cup ReleaseState)

Mutable(E) == Having("settlement", Asking({"settlement open"}, E))

SettlementLines ==
  Mutable(Shown({"editLine", "removeLine"}) \cup Asking({"costs decided"}, Shown({"editDamageLine"})))
    \cup Mutable(With("settlement.add_manual_charge", {"addLine"}))

SettlementClarifications ==
  Mutable(Asking({"clarification open"},
       With("damage.set_cost", {"resolveDamageCost"}) \cup With("missing_item.set_cost", {"resolveMissingCost"})))

\* mutant: a second response can be entered while the first one is open
ResponseAnyTime ==
  Mutable(Asking({"customer_notice_required"}, Asking({"notice unsent"},
            With("settlement.release", {"notice", "sendNotice"})))
     \cup Asking({"customer_waiting", "clarification_required"}, With("settlement.release", {"customerResponse"}))
     \cup Asking({"response open", "response settled"}, Asking({"not released"},
            With("settlement.release", {"releaseSettlement"})))
     \cup Asking({"customer_waiting"}, With("settlement.end_pre_notice_wait", {"endWait"})))

\* the first action and the buttons below it, without those for what the server would not do
SettlementNotice ==
  Mutable(Asking({"customer_notice_required"}, Asking({"notice unsent"},
            With("settlement.release", {"notice", "sendNotice"})))
     \cup Asking({"customer_waiting"}, Asking({"no response"},
            With("settlement.release", {"customerResponse"})))
     \cup Asking({"response open", "response settled"}, Asking({"not released"},
            With("settlement.release", {"releaseSettlement"})))
     \cup Asking({"customer_waiting"}, With("settlement.end_pre_notice_wait", {"endWait"})))

SettlementTransfer ==
       Mutable(Asking({"ready_for_accounting"}, With("lexware.manual_transfer", {"transferSettlement"})))
  \cup Having("settlement", Asking({"transfer_failed"}, With("lexware.manual_transfer", {"transferSettlement"})))

SettlementStart ==
  Asking({"no settlement"}, With("settlement.view", {"ensureSettlement"}))

\* mutate: a refused request is followed by a new reading, as is an accepted one without a view
SettlementPage ==
  [loads    |-> SettlementLoads,
   assumes  |-> Unless({"released"}, "not released") \cup Unless(SettlementState, "no settlement"),
   controls |-> SettlementStart \cup SettlementLines \cup SettlementClarifications \cup SettlementNotice
                  \cup SettlementTransfer,
   answers  |-> Then({"ensureSettlement", "editLine", "removeLine", "editDamageLine", "addLine",
                      "resolveDamageCost", "resolveMissingCost", "sendNotice", "customerResponse",
                      "releaseSettlement", "endWait", "transferSettlement"}, {"settlement"}, {"settlement"})
                  \cup Then({"notice"}, {}, {})]

-----------------------------------------------------------------------------
(* Lists: processes, customers, the customer, the waste basket, messages   *)
(* that belong to no process.                                              *)

ListPage(load) ==
  [loads |-> Loads({load}, {}), assumes |-> {}, controls |-> {}, answers |-> {}]

CustomersPage ==
  [loads    |-> Loads({"customers"}, {}),
   assumes  |-> {},
   controls |-> With("customer.create", {"duplicateCheck", "createCustomer"}),
   answers  |-> Then({"createCustomer", "duplicateCheck"}, {}, {})]

CustomerHistory == {"no process", "has process"}
ContactState    == {"contact linked", "contact unclear", "no contact"}

CustomerControls ==
  Having("customer",
       With("customer.edit", {"updateCustomer"})
  \cup With("process.create", {"createProcess"})
  \cup Asking({"no process"}, With("trash.manage", {"trashCustomer"}))
  \cup Asking({"customer.view"}, Asking({"voucher unsent"}, With("email.approve_prepared", {"sendVoucher"}))))

\* LexwareContactBlock: the state of the connection from the route one may ask
ContactLoads ==
       LoadsAs("system.settings", Loads({"lexwareStatus"}, {"lexware on"}))
  \cup LoadsAs("settlement.view", Loads({"accountingStatus"}, {"lexware on"}))
  \cup LoadsWhen({"lexware on"}, Asking({"system.settings", "settlement.view"},
         Loads({"lexwareContact"}, ContactState)))

ContactControls ==
  Having("lexwareContact",
       Asking({"contact unclear"}, With("system.settings", {"linkContact"}))
  \cup Asking({"contact unclear", "no contact"}, With("system.settings", {"createContact"})))

CustomerPage ==
  [loads    |-> Loads({"customer"}, CustomerHistory \cup {"voucher unsent"}) \cup ContactLoads,
   assumes  |-> {},
   controls |-> CustomerControls \cup ContactControls,
   answers  |-> Then({"updateCustomer"}, {"customer"}, {})
                  \cup Then({"createProcess", "trashCustomer"}, {}, {})
                  \cup Then({"sendVoucher"}, {"customer"}, {"customer"})
                  \cup Then({"linkContact", "createContact"}, {"lexwareContact"}, {"lexwareContact"})]

TrashPage ==
  [loads    |-> Loads({"trash"}, {"in the basket"}),
   assumes  |-> {},
   controls |-> Asking({"in the basket"}, Shown({"restoreCustomer"})),
   answers  |-> Then({"restoreCustomer"}, {"trash"}, {})]

UnmatchedPage ==
  [loads    |-> Loads({"unmatched"}, {"not matched"}),
   assumes  |-> {},
   controls |-> Asking({"not matched"}, With("message.reply_customer", {"assignMessage", "ignoreMessage"})),
   answers  |-> Then({"assignMessage", "ignoreMessage"}, {"unmatched"}, {"unmatched"})]
=============================================================================
