---------------------------- MODULE StaffGateway ----------------------------
(***************************************************************************)
(* What the API asks of a request of the staff app before a service does   *)
(* anything.                                                               *)
(*                                                                         *)
(* An endpoint is the record of its conditions: .asks holds sets of which  *)
(* the caller must have at least one element each, .gate is the training   *)
(* gate in front of it.  The elements are rights ("offer.send"), which     *)
(* come from the caller, and facts ("draft"), which come from the business *)
(* object as it is stored at that moment; a route that needs another right *)
(* in another state of the object has one record for each state.           *)
(***************************************************************************)
EXTENDS FiniteSets, Naturals, TLC

SignedIn(ops) == {[op |-> o, asks |-> {}, gate |-> "none"] : o \in ops}

\* at least one of these: rights (requirePermission) or facts (the service's own conditions)
Asking(alternatives, E) == {[e EXCEPT !.asks = @ \cup {alternatives}] : e \in E}
Staff(right, ops)       == Asking({right}, SignedIn(ops))
EitherOf(rights, ops)   == Asking(rights, SignedIn(ops))
Also(right, E)          == Asking({right}, E)
While(facts, E)         == Asking(facts, E)

\* requireVisibleProcess: the right to see processes; finished ones only while they
\* are in the window, reopened ones not at all without the right to see finished ones
Seen(E) == Also("process.view_all", Asking({"process.view_completed", "in view"}, E))

\* requireTrainingGate, after the rights and before the service
Gated(key, E) == {[e EXCEPT !.gate = key] : e \in E}

-----------------------------------------------------------------------------
(* The catalogue of rights.                                                *)

PeopleRights ==
  {"employee.manage", "permission.manage", "device.revoke",
   "customer.view", "customer.create", "customer.edit",
   "process.view_all", "process.create", "process.edit", "process.complete",
   "process.view_completed", "process.reassign", "process.cancel", "process.reopen_completed"}

OfferRights ==
  {"inquiry.view", "inquiry.create", "inquiry.edit", "offer.view", "offer.create",
   "offer.edit_draft", "offer.send", "offer.create_new_version", "offer.change_price",
   "offer.apply_discount", "offer.apply_special_price", "offer.apply_special_price_zero",
   "discount.up_to_10", "discount.over_10_with_reason", "discount.over_20_request",
   "discount.over_20_approve", "price.manage", "booking.confirm"}

FieldRights ==
  {"calendar.view", "calendar.view_all", "calendar.manage", "calendar.drag_drop",
   "appointment.assign", "appointment.reassign_same_day", "substitution.manage",
   "machine.view", "machine.assign", "machine.change_status", "machine.block",
   "machine.override_block", "machine.replace_reference_photo", "machine.manage",
   "machine.change_location", "machine.qr", "machine.clean_complete",
   "inventory.view", "inventory.add_stock", "inventory.issue", "inventory.return",
   "inventory.count", "inventory.approve_adjustment", "inventory.view_movement_history",
   "inventory.manage_min_stock"}

DeskRights ==
  {"handover.view", "handover.prepare", "handover.perform", "handover.correct_actual_time",
   "delivery_note.edit", "return.view", "return.perform", "return.complete",
   "return.correct_actual_time", "return.mark_cleanup_issue", "damage.document",
   "damage.resolve_current", "damage.set_cost", "damage.edit_cost_before_lexware",
   "missing_item.create", "missing_item.set_cost", "missing_item.resolve"}

MoneyRights ==
       {"booking.cancel", "settlement.view", "settlement.add_manual_charge", "settlement.release",
        "settlement.end_pre_notice_wait", "deposit.record_advance", "deposit.record_security",
        "deposit.retain_security", "deposit.refund_security", "lexware.manual_transfer",
        "accounting.view_reference"}
  \cup {"message.reply_customer", "email.approve_prepared", "whatsapp.reply", "product.view",
        "product.manage", "cms.edit", "cms.publish", "demo.manage", "training.manage",
        "trash.manage", "system.settings"}

Rights == PeopleRights \cup OfferRights \cup FieldRights \cup DeskRights \cup MoneyRights

GateKeys == {"offer.send", "handover.finalize", "return.finalize", "settlement.release",
             "tour.start", "tour.takeover", "machine.clean_complete",
             "inventory.stocktake_approve"}

-----------------------------------------------------------------------------
(* Products, inquiry, offer, order confirmation.  The state of an offer is *)
(* that of its current version as the app reads it: a version that was     *)
(* sent may be expired.                                                    *)

ProductRoutes ==
       Staff("product.view", {"listProducts"})
  \cup Staff("product.manage", {"createProduct", "updateProduct", "setProductActive"})
  \cup Staff("price.manage", {"setPrice", "planPrice", "updatePlannedPrice", "deletePlannedPrice"})

\* which right the one PUT asks for is decided by what is stored when it arrives
InquiryRoutes ==
       Seen(     Staff("inquiry.view", {"inquiry"})
            \cup While({"open", "reopened"},
                       While({"no inquiry"}, Staff("inquiry.create", {"saveInquiry"}))
                  \cup While({"has inquiry"}, Staff("inquiry.edit", {"saveInquiry"}))))
  \cup Seen(     Staff("offer.view", {"offer"})
            \cup While({"no offer"}, While({"open", "reopened"}, Staff("offer.create", {"createOffer"})))
            \cup While({"draft"}, Staff("offer.edit_draft", {"updateDraft"})
                               \cup Also("offer.change_price",
                                         Staff("offer.edit_draft", {"setDeliveryPrice"}))))

\* of up to 10 per cent, above, and of more than 20; what is taken away is asked for nothing
DiscountRoutes ==
  LET Over10(ops) == Also("discount.over_10_with_reason", SignedIn(ops))
  IN  Also("offer.apply_discount",
             SignedIn({"removeDiscount"})
        \cup EitherOf({"discount.up_to_10", "discount.over_10_with_reason"}, {"setDiscount"})
        \cup Over10({"setDiscountOver10"})
        \cup Asking({"discount.over_20_request", "discount.over_20_approve"}, Over10({"setDiscountOver20"})))

\* lockDraft: the version is locked and must still be a draft
OfferPriceRoutes ==
       Seen(While({"draft"},
                 DiscountRoutes
            \cup Staff("discount.over_20_approve", {"approveDiscount"})
            \cup Staff("offer.apply_special_price", {"setSpecialPrice"})
            \cup Also("offer.apply_special_price_zero", Staff("offer.apply_special_price", {"setSpecialPriceZero"}))))
  \cup Seen(While({"draft"}, Staff("offer.edit_draft", {"applyVoucher", "removeVoucher"})
                        \cup Gated("offer.send", Staff("offer.send", {"sendOffer"}))))

OfferVersionRoutes ==
       Seen(     While({"sent", "expired", "declined", "recheck_requested"},
                       Staff("offer.create_new_version", {"newVersion"}))
            \cup While({"sent", "expired"}, Staff("offer.edit_draft", {"declineOffer"}))
            \cup While({"draft"}, Staff("offer.edit_draft", {"syncFromInquiry"})))
  \cup Seen(     Staff("offer.view", {"offerPreview"})
            \cup EitherOf({"offer.view", "handover.view", "return.view"}, {"document"}))

ConfirmationRoutes ==
       Seen(     Staff("offer.view", {"confirmation", "confirmationPreview"})
            \cup While({"confirmation prepared"}, Staff("booking.confirm", {"approveConfirmation"}))
            \cup While({"confirmation approved", "confirmation failed"},
                       Staff("booking.confirm", {"sendConfirmation"})))
  \cup Staff("system.settings", {"pickupAddress", "setPickupAddress", "terms", "createTerms", "outbox"})

-----------------------------------------------------------------------------
(* Customers and processes.                                                *)

CustomerRoutes ==
       Staff("customer.view", {"customers", "customer"})
  \cup Staff("customer.create", {"createCustomer", "duplicateCheck"})
  \cup Staff("customer.edit", {"updateCustomer"})
  \cup Staff("trash.manage", {"trash"})
  \cup While({"no process"}, Staff("trash.manage", {"trashCustomer"}))
  \cup While({"in the basket"}, Staff("trash.manage", {"restoreCustomer"}))

\* lockVisibleProcess: visible and editable under the row lock
ProcessRoutes ==
       Staff("process.create", {"createProcess"})
  \cup Also("process.reassign", Staff("process.create", {"createProcessFor"}))
  \cup Seen(SignedIn({"process"}))
  \cup Staff("process.view_all", {"processes"})
  \cup Asking({"process.view_completed", "in view"}, While({"open", "reopened"},
                 Staff("process.edit", {"updateEventDate"})
            \cup Staff("process.reassign", {"assignProcess"})
            \cup While({"no machine out"}, Staff("process.complete", {"completeProcess"}))))

\* with a confirmed booking the same request takes the cancellation path and asks for more
\* the answers hold what the caller may see
CancelProcessRoutes ==
       Asking({"process.view_completed", "in view"}, While({"open", "reopened"},
                 While({"no booking"}, Staff("process.cancel", {"cancelProcess"}))
            \cup While({"booking"}, While({"not issued"}, While({"not cancelled before"},
                   Also("booking.cancel", Staff("process.cancel", {"cancelProcess"})))))))
  \cup While({"completed", "cancelled"}, Staff("process.reopen_completed", {"reopenProcess"}))
  \cup Asking({"process.view_completed", "in view"},
              While({"open", "reopened"}, Staff("process.edit", {"addNote"})))
  \cup SignedIn({"search", "dashboard"}) \cup Staff("process.view_all", {"staffOptions"})

VoucherMailRoutes ==
       While({"voucher unsent"}, Also("email.approve_prepared", Staff("customer.view", {"sendVoucher"})))
  \cup Staff("system.settings", {"completedVisibility", "setCompletedVisibility"})

CancellationRoutes ==
       Seen(     EitherOf({"booking.cancel", "settlement.view"}, {"cancellationPreview"})
            \cup While({"not issued"}, While({"open", "reopened"}, While({"not cancelled before"},
                   Staff("booking.cancel", {"cancelBooking"}))))
            \cup SignedIn({"cancellation"}))
  \cup Seen(     While({"accounting_pending"}, Staff("lexware.manual_transfer", {"transferCancellation"}))
            \cup While({"mail prepared", "mail failed", "mail blocked"}, While({"cancelled"},
                       Staff("email.approve_prepared", {"sendCancellationMail"}))))
  \cup Seen(While({"cancelled", "reopened"}, While({"no follow-up"}, Staff("process.create", {"createFollowUp"}))))

-----------------------------------------------------------------------------
(* Handover and return of a booking (visibleBooking: the process must be   *)
(* visible), damages, machines, stock.                                     *)

HandoverReads ==
       Seen(     Staff("handover.view", {"handover"})
            \cup Staff("machine.assign", {"suggestion", "evaluate"}))
  \cup Also("process.view_all", Staff("handover.view", {"handoverDay"}))

\* a blocked machine is assigned only with the right to override
AssignRoutes ==
  LET Operational(E) == While({"open", "reopened"}, While({"not cancelled before"}, E))
      Own == {"slot assigned", "slot prepared"}
  IN  Seen(     Operational(While(Own \cup {"slot open"}, Staff("machine.assign", {"assignMachine"})
                  \cup Also("machine.override_block", Staff("machine.assign", {"overrideBlock"}))))
           \cup While(Own, Staff("machine.assign", {"releaseMachine"}))
           \cup Operational(While(Own, Staff("handover.prepare", {"prepareMachine"})))
           \cup While({"slot prepared"}, Staff("handover.prepare", {"unprepareMachine"})))

\* withDraftLock: the handover is a draft and the booking was never cancelled
Drafting(E) == While({"handover open"}, While({"not cancelled before"}, E))

DeliveryNoteRoutes ==
       Seen(Drafting(Staff("delivery_note.edit", {"changeQuantity", "addAddition"})))
  \cup Seen(Staff("handover.view", {"deliveryNotePreview"}))
  \cup Staff("delivery_note.edit", {"additionProducts"})
  \cup Seen(Drafting(While({"pickup"},
              Staff("handover.prepare", {"setRepresentative", "clearRepresentative"}))))

HandoverCheckRoutes ==
  Seen(     Drafting(Staff("handover.perform",
              {"setRecipient", "checkMachine", "addHandoverPhoto", "signHandover"}))
       \cup Staff("handover.view", {"handoverPhoto", "handoverSignature"}))

\* a time of one's own choosing asks for one more right, before the gate
FinalizeHandoverRoutes ==
       Seen(     Drafting(While({"open", "reopened"}, While({"nothing missing"}, Gated("handover.finalize",
                       Staff("handover.perform", {"finalizeHandover"})
                  \cup Also("handover.correct_actual_time", Staff("handover.perform", {"finalizeHandoverAt"}))))))
            \cup Staff("handover.view", {"packets"}))
  \cup Staff("machine.override_block", {"overrides"})
  \cup Staff("machine.view", {"riskIncidents"})
  \cup While({"risk open"}, Staff("machine.block", {"acknowledgeRisk"}))

ReturnReads ==
       Also("process.view_all", Staff("return.view", {"openReturns"}))
  \cup Seen(     Staff("return.view", {"resolveQr", "return"})
            \cup While({"returnable"}, Staff("return.perform", {"startReturn"})))

\* performRoute and the routes between its uses
ReturnRoutes ==
  Seen(     While({"return open"},
                  Staff("return.perform", {"setReturner", "confirmAccessories"})
             \cup Staff("missing_item.create", {"addMissing", "deleteMissing"}))
       \cup Staff("return.view", {"returnPhoto"}))

ReturnFindingRoutes ==
  Seen(While({"return open"},
            Staff("return.perform", {"setCleanliness", "addCleanupPhoto", "returnQuantity"})
       \cup Also("return.mark_cleanup_issue", Staff("return.perform", {"markCleanupIssue"}))
       \cup Staff("damage.document", {"addDamage", "deleteDamage"})))

FinalizeReturnRoutes ==
  Seen(     While({"return open"},
                  Staff("return.perform", {"signReturn"})
             \cup While({"nothing missing"}, Gated("return.finalize", Staff("return.complete", {"finalizeReturn"}))))
       \cup Staff("return.correct_actual_time", {"setActualReturnTime"})
       \cup Staff("return.view", {"returnSignature"}))

\* damageVisible: the process of the return a damage hangs on
DamageRoutes ==
  Seen(     Staff("damage.document", {"addDamagePhoto"})
       \cup EitherOf({"machine.view", "return.view"}, {"damagePhoto"})
       \cup While({"damage open"}, Staff("damage.resolve_current", {"resolveDamage"})))

\* a finding after the return hangs on the last return of the machine, whose process must be visible
FindingRoutes ==
       Seen(While({"last return open"}, While({"cleaning"}, Staff("damage.document", {"reportDamage"}))
                                   \cup Staff("machine.change_status", {"reportDefect"})))
  \cup Staff("machine.view", {"machineCondition"})

CleaningRoutes ==
       Gated("machine.clean_complete",
             While({"cleaning"}, Staff("machine.clean_complete", {"cleanComplete"})))
  \cup Also("process.view_all", Staff("machine.view", {"defectPhoto"}))
  \cup Staff("machine.view", {"cleaningWarnings"})
  \cup Also("process.view_all", Staff("return.view", {"missingItems"}))
  \cup Seen(While({"missing open"}, Staff("missing_item.resolve", {"resolveMissing"})))

MachineRoutes ==
       Staff("machine.view", {"machines", "suggestMachine", "resolveMachineQr", "machine"})
  \cup Staff("machine.manage", {"createMachine"})

MachineStateRoutes ==
       Staff("machine.manage", {"updateMachine"})
  \cup Staff("machine.change_status", {"setMachineStatus", "setCleaning"})
  \cup Staff("machine.change_location", {"setLocation"})
  \cup Staff("machine.block", {"createBlock"})
  \cup While({"block open"}, Staff("machine.block", {"liftBlock"}))

MachineFileRoutes ==
       Staff("machine.qr", {"machineQr"})
  \cup Staff("system.settings", {"baseUrl", "setBaseUrl"})
  \cup Staff("machine.replace_reference_photo", {"replaceReferencePhoto"})
  \cup Staff("machine.view", {"referencePhoto", "availability"})

InventoryRoutes ==
       Staff("inventory.view", {"inventory"})
  \cup Staff("inventory.add_stock", {"receiveStock"})
  \cup Staff("inventory.manage_min_stock", {"setMinStock"})
  \cup Staff("inventory.view_movement_history", {"movements"})
  \cup Staff("inventory.count", {"createStocktake", "stocktakes", "stocktake"})
  \cup While({"stocktake submitted"}, Staff("inventory.approve_adjustment", {"correctCount"})
         \cup Gated("inventory.stocktake_approve",
                    Staff("inventory.approve_adjustment", {"approveStocktake"})))

\* the answer holds what the caller's rights let him see, nothing is refused
WarehouseWarnings == SignedIn({"warehouseWarnings"})

-----------------------------------------------------------------------------
(* Tours and appointments.  "mine": the caller is the effective driver or  *)
(* the effective assignee, "visible tour" is what canView lets him see.    *)

TourReads ==
       Staff("calendar.view", {"tours", "activeTours"})
  \cup Asking({"calendar.view_all", "calendar.manage", "mine"}, Staff("calendar.view", {"tour", "tourDelay"}))
  \cup Staff("calendar.manage", {"tourCandidates"})

TourStopRoutes ==
       Staff("calendar.manage", {"createTour"})
  \cup While({"tour draft", "tour ready", "tour active"},
             Staff("calendar.manage", {"removeStop", "reorderStops", "updateStop"})
        \cup While({"driver's candidate"}, Staff("calendar.manage", {"addStop"}))
        \cup Also("appointment.assign", Staff("calendar.manage", {"addStop"})))

TourPlanRoutes ==
       While({"tour draft", "tour ready"}, While({"has stops"},
             Staff("calendar.manage", {"proposePlan", "applyPlan", "evaluatePlan"})))
  \cup Staff("calendar.manage", {"confirmGeocode"})
  \cup While({"tour active"}, Asking({"calendar.manage", "mine"}, Staff("calendar.view", {"recalculatePlan"})))

TourDriveRoutes ==
  LET Mine(E) == Asking({"calendar.manage", "mine"}, E)
  IN     While({"tour draft"}, While({"has stops"}, Staff("calendar.manage", {"markReady"})))
    \cup While({"tour draft", "tour ready"}, While({"tour today"}, While({"has stops"}, Mine(
               Gated("tour.start", Staff("calendar.view", {"startTour"}))))))
    \cup While({"tour active"}, While({"no stops"}, Mine(Staff("calendar.view", {"endTour"})))
                            \cup Also("calendar.manage", Staff("calendar.view", {"endTourAnyway"})))
    \cup While({"tour draft", "tour ready"}, Staff("calendar.manage", {"cancelTour"}))
    \cup Asking({"calendar.view_all", "calendar.manage", "mine"},
                While({"tour active"}, While({"not mine"}, Also("appointment.assign",
                      Gated("tour.takeover", Staff("calendar.view", {"takeoverTour"}))))))
    \cup While({"tour active"}, While({"has stops"}, Asking({"calendar.manage", "mine"},
               Staff("calendar.view", {"markArrived"}))))

\* the position is accepted from the effective driver only, whatever his rights
LocationRoutes == While({"mine"}, While({"tour active"}, SignedIn({"reportLocation"})))

\* requireVisibleAppointment: the whole calendar or the appointment is one's own
OwnOrAll(E) == Asking({"calendar.view_all", "mine"}, E)

\* the lists answer for the appointments one may see, the list of a process for all of its
CalendarReads ==
       OwnOrAll(Staff("calendar.view", {"today", "calendar", "openAppointments"}))
  \cup Seen(Staff("calendar.view", {"processAppointments"}))

AppointmentRoutes ==
       OwnOrAll(     Staff("calendar.view", {"appointment"})
                \cup While({"asked of me"}, Staff("calendar.view", {"acknowledge"}))
                \cup While({"overdue"}, Staff("calendar.view", {"customerContacted"}))
                \cup While({"scheduled"}, Staff("calendar.drag_drop", {"schedule"})))
  \cup OwnOrAll(While({"conflict"}, Staff("calendar.view", {"resolveConflict"})))

\* assignWithin: an appointment of today changes hands only with one more right
AppointmentAssignRoutes ==
  OwnOrAll(While({"scheduled"},
            While({"unassigned", "another day"}, Staff("appointment.assign", {"assignAppointment"}))
       \cup Also("appointment.reassign_same_day", Staff("appointment.assign", {"assignAppointment"}))))

\* complete: what a handover or a return will complete is not completed by hand
AppointmentCloseRoutes ==
  OwnOrAll(While({"scheduled"}, While({"closed by hand"}, While({"assigned"},
             Staff("calendar.manage", {"completeAppointment"})))))

WeekendRoutes ==
       Seen(While({"booking"}, While({"pickup"}, Staff("calendar.drag_drop", {"weekendStandard"}))))
  \cup Staff("substitution.manage", {"substitutions", "createSubstitution", "endSubstitution"})
  \cup EitherOf({"appointment.assign", "substitution.manage", "calendar.view_all", "calendar.manage"},
                {"schedulingStaff"})

InformCustomerRoutes == OwnOrAll(While({"info due"}, Staff("email.approve_prepared", {"informCustomer"})))

-----------------------------------------------------------------------------
(* Settlement, payments and accounting.  visibleSettlement, visibleBooking *)
(* and visibleDeposit ask for the process behind the row.                  *)

\* a line of a damage is not edited with the right to add lines by hand
SettlementReads ==
       Seen(     Staff("settlement.view", {"settlement", "ensureSettlement", "notice", "payments"})
            \cup Staff("accounting.view_reference", {"invoiceFile"}))
  \cup Seen(While({"settlement open"},
                 Staff("settlement.add_manual_charge", {"addLine"})
            \cup Also("settlement.add_manual_charge", Staff("settlement.view", {"editLine", "removeLine"}))
            \cup Also("damage.edit_cost_before_lexware", Staff("settlement.view", {"editDamageLine"}))))

ClarificationRoutes ==
       Seen(While({"clarification open"},
                 Also("damage.set_cost", Staff("settlement.view", {"resolveDamageCost"}))
            \cup Also("missing_item.set_cost", Staff("settlement.view", {"resolveMissingCost"}))))
  \cup Seen(Gated("settlement.release", While({"settlement open"},
                 While({"customer_notice_required"}, While({"notice unsent"}, Staff("settlement.release", {"sendNotice"})))
            \cup While({"notice sent"}, While({"no response"}, Staff("settlement.release", {"customerResponse"})))
            \cup While({"response open"}, Staff("settlement.release", {"releaseSettlement"}))
            \cup While({"customer_waiting"}, Staff("settlement.end_pre_notice_wait", {"endWait"})))))

TransferRoutes ==
  Seen(While({"ready_for_accounting", "transfer_failed", "transferred"}, Staff("lexware.manual_transfer", {"transferSettlement"})))

PaymentRoutes ==
  Seen(     While({"no settlement", "settlement open"}, Staff("deposit.record_advance", {"recordAdvance"})
              \cup While({"advance active"}, Staff("deposit.record_advance", {"cancelAdvance"})))
       \cup Staff("deposit.record_security", {"recordDeposit"})
       \cup While({"deposit held"}, Staff("deposit.refund_security", {"releaseDeposit"})
              \cup While({"settlement open"}, Staff("deposit.retain_security", {"applyDeposit"}))))

AccountingRoutes ==
       Staff("settlement.view", {"accountingStatus"})
  \cup Staff("system.settings", {"runDueJobs", "taxConfig", "setTaxConfig", "syntheticTaxConfig"})

LexwareRoutes ==
       Staff("system.settings", {"lexwareStatus", "checkConnection", "setupWebhooks",
                                 "reconcile", "confirmOrganization"})
  \cup EitherOf({"settlement.view", "system.settings"}, {"lexwareContact"})
  \cup Staff("system.settings", {"linkContact", "createContact"})

-----------------------------------------------------------------------------
(* Messages, push, calendar subscription.                                  *)

MailAdminRoutes ==
       Staff("system.settings", {"communicationStatus", "mailCheck", "deliveries"})
  \cup While({"mail failed", "mail blocked", "mail unknown"}, Staff("system.settings", {"resend"}))
  \cup Seen(SignedIn({"communicationState", "customerContacts"}))

\* the right to answer is that of the channel
ConversationRoutes ==
  Seen(     SignedIn({"conversation"})
       \cup Staff("message.reply_customer", {"messagePhoto"})
       \cup While({"mail known"}, Staff("message.reply_customer", {"replyByEmail"}))
       \cup While({"portal open"}, Staff("message.reply_customer", {"replyByPortal"}))
       \cup While({"whatsapp window"}, Staff("whatsapp.reply", {"replyByWhatsapp"})))

InboxRoutes ==
       Staff("message.reply_customer", {"unmatched"})
  \cup While({"not matched"}, Staff("message.reply_customer", {"ignoreMessage"}))
  \cup Seen(While({"not matched"}, Staff("message.reply_customer", {"assignMessage"})))

PushRoutes == SignedIn({"pushKey", "pushSubscribe", "pushSubscriptions", "pushStatus"})

FeedRoutes == Staff("calendar.view", {"feedStatus", "issueFeed"})

-----------------------------------------------------------------------------
(* Employees, roles, devices, training.                                    *)

UserRoutes ==
  Staff("employee.manage", {"users", "createUser", "user", "setUserStatus", "resetLink",
                            "totpRequirement", "totpReset", "userSessions", "securityEvents"})

RoleRoutes ==
       Staff("permission.manage", {"roles", "createRole", "updateRole", "deleteRole",
                                   "setUserRoles", "addOverride", "removeOverride", "explainRight"})
  \cup SignedIn({"rights"})

SessionRoutes ==
       Staff("device.revoke", {"revokeSession", "revokeAllSessions"})
  \cup SignedIn({"ownSessions", "revokeOwnSession", "changePassword", "totpSetup", "me", "unlock", "logout"})

TrainingRoutes ==
       SignedIn({"ownTraining", "trainings", "startAttempt", "attempt", "checkAttempt"})
  \cup Staff("training.manage", {"trainingOverview", "trainee", "trainingPaths",
                                 "assignTraining", "resetTraining"})

GateRoutes == Staff("training.manage", {"gates", "setGate", "clearances", "grantClearance", "revokeClearance"})

DemoRoutes == Staff("demo.manage", {"demoStatus", "seedEntities", "demoReset"})

-----------------------------------------------------------------------------
(* The website's content (requireAny in website-cms.ts).                   *)

ContentReads ==
       EitherOf({"cms.edit", "cms.publish"}, {"entries", "entry", "revision", "media", "mediaFile", "preview"})
  \cup Staff("product.view", {"catalog"})
  \cup Staff("cms.edit", {"saveContent", "restoreRevision", "createPage", "uploadMedia", "updateMedia"})
  \cup Staff("cms.publish", {"publishContent", "unpublishContent"})

-----------------------------------------------------------------------------
(* What the sync route asks for an operation recorded without a network,   *)
(* and the online operation it stands for.                                 *)

OfflineAsks ==
  LET OfHandover(rights) == {"handover.view", "process.view_all"} \cup rights
      OfReturn(rights)   == {"return.view", "process.view_all"} \cup rights
  IN     [op \in {"assignMachine"} |-> OfHandover({"machine.assign"})]
     @@ [op \in {"prepareMachine"} |-> OfHandover({"handover.prepare"})]
     @@ [op \in {"checkMachine", "addHandoverPhoto", "setRecipient", "signHandover",
                 "finalizeHandover"} |-> OfHandover({"handover.perform"})]
     @@ [op \in {"changeQuantity"} |-> OfHandover({"delivery_note.edit"})]
     @@ [op \in {"startReturn", "setReturner", "confirmAccessories", "setCleanliness",
                 "addCleanupPhoto", "returnQuantity", "signReturn"} |-> OfReturn({"return.perform"})]
     @@ [op \in {"addMissing"} |-> OfReturn({"missing_item.create"})]
     @@ [op \in {"addDamage", "addDamagePhoto"} |-> OfReturn({"damage.document"})]
     @@ [op \in {"setActualReturnTime"} |-> OfReturn({"return.correct_actual_time"})]
     @@ [op \in {"finalizeReturn"} |-> OfReturn({"return.complete"})]
     @@ [op \in {"cleanComplete"} |-> {"machine.view", "machine.clean_complete"}]

-----------------------------------------------------------------------------
OfficeRoutes ==
  ProductRoutes \cup InquiryRoutes \cup OfferPriceRoutes \cup OfferVersionRoutes
    \cup ConfirmationRoutes \cup CustomerRoutes \cup ProcessRoutes \cup CancelProcessRoutes
    \cup VoucherMailRoutes \cup CancellationRoutes \cup SettlementReads
    \cup ClarificationRoutes \cup TransferRoutes \cup PaymentRoutes \cup AccountingRoutes
    \cup LexwareRoutes \cup MailAdminRoutes \cup ConversationRoutes \cup InboxRoutes
    \cup PushRoutes \cup UserRoutes \cup RoleRoutes \cup SessionRoutes \cup TrainingRoutes
    \cup GateRoutes \cup DemoRoutes \cup ContentReads

FieldRoutes ==
  HandoverReads \cup AssignRoutes \cup DeliveryNoteRoutes \cup HandoverCheckRoutes
    \cup FinalizeHandoverRoutes \cup ReturnReads \cup ReturnRoutes \cup ReturnFindingRoutes
    \cup FinalizeReturnRoutes \cup DamageRoutes \cup FindingRoutes \cup CleaningRoutes
    \cup MachineRoutes \cup MachineStateRoutes \cup MachineFileRoutes \cup InventoryRoutes
    \cup WarehouseWarnings \cup TourReads \cup TourStopRoutes \cup TourPlanRoutes
    \cup TourDriveRoutes \cup LocationRoutes \cup CalendarReads \cup AppointmentRoutes
    \cup AppointmentAssignRoutes \cup AppointmentCloseRoutes \cup WeekendRoutes
    \cup InformCustomerRoutes \cup FeedRoutes

Routes == OfficeRoutes \cup FieldRoutes

RouteTable == [op \in {e.op : e \in Routes} |-> {e \in Routes : e.op = op}]

RoutesOf(op) == RouteTable[op]

\* every condition of the endpoint holds for these rights and facts
Passes(e, rights, facts) == \A alternatives \in e.asks : \E a \in alternatives : a \in rights \/ a \in facts
=============================================================================
