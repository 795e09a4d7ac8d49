---------------------------- MODULE ScreensDaily ----------------------------
(***************************************************************************)
(* The pages for the desk and the warehouse: preparing and handing over,   *)
(* taking back, machines, stock, tours and the calendar; and those of the  *)
(* office: products, people and roles, settings, training and its gates,   *)
(* the content of the website, one's own account.                          *)
(***************************************************************************)
EXTENDS ScreensProcess

(* vorgaenge/[id]/ausgabe: machines, delivery note, representative.        *)

PreparationLoads ==
       Loads({"handover"}, SlotState \cup HandoverState \cup Fulfilment \cup RepresentativeState \cup Progress)
  \cup LoadsAs("delivery_note.edit", Loads({"additionProducts"}, {}))

Preparing(E) == Having("handover", Asking({"handover open"}, E))

\* chooseMachine asks for an evaluation; a machine that is blocked is assigned in the
\* dialog for the override
PreparationSlots ==
  Preparing(Asking(SlotState \ {"slot issued"}, With("machine.assign", {"suggestion", "evaluate", "assignMachine"}))
       \cup Asking({"slot assigned", "slot prepared"}, With("machine.assign", {"releaseMachine"}))
       \cup Asking({"slot assigned"}, With("handover.prepare", {"prepareMachine"}))
       \cup Asking({"slot prepared"}, With("handover.prepare", {"unprepareMachine"})))

PreparationOverride ==
  Preparing(Asking(SlotState \ {"slot issued"},
    Asking({"machine.override_block"}, With("machine.assign", {"overrideBlock"}))))

PreparationNote ==
       Preparing(With("delivery_note.edit", {"changeQuantity"}))
  \cup Preparing(Having("additionProducts", With("delivery_note.edit", {"addAddition"})))

PreparationRepresentative ==
  Preparing(Asking({"pickup"}, With("handover.prepare", {"setRepresentative"})
       \cup Asking({"representative"}, With("handover.prepare", {"clearRepresentative"}))))

\* run reads the handover again, and only when the request was accepted
PreparationAnswers ==
       Then({"assignMachine", "overrideBlock", "releaseMachine", "prepareMachine", "unprepareMachine",
             "changeQuantity", "addAddition", "setRepresentative", "clearRepresentative"}, {"handover"}, {})
  \cup Then({"suggestion", "evaluate"}, {}, {})

PreparationPage ==
  [loads |-> PreparationLoads, assumes |-> {},
   controls |-> PreparationSlots \cup PreparationOverride \cup PreparationNote \cup PreparationRepresentative,
   answers |-> PreparationAnswers]

-----------------------------------------------------------------------------
(* vorgaenge/[id]/uebergabe: a wizard whose next step opens when the step  *)
(* before is done.                                                         *)

HandoverLoads ==
       Loads({"handover"}, SlotState \cup HandoverState \cup Progress)
  \cup LoadsWhen({"handover finalized"}, Loads({"packets"}, {}))

\* what was checked, named or signed before can be so again
HandoverChecks ==
  Preparing(Asking({"slot assigned", "slot prepared"}, Asking(Progress \ {"not prepared"},
    With("handover.perform", {"checkMachine", "addHandoverPhoto"}))))

HandoverRecipient ==
  Preparing(Asking(Progress \ {"not prepared", "not checked"}, With("handover.perform", {"setRecipient"})))

HandoverSignatures ==
  Preparing(Asking({"not signed", "nothing missing"}, With("handover.perform", {"signHandover"})))

HandoverFinish ==
  Preparing(Asking({"nothing missing"}, With("handover.perform", {"finalizeHandover"})))

HandoverPage ==
  [loads |-> HandoverLoads, assumes |-> {},
   controls |-> HandoverChecks \cup HandoverRecipient \cup HandoverSignatures \cup HandoverFinish,
   answers |-> Then({"checkMachine", "addHandoverPhoto", "setRecipient", "signHandover", "finalizeHandover"},
                    {"handover"}, {})]

-----------------------------------------------------------------------------
(* vorgaenge/[id]/rueckgabe.                                               *)

ReturnLoads ==
       Loads({"return"}, ReturnState \cup Progress)
  \cup LoadsWhen({"return finalized"}, Loads({"packets"}, {}))

ReturnStart == Having("return", Asking({"returnable"}, With("return.perform", {"startReturn"})))

Editing(E) == Having("return", Asking({"return open"}, Asking({"return.perform"}, E)))

ReturnReturner == Editing(Shown({"setReturner"}))

ReturnAccessories ==
  Editing(Asking(Progress \ {"nobody named"},
       Shown({"confirmAccessories"}) \cup With("missing_item.create", {"addMissing", "deleteMissing"})))

ReturnCleanliness ==
  Editing(Asking(Progress \ {"nobody named"},
       Shown({"setCleanliness", "addCleanupPhoto"}) \cup With("return.mark_cleanup_issue", {"markCleanupIssue"})))

ReturnQuantities == Editing(Asking({"not signed", "nothing missing"}, Shown({"returnQuantity"})))

ReturnDamages ==
  Editing(Asking({"not signed", "nothing missing"},
       With("damage.document", {"addDamage", "deleteDamage", "addDamagePhoto"})))

\* the actual time in the summary, and again below a finished return
ReturnTime ==
       Editing(Asking({"not signed", "nothing missing"}, With("return.correct_actual_time", {"setActualReturnTime"})))
  \cup Having("return", Asking({"return finalized"}, With("return.correct_actual_time", {"setActualReturnTime"})))
  \cup Editing(Asking({"not signed", "nothing missing"}, Shown({"signReturn"})))

ReturnFinish ==
  Having("return", Asking({"return open"}, Asking({"nothing missing"}, With("return.complete", {"finalizeReturn"}))))

ReturnPage ==
  [loads |-> ReturnLoads, assumes |-> {},
   controls |-> ReturnStart \cup ReturnReturner \cup ReturnAccessories \cup ReturnCleanliness
                  \cup ReturnQuantities \cup ReturnDamages \cup ReturnTime \cup ReturnFinish,
   answers |-> Then({"startReturn", "setReturner", "confirmAccessories", "addMissing", "deleteMissing",
                     "setCleanliness", "addCleanupPhoto", "markCleanupIssue", "returnQuantity", "addDamage",
                     "deleteDamage", "addDamagePhoto", "setActualReturnTime", "signReturn", "finalizeReturn"},
                    {"return"}, {})]

-----------------------------------------------------------------------------
(* maschinen/[id] and the lists of the warehouse.                          *)

MachineStatus == {"ready", "cleaning", "issued out"}
BlockState    == {"no block", "block open"}
DamageState   == {"no damage", "damage open"}
MissingState  == {"none missing", "missing open"}
LastReturn    == {"no last return", "last return open"}
MachineDimensions == {MachineStatus, BlockState, DamageState, MissingState, LastReturn, Visibility, MainStatus}

MachineEffects ==
       Effect({"cleanComplete"}, {}, {"ready", "no last return"})
  \cup Effect({"resolveDamage"}, {}, {"no damage"})
  \cup Effect({"resolveMissing"}, {}, {"none missing"})
  \cup Effect({"reportDamage"}, {}, {"damage open"})
  \cup Effect({"createBlock"}, {}, {"block open"})
  \cup Effect({"liftBlock"}, {}, {"no block"})
  \cup Effect({"setCleaning"}, {}, {"cleaning"})
  \cup Effect({"setMachineStatus"}, {"cleaning"}, {"ready"})

\* the condition is loaded by itself, the code with the right to it
MachineLoads ==
       Loads({"machine"}, MachineStatus \cup BlockState)
  \cup Loads({"machineCondition"}, MachineStatus \cup DamageState \cup MissingState \cup LastReturn)
  \cup LoadsAs("machine.qr", Loads({"machineQr"}, {}))

MachineCleaning ==
       Having("machine", Having("machineCondition", Asking({"cleaning"}, With("machine.clean_complete", {"cleanComplete"}))))
  \cup Having("machine", Having("machineCondition",
            Asking({"damage open"}, With("damage.resolve_current", {"resolveDamage"}))
       \cup Asking({"missing open"}, With("missing_item.resolve", {"resolveMissing"}))))

\* postReturnFindingOpen and defectLinkOpen are the server's
MachineFindings ==
  Having("machine", Having("machineCondition", Asking({"last return open"},
       Asking({"cleaning"}, With("damage.document", {"reportDamage"}))
  \cup With("machine.change_status", {"reportDefect"}))))

MachineMasterData ==
  Having("machine",
       With("machine.change_status", {"setMachineStatus", "setCleaning"})
  \cup With("machine.change_location", {"setLocation"})
  \cup With("machine.manage", {"updateMachine"})
  \cup With("machine.replace_reference_photo", {"replaceReferencePhoto"}))

MachineBlocks ==
  Having("machine", With("machine.block", {"createBlock"}) \cup Asking({"block open"}, With("machine.block", {"liftBlock"})))

MachineAnswers ==
       Then({"cleanComplete", "resolveDamage", "resolveMissing", "reportDamage", "setMachineStatus", "setCleaning",
             "setLocation", "updateMachine", "replaceReferencePhoto", "liftBlock"}, {"machine", "machineCondition"}, {})
  \cup Then({"reportDefect"}, {"machineCondition"}, {})
  \cup Then({"createBlock"}, {"machine"}, {})

MachinePage ==
  [loads |-> MachineLoads, assumes |-> {},
   controls |-> MachineCleaning \cup MachineFindings \cup MachineMasterData \cup MachineBlocks,
   answers |-> MachineAnswers]

MachinesPage ==
  [loads |-> Loads({"machines"}, {}), assumes |-> {},
   controls |-> Having("machines", With("machine.manage", {"createMachine"})),
   answers |-> Then({"createMachine"}, {"machines"}, {})]

RiskState == {"no risk", "risk open"}
RiskPage ==
  [loads |-> Loads({"riskIncidents"}, RiskState), assumes |-> {},
   controls |-> Having("riskIncidents", Asking({"risk open"}, With("machine.block", {"acknowledgeRisk"}))),
   answers |-> Then({"acknowledgeRisk"}, {"riskIncidents"}, {})]

\* reinigung: the machines that are being cleaned and the condition of each
CleaningPage ==
  [loads |-> LoadsAs("machine.view", Loads({"machines"}, MachineStatus)
               \cup LoadsWhen({"cleaning"}, Loads({"machineCondition"}, {}))),
   assumes |-> {},
   controls |-> Having("machines", Asking({"cleaning"}, With("machine.clean_complete", {"cleanComplete"}))),
   answers |-> Then({"cleanComplete"}, {"machines"}, {})]

-----------------------------------------------------------------------------
(* lager.  An article whose stock is not known has not been counted yet.   *)

ArticleState   == {"article active", "article inactive"}
StockState     == {"stock known", "stock unknown"}
StocktakeState == {"no stocktake", "stocktake submitted", "stocktake approved"}
StockDimensions == {ArticleState, StockState, StocktakeState}

StockEffects ==
       Effect({"createStocktake"}, {}, {"stocktake submitted"})
  \cup Effect({"createStocktake"}, {}, {"stocktake approved", "stock known"})
  \cup Effect({"approveStocktake"}, {}, {"stocktake approved", "stock known"})
  \cup Effect({"setProductActive"}, {}, {"article inactive"})

StockLoads ==
       Loads({"inventory"}, ArticleState \cup StockState)
  \cup LoadsAs("inventory.count", Loads({"stocktakes"}, StocktakeState))

StockReceipt ==
  Having("inventory", Asking({"article active"},
       Asking({"stock known"}, With("inventory.add_stock", {"receiveStock"}))
  \cup With("inventory.manage_min_stock", {"setMinStock"})))

StockCount ==
  Having("inventory", Asking({"article active"}, Asking({"no stocktake", "stocktake approved"},
       With("inventory.count", {"createStocktake"}))))

StockPage ==
  [loads |-> StockLoads, assumes |-> Unless(StocktakeState, "no stocktake"),
   controls |-> StockReceipt \cup StockCount,
   answers |-> Then({"receiveStock", "setMinStock"}, {"inventory", "stocktakes"}, {})
                 \cup Then({"createStocktake"}, {"inventory", "stocktakes"}, {})]

\* lager/inventur/[id]
StocktakePage ==
  [loads |-> Loads({"stocktake"}, StocktakeState), assumes |-> {},
   controls |-> Having("stocktake", Asking({"stocktake submitted"},
                  With("inventory.approve_adjustment", {"correctCount", "approveStocktake"}))),
   answers |-> Then({"correctCount", "approveStocktake"}, {"stocktake"}, {})]

MovementsPage == ListPage("movements")

-----------------------------------------------------------------------------
(* touren: the planner of one tour, the tour that is driven, a new tour.   *)

TourStatus   == {"tour draft", "tour ready", "tour active", "tour over"}
StopState    == {"no stops", "has stops"}
TourDate     == {"tour today", "tour another day"}
DriverState  == {"mine", "not mine"}
Candidate    == {"no candidate", "driver's candidate", "candidate of another"}
TourDimensions == {TourStatus, StopState, TourDate, DriverState, Candidate}

TourEffects ==
       Effect({"markReady"}, {}, {"tour ready"})
  \cup Effect({"startTour"}, {}, {"tour active"})
  \cup Effect({"endTour", "endTourAnyway"}, {}, {"tour over"})
  \cup Effect({"cancelTour"}, {}, {"tour over"})
  \cup Effect({"addStop"}, {}, {"has stops"})
  \cup Effect({"removeStop"}, {}, {"no stops"})
  \cup Effect({"removeStop"}, {}, {"has stops"})
  \cup Effect({"markArrived"}, {}, {"has stops"})
  \cup Effect({"takeoverTour"}, {}, {"mine"})
  \cup Effect({"finalizeHandover"}, {"tour active"}, {"no stops"})

\* the planner loads the candidates when the tour can be planned
TourLoads ==
       Loads({"tour"}, TourStatus \cup StopState \cup TourDate \cup DriverState)
  \cup LoadsWhen({"tour draft", "tour ready"}, LoadsAs("calendar.manage", Loads({"tourCandidates"}, Candidate)))

Planning(E) == Having("tour", Asking({"tour draft", "tour ready"}, Asking({"calendar.manage"}, E)))

TourStopControls ==
  Planning(Asking({"has stops"}, Shown({"reorderStops", "updateStop", "removeStop", "confirmGeocode"})))

TourPlanControls == Planning(Asking({"has stops"}, Shown({"proposePlan", "applyPlan", "evaluatePlan"})))

\* canStart, canEnd and canTakeover are the server's
CanStart(E) ==
  Having("tour", Asking({"tour draft", "tour ready"}, Asking({"tour today"}, Asking({"calendar.manage", "mine"}, E))))
CanEnd(E)      == Having("tour", Asking({"tour active"}, Asking({"calendar.manage", "mine"}, E)))
CanTakeover(E) == Having("tour", Asking({"tour active"}, Asking({"not mine"}, Asking({"appointment.assign"}, E))))

\* another driver's appointment is added after a question, whoever asks
TourButtons ==
       Planning(Having("tourCandidates", Asking({"driver's candidate", "candidate of another"}, Shown({"addStop"}))))
  \cup Having("tour", Asking({"tour draft"}, Asking({"has stops"}, With("calendar.manage", {"markReady"}))))
  \cup CanStart(Shown({"startTour"}))
  \cup Planning(Shown({"cancelTour"}))

\* a tour that has open stops is ended by who manages the calendar, after the first refusal
TourEnd ==
  CanEnd(Shown({"endTour"})) \cup CanEnd(Asking({"has stops"}, With("calendar.manage", {"endTourAnyway"})))

\* handle takes the tour from the answer; only a conflict of versions is followed by a new reading
TourPlanAnswers ==
  Then({"reorderStops", "updateStop", "removeStop", "addStop", "confirmGeocode", "applyPlan", "evaluatePlan",
        "markReady", "startTour", "endTour", "endTourAnyway", "cancelTour"}, {"tour", "tourCandidates"}, {})
  \cup Then({"proposePlan"}, {"tour"}, {})

TourPage ==
  [loads |-> TourLoads, assumes |-> {},
   controls |-> TourStopControls \cup TourPlanControls \cup TourButtons \cup TourEnd,
   answers |-> TourPlanAnswers]

\* touren/aktiv: the driver's page, which reads the tour again every minute; the position is
\* sent while the tour is his and active, and a refusal ends that
DriveControls ==
  Having("tour", Asking({"tour active"},
       Asking({"has stops"}, Asking({"calendar.manage", "mine"}, Shown({"markArrived"})))
  \cup Asking({"calendar.manage", "mine"}, Shown({"recalculatePlan"}))
  \cup Asking({"mine"}, Shown({"reportLocation"}))))

DriveTakeover == CanTakeover(Shown({"takeoverTour"}))

DrivePage ==
  [loads |-> Loads({"tour"}, TourStatus \cup StopState \cup TourDate \cup DriverState), assumes |-> {},
   controls |-> DriveControls \cup DriveTakeover \cup TourEnd,
   answers |-> Then({"markArrived", "recalculatePlan", "takeoverTour", "endTour", "endTourAnyway"}, {"tour"}, {})
                 \cup Then({"reportLocation"}, {}, {"tour"})]

\* touren and touren/neu: the drivers from the calendar's list or, refused, from that of the processes
ToursPage ==
  [loads |-> Loads({"tours", "activeTours"}, {}), assumes |-> {}, controls |-> {}, answers |-> {}]

NewTourPage ==
  [loads |-> LoadsAs("calendar.manage", Loads({"schedulingStaff"}, {})), assumes |-> {},
   controls |-> Having("schedulingStaff", With("calendar.manage", {"createTour"})),
   answers |-> Then({"createTour"}, {}, {})]

-----------------------------------------------------------------------------
(* kalender and the start page: lists of appointments, and the preview of  *)
(* the chosen one.                                                         *)

CalendarPage ==
  [loads |-> Loads({"calendar"}, AppointmentFacts) \cup Loads({"openAppointments"}, AppointmentFacts)
               \cup Loads({"tours"}, {}) \cup PreviewLoads \cup LoadsAs("calendar.view_all", Loads({"schedulingStaff"}, {})),
   assumes |-> {},
   \* an entry is dragged whatever its state, and its preview opens on the same answer
   controls |-> Having("calendar", PreviewControls \cup With("calendar.drag_drop", {"schedule"})),
   answers |-> PreviewAnswers({"calendar", "openAppointments"})]

\* an answer without the chosen entry closes the preview
StartLoads ==
       LoadsAs("calendar.view", Lists(Loads({"today"}, AppointmentFacts)) \cup Loads({"activeTours"}, {}))
  \cup LoadsAs("process.view_all", Loads({"dashboard"}, {}))
  \cup Asking({"machine.view", "inventory.view"}, Loads({"warehouseWarnings", "riskIncidents"}, {}))
  \cup LoadsAs("machine.view", Loads({"cleaningWarnings"}, {}))
  \cup LoadsAs("demo.manage", Loads({"demoStatus"}, {}))
  \cup LoadsAs("return.view", LoadsAs("process.view_all", Loads({"missingItems"}, {}))) \cup PreviewLoads

StartPage ==
  [loads |-> StartLoads, assumes |-> {},
   controls |-> Having("today", PreviewControls),
   answers |-> PreviewAnswers({"today"})]

-----------------------------------------------------------------------------
(* produkte: the prices of a product and the product itself.               *)

ProductControls ==
  Having("listProducts",
       With("product.manage", {"createProduct", "updateProduct", "setProductActive"})
  \cup With("price.manage", {"setPrice", "planPrice"})
  \cup Asking({"price planned"}, With("price.manage", {"updatePlannedPrice", "deletePlannedPrice"})))

PlannedState   == {"no price planned", "price planned"}
ProductEffects ==
       Effect({"planPrice", "updatePlannedPrice"}, {}, {"price planned"})
  \cup Effect({"deletePlannedPrice"}, {}, {"no price planned"})

ProductsPage ==
  [loads |-> Loads({"listProducts"}, ArticleState \cup PlannedState), assumes |-> {},
   controls |-> ProductControls,
   answers |-> Then({"createProduct", "updateProduct", "setProductActive", "setPrice", "planPrice",
                     "updatePlannedPrice", "deletePlannedPrice"}, {"listProducts"}, {})]

-----------------------------------------------------------------------------
(* mitarbeiter, mitarbeiter/[id] and rollen.                               *)

UserStatus        == {"user active", "user locked", "user disabled"}
TotpState         == {"no second factor", "second factor"}
UserSessions      == {"no session", "user session"}
UserOverrides     == {"no override", "override"}
SubstitutionState == {"no substitution", "substitution runs"}
OfficeUser        == {UserStatus, TotpState, UserSessions, UserOverrides, SubstitutionState}

UserEffects ==
       Effect({"setUserStatus"}, {}, {"user locked", "no session"})
  \cup Effect({"setUserStatus"}, {}, {"user active"})
  \cup Effect({"totpReset"}, {}, {"no second factor"})
  \cup Effect({"revokeSession", "revokeAllSessions"}, {}, {"no session"})
  \cup Effect({"addOverride"}, {}, {"override"})
  \cup Effect({"removeOverride"}, {}, {"no override"})
  \cup Effect({"createSubstitution"}, {}, {"substitution runs"})
  \cup Effect({"endSubstitution"}, {}, {"no substitution"})

\* SubstitutionSection stands below the list of employees
EmployeesPage ==
  [loads |-> Loads({"users"}, {}) \cup LoadsAs("substitution.manage", Loads({"substitutions"}, SubstitutionState)),
   assumes |-> {},
   controls |-> Shown({"createUser"})
                  \cup With("substitution.manage", {"createSubstitution"})
                  \cup Asking({"substitution runs"}, With("substitution.manage", {"endSubstitution"})),
   answers |-> Then({"createUser"}, {"users"}, {})
                 \cup Then({"createSubstitution", "endSubstitution"}, {"substitutions"}, {})]

EmployeeLoads ==
       Loads({"user"}, UserStatus \cup TotpState \cup UserSessions \cup UserOverrides)
  \cup LoadsWhen({"user active", "user locked", "user disabled"}, Loads({"roles", "rights"}, {}))

EmployeeControls ==
  Having("user", Shown({"setUserStatus", "resetLink", "totpRequirement"})
       \cup Asking({"second factor"}, Shown({"totpReset"}))
       \cup Asking({"user session"}, With("device.revoke", {"revokeSession", "revokeAllSessions"})))

EmployeeRights ==
  Having("user",
       Having("roles", With("permission.manage", {"setUserRoles"}))
  \cup Having("rights", With("permission.manage", {"addOverride"}))
  \cup Asking({"override"}, With("permission.manage", {"removeOverride"})))

EmployeePage ==
  [loads |-> EmployeeLoads, assumes |-> {},
   controls |-> EmployeeControls \cup EmployeeRights,
   answers |-> Then({"setUserStatus", "totpRequirement", "totpReset", "revokeSession", "revokeAllSessions",
                     "setUserRoles", "addOverride", "removeOverride"}, {"user", "roles", "rights"}, {})
                 \cup Then({"resetLink"}, {}, {})]

\* what a right means can be explained once the catalogue is there
RolesPage ==
  [loads |-> Loads({"roles"}, {}) \cup Loads({"rights"}, {}), assumes |-> {},
   controls |-> Having("roles", Shown({"createRole", "updateRole", "deleteRole"})
                  \cup Having("rights", Shown({"explainRight"}))),
   answers |-> Then({"createRole", "updateRole", "deleteRole", "explainRight"}, {"roles", "rights"}, {})]

-----------------------------------------------------------------------------
(* einstellungen and the pages below it.                                   *)

LinkState == {"not configured", "linked", "mismatch"}
LinkEffects ==
       Effect({"confirmOrganization"}, {}, {"linked"})
  \cup Effect({"checkConnection"}, {"linked"}, {"mismatch"})
  \cup Effect({"checkConnection"}, {"mismatch"}, {"linked"})

SettingsLoads == Loads({"completedVisibility", "baseUrl", "pickupAddress", "terms"}, {}) \cup Loads({"lexwareStatus"}, LinkState)

SettingsForms == Shown({"setCompletedVisibility", "setBaseUrl", "setPickupAddress", "createTerms"})

\* LexwareSettings
LinkControls ==
  Having("lexwareStatus", Asking({"linked", "mismatch"},
       Shown({"checkConnection", "setupWebhooks", "reconcile"})
  \cup Asking({"mismatch"}, Shown({"confirmOrganization"}))))

SettingsPage ==
  [loads |-> SettingsLoads, assumes |-> {},
   controls |-> SettingsForms \cup LinkControls,
   answers |-> Then({"setCompletedVisibility", "setBaseUrl", "setPickupAddress"}, {}, {})
                 \cup Then({"createTerms"}, {"terms"}, {})
                 \cup Then({"checkConnection", "setupWebhooks", "reconcile", "confirmOrganization"},
                           {"lexwareStatus"}, {"lexwareStatus"})]

TaxPage ==
  [loads |-> Loads({"taxConfig"}, {}) \cup Loads({"lexwareStatus"}, LinkState), assumes |-> {},
   controls |-> Having("taxConfig", With("system.settings", {"setTaxConfig", "syntheticTaxConfig"})),
   answers |-> Then({"setTaxConfig", "syntheticTaxConfig"}, {}, {})]

\* resendable is the server's
DeliveryState   == MailState \ {"mail prepared"}
DeliveryEffects == Effect({"resend"}, {}, {"mail queued"})
DeliveriesPage ==
  [loads |-> Loads({"communicationStatus"}, {}) \cup Loads({"deliveries"}, DeliveryState), assumes |-> {},
   controls |-> Having("communicationStatus", Shown({"mailCheck"}))
                  \cup Having("deliveries", Asking({"mail failed", "mail blocked", "mail unknown"}, Shown({"resend"}))),
   answers |-> Then({"mailCheck"}, {}, {}) \cup Then({"resend"}, {"deliveries"}, {"deliveries"})]

DemoPage ==
  [loads |-> LoadsAs("demo.manage", Loads({"demoStatus"}, {})), assumes |-> {},
   controls |-> With("demo.manage", {"demoReset", "seedEntities"}),
   answers |-> Then({"demoReset"}, {"demoStatus"}, {"demoStatus"}) \cup Then({"seedEntities"}, {}, {})]

FeedPage ==
  [loads |-> Loads({"feedStatus"}, {}), assumes |-> {},
   controls |-> Having("feedStatus", Shown({"issueFeed"})),
   answers |-> Then({"issueFeed"}, {"feedStatus"}, {})]

PushPage ==
  [loads |-> Loads({"pushStatus", "pushSubscriptions"}, {}), assumes |-> {},
   controls |-> Having("pushStatus", Shown({"pushSubscribe"})),
   answers |-> Then({"pushSubscribe"}, {"pushStatus", "pushSubscriptions"}, {"pushStatus", "pushSubscriptions"})]

-----------------------------------------------------------------------------
(* einstellungen/training in both environments, training for everybody.    *)

\* loadStaffOptions: whom one can train comes from the first list one may see
TrainingStaff ==
       LoadsAs("employee.manage", Loads({"users"}, {}))
  \cup Asking({"appointment.assign", "substitution.manage", "calendar.view_all", "calendar.manage"},
              Loads({"schedulingStaff"}, {}))
  \cup LoadsAs("process.view_all", Loads({"staffOptions"}, {}))

TrainingAdminPage ==
  [loads |-> LoadsAs("training.manage", Loads({"trainingOverview", "trainingPaths"}, {}) \cup TrainingStaff),
   assumes |-> {},
   controls |-> Having("trainingOverview", With("training.manage", {"trainee", "assignTraining", "resetTraining"})),
   answers |-> Then({"assignTraining", "resetTraining"}, {"trainingOverview", "trainingPaths"}, {})
                 \cup Then({"trainee"}, {}, {})]

ClearanceState   == {"no clearance", "clearance"}
ClearanceEffects ==
       Effect({"grantClearance"}, {}, {"clearance"})
  \cup Effect({"revokeClearance"}, {}, {"no clearance"})
GatesPage ==
  [loads |-> LoadsAs("training.manage", Loads({"gates"}, {}) \cup Loads({"clearances"}, ClearanceState) \cup TrainingStaff),
   assumes |-> {},
   controls |-> Having("gates", With("training.manage", {"setGate", "grantClearance"})
                  \cup Asking({"clearance"}, With("training.manage", {"revokeClearance"}))),
   answers |-> Then({"setGate", "grantClearance", "revokeClearance"}, {"gates", "clearances"}, {})]

ExerciseState   == {"not started", "in progress", "passed"}
ExerciseEffects ==
       Effect({"startAttempt"}, {}, {"in progress"})
  \cup Effect({"checkAttempt"}, {"in progress"}, {"passed"})
ExerciseControls ==
  Asking({"not started"}, Shown({"startAttempt"})) \cup Asking({"in progress"}, Shown({"checkAttempt"}))

\* start and check are followed by a new reading, whatever the answer was
TrainingPage ==
  [loads |-> Loads({"ownTraining"}, ExerciseState), assumes |-> {},
   controls |-> Having("ownTraining", ExerciseControls),
   answers |-> Then({"startAttempt", "checkAttempt"}, {"ownTraining"}, {"ownTraining"})]

-----------------------------------------------------------------------------
(* website: entries, the editor of one entry, pictures, the catalogue.     *)

EntryState   == {"draft ahead", "draft published"}
PublicState  == {"never public", "public"}
EntryEffects ==
       Effect({"saveContent", "restoreRevision"}, {}, {"draft ahead"})
  \cup Effect({"publishContent"}, {}, {"draft published", "public"})
  \cup Effect({"unpublishContent"}, {}, {"draft ahead", "never public"})

CanReadCms(L) == Asking({"cms.edit", "cms.publish"}, L)

EntriesPage ==
  [loads |-> CanReadCms(Loads({"entries"}, {})), assumes |-> {},
   controls |-> Having("entries", With("cms.edit", {"createPage"})),
   answers |-> Then({"createPage"}, {}, {})]

EntryLoads ==
  CanReadCms(Loads({"entry"}, EntryState \cup PublicState) \cup Loads({"media"}, {})
               \cup LoadsAs("product.view", Loads({"catalog"}, {})))

EntryControls ==
  Having("entry", Shown({"preview", "revision"})
       \cup With("cms.edit", {"saveContent", "restoreRevision"})
       \cup Asking({"draft ahead"}, With("cms.publish", {"publishContent"}))
       \cup Asking({"public"}, With("cms.publish", {"unpublishContent"})))

\* an accepted request brings the entry with it, a refused one a button to load it
EntryPage ==
  [loads |-> EntryLoads, assumes |-> {}, controls |-> EntryControls,
   answers |-> Then({"saveContent", "restoreRevision", "publishContent", "unpublishContent"}, {"entry"}, {})
                 \cup Then({"preview", "revision"}, {}, {})]

MediaPage ==
  [loads |-> CanReadCms(Loads({"media"}, {})), assumes |-> {},
   controls |-> Having("media", With("cms.edit", {"uploadMedia", "updateMedia"})),
   answers |-> Then({"uploadMedia"}, {"media"}, {}) \cup Then({"updateMedia"}, {}, {})]

CatalogPage == [ListPage("catalog") EXCEPT !.loads = CanReadCms(LoadsAs("product.view", @))]

-----------------------------------------------------------------------------
(* suche, konto.                                                           *)

SearchPage == ListPage("search")

AccountPage ==
  [loads |-> Loads({"ownSessions"}, {}), assumes |-> {},
   controls |-> Shown({"changePassword", "totpSetup"}) \cup Having("ownSessions", Shown({"revokeOwnSession"})),
   answers |-> Then({"changePassword"}, {"ownSessions"}, {}) \cup Then({"totpSetup"}, {}, {})
                 \cup Then({"revokeOwnSession"}, {"ownSessions"}, {"ownSessions"})]

-----------------------------------------------------------------------------
(* How one comes to a page: the main navigation (AuthGuard) shows an entry *)
(* to those with one of these rights, a page about a process is behind the *)
(* links of the process it has loaded.                                     *)

Behind(page) ==
  CASE page \in {"calendar", "tours", "new tour", "tour", "drive"} -> {{"calendar.view"}}
    [] page \in {"machines", "machine", "cleaning", "risks"}       -> {{"machine.view"}}
    [] page \in {"stock", "stocktake", "movements"}                -> {{"machine.view", "inventory.view"}}
    [] page \in {"customers", "customer"}                          -> {{"customer.view"}}
    [] page = "products"                                           -> {{"product.view"}}
    [] page \in {"entries", "entry", "media", "catalog"}           -> {{"cms.edit", "cms.publish"}}
    [] page \in {"employees", "employee"}                          -> {{"employee.manage"}}
    [] page = "roles"                                              -> {{"permission.manage"}}
    [] page = "unmatched"                                          -> {{"message.reply_customer"}}
    [] page \in {"settings", "tax", "deliveries", "demo", "training administration", "gates"}
                                                                   -> {{"system.settings"}}
    [] page \in {"inquiry", "offer", "settlement", "messages", "dates", "handover"}
                                       -> {{"process.view_all"}, {"process.view_completed", "in view"}}
    [] OTHER                                                       -> {}
=============================================================================
