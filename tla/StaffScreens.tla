---------------------------- MODULE StaffScreens ----------------------------
(***************************************************************************)
(* The staff app in use: what a page offers to the person in front of it,  *)
(* what the server does with the request, and what the page reads again.   *)
(*                                                                         *)
(* A scene is a page, the facts its subject - a process, a machine, a tour *)
(* ... - begins with, and the effects by which that moves on before the    *)
(* page is opened and, through others, while it is open.                   *)
(***************************************************************************)
EXTENDS ScreensDaily

CONSTANTS Scenes     \* the names of the scenes that are played

VARIABLES scene,     \* the name of the scene
          mine,      \* the rights of the person in front of the page, None before it is opened
          world,     \* what is so on the server
          told,      \* what the page knows of it
          due,       \* the requests the page is about to make
          did,       \* the last click: the operation, the answer, whether the page was informed
          alone      \* nothing happened since the page was opened but the clicks

vars == <<scene, mine, world, told, due, did, alone>>

Dimensions ==
  CaseDimensions \cup AppointmentDimensions \cup MachineDimensions \cup StockDimensions \cup TourDimensions
    \cup OfficeUser \cup {CustomerHistory, ContactState, RiskState, PlannedState, LinkState,
                          ClearanceState, ExerciseState, EntryState, PublicState}

\* a fact belongs to one dimension
ASSUME DimensionsAssumption == \A c, d \in Dimensions : c # d => c \cap d = {}

OrderEffects ==
  StatusEffects \cup AgesOut \cup InquiryEffects \cup OfferEffects \cup Expiry \cup Acceptance \cup Recheck
    \cup ConfirmationEffects \cup ConfirmationMail
DeskEffects ==
  SlotEffects \cup RepresentativeEffects \cup HandoverProgress \cup HandoverEffect \cup ReturnEffects \cup ReturnProgress
MoneyEffects ==
  CostEffects \cup NoticeEffects \cup ResponseEffects \cup WaitEffects \cup LineEffects \cup TransferEffects
    \cup PaymentEffects \cup DepositEffects
EndEffects == CancellationEffects \cup CancellationMailEffects \cup CancellationTransferEffects \cup FollowUpEffects
OtherEffects ==
  AppointmentEffects \cup MachineEffects \cup StockEffects \cup TourEffects \cup ProductEffects \cup UserEffects
    \cup LinkEffects \cup DeliveryEffects \cup ClearanceEffects \cup ExerciseEffects \cup EntryEffects

Effects == OrderEffects \cup DeskEffects \cup MoneyEffects \cup EndEffects \cup OtherEffects

-----------------------------------------------------------------------------
(* The scenes.                                                             *)

Scene(name, page, starts, moves) == name :> [page |-> page, starts |-> starts, moves |-> moves]

\* every choice of one fact from each of these dimensions
OneOfEach(dims) == {S \in SUBSET UNION dims : \A d \in dims : Cardinality(S \cap d) = 1}

Booked ==
  (NewProcess \ {"no inquiry", "no offer", "no booking"})
    \cup {"has inquiry", "accepted", "booking", "confirmation sent", "slot open", "handover open", "not prepared",
          "no representative"}

Issued ==
  (Booked \ {"slot open", "handover open", "not issued", "no machine out", "not prepared"})
    \cup {"slot issued", "handover finalized", "issued", "machine out", "returnable"}

GivenBack ==
  (Booked \ {"slot open", "handover open", "not prepared", "not issued", "no settlement"})
    \cup {"issued", "slot returned", "handover finalized", "return finalized", "settlement open",
          "notice unsent", "no response"}

ProcessScenes ==
     Scene("process", ProcessPage, {NewProcess},
           StatusEffects \cup AgesOut \cup Acceptance)
  @@ Scene("ordered process", ProcessPage, {(NewProcess \ {"no inquiry", "no offer"}) \cup {"has inquiry", "sent"}},
           StatusEffects \cup AgesOut \cup Expiry \cup Recheck)
  @@ Scene("booked process", ProcessPage, {Booked}, StatusEffects \cup AgesOut \cup CancellationMailEffects)
  @@ Scene("running process", ProcessPage,
           {Issued} \cup {(Issued \ {"confirmation sent"}) \cup {c} : c \in {"confirmation prepared", "confirmation queued"}},
           ReturnEffects \cup ConfirmationMail)
  @@ Scene("payments", ProcessPage, {GivenBack \cup {"ready_for_accounting"}}, TransferEffects \cup StatusEffects)
  @@ Scene("inquiry", InquiryPage, {NewProcess}, OrderEffects)
  @@ Scene("offer", OfferPage, {NewProcess, Booked}, OrderEffects)
  @@ Scene("settlement", SettlementPage,
           {GivenBack \cup {"ready_for_accounting"}, GivenBack \cup {"clarification_required", "clarification open"}},
           CostEffects \cup NoticeEffects \cup ResponseEffects \cup WaitEffects \cup TransferEffects)
  @@ Scene("messages", MessagesPage,
           {NewProcess \cup c : c \in SUBSET {"mail known", "portal open", "whatsapp window"}}, StatusEffects \cup AgesOut)

DeskScenes ==
     Scene("preparation", PreparationPage, {Booked \cup {f} : f \in Fulfilment},
           SlotEffects \cup RepresentativeEffects \cup EndEffects)
  @@ Scene("handover", HandoverPage, {Booked}, SlotEffects \cup HandoverProgress \cup HandoverEffect)
  @@ Scene("return", ReturnPage, {Issued}, ReturnEffects \cup ReturnProgress)

AppointmentStarts ==
  {S \cup {"scheduled"} : S \in OneOfEach({TimeState, AskedState, ConflictState, AssigneeState, DayState,
                                           ClosingState, DriverState})}

CalendarScenes ==
     Scene("dates", DatesPage,
           {(Booked \cup S) \cup {f, "info due"} : f \in Fulfilment, S \in AppointmentStarts}, AppointmentEffects)
  @@ Scene("calendar", CalendarPage, {S \cup {"nobody to inform"} : S \in AppointmentStarts}, AppointmentEffects)
  @@ Scene("start page", StartPage, {S \cup {"info due"} : S \in AppointmentStarts}, AppointmentEffects)

TourStarts == {S \cup {"tour draft"} : S \in OneOfEach({StopState, TourDate, DriverState, Candidate})}

TourScenes ==
     Scene("tour", TourPage, TourStarts, TourEffects)
  @@ Scene("drive", DrivePage, TourStarts, TourEffects)
  @@ Scene("new tour", NewTourPage, {{}}, {})
  @@ Scene("tours", ToursPage, {{}}, {})

MachineStarts ==
  {S \cup {"open", "in view"} : S \in OneOfEach(MachineDimensions \ {Visibility, MainStatus})}

WarehouseScenes ==
     Scene("machine", MachinePage, MachineStarts, MachineEffects \cup AgesOut)
  @@ Scene("machines", MachinesPage, {{}}, {})
  @@ Scene("cleaning", CleaningPage, MachineStarts, MachineEffects)
  @@ Scene("risks", RiskPage, {{r} : r \in RiskState}, {})
  @@ Scene("stock", StockPage, {{"article active", s, "no stocktake"} : s \in StockState}, StockEffects)
  @@ Scene("stocktake", StocktakePage, {{"article active", s, "no stocktake"} : s \in StockState}, StockEffects)
  @@ Scene("movements", MovementsPage, {{}}, {})

CustomerScenes ==
     Scene("customers", CustomersPage, {{}}, {})
  @@ Scene("customer", CustomerPage,
           {S \cup v \cup {"lexware on"} : S \in OneOfEach({CustomerHistory, ContactState}), v \in SUBSET {"voucher unsent"}}, {})
  @@ Scene("trash", TrashPage, {{"in the basket"}}, {})
  @@ Scene("unmatched", UnmatchedPage, {NewProcess \cup {"not matched"}}, {})

SettingScenes ==
     Scene("products", ProductsPage, {{"article active", p} : p \in PlannedState}, ProductEffects)
  @@ Scene("employees", EmployeesPage, {{s} : s \in SubstitutionState}, UserEffects)
  @@ Scene("employee", EmployeePage, OneOfEach(OfficeUser), UserEffects)
  @@ Scene("roles", RolesPage, {{}}, {})
  @@ Scene("settings", SettingsPage, {{l} : l \in LinkState}, LinkEffects)
  @@ Scene("tax", TaxPage, {{l} : l \in LinkState}, LinkEffects)
  @@ Scene("deliveries", DeliveriesPage, {{d} : d \in DeliveryState}, DeliveryEffects)
  @@ Scene("demo", DemoPage, {{}}, {})
  @@ Scene("feed", FeedPage, {{}}, {})
  @@ Scene("push", PushPage, {{}}, {})

ContentScenes ==
     Scene("training administration", TrainingAdminPage, {{}}, {})
  @@ Scene("gates", GatesPage, {{c} : c \in ClearanceState}, ClearanceEffects)
  @@ Scene("training", TrainingPage, {{e} : e \in ExerciseState}, ExerciseEffects)
  @@ Scene("entries", EntriesPage, {{}}, {})
  @@ Scene("entry", EntryPage, OneOfEach({EntryState, PublicState}), EntryEffects)
  @@ Scene("media", MediaPage, {{}}, {})
  @@ Scene("catalog", CatalogPage, {{}}, {})
  @@ Scene("search", SearchPage, {{}}, {})
  @@ Scene("account", AccountPage, {{}}, {})

AllScenes ==
  ProcessScenes @@ DeskScenes @@ CalendarScenes @@ TourScenes @@ WarehouseScenes @@ CustomerScenes
    @@ SettingScenes @@ ContentScenes

\* every page of the staff app in every scene
EveryScene == DOMAIN AllScenes

Page == AllScenes[scene].page

-----------------------------------------------------------------------------
(* The server.                                                             *)

Served(op, rights) == \E e \in RoutesOf(op) : Passes(e, rights, world)

Become(makes) == (world \ UNION {d \in Dimensions : d \cap makes # {}}) \cup makes

EffectsOf == [op \in {x.op : x \in Effects} |-> {x \in Effects : x.op = op}]

\* of the effects of an operation one that applies, or none if it has none
Outcomes(op, effects) ==
  LET applying == {x \in effects : x.when \subseteq world}
  IN  IF applying = {} THEN {world} ELSE {Become(x.makes) : x \in applying}

Answer(op) ==
  CASE Served(op, mine)                         -> "ok"
    [] ~Served(op, mine) /\ Served(op, Rights)  -> "forbidden"
    [] OTHER                                    -> "conflict"

-----------------------------------------------------------------------------
(* Steps.                                                                  *)

Closed  == {"nobody"}
Nothing == [op |-> "none", answer |-> "none", informed |-> FALSE]

\* the rights a page and the requests behind it ask for
RightsOn ==
  [s \in Scenes |->
     LET p == AllScenes[s].page
         own == p.controls \cup p.loads
     IN  Rights \cap UNION UNION {e.asks : e \in own \cup UNION {RoutesOf(c.op) : c \in own}}]

Way == [s \in Scenes |-> [asks |-> Behind(s)]]

\* the moves of a scene by operation
MovesOf == [s \in Scenes |-> [op \in {x.op : x \in AllScenes[s].moves} |-> {x \in AllScenes[s].moves : x.op = op}]]

Init ==
  /\ scene \in Scenes
  /\ world \in AllScenes[scene].starts
  /\ mine = Closed /\ told = {} /\ due = {} /\ did = Nothing /\ alone = TRUE

\* a request of somebody who may, or - what is no request of the staff app - a customer, a job, time
Happens(op) ==
  /\ mine # Closed => alone /\ due = {}
  /\ op \in DOMAIN RouteTable => Served(op, Rights)
  /\ world' \in Outcomes(op, MovesOf[scene][op])
  /\ world' # world
  /\ alone' = (mine = Closed)
  /\ did' = Nothing
  /\ UNCHANGED <<scene, mine, told, due>>

\* somebody comes to the page who has all rights or lacks one of those it is about
Open ==
  /\ mine = Closed
  /\ \E lacks \in {{}} \cup {{r} : r \in RightsOn[scene]} : mine' = Rights \ lacks
  /\ Passes(Way[scene], mine', world)
  /\ due' = AllLoads(Page)
  /\ UNCHANGED <<scene, world, told, did, alone>>

Load ==
  /\ due # {}
  /\ told' = Reads(LoadsOf(Page, due), Page, mine, told, world)
  /\ due' = Follows(Page, told, told')
  /\ UNCHANGED <<scene, mine, world, did, alone>>

\* a preview lasts until the next click
Click(op) ==
  /\ did' = [op |-> op, answer |-> Answer(op), informed |-> Informed(Page, mine, told, world)]
  /\ world' \in IF Served(op, mine) /\ op \in DOMAIN EffectsOf THEN Outcomes(op, EffectsOf[op]) ELSE {world}
  /\ \E a \in {b \in Page.answers : b.op = op} :
       due' = IF Served(op, mine) THEN a.again ELSE a.refused
  /\ told' = told \ {l.op : l \in {k \in Page.loads : k.kind = "on request"}}
  /\ UNCHANGED <<scene, mine, alone>>

Next ==
  \/ Open
  \/ Load
  \/ \E op \in DOMAIN MovesOf[scene] : Happens(op)
  \/ mine # Closed /\ due = {} /\ \E op \in Offered(Page, mine, told) : Click(op)

Spec == Init /\ [][Next]_vars

-----------------------------------------------------------------------------
(* What the pages leave to the server, by scene.                           *)

PreviewOps == {c.op : c \in PreviewControls}

\* A line of a settlement has no right of its own; an appointment that is not one's own is
\* listed for its process and stays open in the calendar; who gives away one of today's, adds
\* another driver's to a tour or reports on a machine in use is asked for more; a discount is
\* asked for by its size, a special price of nothing as such; a message is assigned to any
\* process one finds; a process that was reopened stays open in front of those who may no
\* longer see it.
AskedLater ==
       {"settlement"} \X {"editLine", "removeLine", "editDamageLine"}
  \cup {"dates", "calendar"} \X PreviewOps
  \cup {"start page"} \X {"assignAppointment"}
  \cup {"machine"} \X {"reportDamage", "reportDefect", "resolveDamage", "resolveMissing"}
  \cup {"tour"} \X {"addStop"}
  \cup {"offer"} \X {"setDiscount", "setDiscountOver10", "setDiscountOver20", "setSpecialPriceZero"}
  \cup {"unmatched"} \X {"assignMessage"}
  \cup {"process", "ordered process", "booked process", "running process", "payments"}
         \X {"cancelAdvance", "releaseDeposit", "applyDeposit", "createFollowUp", "transferCancellation"}

\* An appointment of a booking has its button to complete it, and one that is over can be
\* dragged; a tour without stops can be started and one with stops ended; an ended process
\* gets an inquiry and an offer, a cancelled booking its machines; a process is completed while a machine
\* is out, a settled response released again, a customer without an address answered by mail.
ServerDecides ==
  AskedLater
    \cup {"running process"} \X {"completeProcess"}
    \cup {"start page"} \X {"completeAppointment"}
    \cup {"tour"} \X {"startTour", "endTour"}
    \cup {"drive"} \X {"endTour"}
    \cup {"inquiry"} \X {"saveInquiry"}
    \cup {"offer"} \X {"createOffer"}
    \cup {"preparation"} \X {"assignMachine", "overrideBlock", "changeQuantity", "addAddition",
                             "setRepresentative", "clearRepresentative"}
    \cup {"settlement"} \X {"releaseSettlement"}
    \cup {"messages"} \X {"replyByEmail"}

\* of the requests whose refusal is followed by a new reading those that read enough
ReadsWhenRefused ==
  {"recordAdvance", "cancelAdvance", "recordDeposit", "applyDeposit", "releaseDeposit", "cancelBooking",
   "transferCancellation", "createFollowUp", "ensureSettlement", "editLine", "removeLine", "editDamageLine",
   "addLine", "resolveDamageCost", "resolveMissingCost", "sendNotice", "customerResponse", "endWait",
   "transferSettlement", "informCustomer", "resend", "confirmOrganization", "checkConnection", "startAttempt",
   "checkAttempt"}

\* what a page shows to somebody who opens it now
FreshOn(page, rights) ==
  LET first == Reads(LoadsOf(page, AllLoads(page)), page, rights, {}, world)
  IN  Reads(LoadsOf(page, Follows(page, {}, first)), page, rights, first, world)

-----------------------------------------------------------------------------
(* Properties.                                                             *)

\* Nobody is shown a button, and pressing it refused for a right he lacks: as long as nothing
\* happens beside his own clicks, hasPermission and the server's requirePermission and
\* visibility rules agree, but for what is named above.
NeverForbidden == alone /\ <<scene, did.op>> \notin AskedLater => did.answer # "forbidden"

\* As long as nobody else is at work, what a page offers is what the services accept: the
\* conditions of the buttons, computed from what the page read last, imply the guards behind
\* the requests - through every series of clicks, and what each of them reads again.
AloneIsServed ==
  alone /\ did.informed /\ <<scene, did.op>> \notin ServerDecides => did.answer \in {"ok", "none"}

\* A button that was refused because somebody was faster is gone once the page has read
\* what its handler reads after a refusal: nobody runs into the same refusal again.
RefusalIsSeen ==
  did.answer = "conflict" /\ did.informed /\ due = {}
    /\ did.op \in ReadsWhenRefused /\ <<scene, did.op>> \notin AskedLater
    => did.op \notin Offered(Page, mine, told)

\* The next step that the page of a process announces is offered by the page its link leads to.
NextStepIsThere ==
  Page = ProcessPage /\ mine = Rights /\ due = {} /\ alone =>
    \A s \in NextSteps :
      Passes(s, {}, Sees(ProcessPage, told)) =>
        LET target == IF s.page = "offer" THEN OfferPage ELSE InquiryPage
        IN  s.does \subseteq Offered(target, Rights, FreshOn(target, Rights))

\* What a page offers or announces is there and is what the server accepts.
OfferedIsServed == NeverForbidden /\ AloneIsServed /\ NextStepIsThere
=============================================================================
