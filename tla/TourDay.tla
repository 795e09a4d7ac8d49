------------------------------- MODULE TourDay -------------------------------
(* Tours of the drivers: stops are appointments in an order, the route is    *)
(* calculated by an external service without a lock and stored only if the   *)
(* tour is still the same, an active tour has one live location and the      *)
(* delays predicted from it.  Appointments are changed by others; the tour   *)
(* hears of it after their commit, if at all.  Every change locks the row of *)
(* the tour; starting and taking over also lock a driver: starting the one   *)
(* who drives in effect, taking over the one who takes over, who may be      *)
(* substituted today.                                                        *)
EXTENDS Actors, SequencesExt

CONSTANTS Tour, Appointment, Driver
ASSUME TourAssumption == IsFiniteSet(Appointment)

VARIABLES
    tour,       \* row: status, version, driver, plan; when and from what the route was calculated
    stops,      \* tour_stops in their order; a stop is released exactly when its tour is over
    appt,       \* appointments: status, time, person assigned
    news,       \* changes of an appointment the tour has not heard of
    depot,      \* changes of the depot address so far (the clock of systemSettings.updatedAt)
    place,      \* tour_live_locations: who reported, or None
    incident,   \* open incidents per stop: none, open, told (notification_enqueued_at)
    deputy,     \* substitutions in force today
    away        \* tours taken over by somebody who is substituted (history)
tourVars == <<tour, stops, appt, news, depot, place, incident, deputy, away, visit, edits>>

OpenStatus == {"draft", "ready", "active"}
NewTour(st, d) == [status |-> st, version |-> 0, driver |-> d,
                   plan |-> "none", route |-> {}, base |-> 0, calculated |-> 0]
NewStop(a) == [appt |-> a, arrived |-> FALSE, skipped |-> FALSE]
Quiet == [a \in Appointment |-> "none"]

TourInit ==
    /\ ActorsInit
    /\ deputy \in [Driver -> Driver \cup {None}] /\ away = {}
    /\ \E drv \in [Tour -> Driver], st \in [Tour -> {"absent", "draft"}] :
            tour = [t \in Tour |-> NewTour(st[t], drv[t])]
    /\ \E order \in [Tour -> SetToAllKPermutations(Appointment)] :
        /\ \A t \in Tour : tour[t].status = "absent" => order[t] = <<>>
        /\ \A t, o \in Tour : t # o => Range(order[t]) \cap Range(order[o]) = {}
        /\ stops = [t \in Tour |-> [i \in DOMAIN order[t] |-> NewStop(order[t][i])]]
    /\ appt = [a \in Appointment |-> [status |-> "scheduled", when |-> 0, assigned |-> None]]
    /\ news = [a \in Appointment |-> "none"] /\ depot = 0
    /\ place = [t \in Tour |-> None] /\ incident = [t \in Tour |-> Quiet]

Editable(t) == tour[t].status \in OpenStatus
Effective(t) == IF deputy[tour[t].driver] # None THEN deputy[tour[t].driver] ELSE tour[t].driver

(* tourStopState *)
StopState(s) == IF appt[s.appt].status = "completed" THEN "done"
                ELSE IF appt[s.appt].status = "cancelled" \/ s.skipped THEN "skipped"
                ELSE IF s.arrived THEN "arrived" ELSE "open"
(* the stops still to be driven, by their place in the order *)
Remaining(t) == {i \in DOMAIN stops[t] : StopState(stops[t][i]) \in {"open", "arrived"}}
Due(t) == {stops[t][i].appt : i \in Remaining(t)}
ApptsOf(t) == {s.appt : s \in Range(stops[t])}
OpenOf(t) == {s.appt : s \in {x \in Range(stops[t]) : StopState(x) = "open"}}
ClosedOf(t) == {s.appt : s \in {x \in Range(stops[t]) : StopState(x) \in {"done", "skipped"}}}

(* Starting and taking over span several statements of one transaction; no   *)
(* other writer of the tour and no reader FOR SHARE gets past its row lock.  *)
Holding(w) == visit[w].op \in {"start", "takeover"}
RowFree(t) == \A w \in Clerk : Holding(w) => visit[w].tour # t
DriverFree(d) == \A w \in Clerk : Holding(w) => visit[w].lock # d

(* ----------------------- healing, stale, version ----------------------- *)
InPlan(row) == row.plan \in {"planned", "infeasible"}
OtherVersion(row) == IF InPlan(row) THEN [row EXCEPT !.plan = "stale"] ELSE row
Bumped(row) == [row EXCEPT !.version = @ + 1]
ToSkip(t) == {s \in Range(stops[t]) : ~s.skipped /\ appt[s.appt].status = "cancelled"}
DepotMoved(t) == InPlan(tour[t]) /\ depot > tour[t].calculated
HealingNeeded(t) ==
    /\ Editable(t)
    /\ \/ ToSkip(t) # {} \/ DepotMoved(t)
       \/ \E a \in ClosedOf(t) : incident[t][a] # "none"

HealedRow(t) == IF ToSkip(t) # {} \/ DepotMoved(t) THEN Bumped(OtherVersion(tour[t])) ELSE tour[t]
HealedStops(t) ==
    [i \in DOMAIN stops[t] |-> [stops[t][i] EXCEPT !.skipped = @ \/ stops[t][i] \in ToSkip(t)]]
HealedIncidents(t) == [a \in Appointment |-> IF a \in ClosedOf(t) THEN "none" ELSE incident[t][a]]

HealOnRead(t) ==
    /\ HealingNeeded(t) /\ RowFree(t)
    /\ tour' = [tour EXCEPT ![t] = HealedRow(t)]
    /\ stops' = [stops EXCEPT ![t] = HealedStops(t)]
    /\ incident' = [incident EXCEPT ![t] = HealedIncidents(t)]
    /\ UNCHANGED <<appt, news, depot, place, deputy, away, visit, edits>>

ToursWith(a) == {t \in Tour : Editable(t) /\ a \in ApptsOf(t)}

(* the listeners run after the commit of the other side; an error is logged *)
MarkStaleForAppointment(a) ==
    /\ news[a] = "times" /\ \A t \in ToursWith(a) : RowFree(t)
    /\ news' = [news EXCEPT ![a] = "none"]
    /\ tour' = [t \in Tour |-> IF t \in ToursWith(a) THEN Bumped(OtherVersion(tour[t])) ELSE tour[t]]
    /\ UNCHANGED <<stops, appt, depot, place, incident, deputy, away, visit, edits>>

MarkCancelledStops(a) ==
    /\ news[a] = "cancelled" /\ \A t \in ToursWith(a) : RowFree(t)
    /\ news' = [news EXCEPT ![a] = "none"]
    /\ tour' = [t \in Tour |-> IF t \in ToursWith(a) THEN HealedRow(t) ELSE tour[t]]
    /\ stops' = [t \in Tour |-> IF t \in ToursWith(a) THEN HealedStops(t) ELSE stops[t]]
    /\ incident' = [t \in Tour |-> IF t \in ToursWith(a) THEN HealedIncidents(t) ELSE incident[t]]
    /\ UNCHANGED <<appt, depot, place, deputy, away, visit, edits>>

ListenerFails(a) ==
    /\ news[a] \in {"times", "cancelled"} /\ news' = [news EXCEPT ![a] = "lost"]
    /\ UNCHANGED <<tour, stops, appt, depot, place, incident, deputy, away, visit, edits>>

(* ------------------------------- editing ------------------------------- *)
(* an edit of a tour whose version the caller has seen; the plan is stale after it *)
EditTour(t) ==
    /\ Edit /\ RowFree(t) /\ Editable(t)
    /\ tour' = [tour EXCEPT ![t] = Bumped(OtherVersion(@))]
    /\ UNCHANGED <<news, depot, place, deputy, away, visit>>

Create(t, d) ==
    /\ Edit /\ tour[t].status = "absent"
    /\ tour' = [tour EXCEPT ![t].status = "draft", ![t].driver = d]
    /\ UNCHANGED <<stops, appt, news, depot, place, incident, deputy, away, visit>>

AssignWithin(rows, a, d) == [rows EXCEPT ![a].assigned = d]

(* an appointment of somebody else only when the caller asked for it *)
AddStop(t, a, reassign) ==
    /\ EditTour(t)
    /\ appt[a].status = "scheduled" /\ ToursWith(a) = {}
    /\ LET who == appt[a].assigned
           mine == who # None /\ tour[t].driver \in {who, deputy[who]}
       IN /\ reassign \/ who = None \/ mine
          /\ appt' = IF mine THEN appt ELSE AssignWithin(appt, a, tour[t].driver)
    /\ stops' = [stops EXCEPT ![t] = Append(@, NewStop(a))]
    /\ UNCHANGED incident

RemoveStop(t, i) ==
    /\ EditTour(t) /\ i \in DOMAIN stops[t] /\ StopState(stops[t][i]) # "done"
    /\ incident' = [incident EXCEPT ![t][stops[t][i].appt] = "none"]
    /\ stops' = [stops EXCEPT ![t] = RemoveAt(@, i)]
    /\ UNCHANGED appt

(* a new order of the stops: the old place for each new one *)
Orders(t) == {p \in [DOMAIN stops[t] -> DOMAIN stops[t]] : IsInjective(p)}
Ordered(t, p) == [i \in DOMAIN p |-> stops[t][p[i]]]

Reorder(t, p) ==
    /\ EditTour(t)
    /\ stops' = [stops EXCEPT ![t] = Ordered(t, p)]
    /\ UNCHANGED <<appt, incident>>

(* pin or buffer of a stop *)
UpdateStop(t) == EditTour(t) /\ stops[t] # <<>> /\ UNCHANGED <<stops, appt, incident>>

MarkArrived(t, i) ==
    /\ Edit /\ RowFree(t) /\ tour[t].status = "active"
    /\ i \in DOMAIN stops[t] /\ StopState(stops[t][i]) = "open"
    /\ stops' = [stops EXCEPT ![t][i].arrived = TRUE]
    /\ tour' = [tour EXCEPT ![t] = Bumped(@)]
    /\ UNCHANGED <<appt, news, depot, place, incident, deputy, away, visit>>

(* ------------------------------ life cycle ----------------------------- *)
Driveable(t) == Remaining(t) # {}
Healed(t) == [row |-> HealedRow(t), stops |-> HealedStops(t), incident |-> HealedIncidents(t)]

MarkReady(t) ==
    /\ Edit /\ RowFree(t) /\ tour[t].status = "draft" /\ Driveable(t)
    /\ tour' = [tour EXCEPT ![t] = [Bumped(HealedRow(t)) EXCEPT !.status = "ready"]]
    /\ stops' = [stops EXCEPT ![t] = HealedStops(t)]
    /\ incident' = [incident EXCEPT ![t] = HealedIncidents(t)]
    /\ UNCHANGED <<appt, news, depot, place, deputy, away, visit>>

ActiveTours == {t \in Tour : tour[t].status = "active"}
(* assertNoOtherActiveTour, after the advisory lock of the effective driver *)
NoOtherActive(t, stored, effective) ==
    /\ DriverFree(effective)
    /\ \A o \in ActiveTours \ {t} :
            tour[o].driver \notin {stored, effective} /\ Effective(o) # effective
(* tours_one_active_per_user_idx *)
IndexAllows(t, d) == \A o \in ActiveTours \ {t} : tour[o].driver # d

StartTour(w, t) ==
    /\ Edit /\ RowFree(t) /\ tour[t].status \in {"draft", "ready"} /\ Driveable(t)
    /\ NoOtherActive(t, tour[t].driver, Effective(t))
    /\ Begin(w, [op |-> "start", tour |-> t, lock |-> Effective(t), healed |-> Healed(t)])
    /\ UNCHANGED <<tour, stops, appt, news, depot, place, incident, deputy, away>>

Takeover(w, t, d) ==
    /\ Edit /\ RowFree(t) /\ tour[t].status = "active"
    /\ d \notin {tour[t].driver, Effective(t)}
    /\ NoOtherActive(t, d, d)
    /\ Begin(w, [op |-> "takeover", tour |-> t, lock |-> d, healed |-> Healed(t)])
    /\ UNCHANGED <<tour, stops, appt, news, depot, place, incident, deputy, away>>

CommitStart(w) ==
    LET t == visit[w].tour
    IN /\ visit[w].op = "start" /\ IndexAllows(t, tour[t].driver) /\ End(w)
       /\ tour' = [tour EXCEPT ![t] = [Bumped(visit[w].healed.row) EXCEPT !.status = "active"]]
       /\ stops' = [stops EXCEPT ![t] = visit[w].healed.stops]
       /\ incident' = [incident EXCEPT ![t] = visit[w].healed.incident]
       /\ UNCHANGED <<appt, news, depot, place, deputy, away, edits>>

(* all open appointments go to the new driver, or nothing happens *)
CommitTakeover(w) ==
    LET t == visit[w].tour  d == visit[w].lock
    IN /\ visit[w].op = "takeover" /\ IndexAllows(t, d) /\ End(w)
       /\ tour' = [tour EXCEPT ![t] = [Bumped(visit[w].healed.row) EXCEPT !.driver = d]]
       /\ stops' = [stops EXCEPT ![t] = visit[w].healed.stops]
       /\ incident' = [incident EXCEPT ![t] = visit[w].healed.incident]
       /\ appt' = [a \in Appointment |-> IF a \in Due(t)
                                         THEN [appt[a] EXCEPT !.assigned = d] ELSE appt[a]]
       /\ place' = [place EXCEPT ![t] = None]
       /\ away' = IF deputy[d] # None THEN away \cup {t} ELSE away \ {t}
       /\ UNCHANGED <<news, depot, deputy, edits>>

RollBack(w) ==
    /\ Holding(w) /\ End(w)
    /\ UNCHANGED <<tour, stops, appt, news, depot, place, incident, deputy, away, edits>>

(* stops are released with the status, the location and the incidents go *)
ReleaseWithin(t, status) ==
    /\ Edit /\ RowFree(t)
    /\ tour' = [tour EXCEPT ![t] = [Bumped(HealedRow(t)) EXCEPT !.status = status]]
    /\ stops' = [stops EXCEPT ![t] = HealedStops(t)]
    /\ place' = [place EXCEPT ![t] = None] /\ incident' = [incident EXCEPT ![t] = Quiet]
    /\ UNCHANGED <<appt, news, depot, deputy, away, visit>>

EndTour(t, force) ==
    tour[t].status = "active" /\ (force \/ ~Driveable(t)) /\ ReleaseWithin(t, "completed")
Cancel(t) ==
    /\ Edit /\ RowFree(t) /\ tour[t].status \in {"draft", "ready"}
    /\ tour' = [tour EXCEPT ![t] = [Bumped(@) EXCEPT !.status = "cancelled"]]
    /\ incident' = [incident EXCEPT ![t] = Quiet]
    /\ UNCHANGED <<stops, appt, news, depot, place, deputy, away, visit>>

(* ------------------------------- planning ------------------------------ *)
(* a leg of a route: the appointment, its place in the order, its time *)
Timed(t) == {[appt |-> stops[t][i].appt, place |-> i, when |-> appt[stops[t][i].appt].when] :
                 i \in Remaining(t)}
(* the legs are those of the remaining stops, in their order *)
InOrder(t, legs) ==
    /\ {r.appt : r \in legs} = Due(t)
    /\ \A i, j \in Remaining(t), r, q \in legs :
          r.appt = stops[t][i].appt /\ q.appt = stops[t][j].appt => (i < j <=> r.place < q.place)

(* apply and evaluate before the start, recalculate in an active tour: loaded at *)
(* `now`, then addresses, depot and matrix without a lock                        *)
PlanLoad(w, t) ==
    /\ Edit /\ Editable(t) /\ ~HealingNeeded(t) /\ Driveable(t)
    /\ Begin(w, [op |-> "load", tour |-> t, version |-> tour[t].version,
                 route |-> Timed(t), now |-> depot])
    /\ UNCHANGED <<tour, stops, appt, news, depot, place, incident, deputy, away>>

PlanPrepare(w) ==
    /\ visit[w].op = "load" /\ Continue(w, [op |-> "plan", tour |-> visit[w].tour, version |-> visit[w].version,
                                         route |-> visit[w].route, now |-> visit[w].now, base |-> depot])
    /\ UNCHANGED <<tour, stops, appt, news, depot, place, incident, deputy, away, edits>>

(* mutant: only the stops are compared, not the version *)
SameStops(w) ==
    /\ Editable(visit[w].tour) /\ RowFree(visit[w].tour)
    /\ InOrder(visit[w].tour, visit[w].route)
(* lockForWrite: same version, same remaining stops in the same order *)
Writable(w) ==
    /\ Editable(visit[w].tour) /\ RowFree(visit[w].tour)
    /\ tour[visit[w].tour].version = visit[w].version
    /\ InOrder(visit[w].tour, visit[w].route)

Stored(t, w, legs, result) ==
    tour' = [tour EXCEPT ![t] = [Bumped(@) EXCEPT !.plan = result, !.route = legs,
                !.base = visit[w].base, !.calculated = visit[w].now]]

(* the closed stops keep their order and come first *)
ClosedFirst(t, p) ==
    \A i, j \in DOMAIN p : i < j /\ p[j] \notin Remaining(t) =>
        p[i] \notin Remaining(t) /\ p[i] < p[j]
PlaceOf(seq, a) == CHOOSE i \in DOMAIN seq : seq[i].appt = a

(* before the start the caller's order is stored behind the closed stops *)
Apply(w, p, result) ==
    LET t == visit[w].tour
    IN /\ visit[w].op = "plan" /\ Writable(w) /\ tour[t].status # "active" /\ End(w)
       /\ ClosedFirst(t, p)
       /\ stops' = [stops EXCEPT ![t] = Ordered(t, p)]
       /\ Stored(t, w, {[r EXCEPT !.place = PlaceOf(Ordered(t, p), r.appt)] : r \in visit[w].route},
                 result)
       /\ UNCHANGED <<appt, news, depot, place, incident, deputy, away, edits>>

(* in an active tour the order stays *)
Recalculate(w, result) ==
    LET t == visit[w].tour
    IN /\ visit[w].op = "plan" /\ Writable(w) /\ tour[t].status = "active" /\ End(w)
       /\ Stored(t, w, visit[w].route, result)
       /\ UNCHANGED <<stops, appt, news, depot, place, incident, deputy, away, edits>>

PlanRefused(w) ==
    /\ visit[w].op \in {"load", "plan"} /\ End(w)
    /\ UNCHANGED <<tour, stops, appt, news, depot, place, incident, deputy, away, edits>>

(* ------------------------ live location and delays --------------------- *)
(* under FOR SHARE of the tour *)
StillActive(t) == RowFree(t) /\ tour[t].status = "active"

LocationAuthorized(w, t) ==
    /\ Edit /\ tour[t].status = "active"
    /\ Begin(w, [op |-> "place", tour |-> t, user |-> Effective(t)])
    /\ UNCHANGED <<tour, stops, appt, news, depot, place, incident, deputy, away>>

LocationUpdate(w) ==
    /\ visit[w].op = "place" /\ End(w)
    /\ place' = [place EXCEPT ![visit[w].tour] =
            IF StillActive(visit[w].tour) THEN visit[w].user ELSE @]
    /\ RowFree(visit[w].tour)
    /\ UNCHANGED <<tour, stops, appt, news, depot, incident, deputy, away, edits>>

(* the external matrix says which open stops will be late; without an open  *)
(* stop everything is resolved and nobody asks                              *)
Evaluate(w, t, late) ==
    /\ tour[t].status = "active" /\ place[t] # None /\ ~HealingNeeded(t)
    /\ late \subseteq OpenOf(t)
    /\ Begin(w, [op |-> IF OpenOf(t) = {} THEN "resolve" ELSE "apply", tour |-> t,
                 version |-> tour[t].version, late |-> late])
    /\ Edit /\ UNCHANGED <<tour, stops, appt, news, depot, place, incident, deputy, away>>

(* one UPDATE without a look at the tour *)
ResolveAll(w) ==
    /\ visit[w].op = "resolve" /\ End(w)
    /\ incident' = [incident EXCEPT ![visit[w].tour] = Quiet]
    /\ UNCHANGED <<tour, stops, appt, news, depot, place, deputy, away, edits>>

LockUnchanged(w) ==
    StillActive(visit[w].tour) /\ tour[visit[w].tour].version = visit[w].version

ApplyIncidents(w) ==
    LET t == visit[w].tour  late == visit[w].late \cap OpenOf(t)
    IN /\ visit[w].op = "apply" /\ LockUnchanged(w)
       /\ Continue(w, [visit[w] EXCEPT !.op = "notify"])
       /\ incident' = [incident EXCEPT ![t] = [a \in Appointment |->
                            IF a \notin late THEN "none" ELSE IF @[a] = "none" THEN "open" ELSE @[a]]]
       /\ UNCHANGED <<tour, stops, appt, news, depot, place, deputy, away, edits>>

(* the deliveries and the mark in one transaction, the jobs after it *)
NotifyPending(w) ==
    LET t == visit[w].tour
    IN /\ visit[w].op = "notify" /\ LockUnchanged(w) /\ End(w)
       /\ incident' = [incident EXCEPT ![t] = [a \in Appointment |->
                            IF @[a] # "open" THEN @[a] ELSE IF a \in OpenOf(t) THEN "told" ELSE "none"]]
       /\ UNCHANGED <<tour, stops, appt, news, depot, place, deputy, away, edits>>

(* the routing failed, or the tour is another one by now *)
EvaluationDropped(w) ==
    /\ visit[w].op \in {"apply", "notify"} /\ End(w)
    /\ UNCHANGED <<tour, stops, appt, news, depot, place, incident, deputy, away, edits>>

(* ------------------- the others: appointments, depot ------------------- *)
AppointmentMoves(a) ==
    /\ Edit /\ appt[a].status = "scheduled"
    /\ appt' = [appt EXCEPT ![a].when = @ + 1] /\ news' = [news EXCEPT ![a] = "times"]
    /\ UNCHANGED <<tour, stops, depot, place, incident, deputy, away, visit>>
AppointmentDone(a) ==
    /\ appt[a].status = "scheduled" /\ appt' = [appt EXCEPT ![a].status = "completed"]
    /\ Edit /\ UNCHANGED <<tour, stops, news, depot, place, incident, deputy, away, visit>>
ProcessCancelled(a) ==
    /\ appt[a].status = "scheduled" /\ appt' = [appt EXCEPT ![a].status = "cancelled"]
    /\ Edit /\ news' = [news EXCEPT ![a] = "cancelled"]
    /\ UNCHANGED <<tour, stops, depot, place, incident, deputy, away, visit>>
DepotMoves ==
    /\ Edit /\ depot' = depot + 1
    /\ UNCHANGED <<tour, stops, appt, news, place, incident, deputy, away, visit>>

TourNext ==
    \/ \E t \in Tour :
        \/ HealOnRead(t) \/ UpdateStop(t) \/ MarkReady(t) \/ Cancel(t)
        \/ \E d \in Driver : Create(t, d)
        \/ \E a \in Appointment, reassign \in BOOLEAN : AddStop(t, a, reassign)
        \/ \E i \in DOMAIN stops[t] : RemoveStop(t, i) \/ MarkArrived(t, i)
        \/ \E p \in Orders(t) : Reorder(t, p)
        \/ \E force \in BOOLEAN : EndTour(t, force)
        \/ \E w \in Clerk :
            \/ StartTour(w, t) \/ PlanLoad(w, t) \/ LocationAuthorized(w, t)
            \/ \E d \in Driver : Takeover(w, t, d)
            \/ \E late \in SUBSET Appointment : Evaluate(w, t, late)
    \/ \E w \in Clerk :
        \/ CommitStart(w) \/ CommitTakeover(w) \/ RollBack(w) \/ PlanPrepare(w) \/ PlanRefused(w)
        \/ /\ visit[w].op = "plan"
           /\ \E result \in {"planned", "infeasible"} :
                Recalculate(w, result)
                \/ \E p \in Orders(visit[w].tour) : Apply(w, p, result)
        \/ LocationUpdate(w) \/ ResolveAll(w) \/ ApplyIncidents(w) \/ NotifyPending(w)
        \/ EvaluationDropped(w)
    \/ \E a \in Appointment :
        \/ MarkStaleForAppointment(a) \/ MarkCancelledStops(a) \/ ListenerFails(a)
        \/ AppointmentMoves(a) \/ AppointmentDone(a) \/ ProcessCancelled(a)
    \/ DepotMoves
TourSpec == TourInit /\ [][TourNext]_tourVars

(* The stored route is the one of the stops still to be driven: their order, *)
(* their times, the depot.                                                   *)
RouteFits(t) ==
    LET legs == {r \in tour[t].route : r.appt \in Due(t)}
    IN /\ InOrder(t, legs) /\ \A r \in legs : r.when = appt[r.appt].when
       /\ tour[t].base = depot

(* Whoever changes a stop, its time or the depot while a route is being      *)
(* calculated: a tour shown as planned, after the healing of a read and as   *)
(* far as the news of its appointments arrived, has the route of what it     *)
(* still has to drive.                                                       *)
PlanMatchesStops ==
    \A t \in Tour :
        \/ ~InPlan(tour[t]) \/ ~Editable(t) \/ HealingNeeded(t) \/ RouteFits(t)
        \/ \E s \in Range(stops[t]) : news[s.appt] # "none"

(* A tour that is not active has neither a live location nor an open delay,  *)
(* whatever report or prediction was under way when it ended.                *)
EndedTourIsQuiet ==
    \A t \in Tour : tour[t].status # "active" => place[t] = None /\ incident[t] = Quiet

(* Starts and take-overs at the same time never give one effective driver    *)
(* two active tours - unless somebody who is substituted took one over: the  *)
(* substitute, who drives it then, is neither asked about nor locked         *)
(* (tour-service.ts:1048).                                                   *)
OneActiveTourPerDriver ==
    \A t, o \in ActiveTours \ away : t # o => Effective(t) # Effective(o)

(* What a tour promises however planning, driving, news, location and delay  *)
(* reports overlap.                                                         *)
TourSafety == PlanMatchesStops /\ EndedTourIsQuiet /\ OneActiveTourPerDriver
=============================================================================
