------------------------------- MODULE MCField -------------------------------
(* The services of the desk, the warehouse and the road, one at a time: each *)
(* stage plays one service with all its interleavings, the others rest.      *)
EXTENDS HandoverDesk, ReturnDesk, StockLedger, TourDay, AppointmentBook, OfflineDevice, TLC

VARIABLE stage      \* the service that is played

\* changes that are begun in each
Allowance ==
  "desk" :> {5} @@ "return" :> {7} @@ "stock" :> {4, 5} @@ "tour" :> {3, 4} @@
  "book" :> {4} @@ "device" :> {1, 2}

\* the clock of the device is right, behind or ahead
MCSkew == {-MaxDay, 0, MaxDay}

deskRows == <<line, recipient, rep, signature, desk, shelf, damaged, protocol>>
returnRows == <<ret, section, missing, back, damages, returnSig, returnDoc, stored>>
stockRows == <<stock, active, ledger, count>>
tourRows == <<tour, stops, appt, news, depot, place, incident, deputy, away>>
bookRows == <<process, meeting, letter, heard>>
deviceRows == <<cloud, disk, app, fate>>

P1 == CHOOSE p \in Driver : TRUE
P2 == CHOOSE p \in Driver : p # P1
P3 == CHOOSE p \in Driver : p \notin {P1, P2}
T1 == CHOOSE t \in Tour : TRUE
A1 == CHOOSE a \in Appointment : TRUE

\* nothing counted yet, or everything
StockAtRest ==
  \A a \in Article : stock[a] = None

StockOnStage ==
  \A a \in Article : stock[a] = IF edits = 5 THEN None ELSE MaxStock

\* a state to rest in while another service is played
TourAtRest ==
  /\ deputy = [d \in Driver |-> None]
  /\ \A t \in Tour : tour[t].driver = P1 /\ tour[t].status = "draft" /\ stops[t] = <<>>

\* where the play begins
TourOnStage ==
  /\ deputy \in {[d \in Driver |-> None], [d \in Driver |-> IF d = P1 THEN P2 ELSE None]}
  /\ \/ /\ edits = 4 /\ \A d \in Driver : deputy[d] = None
        /\ \A t \in Tour : tour[t].driver = P1 /\ (tour[t].status = "draft" <=> t = T1)
        /\ Len(stops[T1]) \in {1, 2}
     \/ /\ edits = 3 /\ deputy[P1] = P2
        /\ \A t \in Tour : tour[t].status = "draft" /\ Len(stops[t]) = 1
                          /\ tour[t].driver = IF t # T1 THEN P2 ELSE tour[T1].driver
        /\ tour[T1].driver \in {P1, P3}
  /\ stops[T1][1].appt = A1

\* a state to rest in while another service is played
BookAtRest ==
  \A b \in Booking :
    process[b].owner = None /\ process[b].fulfillment = "pickup"
      /\ process[b].wish = [k \in Kind |-> None]

\* where the play begins
BookOnStage ==
  \A b \in Booking :
    process[b].owner = None /\ process[b].fulfillment = "pickup" /\ process[b].wish["out"] = None

\* a state to rest in while another service is played
DeviceAtRest ==
  app.screen = "login"

\* where the play begins
DeviceOnStage ==
  /\ edits = IF app.screen = "page" THEN 2 ELSE 1
  /\ cloud.pass = 2 => app.skew = -MaxDay

Init ==
  /\ stage \in DOMAIN Allowance
  /\ edits \in Allowance[stage]
  /\ (stage # "tour" => TourInit /\ TourAtRest)
  /\ (stage # "book" => BookInit /\ BookAtRest)
  /\ (stage # "device" => DeviceInit /\ DeviceAtRest)
  /\ HandoverInit
  /\ ReturnInit
  /\ StockInit /\ IF stage = "stock" THEN StockOnStage ELSE StockAtRest
  /\ (stage = "tour" => TourInit /\ TourOnStage)
  /\ (stage = "book" => BookInit /\ BookOnStage)
  /\ (stage = "device" => DeviceInit /\ DeviceOnStage)

Next ==
  \/ stage = "desk" /\ HandoverNext
       /\ UNCHANGED <<stage, returnRows, stockRows, tourRows, bookRows, deviceRows>>
  \/ stage = "return" /\ ReturnNext
       /\ UNCHANGED <<stage, deskRows, stockRows, tourRows, bookRows, deviceRows>>
  \/ stage = "stock" /\ StockNext
       /\ UNCHANGED <<stage, deskRows, returnRows, tourRows, bookRows, deviceRows>>
  \/ stage = "tour" /\ TourNext
       /\ UNCHANGED <<stage, deskRows, returnRows, stockRows, bookRows, deviceRows>>
  \/ stage = "book" /\ BookNext
       /\ UNCHANGED <<stage, deskRows, returnRows, stockRows, tourRows, deviceRows>>
  \/ stage = "device" /\ DeviceNext
       /\ UNCHANGED <<stage, deskRows, returnRows, stockRows, tourRows, bookRows>>

vars == <<stage, visit, edits, deskRows, returnRows, stockRows, tourRows, bookRows,
           deviceRows>>
Spec == Init /\ [][Next]_vars

\* the requests are served alike
Alike == Permutations(Clerk)
==============================================================================
