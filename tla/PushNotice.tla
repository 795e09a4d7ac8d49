----------------------------- MODULE PushNotice -----------------------------
(* Push notices to employees about one appointment: the scan claims a notice *)
(* for the person responsible at that moment, a job sends it to the person's *)
(* devices and checks before every call whether the notice is still current; *)
(* an overtaken notice gives its key back when no device was reached.        *)
(* Person stands for employees, also the planners who hear of a machine risk.*)
EXTENDS Actors, Sequences

CONSTANTS
    Device,        \* browsers registered for push
    PushAttempts,  \* PUSH_SEND_MAX_ATTEMPTS
    MaxNotices     \* bound on the notices

VARIABLES
    meetup,    \* the appointment: status, assigned person, start, the request to confirm
    standIn,   \* person who stands in for a person, or None
    works,     \* persons whose account is active
    device,    \* browser: owner, session still valid, subscription not disabled
    push,      \* rows of push_deliveries, oldest first
    marker,    \* appointment_reminders: start and person to the row that carries the notice, or 0
    risk       \* a machine risk: none, open, told once, told twice
pushVars == <<meetup, standIn, works, device, push, marker, risk, visit, edits>>

StartDay == {"today", "later"}

PushInit ==
    /\ ActorsInit
    /\ meetup \in [status : {"scheduled", "cancelled"}, assigned : Person, start : {"today"},
                   requested : {0, MaxEdits + 1}, asked : Person \cup {None}, notified : {FALSE}]
    /\ meetup.asked = IF meetup.requested = 0 THEN None ELSE meetup.assigned
    /\ standIn = [p \in Person |-> None] /\ works = Person
    /\ device \in [Device -> [owner : Person, live : {TRUE}, on : {TRUE}]]
    /\ push = <<>> /\ marker = [f \in StartDay \X Person |-> 0]
    /\ risk \in {"none", "open"}

NewNotice(kind, version, p) ==
    [kind |-> kind, version |-> version, to |-> p, free |-> FALSE, status |-> "pending",
     code |-> "none", reached |-> 0, job |-> "missing", tries |-> 0, hits |-> {}]
KeyTaken(kind, version, p) ==
    {i \in DOMAIN push : push[i].kind = kind /\ push[i].version = version /\ push[i].to = p /\ ~push[i].free}

(* the substitute of an active account works in the place of the person *)
EffectiveOf(p) == IF standIn[p] # None /\ standIn[p] \in works THEN standIn[p] ELSE p

(* ------------------ what happens to the appointment -------------------- *)
AppointmentOnly == UNCHANGED <<standIn, works, device, push, marker, risk, visit>>

(* a change of person on the day itself asks the new person to confirm *)
AssignOnDay(p) ==
    /\ Edit /\ meetup.status = "scheduled" /\ meetup.assigned # p /\ p \in works
    /\ meetup' = [meetup EXCEPT !.assigned = p, !.notified = FALSE,
                    !.requested = IF meetup.start = "today" THEN edits ELSE 0,
                    !.asked = IF meetup.start = "today" THEN p ELSE None]
    /\ AppointmentOnly

MoveTo(day) ==
    /\ Edit /\ meetup.status = "scheduled" /\ meetup.start # day
    /\ meetup' = [meetup EXCEPT !.start = day] /\ AppointmentOnly

CallOff == Edit /\ meetup.status = "scheduled" /\ meetup' = [meetup EXCEPT !.status = "cancelled"] /\ AppointmentOnly

SubstitutionCreate(p, q) ==
    /\ Edit /\ p # q /\ {p, q} \subseteq works /\ standIn[p] = None
    /\ standIn' = [standIn EXCEPT ![p] = q]
    /\ UNCHANGED <<meetup, works, device, push, marker, risk, visit>>

SubstitutionEnd(p) ==
    /\ Edit /\ standIn[p] # None /\ standIn' = [standIn EXCEPT ![p] = None]
    /\ UNCHANGED <<meetup, works, device, push, marker, risk, visit>>

LocksUser(p) ==
    /\ Edit /\ p \in works /\ works' = works \ {p}
    /\ device' = [d \in Device |-> IF device[d].owner = p THEN [device[d] EXCEPT !.on = FALSE] ELSE device[d]]
    /\ UNCHANGED <<meetup, standIn, push, marker, risk, visit>>

(* --------------------------- subscriptions ------------------------------ *)
DeviceOnly == UNCHANGED <<meetup, standIn, works, push, marker, risk, visit>>

(* on the browser of another person the subscription changes hands *)
Register(d, p) ==
    /\ Edit /\ p \in works /\ device[d] # [owner |-> p, live |-> TRUE, on |-> TRUE]
    /\ device' = [device EXCEPT ![d] = [owner |-> p, live |-> TRUE, on |-> TRUE]] /\ DeviceOnly

(* the session ends; the listener disables the subscription, or it runs out unnoticed *)
SessionEnds(d, heardOf) ==
    /\ Edit /\ device[d].live
    /\ device' = [device EXCEPT ![d].live = FALSE, ![d].on = @ /\ ~heardOf] /\ DeviceOnly

(* a login on the same browser takes the subscription along if it still held *)
StatusForSession(d) ==
    /\ device[d].on /\ ~device[d].live
    /\ device' = [device EXCEPT ![d].on = FALSE] /\ DeviceOnly /\ UNCHANGED edits

ActiveTargets(p) == {d \in Device : device[d] = [owner |-> p, live |-> TRUE, on |-> TRUE]}

(* ------------------------------ the scan -------------------------------- *)
(* bound: one scan and one send job at a time; they run beside each other *)
Idle(ops) == \A u \in Clerk : visit[u].op \notin ops
ScanIdle == Idle({"remind", "reassign", "claimed", "risk"})
CreateDelivery(kind, version, p) == push' = Append(push, NewNotice(kind, version, p))
Room == Len(push) < MaxNotices
Claimed(w, i) == Continue(w, [op |-> "claimed", id |-> i])

(* one hour before: the time and the person as read *)
ScanReminders(w) ==
    LET p == EffectiveOf(meetup.assigned)
    IN /\ ScanIdle /\ meetup.status = "scheduled" /\ meetup.start = "today" /\ marker[<<"today", p>>] = 0 /\ Room
       /\ Begin(w, [op |-> "remind", to |-> p])
       /\ UNCHANGED <<meetup, standIn, works, device, push, marker, risk, edits>>

(* under the lock of the appointment: the same time, the same person *)
ClaimReminder(w) ==
    LET p == visit[w].to  f == <<"today", p>>
        old == KeyTaken("soon", "today", p)
    IN /\ visit[w].op = "remind" /\ (Room \/ old # {})
       /\ IF meetup.status = "scheduled" /\ meetup.start = "today" /\ EffectiveOf(meetup.assigned) = p /\ marker[f] = 0
          THEN /\ IF old = {} THEN CreateDelivery("soon", "today", p) ELSE push' = push
               /\ marker' = [marker EXCEPT ![f] = IF old = {} THEN Len(push) + 1 ELSE CHOOSE i \in old : TRUE]
               /\ Claimed(w, IF old = {} THEN Len(push) + 1 ELSE CHOOSE i \in old : TRUE)
          ELSE End(w) /\ UNCHANGED <<push, marker>>
       /\ UNCHANGED <<meetup, standIn, works, device, risk, edits>>

Versioned(v) == {i \in DOMAIN push : push[i].kind = "reassigned" /\ push[i].version = v}
CalledOffForGood(v) == \E i \in Versioned(v) : push[i].status = "skipped" /\ push[i].code = "SUPERSEDED"
(* handled without a notice, or a notice of it was called off for good *)
VersionClosed(v) == (meetup.notified /\ Versioned(v) = {}) \/ CalledOffForGood(v)
ValidVersion == meetup.status = "scheduled" /\ meetup.requested # 0 /\ meetup.assigned = meetup.asked

ScanReassignments(w) ==
    LET v == meetup.requested
    IN /\ ScanIdle /\ ValidVersion /\ ~VersionClosed(v) /\ Room
       /\ meetup.notified => KeyTaken("reassigned", v, EffectiveOf(meetup.assigned)) = {}
       /\ Begin(w, [op |-> "reassign", version |-> v, asked |-> meetup.asked])
       /\ UNCHANGED <<meetup, standIn, works, device, push, marker, risk, edits>>

(* under the lock: exactly this version; no notice on another day or to an inactive account *)
ClaimReassignment(w) ==
    LET v == visit[w].version  p == EffectiveOf(meetup.assigned)
        same == ValidVersion /\ meetup.requested = v /\ meetup.asked = visit[w].asked
        noOp == meetup.start # "today" \/ (~VersionClosed(v) /\ p \notin works)
        taken == KeyTaken("reassigned", v, p) # {}
    IN /\ visit[w].op = "reassign" /\ Room
       /\ \/ ~same /\ End(w) /\ UNCHANGED <<meetup, push>>
          \/ same /\ noOp /\ End(w) /\ meetup' = [meetup EXCEPT !.notified = TRUE] /\ UNCHANGED push
          \/ same /\ ~noOp /\ VersionClosed(v) /\ End(w) /\ UNCHANGED <<meetup, push>>
          \/ /\ same /\ ~noOp /\ ~VersionClosed(v) /\ meetup' = [meetup EXCEPT !.notified = TRUE]
             /\ IF taken THEN End(w) /\ UNCHANGED push
                ELSE CreateDelivery("reassigned", v, p) /\ Claimed(w, Len(push) + 1)
       /\ UNCHANGED <<standIn, works, device, marker, risk, edits>>

(* the job after the commit; a process that dies here leaves it to the backstop *)
EnqueueSendJob(w) ==
    /\ visit[w].op = "claimed" /\ End(w)
    /\ push' = [push EXCEPT ![visit[w].id].job = IF @ = "missing" THEN "ready" ELSE @]
    /\ UNCHANGED <<meetup, standIn, works, device, marker, risk, edits>>
DiesBeforeJob(w) ==
    /\ visit[w].op = "claimed" /\ End(w)
    /\ UNCHANGED <<meetup, standIn, works, device, push, marker, risk, edits>>
ScheduleOutboxBackstop(i) ==
    /\ push[i].status = "pending" /\ push[i].job = "missing"
    /\ push' = [push EXCEPT ![i].job = "ready"]
    /\ UNCHANGED <<meetup, standIn, works, device, marker, risk, visit, edits>>

(* a machine risk is told to every active planner, once and six hours later again *)
Stage == IF risk = "open" THEN "risk" ELSE "risk6h"
ScanMachineRisks(w) ==
    /\ risk \in {"open", "told"}
    /\ Begin(w, [op |-> "risk", stage |-> Stage, todo |-> works])
    /\ UNCHANGED <<meetup, standIn, works, device, push, marker, risk, edits>>
EnqueueForUser(w, p) ==
    /\ visit[w].op = "risk" /\ p \in visit[w].todo
    /\ push' = IF KeyTaken(visit[w].stage, 0, p) # {} THEN push
               ELSE Append(push, [NewNotice(visit[w].stage, 0, p) EXCEPT !.job = "ready"])
    /\ Continue(w, [visit[w] EXCEPT !.todo = @ \ {p}])
    /\ UNCHANGED <<meetup, standIn, works, device, marker, risk, edits>>
ToldToAll(w) == visit[w].todo = {}
AdminNotified(w) ==
    /\ visit[w].op = "risk" /\ ToldToAll(w) /\ End(w)
    /\ risk' = IF visit[w].stage = "risk6h" THEN "told twice" ELSE IF risk = "open" THEN "told" ELSE risk
    /\ UNCHANGED <<meetup, standIn, works, device, push, marker, edits>>
ScanDies(w) ==
    /\ visit[w].op \in {"risk", "remind", "reassign"} /\ End(w)
    /\ UNCHANGED <<meetup, standIn, works, device, push, marker, risk, edits>>

(* ------------------------------ the job --------------------------------- *)
(* the row against the appointment as it is now *)
Currency(n) ==
    LET p == EffectiveOf(meetup.assigned)
    IN IF n.kind \in {"risk", "risk6h"} THEN "current"
       ELSE IF n.kind = "soon"
       THEN IF meetup.status = "scheduled" /\ meetup.start = n.version /\ n.to = p THEN "current" ELSE "superseded"
       ELSE IF ~ValidVersion \/ meetup.requested # n.version \/ meetup.start # "today" THEN "closed"
       ELSE IF p # n.to THEN "recipient_changed" ELSE "current"

StartSend(w, i) ==
    /\ Idle({"send"}) /\ push[i].job = "ready" /\ push[i].status = "pending"
    /\ push' = [push EXCEPT ![i].job = "running", ![i].tries = @ + 1]
    /\ Begin(w, [op |-> "send", id |-> i, earlier |-> push[i].reached, fate |-> Currency(push[i]),
                 todo |-> ActiveTargets(push[i].to), sent |-> 0, transient |-> FALSE])
    /\ UNCHANGED <<meetup, standIn, works, marker, risk, edits>>
    /\ device' = [d \in Device |-> IF device[d].owner = push[i].to /\ ~device[d].live /\ Currency(push[i]) = "current"
                                   THEN [device[d] EXCEPT !.on = FALSE] ELSE device[d]]

(* the check and the call next to it; what the push service answers is open *)
SendToDevice(w, d, outcome) ==
    LET v == visit[w]
    IN /\ v.op = "send" /\ v.fate = "current" /\ d \in v.todo
       /\ IF Currency(push[v.id]) # "current"
          THEN /\ outcome = "gone" /\ Continue(w, [v EXCEPT !.fate = Currency(push[v.id])])
               /\ UNCHANGED <<device, push>>
          ELSE /\ Continue(w, [v EXCEPT !.todo = @ \ {d}, !.sent = @ + (IF outcome = "sent" THEN 1 ELSE 0),
                                        !.transient = @ \/ outcome = "transient_error"])
               /\ device' = [device EXCEPT ![d].on = @ /\ outcome # "gone"]
               /\ push' = [push EXCEPT ![v.id].hits = IF outcome = "sent" THEN @ \cup {d} ELSE @]
       /\ UNCHANGED <<meetup, standIn, works, marker, risk, edits>>

(* mutant: the reminder stays marked as told *)
MarkerKept(i) == marker
(* the mark of a reminder that reached nobody is taken back *)
MarkerFreed(i) == [f \in DOMAIN marker |-> IF marker[f] = i THEN 0 ELSE marker[f]]
Higher(a, b) == IF a > b THEN a ELSE b
MarkSuperseded(w) ==
    LET v == visit[w]  i == v.id
        reached == Higher(v.sent, v.earlier)
        released == v.fate # "closed" /\ reached = 0
    IN /\ v.op = "send" /\ v.fate # "current" /\ End(w)
       /\ push' = [push EXCEPT ![i].status = "skipped", ![i].reached = reached, ![i].free = released,
                    ![i].job = "done",
                    ![i].code = IF v.fate = "recipient_changed" THEN "SUPERSEDED_RECIPIENT" ELSE "SUPERSEDED"]
       /\ marker' = IF released THEN MarkerFreed(i) ELSE marker
       /\ UNCHANGED <<meetup, standIn, works, device, risk, edits>>

(* all devices asked: again later after a passing error, else the verdict *)
SendEnds(w) ==
    LET v == visit[w]  i == v.id
        again == v.transient /\ push[i].tries < PushAttempts
    IN /\ v.op = "send" /\ v.fate = "current" /\ v.todo = {} /\ End(w)
       /\ push' = [push EXCEPT ![i].reached = v.sent, ![i].job = IF again THEN "ready" ELSE "done",
                    ![i].status = IF again THEN @ ELSE IF v.sent > 0 THEN "sent" ELSE "failed"]
       /\ UNCHANGED <<meetup, standIn, works, device, marker, risk, edits>>

PushNext ==
    \/ CallOff
    \/ \E p \in Person : AssignOnDay(p) \/ SubstitutionEnd(p) \/ LocksUser(p)
    \/ \E p, q \in Person : SubstitutionCreate(p, q)
    \/ \E day \in StartDay \cup {None} : MoveTo(day)
    \/ \E d \in Device :
        \/ StatusForSession(d) \/ \E p \in Person : Register(d, p)
        \/ \E h \in BOOLEAN : SessionEnds(d, h)
    \/ \E w \in Clerk :
        \/ ScanReminders(w) \/ ClaimReminder(w) \/ ScanReassignments(w) \/ ClaimReassignment(w)
        \/ EnqueueSendJob(w) \/ DiesBeforeJob(w) \/ ScanMachineRisks(w) \/ AdminNotified(w) \/ ScanDies(w)
        \/ MarkSuperseded(w) \/ SendEnds(w)
        \/ \E p \in Person : EnqueueForUser(w, p)
        \/ \E d \in Device, o \in {"sent", "gone", "transient_error"} : SendToDevice(w, d, o)
    \/ \E i \in DOMAIN push : ScheduleOutboxBackstop(i) \/ \E w \in Clerk : StartSend(w, i)
PushSpec == PushInit /\ [][PushNext]_pushVars

(* A reminder that is marked as told has a notice that was not called off    *)
(* before it reached a device: otherwise nobody would ever be told.          *)
MarkedIsCarried ==
    \A f \in DOMAIN marker : marker[f] # 0 => ~push[marker[f]].free

(* An incident marked as told has a notice for every active planner.         *)
RiskReachesAll ==
    \A p \in works : risk \in {"told", "told twice"} => KeyTaken("risk", 0, p) # {}

(* What is marked as told is told, or still on its way, to all concerned.    *)
PushSafety == MarkedIsCarried /\ RiskReachesAll
=============================================================================
