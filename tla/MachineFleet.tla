---------------------------- MODULE MachineFleet ----------------------------
(***************************************************************************)
(* The physical machines and the slots of the bookings that want them:     *)
(* assignment with a conscious override, preparation, issue, return,       *)
(* cleaning, manual status, blocks, cancellation, and the damages and      *)
(* defects booked on the last customer.                                    *)
(*                                                                         *)
(* Every operation on a slot is one transaction that locks the slot rows   *)
(* and then the advisory lock of each machine, reads, and writes at its    *)
(* end: two actions, XLocked and Commit, and the locks are what tx holds.  *)
(* The manual operations lock the row of the machine only, so they run     *)
(* between the two.  The order in which locks are taken is LockOrder's.    *)
(***************************************************************************)
EXTENDS Integers, FiniteSets

CONSTANTS Machine, Slot, Booking,
          BookingOf,      \* [Slot -> Booking]
          Overlap,        \* sets of two bookings whose rental periods overlap
          Worker,         \* requests that are being served
          None,
          MaxGen,         \* bound: how often two slots are given a machine
          MaxManual,      \* bound: manual changes of status and blocks
          MaxCharged      \* bound: different findings and defects

ASSUME FleetAssumption ==
    /\ BookingOf \in [Slot -> Booking]
    /\ None \notin Machine /\ None \notin Booking
    /\ MaxGen \in Nat /\ MaxManual \in Nat /\ MaxCharged \in Nat

VARIABLES
    slot,         \* machine_assignments: status, machine, accepted situation
    status,       \* machines.status
    window,       \* machines.cleaning_since IS NOT NULL
    block,        \* machines with an open block in the rental periods
    evidence,     \* check and photo of a slot: the machine it was made for
    cancelled,    \* bookings with a row in cancellations
    lastReturn,   \* booking of the machine's last finalised return
    charged,      \* findings and defects: machine, booking charged, last holder
    tx,           \* what each worker is doing
    manual        \* number of manual changes so far

fleetVars == <<slot, status, window, block, evidence, cancelled, lastReturn,
               charged, tx, manual>>

Statuses == {"ready", "reserved", "rented", "cleaning", "repair"}
ManualStatuses == {"ready", "cleaning", "repair"}
Idle == [op |-> "idle", slots |-> {}, machines |-> {}, machine |-> None,
         accepted |-> None, freed |-> {}]

(* The slots a worker has locked FOR NO KEY UPDATE, and the machines whose *)
(* advisory lock 'machine-assign:<id>' it holds, until it commits.         *)
Unlocked(ss, ms) ==
    \A w \in Worker : tx[w].op # "check" =>
        tx[w].slots \cap ss = {} /\ tx[w].machines \cap ms = {}

MachinesOf(ss) == {slot[s].machine : s \in ss} \ {None}
SlotsOf(b) == {s \in Slot : BookingOf[s] = b}

(* assertBookingOperational: a cancelled booking is never worked on again.  *)
Operational(b) == b \notin cancelled

(* evaluateMachine: status, blocks, collisions with other slots that want  *)
(* the machine.  A machine that is with another customer is a hard block.  *)
Rivals(m, s) == {t \in Slot \ {s} : slot[t].machine = m
                                    /\ slot[t].st \in {"assigned", "prepared"}
                                    /\ BookingOf[t] \notin cancelled}
Problems(m, s) ==
    {<<"status", x>> : x \in {status[m]} \cap {"cleaning", "repair"}}
    \cup {<<"block", m>> : x \in block \cap {m}}
    \cup {<<"collision", t>> :
             t \in {u \in Rivals(m, s) : {BookingOf[u], BookingOf[s]} \in Overlap}}
HardBlocked(m, s) ==
    \/ status[m] = "rented"
    \/ \E t \in Slot \ {s} : slot[t].machine = m /\ slot[t].st = "issued"
OverrideRequired(m, s) == ~HardBlocked(m, s) /\ Problems(m, s) # {}
OverrideStale(s) ==
    /\ OverrideRequired(slot[s].machine, s)
    /\ slot[s].accepted # Problems(slot[s].machine, s)

(* A machine that only this slot has prepared goes back to "ready".        *)
\* mutant: a slot that only has the machine assigned counts too
OtherHasIt(m, s) == \E t \in Slot \ {s} : slot[t].machine = m /\ slot[t].st # "open"
OtherPrepared(m, s) == \E t \in Slot \ {s} : slot[t].machine = m /\ slot[t].st = "prepared"
FreedBy(s) == {m \in MachinesOf({s}) : /\ slot[s].st = "prepared"
                                       /\ ~OtherPrepared(m, s)
                                       /\ status[m] = "reserved"}

(* handoverBlockers for the slots of a booking: prepared, problem situation*)
(* still the accepted one, checked and photographed.                       *)
Checked(s) == evidence[s] # None /\ evidence[s].machine = slot[s].machine
\* mutant: the hard block is only looked at before the locks are taken
IssueReadyAsBefore(b) ==
    /\ SlotsOf(b) # {} /\ Operational(b)
    /\ \A s \in SlotsOf(b) : slot[s].st = "prepared" /\ ~OverrideStale(s) /\ Checked(s)
IssueReady(b) ==
    /\ SlotsOf(b) # {} /\ Operational(b)
    /\ \A s \in SlotsOf(b) : /\ slot[s].st = "prepared"
                             /\ ~HardBlocked(slot[s].machine, s)
                             /\ ~OverrideStale(s)
                             /\ Checked(s)
    /\ Cardinality(MachinesOf(SlotsOf(b))) = Cardinality(SlotsOf(b))

FleetInit ==
    /\ slot = [s \in Slot |-> [st |-> "open", machine |-> None,
                               accepted |-> None, gen |-> 0]]
    /\ status = [m \in Machine |-> "ready"]
    /\ window = [m \in Machine |-> FALSE]
    /\ block = {} /\ cancelled = {} /\ charged = {} /\ manual = 0
    /\ evidence = [s \in Slot |-> None]
    /\ lastReturn = [m \in Machine |-> None]
    /\ tx = [w \in Worker |-> Idle]
-----------------------------------------------------------------------------
Data == <<slot, status, window, block, evidence, cancelled, lastReturn, charged, manual>>

Begin(w, rec) == /\ tx[w] = Idle
                 /\ tx' = [tx EXCEPT ![w] = rec]
                 /\ UNCHANGED Data

(* Refused without a confirmed reason when the machine has problems; the    *)
(* override stores the situation that was accepted.                        *)
AssignLocked(w, s, m) ==
    LET old == slot[s] IN
    /\ Unlocked({s}, MachinesOf({s}) \cup {m})
    /\ Operational(BookingOf[s])
    /\ old.st \in {"open", "assigned", "prepared"}
    /\ m # old.machine => \A t \in Slot \ {s} : old.gen + slot[t].gen < MaxGen
    /\ ~ \E t \in SlotsOf(BookingOf[s]) \ {s} : slot[t].machine = m
    /\ ~HardBlocked(m, s)
    /\ Begin(w, [Idle EXCEPT !.op = "assign", !.slots = {s},
                             !.machines = MachinesOf({s}) \cup {m},
                             !.machine = m,
                             !.accepted = IF OverrideRequired(m, s) THEN Problems(m, s)
                                          ELSE None,
                             !.freed = FreedBy(s) \ {m}])

ReleaseLocked(w, s) ==
    /\ Unlocked({s}, MachinesOf({s}))
    /\ slot[s].st \notin {"issued", "returned"}
    /\ Begin(w, [Idle EXCEPT !.op = "release", !.slots = {s},
                             !.machines = MachinesOf({s}), !.freed = FreedBy(s)])

(* cancel: every slot of the booking, then every machine; nothing issued.  *)
CancelLocked(w, b) ==
    LET ss == SlotsOf(b) IN
    /\ Unlocked(ss, MachinesOf(ss))
    /\ b \notin cancelled
    /\ \A s \in ss : slot[s].st \notin {"issued", "returned"}
    /\ Begin(w, [Idle EXCEPT !.op = "cancel", !.slots = ss, !.machines = MachinesOf(ss),
                             !.freed = UNION {FreedBy(s) : s \in ss}])

PrepareLocked(w, s) ==
    /\ Unlocked({s}, MachinesOf({s}))
    /\ Operational(BookingOf[s])
    /\ slot[s].st \in {"assigned", "prepared"}
    /\ ~HardBlocked(slot[s].machine, s)
    /\ Begin(w, [Idle EXCEPT !.op = "prepare", !.slots = {s}, !.machines = MachinesOf({s}),
                             !.freed = {m \in MachinesOf({s}) : status[m] = "ready"}])

UnprepareLocked(w, s) ==
    /\ Unlocked({s}, MachinesOf({s}))
    /\ slot[s].st = "prepared"
    /\ Begin(w, [Idle EXCEPT !.op = "unprepare", !.slots = {s},
                             !.machines = MachinesOf({s}), !.freed = FreedBy(s)])

(* Finalisation of the handover, from the second look under the locks on.  *)
IssueLocked(w, b) ==
    /\ Unlocked(SlotsOf(b), MachinesOf(SlotsOf(b)))
    /\ IssueReady(b)
    /\ Begin(w, [Idle EXCEPT !.op = "issue", !.slots = SlotsOf(b),
                             !.machines = MachinesOf(SlotsOf(b))])

(* checkMachine and addPhoto read the slot before they lock anything.      *)
CheckRead(w, s) ==
    /\ slot[s].machine # None
    /\ slot[s].st \in {"assigned", "prepared"}
    /\ Begin(w, [Idle EXCEPT !.op = "check", !.slots = {s}, !.machine = slot[s].machine])
-----------------------------------------------------------------------------
(* applyProcessStatus: the status is written whatever it is by now.        *)
SetAll(ms, st) == [m \in Machine |-> IF m \in ms THEN st ELSE status[m]]

AssignCommit(w) ==
    LET t == tx[w] IN \E s \in t.slots :
    LET same == slot[s].machine = t.machine IN
    /\ t.op = "assign"
    /\ slot' = [slot EXCEPT ![s] =
          [st |-> IF same /\ slot[s].st = "prepared" THEN "prepared" ELSE "assigned",
           machine |-> t.machine, accepted |-> t.accepted,
           gen |-> IF same THEN slot[s].gen ELSE slot[s].gen + 1]]
    /\ evidence' = IF same \/ slot[s].machine = None THEN evidence
                   ELSE [evidence EXCEPT ![s] = None]
    /\ status' = SetAll(t.freed, "ready")
    /\ tx' = [tx EXCEPT ![w] = Idle]
    /\ UNCHANGED <<window, block, cancelled, lastReturn, charged, manual>>

ReleaseCommit(w) ==
    LET t == tx[w]
        released == {s \in t.slots : t.op = "release"
                                     \/ slot[s].st \in {"assigned", "prepared"}} IN
    /\ t.op \in {"release", "cancel"}
    /\ slot' = [s \in Slot |-> IF s \in released
                               THEN [st |-> "open", machine |-> None, accepted |-> None,
                                     gen |-> slot[s].gen]
                               ELSE slot[s]]
    /\ evidence' = [s \in Slot |-> IF s \in released THEN None ELSE evidence[s]]
    /\ status' = SetAll(t.freed, "ready")
    /\ cancelled' = IF t.op = "cancel" THEN cancelled \cup {BookingOf[s] : s \in t.slots}
                    ELSE cancelled
    /\ tx' = [tx EXCEPT ![w] = Idle]
    /\ UNCHANGED <<window, block, lastReturn, charged, manual>>

PrepareCommit(w) ==
    LET t == tx[w] IN \E s \in t.slots :
    /\ t.op = "prepare"
    /\ slot' = [slot EXCEPT ![s].st = "prepared"]
    /\ status' = SetAll(t.freed, "reserved")
    /\ tx' = [tx EXCEPT ![w] = Idle]
    /\ UNCHANGED <<window, block, evidence, cancelled, lastReturn, charged, manual>>

UnprepareCommit(w) ==
    LET t == tx[w] IN \E s \in t.slots :
    /\ t.op = "unprepare"
    /\ slot' = [slot EXCEPT ![s].st = "assigned"]
    /\ status' = SetAll(t.freed, "ready")
    /\ tx' = [tx EXCEPT ![w] = Idle]
    /\ UNCHANGED <<window, block, evidence, cancelled, lastReturn, charged, manual>>

IssueCommit(w) ==
    LET t == tx[w] IN
    /\ t.op = "issue"
    /\ slot' = [s \in Slot |-> IF s \in t.slots THEN [slot[s] EXCEPT !.st = "issued"]
                               ELSE slot[s]]
    /\ status' = SetAll(t.machines, "rented")
    /\ window' = [m \in Machine |-> window[m] /\ m \notin t.machines]
    /\ tx' = [tx EXCEPT ![w] = Idle]
    /\ UNCHANGED <<block, evidence, cancelled, lastReturn, charged, manual>>

(* The check is stored under the lock of the handover row: it waits for a  *)
(* finalisation or a cancellation and fails when one of them has won.      *)
CheckCommit(w) ==
    LET t == tx[w] IN \E s \in t.slots :
    /\ t.op = "check"
    /\ \A v \in Worker : tx[v].op \in {"issue", "cancel"} => s \notin tx[v].slots
    /\ evidence' = IF /\ BookingOf[s] \notin cancelled
                      /\ slot[s].st \notin {"issued", "returned"}
                   THEN [evidence EXCEPT ![s] = [machine |-> t.machine, gen |-> slot[s].gen]]
                   ELSE evidence
    /\ tx' = [tx EXCEPT ![w] = Idle]
    /\ UNCHANGED <<slot, status, window, block, cancelled, lastReturn, charged, manual>>

(* A worker dies, or its transaction fails: everything is rolled back.     *)
Rollback(w) == /\ tx[w] # Idle
               /\ tx' = [tx EXCEPT ![w] = Idle]
               /\ UNCHANGED Data
-----------------------------------------------------------------------------
(* Return of everything the booking has: reads nothing it does not lock.   *)
Return(b) ==
    LET ss == SlotsOf(b) IN
    /\ ss # {} /\ \A s \in ss : slot[s].st = "issued"
    /\ Unlocked(ss, MachinesOf(ss))
    /\ slot' = [s \in Slot |-> IF s \in ss THEN [slot[s] EXCEPT !.st = "returned"]
                               ELSE slot[s]]
    /\ status' = SetAll(MachinesOf(ss), "cleaning")
    /\ window' = [m \in Machine |-> window[m] \/ m \in MachinesOf(ss)]
    /\ lastReturn' = [m \in Machine |-> IF m \in MachinesOf(ss) THEN b ELSE lastReturn[m]]
    /\ UNCHANGED <<block, evidence, cancelled, charged, tx, manual>>

(* The operations below lock the row of the machine, not its advisory lock.*)
SetStatus(m, st) ==
    /\ manual < MaxManual
    /\ st \in ManualStatuses /\ st # status[m]
    /\ ~(status[m] = "cleaning" /\ st = "ready")
    /\ status' = [status EXCEPT ![m] = st]
    /\ window' = [window EXCEPT ![m] = @ /\ status[m] # "cleaning"]
    /\ manual' = manual + 1
    /\ UNCHANGED <<slot, block, evidence, cancelled, lastReturn, charged, tx>>

CompleteCleaning(m) ==
    /\ status[m] = "cleaning"
    /\ status' = [status EXCEPT ![m] = "ready"]
    /\ window' = [window EXCEPT ![m] = FALSE]
    /\ UNCHANGED <<slot, block, evidence, cancelled, lastReturn, charged, tx, manual>>

ChangeBlock(m) ==
    /\ manual < MaxManual
    /\ block' = IF m \in block THEN block \ {m} ELSE block \cup {m}
    /\ manual' = manual + 1
    /\ UNCHANGED <<slot, status, window, evidence, cancelled, lastReturn, charged, tx>>

\* mutant: whoever returned the machine last is charged
AlwaysLinked(m) == m \in Machine
NotReissued(m) == \A s \in Slot : slot[s].machine = m => slot[s].st # "issued"
Holder(m) == LET out == {BookingOf[s] : s \in {t \in Slot : slot[t].machine = m
                                                           /\ slot[t].st = "issued"}}
             IN IF out = {} THEN {lastReturn[m]} ELSE out
Charge(m) ==
    /\ charged' = charged \cup {[machine |-> m, to |-> lastReturn[m], had |-> Holder(m)]}
    /\ Cardinality(charged') <= MaxCharged

(* A damage found after the return, while the machine is being cleaned.    *)
PostReturnFinding(m) ==
    /\ status[m] = "cleaning" /\ window[m]
    /\ lastReturn[m] # None /\ NotReissued(m)
    /\ Charge(m)
    /\ UNCHANGED <<slot, status, window, block, evidence, cancelled, lastReturn, tx, manual>>

(* An internal defect, linked to the last return: waits for the machine.   *)
TechnicalDefect(m) ==
    /\ Unlocked({}, {m})
    /\ lastReturn[m] # None /\ NotReissued(m)
    /\ Charge(m)
    /\ UNCHANGED <<slot, status, window, block, evidence, cancelled, lastReturn, tx, manual>>
-----------------------------------------------------------------------------
WorkerStep(w) ==
    \/ \E s \in Slot, m \in Machine : AssignLocked(w, s, m)
    \/ \E s \in Slot : \/ ReleaseLocked(w, s) \/ PrepareLocked(w, s)
                       \/ UnprepareLocked(w, s) \/ CheckRead(w, s)
    \/ \E b \in Booking : CancelLocked(w, b) \/ IssueLocked(w, b)
    \/ AssignCommit(w) \/ ReleaseCommit(w) \/ PrepareCommit(w) \/ UnprepareCommit(w)
    \/ IssueCommit(w) \/ CheckCommit(w) \/ Rollback(w)

ManualStep ==
    \/ \E b \in Booking : Return(b)
    \/ \E m \in Machine : \/ \E st \in ManualStatuses : SetStatus(m, st)
                          \/ CompleteCleaning(m) \/ ChangeBlock(m)
                          \/ PostReturnFinding(m) \/ TechnicalDefect(m)

FleetNext == (\E w \in Worker : WorkerStep(w)) \/ ManualStep
FleetSpec == FleetInit /\ [][FleetNext]_fleetVars
-----------------------------------------------------------------------------
(* A machine is with one customer at a time: the second look under the     *)
(* locks of slots and machines (handover-service.ts:1681) is what keeps two*)
(* handovers that both prepared it from issuing it twice.                  *)
OneHolder ==
    \A s, t \in Slot : (s # t /\ slot[s].st = "issued" /\ slot[t].st = "issued")
                          => slot[s].machine # slot[t].machine

(* "Reserviert" is never left behind: some slot has the machine prepared,  *)
(* whatever was released, reassigned, cancelled or rolled back.            *)
ReservedHasHolder ==
    \A m \in Machine : status[m] = "reserved" =>
        \E s \in Slot : slot[s].machine = m /\ slot[s].st = "prepared"

(* A cancelled booking holds nothing: no slot of it is given a machine     *)
(* after the cancellation, and nothing of it is ever handed out.           *)
CancelledHoldsNothing ==
    \A s \in Slot : BookingOf[s] \in cancelled =>
        slot[s].st = "open" /\ slot[s].machine = None

(* No machine is withheld in vain.                                         *)
NothingHeldInVain == ReservedHasHolder /\ CancelledHoldsNothing

(* A damage found later, or a defect, is booked on the customer who had    *)
(* the machine last and on nobody else (notReissuedSince).                 *)
ChargedToLastHolder == \A c \in charged : c.had = {c.to}
=============================================================================
