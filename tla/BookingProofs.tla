----------------------------- MODULE BookingProofs -----------------------------
(***************************************************************************)
(* Proofs about what a booking gets, for any constants: its machines       *)
(* (MachineFleet), and what is captured for its handover without a network *)
(* (OfflineSync).                                                          *)
(*                                                                         *)
(* Machines.  A request reads under the locks and writes at its end.  What *)
(* it read is still true when it writes (Seen), although other requests    *)
(* and the manual operations went on in between: they lock other slots and *)
(* other machines (Locks), and what they do elsewhere cannot change it     *)
(* (SeenStays).  The rest follows action by action.                        *)
(*                                                                         *)
(* Captures.  What a tab waits for is on its way, being served or          *)
(* answered: one of the three (OneAtATime).  So a request that is served   *)
(* has no receipt, a receipt is its effect (EffectsAreThere), and a        *)
(* finalisation that is on its way comes after all it must wait for        *)
(* (FinalisationWaits).                                                    *)
(***************************************************************************)
EXTENDS MachineFleet, OfflineSync, WellFoundedInduction, TLAPS

SlotStates == {"open", "assigned", "prepared", "issued", "returned"}
Situation == SUBSET (({"status"} \X Statuses) \cup ({"block"} \X Machine) \cup ({"collision"} \X Slot))
SlotRow == [st : SlotStates, machine : Machine \cup {None},
            accepted : Situation \cup {None}, gen : Nat]
TxRow == [op : {"idle", "assign", "release", "cancel", "prepare", "unprepare", "issue", "check"},
          slots : SUBSET Slot, machines : SUBSET Machine, machine : Machine \cup {None},
          accepted : Situation \cup {None}, freed : SUBSET Machine]

FleetTyped ==
    /\ slot \in [Slot -> SlotRow]
    /\ status \in [Machine -> Statuses]
    /\ window \in [Machine -> BOOLEAN]
    /\ block \in SUBSET Machine
    /\ cancelled \in SUBSET Booking
    /\ lastReturn \in [Machine -> Booking \cup {None}]
    /\ tx \in [Worker -> TxRow]
    /\ manual \in Nat

(* A slot has a machine exactly when it is not open, and no machine is       *)
(* wanted twice by one booking.                                             *)
SlotHasMachine == \A s \in Slot : slot[s].st = "open" <=> slot[s].machine = None
DistinctInBooking ==
    \A s, t \in Slot : s # t /\ BookingOf[s] = BookingOf[t] /\ slot[s].machine = slot[t].machine
                          => slot[s].machine = None

(* No slot and no machine is locked twice. *)
Locks ==
    \A v, w \in Worker : v # w /\ tx[v].op # "check" /\ tx[w].op # "check" =>
        tx[v].slots \cap tx[w].slots = {} /\ tx[v].machines \cap tx[w].machines = {}

(* What the request of w read and still relies on. *)
HoldsMachines(w) == \A s \in tx[w].slots : slot[s].machine \in tx[w].machines \cup {None}
NotOut(w) == \A s \in tx[w].slots : slot[s].st \notin {"issued", "returned"}
StillOperational(w) == \A s \in tx[w].slots : BookingOf[s] \notin cancelled
MachineIsFree(w) ==
    /\ tx[w].machine \in tx[w].machines
    /\ \A s \in tx[w].slots : \A t \in SlotsOf(BookingOf[s]) \ {s} : slot[t].machine # tx[w].machine
NobodyElseHasThem(w) ==
    \A s \in tx[w].slots : /\ slot[s].st = "prepared"
                           /\ \A t \in Slot : slot[t].st = "issued" => slot[t].machine # slot[s].machine
(* A reserved machine that is not freed has another slot that prepared it.   *)
FreedIsRight(w) ==
    \A s \in tx[w].slots :
        /\ slot[s].st = "prepared" /\ status[slot[s].machine] = "reserved"
        /\ slot[s].machine \notin tx[w].freed
        /\ tx[w].op = "assign" => slot[s].machine # tx[w].machine
        => \E t \in Slot \ tx[w].slots : slot[t].st = "prepared" /\ slot[t].machine = slot[s].machine

Seen(w) ==
    LET op == tx[w].op IN
    /\ op = "idle" => tx[w] = Idle
    /\ op \in {"assign", "release", "prepare", "unprepare"} => \E s \in Slot : tx[w].slots = {s}
    /\ op \in {"cancel", "issue"} => \E b \in Booking : tx[w].slots = SlotsOf(b)
    /\ op \notin {"idle", "check"} => HoldsMachines(w) /\ NotOut(w)
    /\ op \in {"assign", "prepare", "issue"} => StillOperational(w)
    /\ op = "assign" => MachineIsFree(w)
    /\ op \in {"prepare", "unprepare"} => \A s \in tx[w].slots : slot[s].st # "open"
    /\ op = "prepare" => tx[w].freed \subseteq tx[w].machines \cap MachinesOf(tx[w].slots)
    /\ op = "issue" => NobodyElseHasThem(w) /\ MachinesOf(tx[w].slots) \subseteq tx[w].machines
    /\ op \in {"assign", "release", "cancel", "unprepare"} => FreedIsRight(w)

FleetInv ==
    /\ FleetTyped /\ SlotHasMachine /\ DistinctInBooking /\ Locks
    /\ \A w \in Worker : Seen(w)
    /\ OneHolder /\ ReservedHasHolder /\ CancelledHoldsNothing /\ ChargedToLastHolder

-----------------------------------------------------------------------------
(* What is read under the locks stays true. *)

(* Something happens to the slots ss and the machines ms, and w has locked   *)
(* neither.                                                                  *)
LEMMA SeenStays ==
    ASSUME FleetTyped, SlotHasMachine, NEW w \in Worker, Seen(w), tx'[w] = tx[w],
           NEW ss \in SUBSET Slot, NEW ms \in SUBSET Machine,
           tx[w].op # "check" => tx[w].slots \cap ss = {} /\ tx[w].machines \cap ms = {},
           \A s \in Slot \ ss : slot'[s] = slot[s],
           \A s \in ss : {slot[s].machine, slot'[s].machine} \subseteq ms \cup {None},
           \A m \in Machine : status'[m] = "reserved" => status[m] = "reserved" \/ m \in ms,
           \A b \in cancelled' : b \in cancelled \/ SlotsOf(b) \subseteq ss
    PROVE  Seen(w)'
<1> USE FleetAssumption
<1>1. CASE tx[w].op = "check"
  BY <1>1 DEF Seen
<1>2. CASE tx[w].op = "idle"
  BY <1>2 DEF Seen
<1>3. CASE tx[w].op \notin {"check", "idle"}
  <2>1. /\ tx[w].slots \subseteq Slot /\ \A s \in tx[w].slots : s \in Slot \ ss /\ slot'[s] = slot[s]
        /\ tx[w].machines \cap ms = {} /\ None \notin tx[w].machines
    BY <1>3 DEF FleetTyped, TxRow
  <2>2. HoldsMachines(w) /\ NotOut(w)
    BY <1>3 DEF Seen
  <2>3. HoldsMachines(w)' /\ NotOut(w)'
    BY <2>1, <2>2 DEF HoldsMachines, NotOut
  <2>4. StillOperational(w) => StillOperational(w)'
    BY <2>1 DEF StillOperational, SlotsOf
  <2>5. MachineIsFree(w) => MachineIsFree(w)'
    BY <2>1 DEF MachineIsFree, SlotsOf
  <2>6. \A s \in tx[w].slots : slot[s].machine \in Machine => slot[s].machine \in tx[w].machines
    BY <2>1, <2>2 DEF HoldsMachines
  <2>7. MachinesOf(tx[w].slots)' = MachinesOf(tx[w].slots)
    BY <2>1 DEF MachinesOf
  <2>8. NobodyElseHasThem(w) /\ MachinesOf(tx[w].slots) \subseteq tx[w].machines => NobodyElseHasThem(w)'
    <3> SUFFICES ASSUME NobodyElseHasThem(w), MachinesOf(tx[w].slots) \subseteq tx[w].machines,
                        NEW s \in tx[w].slots, NEW t \in Slot, slot'[t].st = "issued"
                 PROVE  slot'[t].machine # slot'[s].machine
      BY <2>1 DEF NobodyElseHasThem
    <3>1. slot[s].machine \in tx[w].machines
      BY <2>1, <2>2 DEF NobodyElseHasThem, HoldsMachines, SlotHasMachine
    <3>2. CASE t \in ss
      BY <2>1, <3>1, <3>2
    <3>3. CASE t \notin ss
      BY <2>1, <3>3 DEF NobodyElseHasThem
    <3> QED
      BY <3>2, <3>3
  <2>9. FreedIsRight(w) => FreedIsRight(w)'
    <3> SUFFICES ASSUME FreedIsRight(w), NEW s \in tx[w].slots, slot'[s].st = "prepared",
                        status'[slot'[s].machine] = "reserved", slot'[s].machine \notin tx[w].freed,
                        tx[w].op = "assign" => slot'[s].machine # tx[w].machine
                 PROVE  \E t \in Slot \ tx[w].slots : slot'[t].st = "prepared" /\ slot'[t].machine = slot'[s].machine
      BY DEF FreedIsRight
    <3>1. slot[s].machine \in tx[w].machines /\ slot[s].machine \in Machine
      BY <2>1, <2>2 DEF HoldsMachines, SlotHasMachine, FleetTyped, TxRow
    <3>2. status[slot[s].machine] = "reserved"
      BY <2>1, <3>1
    <3>3. PICK t \in Slot \ tx[w].slots : slot[t].st = "prepared" /\ slot[t].machine = slot[s].machine
      BY <2>1, <3>2 DEF FreedIsRight
    <3>4. t \notin ss
      BY <2>1, <3>1, <3>3
    <3> QED
      BY <2>1, <3>3, <3>4
  <2> QED
    BY <1>3, <2>1, <2>3, <2>4, <2>5, <2>7, <2>8, <2>9 DEF Seen
<1> QED
  BY <1>1, <1>2, <1>3

(* A request that ends gives its locks back and touched only what it locked. *)
LEMMA OthersSee ==
    ASSUME FleetInv, NEW w \in Worker, tx' = [tx EXCEPT ![w] = Idle], tx[w].op # "check",
           \A s \in Slot \ tx[w].slots : slot'[s] = slot[s],
           \A s \in tx[w].slots : {slot[s].machine, slot'[s].machine} \subseteq tx[w].machines \cup {None},
           \A m \in Machine : status'[m] = "reserved" => status[m] = "reserved" \/ m \in tx[w].machines,
           \A b \in cancelled' : b \in cancelled \/ SlotsOf(b) \subseteq tx[w].slots
    PROVE  Locks' /\ (\A v \in Worker : Seen(v)')
<1>1. tx[w].slots \in SUBSET Slot /\ tx[w].machines \in SUBSET Machine
  BY DEF FleetInv, FleetTyped, TxRow
<1>2. tx'[w] = Idle /\ \A v \in Worker \ {w} : tx'[v] = tx[v]
  BY DEF FleetInv, FleetTyped
<1>3. Idle.slots = {} /\ Idle.machines = {} /\ Idle.op = "idle"
  BY DEF Idle
<1>4. Locks'
  BY <1>2, <1>3 DEF FleetInv, Locks
<1>5. Seen(w)'
  BY <1>2, <1>3 DEF Seen
<1>6. ASSUME NEW v \in Worker \ {w} PROVE Seen(v)'
  BY <1>1, <1>2, SeenStays DEF FleetInv, Locks
<1> QED
  BY <1>4, <1>5, <1>6

(* Nothing that a request relies on changes. *)
LEMMA NobodyMinds ==
    ASSUME FleetInv, tx' = tx, UNCHANGED <<slot, cancelled>>,
           \A m \in Machine : status'[m] = "reserved" => status[m] = "reserved"
    PROVE  Locks' /\ \A v \in Worker : Seen(v)'
<1>1. Locks'
  BY DEF FleetInv, Locks
<1>2. ASSUME NEW v \in Worker PROVE Seen(v)'
  <2> DEFINE ss == {}
             ms == {}
  <2>1. ss \in SUBSET Slot /\ ms \in SUBSET Machine
    OBVIOUS
  <2>2. /\ tx[v].slots \cap ss = {} /\ tx[v].machines \cap ms = {}
        /\ \A s \in Slot \ ss : slot'[s] = slot[s]
        /\ \A s \in ss : {slot[s].machine, slot'[s].machine} \subseteq ms \cup {None}
        /\ \A m \in Machine : status'[m] = "reserved" => status[m] = "reserved" \/ m \in ms
        /\ \A b \in cancelled' : b \in cancelled \/ SlotsOf(b) \subseteq ss
        /\ FleetTyped /\ SlotHasMachine /\ Seen(v) /\ tx'[v] = tx[v]
    BY DEF FleetInv
  <2> HIDE DEF ss, ms
  <2> QED
    BY <2>1, <2>2, SeenStays
<1> QED
  BY <1>1, <1>2

-----------------------------------------------------------------------------
(* The first half of a request: it locks and reads. *)

LEMMA FreedByType == ASSUME NEW s \in Slot PROVE FreedBy(s) \subseteq MachinesOf({s})
BY DEF FreedBy

LEMMA MachinesOfType ==
    ASSUME FleetTyped, NEW ss \in SUBSET Slot
    PROVE  /\ MachinesOf(ss) \in SUBSET Machine
           /\ \A s \in ss : slot[s].machine \in MachinesOf(ss) \cup {None}
BY DEF FleetTyped, SlotRow, MachinesOf

(* What is not freed is prepared by somebody else. *)
LEMMA NotFreed ==
    ASSUME FleetTyped, SlotHasMachine, NEW s \in Slot, slot[s].st = "prepared",
           status[slot[s].machine] = "reserved", slot[s].machine \notin FreedBy(s)
    PROVE  \E t \in Slot \ {s} : slot[t].st = "prepared" /\ slot[t].machine = slot[s].machine
BY DEF FleetTyped, SlotRow, SlotHasMachine, FreedBy, MachinesOf, OtherPrepared

LEMMA ProblemsType == ASSUME FleetTyped, NEW m \in Machine, NEW s PROVE Problems(m, s) \in Situation
<1>1. {<<"status", x>> : x \in {status[m]} \cap {"cleaning", "repair"}} \subseteq {"status"} \X Statuses
  BY DEF FleetTyped
<1>2. {<<"block", m>> : x \in block \cap {m}} \subseteq {"block"} \X Machine
  OBVIOUS
<1>3. {<<"collision", t>> : t \in {u \in Rivals(m, s) : {BookingOf[u], BookingOf[s]} \in Overlap}}
          \subseteq {"collision"} \X Slot
  <2>1. Rivals(m, s) \subseteq Slot
    BY DEF Rivals
  <2> SUFFICES ASSUME NEW t \in {u \in Rivals(m, s) : {BookingOf[u], BookingOf[s]} \in Overlap}
               PROVE  <<"collision", t>> \in {"collision"} \X Slot
    OBVIOUS
  <2> QED
    BY <2>1
<1> QED
  BY <1>1, <1>2, <1>3 DEF Problems, Situation

LEMMA LockKeeps ==
    ASSUME FleetInv, NEW w \in Worker, NEW rec \in TxRow, Begin(w, rec), Seen(w)',
           rec.op # "check" => Unlocked(rec.slots, rec.machines)
    PROVE  FleetInv'
<1>1. tx'[w] = rec /\ tx' \in [Worker -> TxRow] /\ \A v \in Worker \ {w} : tx'[v] = tx[v]
  BY DEF Begin, FleetInv, FleetTyped
<1>2. Locks'
  BY <1>1 DEF FleetInv, Locks, Unlocked
<1>3. \A v \in Worker : Seen(v)'
  <2> SUFFICES ASSUME NEW v \in Worker \ {w} PROVE Seen(v)'
    OBVIOUS
  <2>1. tx'[v] = tx[v] /\ Seen(v)
    BY <1>1 DEF FleetInv
  <2> QED
    BY <2>1 DEF Begin, Data, Seen, HoldsMachines, NotOut, StillOperational, MachineIsFree,
                NobodyElseHasThem, FreedIsRight, MachinesOf
<1>4. FleetTyped' /\ SlotHasMachine' /\ DistinctInBooking'
  BY <1>1 DEF Begin, Data, FleetInv, FleetTyped, SlotHasMachine, DistinctInBooking
<1>5. OneHolder' /\ ReservedHasHolder' /\ CancelledHoldsNothing' /\ ChargedToLastHolder'
  BY DEF Begin, Data, FleetInv, OneHolder, ReservedHasHolder, CancelledHoldsNothing, ChargedToLastHolder
<1> QED
  BY <1>2, <1>3, <1>4, <1>5 DEF FleetInv

LEMMA LocksKeep ==
    ASSUME FleetInv, NEW w \in Worker,
           \/ \E s \in Slot, m \in Machine : AssignLocked(w, s, m)
           \/ \E s \in Slot : \/ ReleaseLocked(w, s) \/ PrepareLocked(w, s)
                              \/ UnprepareLocked(w, s) \/ CheckRead(w, s)
           \/ \E b \in Booking : CancelLocked(w, b) \/ IssueLocked(w, b)
    PROVE  FleetInv'
<1> USE FleetAssumption
<1>0. tx \in [Worker -> TxRow] /\ FleetTyped /\ SlotHasMachine /\ slot \in [Slot -> SlotRow]
  BY DEF FleetInv, FleetTyped
<1>1. ASSUME NEW s \in Slot, NEW m \in Machine, AssignLocked(w, s, m) PROVE FleetInv'
  <2> DEFINE rec == [Idle EXCEPT !.op = "assign", !.slots = {s}, !.machines = MachinesOf({s}) \cup {m},
                             !.machine = m,
                             !.accepted = IF OverrideRequired(m, s) THEN Problems(m, s) ELSE None,
                             !.freed = FreedBy(s) \ {m}]
  <2>1. /\ rec.op = "assign" /\ rec.slots = {s} /\ rec.machines = MachinesOf({s}) \cup {m}
        /\ rec.machine = m /\ rec.freed = FreedBy(s) \ {m}
    BY DEF Idle
  <2>2. rec \in TxRow
    BY <1>0, MachinesOfType, FreedByType, ProblemsType DEF Idle, TxRow
  <2>3. Begin(w, rec) /\ Unlocked(rec.slots, rec.machines)
    BY <1>1, <2>1 DEF AssignLocked
  <2> HIDE DEF rec
  <2>4. tx'[w] = rec /\ UNCHANGED <<slot, status, cancelled>>
    BY <1>0, <2>3 DEF Begin, Data
  <2>5. HoldsMachines(w)' /\ NotOut(w)' /\ StillOperational(w)' /\ MachineIsFree(w)'
    <3>1. /\ slot[s].st \in {"open", "assigned", "prepared"} /\ BookingOf[s] \notin cancelled
          /\ \A t \in SlotsOf(BookingOf[s]) \ {s} : slot[t].machine # m
      BY <1>1 DEF AssignLocked, Operational
    <3>2. HoldsMachines(w)'
      BY <1>0, <2>1, <2>4, MachinesOfType DEF HoldsMachines
    <3>3. NotOut(w)' /\ StillOperational(w)'
      BY <2>1, <2>4, <3>1 DEF NotOut, StillOperational
    <3>4. MachineIsFree(w)'
      BY <2>1, <2>4, <3>1 DEF MachineIsFree, SlotsOf
    <3> QED
      BY <3>2, <3>3, <3>4
  <2>6. FreedIsRight(w)'
    BY <1>0, <2>1, <2>4, NotFreed DEF FreedIsRight
  <2>7. Seen(w)'
    BY <2>1, <2>4, <2>5, <2>6 DEF Seen
  <2> QED
    BY <2>2, <2>3, <2>7, LockKeeps
<1>2. ASSUME NEW s \in Slot, ReleaseLocked(w, s) \/ UnprepareLocked(w, s) PROVE FleetInv'
  <2>1. PICK op \in {"release", "unprepare"} :
          /\ Unlocked({s}, MachinesOf({s}))
          /\ Begin(w, [Idle EXCEPT !.op = op, !.slots = {s}, !.machines = MachinesOf({s}), !.freed = FreedBy(s)])
          /\ slot[s].st \notin {"issued", "returned"} /\ (op = "unprepare" => slot[s].st = "prepared")
    BY <1>2 DEF ReleaseLocked, UnprepareLocked
  <2> DEFINE rec == [Idle EXCEPT !.op = op, !.slots = {s}, !.machines = MachinesOf({s}), !.freed = FreedBy(s)]
  <2>2. rec.op = op /\ rec.slots = {s} /\ rec.machines = MachinesOf({s}) /\ rec.freed = FreedBy(s)
    BY DEF Idle
  <2>3. rec \in TxRow
    BY <1>0, MachinesOfType, FreedByType DEF Idle, TxRow
  <2>4. Begin(w, rec) /\ Unlocked(rec.slots, rec.machines)
    BY <2>1, <2>2
  <2> HIDE DEF rec
  <2>5. tx'[w] = rec /\ UNCHANGED <<slot, status, cancelled>>
    BY <1>0, <2>4 DEF Begin, Data
  <2>6. HoldsMachines(w)' /\ NotOut(w)'
    BY <1>0, <2>1, <2>2, <2>5, MachinesOfType DEF HoldsMachines, NotOut
  <2>7. FreedIsRight(w)'
    BY <1>0, <2>2, <2>5, NotFreed DEF FreedIsRight
  <2>8. Seen(w)'
    BY <2>1, <2>2, <2>5, <2>6, <2>7 DEF Seen
  <2> QED
    BY <2>3, <2>4, <2>8, LockKeeps
<1>3. ASSUME NEW s \in Slot, PrepareLocked(w, s) PROVE FleetInv'
  <2> DEFINE rec == [Idle EXCEPT !.op = "prepare", !.slots = {s}, !.machines = MachinesOf({s}),
                             !.freed = {m \in MachinesOf({s}) : status[m] = "ready"}]
  <2>1. /\ rec.op = "prepare" /\ rec.slots = {s} /\ rec.machines = MachinesOf({s})
        /\ rec.freed \subseteq MachinesOf({s})
    BY DEF Idle
  <2>2. rec \in TxRow
    BY <1>0, MachinesOfType DEF Idle, TxRow
  <2>3. Begin(w, rec) /\ Unlocked(rec.slots, rec.machines)
    BY <1>3, <2>1 DEF PrepareLocked
  <2> HIDE DEF rec
  <2>4. tx'[w] = rec /\ UNCHANGED <<slot, status, cancelled>>
    BY <1>0, <2>3 DEF Begin, Data
  <2>5. HoldsMachines(w)' /\ NotOut(w)' /\ StillOperational(w)'
    BY <1>0, <1>3, <2>1, <2>4, MachinesOfType DEF PrepareLocked, Operational, HoldsMachines, NotOut, StillOperational
  <2>6. MachinesOf({s})' = MachinesOf({s})
    BY <2>4 DEF MachinesOf
  <2>7. Seen(w)'
    BY <1>3, <2>1, <2>4, <2>5, <2>6 DEF Seen, PrepareLocked
  <2> QED
    BY <2>2, <2>3, <2>7, LockKeeps
<1>4. ASSUME NEW s \in Slot, CheckRead(w, s) PROVE FleetInv'
  <2> DEFINE rec == [Idle EXCEPT !.op = "check", !.slots = {s}, !.machine = slot[s].machine]
  <2>1. rec.op = "check" /\ rec \in TxRow
    BY <1>0 DEF Idle, TxRow, SlotRow
  <2>2. Begin(w, rec)
    BY <1>4 DEF CheckRead
  <2> HIDE DEF rec
  <2>3. tx'[w] = rec
    BY <1>0, <2>2 DEF Begin
  <2>4. Seen(w)'
    BY <2>1, <2>3 DEF Seen
  <2> QED
    BY <2>1, <2>2, <2>4, LockKeeps
<1>5. ASSUME NEW b \in Booking, CancelLocked(w, b) PROVE FleetInv'
  <2> DEFINE ss == SlotsOf(b)
             rec == [Idle EXCEPT !.op = "cancel", !.slots = ss, !.machines = MachinesOf(ss),
                             !.freed = UNION {FreedBy(s) : s \in ss}]
  <2>1. /\ rec.op = "cancel" /\ rec.slots = ss /\ rec.machines = MachinesOf(ss)
        /\ \A s \in ss : FreedBy(s) \subseteq rec.freed
    BY DEF Idle
  <2>2. ss \subseteq Slot /\ \A s \in Slot : s \in ss <=> BookingOf[s] = b
    BY DEF SlotsOf
  <2>3. rec \in TxRow
    <3>1. ASSUME NEW m \in UNION {FreedBy(s) : s \in ss} PROVE m \in Machine
      <4>1. PICK s \in ss : m \in FreedBy(s)
        OBVIOUS
      <4>2. s \in Slot /\ m \in MachinesOf({s})
        BY <2>2, <4>1, FreedByType
      <4> QED
        BY <1>0, <4>2, MachinesOfType
    <3> QED
      BY <1>0, <2>2, <3>1, MachinesOfType DEF Idle, TxRow
  <2>4. Begin(w, rec) /\ Unlocked(rec.slots, rec.machines)
    BY <1>5, <2>1 DEF CancelLocked
  <2> HIDE DEF rec
  <2>5. tx'[w] = rec /\ UNCHANGED <<slot, status, cancelled>>
    BY <1>0, <2>4 DEF Begin, Data
  <2>6. HoldsMachines(w)' /\ NotOut(w)'
    BY <1>0, <1>5, <2>1, <2>2, <2>5, MachinesOfType DEF CancelLocked, HoldsMachines, NotOut
  <2>7. FreedIsRight(w)'
    <3> SUFFICES ASSUME NEW s \in ss, slot[s].st = "prepared", status[slot[s].machine] = "reserved",
                        slot[s].machine \notin FreedBy(s)
                 PROVE  \E t \in Slot \ ss : slot[t].st = "prepared" /\ slot[t].machine = slot[s].machine
      BY <2>1, <2>5 DEF FreedIsRight
    <3>1. PICK t \in Slot \ {s} : slot[t].st = "prepared" /\ slot[t].machine = slot[s].machine
      BY <1>0, <2>2, NotFreed
    <3>2. slot[s].machine # None
      BY <1>0, <2>2 DEF SlotHasMachine
    <3>3. t \notin ss
      BY <2>2, <3>1, <3>2 DEF FleetInv, DistinctInBooking
    <3> QED
      BY <3>1, <3>3
  <2>8. Seen(w)'
    BY <2>1, <2>5, <2>6, <2>7 DEF Seen, SlotsOf
  <2> QED
    BY <2>3, <2>4, <2>8, LockKeeps
<1>6. ASSUME NEW b \in Booking, IssueLocked(w, b) PROVE FleetInv'
  <2> DEFINE ss == SlotsOf(b)
             rec == [Idle EXCEPT !.op = "issue", !.slots = ss, !.machines = MachinesOf(ss)]
  <2>1. rec.op = "issue" /\ rec.slots = ss /\ rec.machines = MachinesOf(ss)
    BY DEF Idle
  <2>2. ss \subseteq Slot /\ \A s \in ss : BookingOf[s] = b
    BY DEF SlotsOf
  <2>3. rec \in TxRow
    BY <1>0, <2>2, MachinesOfType DEF Idle, TxRow
  <2>4. Begin(w, rec) /\ Unlocked(rec.slots, rec.machines)
    BY <1>6, <2>1 DEF IssueLocked
  <2>5. \A s \in ss : slot[s].st = "prepared" /\ ~HardBlocked(slot[s].machine, s) /\ b \notin cancelled
    BY <1>6 DEF IssueLocked, IssueReady, Operational
  <2> HIDE DEF rec
  <2>6. tx'[w] = rec /\ UNCHANGED <<slot, status, cancelled>>
    BY <1>0, <2>4 DEF Begin, Data
  <2>7. HoldsMachines(w)' /\ NotOut(w)' /\ StillOperational(w)'
    BY <1>0, <2>1, <2>2, <2>5, <2>6, MachinesOfType DEF HoldsMachines, NotOut, StillOperational
  <2>8. NobodyElseHasThem(w)'
    BY <2>1, <2>2, <2>5, <2>6 DEF NobodyElseHasThem, HardBlocked
  <2>9. MachinesOf(ss)' = MachinesOf(ss)
    BY <2>6 DEF MachinesOf, SlotsOf
  <2> QED
    <3>1. Seen(w)'
      BY <2>1, <2>6, <2>7, <2>8, <2>9 DEF Seen, SlotsOf
    <3> QED
      BY <2>3, <2>4, <3>1, LockKeeps
<1> QED
  BY <1>1, <1>2, <1>3, <1>4, <1>5, <1>6

-----------------------------------------------------------------------------
(* The second half: it writes and gives the locks back. *)

LEMMA SetAllType ==
    ASSUME FleetTyped, NEW ms \in SUBSET Machine, NEW st \in Statuses
    PROVE  /\ SetAll(ms, st) \in [Machine -> Statuses]
           /\ \A m \in Machine : SetAll(ms, st)[m] = IF m \in ms THEN st ELSE status[m]
BY DEF FleetTyped, SetAll

LEMMA IdleType == ASSUME FleetTyped, NEW w \in Worker, tx' = [tx EXCEPT ![w] = Idle] PROVE tx' \in [Worker -> TxRow]
BY DEF FleetTyped, Idle, TxRow

LEMMA AssignCommitKeeps == ASSUME FleetInv, NEW w \in Worker, AssignCommit(w) PROVE FleetInv'
<1> USE FleetAssumption
<1>0. FleetTyped /\ SlotHasMachine /\ slot \in [Slot -> SlotRow] /\ tx[w] \in TxRow /\ status \in [Machine -> Statuses]
  BY DEF FleetInv, FleetTyped
<1>1. PICK s \in tx[w].slots :
        /\ tx[w].op = "assign"
        /\ slot' = [slot EXCEPT ![s] =
              [st |-> IF slot[s].machine = tx[w].machine /\ slot[s].st = "prepared" THEN "prepared" ELSE "assigned",
               machine |-> tx[w].machine, accepted |-> tx[w].accepted,
               gen |-> IF slot[s].machine = tx[w].machine THEN slot[s].gen ELSE slot[s].gen + 1]]
        /\ status' = SetAll(tx[w].freed, "ready")
        /\ tx' = [tx EXCEPT ![w] = Idle]
        /\ UNCHANGED <<window, block, cancelled, lastReturn, charged, manual>>
  BY DEF AssignCommit
<1>2. /\ tx[w].slots = {s} /\ s \in Slot
      /\ HoldsMachines(w) /\ NotOut(w) /\ StillOperational(w) /\ MachineIsFree(w) /\ FreedIsRight(w)
  BY <1>0, <1>1 DEF FleetInv, Seen, TxRow
<1>3. /\ slot' \in [Slot -> SlotRow] /\ slot'[s].machine = tx[w].machine
      /\ tx[w].machine \in Machine /\ tx[w].machine \in tx[w].machines
      /\ slot'[s].st \in {"assigned", "prepared"}
      /\ slot[s].machine = tx[w].machine /\ slot[s].st = "prepared" => slot'[s].st = "prepared"
      /\ \A t \in Slot \ {s} : slot'[t] = slot[t]
  BY <1>0, <1>1, <1>2 DEF TxRow, SlotRow, SlotStates, MachineIsFree
<1>4. /\ status' \in [Machine -> Statuses]
      /\ \A m \in Machine : status'[m] = "reserved" => status[m] = "reserved" /\ m \notin tx[w].freed
  BY <1>0, <1>1, SetAllType DEF TxRow, Statuses
<1>5. FleetTyped' /\ SlotHasMachine' /\ DistinctInBooking'
  <2>1. FleetTyped'
    BY <1>0, <1>1, <1>3, <1>4, IdleType DEF FleetTyped
  <2>2. SlotHasMachine'
    BY <1>0, <1>3 DEF SlotHasMachine
  <2>3. DistinctInBooking'
    BY <1>2, <1>3 DEF FleetInv, DistinctInBooking, MachineIsFree, SlotsOf
  <2> QED
    BY <2>1, <2>2, <2>3
<1>6. Locks' /\ \A v \in Worker : Seen(v)'
  <2>1. \A t \in tx[w].slots : {slot[t].machine, slot'[t].machine} \subseteq tx[w].machines \cup {None}
    BY <1>2, <1>3 DEF HoldsMachines
  <2>2. \A m \in Machine : status'[m] = "reserved" => status[m] = "reserved" \/ m \in tx[w].machines
    BY <1>4
  <2>3. (\A t \in Slot \ tx[w].slots : slot'[t] = slot[t]) /\ cancelled' = cancelled
    BY <1>1, <1>2, <1>3
  <2> QED
    BY <1>1, <2>1, <2>2, <2>3, OthersSee
<1>7. OneHolder' /\ CancelledHoldsNothing' /\ ChargedToLastHolder'
  BY <1>1, <1>2, <1>3 DEF FleetInv, OneHolder, CancelledHoldsNothing, ChargedToLastHolder, StillOperational
<1>8. ReservedHasHolder'
  <2> SUFFICES ASSUME NEW m \in Machine, status[m] = "reserved", m \notin tx[w].freed
               PROVE  \E t \in Slot : slot'[t].machine = m /\ slot'[t].st = "prepared"
    BY <1>4 DEF ReservedHasHolder
  <2>1. PICK t \in Slot : slot[t].machine = m /\ slot[t].st = "prepared"
    BY DEF FleetInv, ReservedHasHolder
  <2>2. CASE t # s
    BY <1>3, <2>1, <2>2
  <2>3. CASE t = s /\ m = tx[w].machine
    BY <1>2, <1>3, <2>1, <2>3
  <2>4. CASE t = s /\ m # tx[w].machine
    <3>1. PICK u \in Slot \ {s} : slot[u].st = "prepared" /\ slot[u].machine = m
      BY <1>2, <2>1, <2>4 DEF FreedIsRight
    <3> QED
      BY <1>3, <3>1
  <2> QED
    BY <2>2, <2>3, <2>4
<1> QED
  BY <1>5, <1>6, <1>7, <1>8 DEF FleetInv

LEMMA ReleaseCommitKeeps == ASSUME FleetInv, NEW w \in Worker, ReleaseCommit(w) PROVE FleetInv'
<1> USE FleetAssumption
<1> DEFINE released == {s \in tx[w].slots : tx[w].op = "release" \/ slot[s].st \in {"assigned", "prepared"}}
           empty(s) == [st |-> "open", machine |-> None, accepted |-> None, gen |-> slot[s].gen]
<1>0. /\ FleetTyped /\ SlotHasMachine /\ slot \in [Slot -> SlotRow] /\ tx[w] \in TxRow
      /\ status \in [Machine -> Statuses] /\ cancelled \in SUBSET Booking
  BY DEF FleetInv, FleetTyped
<1>1. /\ tx[w].op \in {"release", "cancel"}
      /\ slot' = [s \in Slot |-> IF s \in released THEN empty(s) ELSE slot[s]]
      /\ status' = SetAll(tx[w].freed, "ready")
      /\ cancelled' = IF tx[w].op = "cancel" THEN cancelled \cup {BookingOf[s] : s \in tx[w].slots} ELSE cancelled
      /\ tx' = [tx EXCEPT ![w] = Idle]
      /\ UNCHANGED <<window, block, lastReturn, charged, manual>>
  BY DEF ReleaseCommit
<1>2. tx[w].slots \subseteq Slot /\ HoldsMachines(w) /\ NotOut(w) /\ FreedIsRight(w)
  BY <1>0, <1>1 DEF FleetInv, Seen, TxRow
<1>3. /\ \A s \in tx[w].slots : slot'[s].st = "open" /\ slot'[s].machine = None
      /\ \A s \in Slot \ tx[w].slots : slot'[s] = slot[s]
      /\ slot' \in [Slot -> SlotRow]
  <2>1. ASSUME NEW s \in released PROVE slot'[s].st = "open" /\ slot'[s].machine = None /\ slot'[s] \in SlotRow
    BY <1>0, <1>1, <1>2, <2>1 DEF SlotRow, SlotStates
  <2>2. ASSUME NEW s \in Slot \ released PROVE slot'[s] = slot[s] /\ slot'[s] \in SlotRow
    BY <1>0, <1>1, <2>2
  <2>3. ASSUME NEW s \in tx[w].slots, s \notin released PROVE slot[s].st = "open" /\ slot[s].machine = None
    BY <1>0, <1>2, <2>3 DEF SlotRow, SlotStates, NotOut, SlotHasMachine
  <2> HIDE DEF empty
  <2>4. slot' \in [Slot -> SlotRow]
    BY <1>1, <2>1, <2>2
  <2>5. released \subseteq tx[w].slots
    OBVIOUS
  <2> HIDE DEF released
  <2> QED
    BY <1>2, <2>1, <2>2, <2>3, <2>4, <2>5
<1> HIDE DEF released, empty
<1>4. /\ status' \in [Machine -> Statuses]
      /\ \A m \in Machine : status'[m] = "reserved" => status[m] = "reserved" /\ m \notin tx[w].freed
  BY <1>0, <1>1, SetAllType DEF TxRow, Statuses
<1>5. FleetTyped' /\ SlotHasMachine' /\ DistinctInBooking'
  <2>1. cancelled' \in SUBSET Booking
    BY <1>0, <1>1, <1>2
  <2>2. FleetTyped'
    BY <1>0, <1>1, <1>3, <1>4, <2>1, IdleType DEF FleetTyped
  <2>3. SlotHasMachine'
    BY <1>0, <1>2, <1>3 DEF SlotHasMachine
  <2>4. DistinctInBooking'
    BY <1>2, <1>3 DEF FleetInv, DistinctInBooking
  <2> QED
    BY <2>2, <2>3, <2>4
<1>6. Locks' /\ \A v \in Worker : Seen(v)'
  <2>1. \A b \in cancelled' : b \in cancelled \/ SlotsOf(b) \subseteq tx[w].slots
    <3>1. CASE tx[w].op = "release"
      BY <1>1, <3>1
    <3>2. CASE tx[w].op = "cancel"
      <4>1. PICK b \in Booking : tx[w].slots = SlotsOf(b)
        BY <3>2 DEF FleetInv, Seen
      <4>2. \A s \in tx[w].slots : BookingOf[s] = b
        BY <4>1 DEF SlotsOf
      <4> QED
        BY <1>1, <3>2, <4>1, <4>2
    <3> QED
      BY <1>1, <3>1, <3>2
  <2>2. \A s \in tx[w].slots : {slot[s].machine, slot'[s].machine} \subseteq tx[w].machines \cup {None}
    BY <1>2, <1>3 DEF HoldsMachines
  <2> QED
    BY <1>1, <1>3, <1>4, <2>1, <2>2, OthersSee
<1>7. OneHolder' /\ ChargedToLastHolder'
  <2>1. \A s \in Slot : slot'[s].st = "issued" => slot'[s] = slot[s]
    BY <1>2, <1>3
  <2>2. OneHolder'
    BY <2>1 DEF FleetInv, OneHolder
  <2>3. ChargedToLastHolder'
    BY <1>1 DEF FleetInv, ChargedToLastHolder
  <2> QED
    BY <2>2, <2>3
<1>8. CancelledHoldsNothing'
  <2> SUFFICES ASSUME NEW s \in Slot, BookingOf[s] \in cancelled'
               PROVE  slot'[s].st = "open" /\ slot'[s].machine = None
    BY DEF CancelledHoldsNothing
  <2>1. CASE s \in tx[w].slots
    BY <1>3, <2>1
  <2>2. CASE s \notin tx[w].slots /\ BookingOf[s] \in cancelled
    BY <1>3, <2>2 DEF FleetInv, CancelledHoldsNothing
  <2>3. CASE BookingOf[s] \notin cancelled
    <3>1. tx[w].op = "cancel"
      BY <1>1, <2>3
    <3>2. PICK b \in Booking : tx[w].slots = SlotsOf(b)
      BY <3>1 DEF FleetInv, Seen
    <3>3. s \in SlotsOf(b)
      BY <1>1, <2>3, <3>1, <3>2 DEF SlotsOf
    <3> QED
      BY <2>1, <3>2, <3>3
  <2> QED
    BY <2>1, <2>2, <2>3
<1>9. ReservedHasHolder'
  <2> SUFFICES ASSUME NEW m \in Machine, status[m] = "reserved", m \notin tx[w].freed
               PROVE  \E t \in Slot : slot'[t].machine = m /\ slot'[t].st = "prepared"
    BY <1>4 DEF ReservedHasHolder
  <2>1. PICK t \in Slot : slot[t].machine = m /\ slot[t].st = "prepared"
    BY DEF FleetInv, ReservedHasHolder
  <2>2. CASE t \notin tx[w].slots
    BY <1>3, <2>1, <2>2
  <2>3. CASE t \in tx[w].slots
    <3>1. PICK u \in Slot \ tx[w].slots : slot[u].st = "prepared" /\ slot[u].machine = m
      BY <1>1, <1>2, <2>1, <2>3 DEF FreedIsRight
    <3> QED
      BY <1>3, <3>1
  <2> QED
    BY <2>2, <2>3
<1> QED
  BY <1>5, <1>6, <1>7, <1>8, <1>9 DEF FleetInv

LEMMA PrepareCommitsKeep ==
    ASSUME FleetInv, NEW w \in Worker, PrepareCommit(w) \/ UnprepareCommit(w)
    PROVE  FleetInv'
<1> USE FleetAssumption
<1>0. FleetTyped /\ SlotHasMachine /\ slot \in [Slot -> SlotRow] /\ tx[w] \in TxRow /\ status \in [Machine -> Statuses]
  BY DEF FleetInv, FleetTyped
<1>1. PICK s \in tx[w].slots, st \in {"prepared", "assigned"} :
        /\ \/ tx[w].op = "prepare" /\ st = "prepared" /\ status' = SetAll(tx[w].freed, "reserved")
           \/ tx[w].op = "unprepare" /\ st = "assigned" /\ status' = SetAll(tx[w].freed, "ready")
        /\ slot' = [slot EXCEPT ![s].st = st]
        /\ tx' = [tx EXCEPT ![w] = Idle]
        /\ UNCHANGED <<window, block, cancelled, lastReturn, charged, manual>>
  BY DEF PrepareCommit, UnprepareCommit
<1>2. /\ tx[w].slots = {s} /\ s \in Slot /\ slot[s].st # "open" /\ tx[w].freed \in SUBSET Machine
      /\ HoldsMachines(w) /\ NotOut(w)
  BY <1>0, <1>1 DEF FleetInv, Seen, TxRow
<1>3. /\ slot' \in [Slot -> SlotRow] /\ slot'[s].machine = slot[s].machine /\ slot'[s].st = st
      /\ \A t \in Slot \ {s} : slot'[t] = slot[t]
  BY <1>0, <1>1, <1>2 DEF SlotRow, SlotStates
<1>5. status' \in [Machine -> Statuses]
  BY <1>0, <1>1, <1>2, SetAllType DEF Statuses
<1>6. FleetTyped' /\ SlotHasMachine' /\ DistinctInBooking'
  <2>1. FleetTyped'
    BY <1>0, <1>1, <1>3, <1>5, IdleType DEF FleetTyped
  <2>2. SlotHasMachine' /\ DistinctInBooking'
    BY <1>0, <1>2, <1>3 DEF FleetInv, SlotHasMachine, DistinctInBooking
  <2> QED
    BY <2>1, <2>2
<1>7. CancelledHoldsNothing' /\ OneHolder' /\ ChargedToLastHolder'
  <2>1. CancelledHoldsNothing'
    BY <1>1, <1>2, <1>3 DEF FleetInv, CancelledHoldsNothing
  <2>2. OneHolder'
    <3>1. \A t \in Slot : slot'[t].st = "issued" => slot'[t] = slot[t]
      BY <1>2, <1>3
    <3> QED
      BY <3>1 DEF FleetInv, OneHolder
  <2>3. ChargedToLastHolder'
    BY <1>1 DEF FleetInv, ChargedToLastHolder
  <2> QED
    BY <2>1, <2>2, <2>3
<1>8. /\ \A m \in Machine : status'[m] = "reserved" => status[m] = "reserved" \/ m \in tx[w].machines
      /\ ReservedHasHolder'
  <2>1. CASE tx[w].op = "prepare"
    <3>1. st = "prepared" /\ tx[w].freed \subseteq tx[w].machines \cap MachinesOf({s})
      BY <1>1, <1>2, <2>1 DEF FleetInv, Seen
    <3>2. \A m \in Machine : status'[m] = "reserved" => status[m] = "reserved" \/ m \in tx[w].freed
      BY <1>0, <1>1, <1>2, <2>1, SetAllType DEF Statuses
    <3>3. \A m \in tx[w].freed : m = slot[s].machine
      BY <3>1 DEF MachinesOf
    <3>4. \A m \in Machine : status[m] = "reserved" => \E t \in Slot : slot'[t].machine = m /\ slot'[t].st = "prepared"
      BY <1>2, <1>3, <3>1 DEF FleetInv, ReservedHasHolder
    <3> QED
      BY <1>2, <1>3, <3>1, <3>2, <3>3, <3>4 DEF ReservedHasHolder
  <2>2. CASE tx[w].op = "unprepare"
    <3>1. FreedIsRight(w)
      BY <2>2 DEF FleetInv, Seen
    <3>2. \A m \in Machine : status'[m] = "reserved" => status[m] = "reserved" /\ m \notin tx[w].freed
      BY <1>0, <1>1, <1>2, <2>2, SetAllType DEF Statuses
    <3>3. ASSUME NEW m \in Machine, status[m] = "reserved", m \notin tx[w].freed
          PROVE  \E t \in Slot : slot'[t].machine = m /\ slot'[t].st = "prepared"
      <4>1. PICK t \in Slot : slot[t].machine = m /\ slot[t].st = "prepared"
        BY <3>3 DEF FleetInv, ReservedHasHolder
      <4>2. CASE t # s
        BY <1>3, <4>1, <4>2
      <4>3. CASE t = s
        <5>1. PICK u \in Slot \ {s} : slot[u].st = "prepared" /\ slot[u].machine = m
          BY <1>2, <2>2, <3>1, <3>3, <4>1, <4>3 DEF FreedIsRight
        <5> QED
          BY <1>3, <5>1
      <4> QED
        BY <4>2, <4>3
    <3> QED
      BY <3>2, <3>3 DEF ReservedHasHolder
  <2> QED
    BY <1>1, <2>1, <2>2
<1>9. Locks' /\ \A v \in Worker : Seen(v)'
  <2>1. \A t \in tx[w].slots : {slot[t].machine, slot'[t].machine} \subseteq tx[w].machines \cup {None}
    BY <1>2, <1>3 DEF HoldsMachines
  <2>2. (\A t \in Slot \ tx[w].slots : slot'[t] = slot[t]) /\ cancelled' = cancelled /\ tx[w].op # "check"
    BY <1>1, <1>2, <1>3
  <2> QED
    BY <1>1, <1>8, <2>1, <2>2, OthersSee
<1> QED
  BY <1>6, <1>7, <1>8, <1>9 DEF FleetInv

LEMMA IssueCommitKeeps == ASSUME FleetInv, NEW w \in Worker, IssueCommit(w) PROVE FleetInv'
<1> USE FleetAssumption
<1>0. /\ FleetTyped /\ SlotHasMachine /\ slot \in [Slot -> SlotRow] /\ tx[w] \in TxRow
      /\ status \in [Machine -> Statuses] /\ window \in [Machine -> BOOLEAN]
  BY DEF FleetInv, FleetTyped
<1>1. /\ tx[w].op = "issue"
      /\ slot' = [s \in Slot |-> IF s \in tx[w].slots THEN [slot[s] EXCEPT !.st = "issued"] ELSE slot[s]]
      /\ status' = SetAll(tx[w].machines, "rented")
      /\ window' = [m \in Machine |-> window[m] /\ m \notin tx[w].machines]
      /\ tx' = [tx EXCEPT ![w] = Idle]
      /\ UNCHANGED <<block, cancelled, lastReturn, charged, manual>>
  BY DEF IssueCommit
<1>2. /\ tx[w].slots \subseteq Slot /\ tx[w].machines \in SUBSET Machine
      /\ HoldsMachines(w) /\ StillOperational(w) /\ NobodyElseHasThem(w)
      /\ \E b \in Booking : tx[w].slots = SlotsOf(b)
      /\ MachinesOf(tx[w].slots) \subseteq tx[w].machines
  BY <1>0, <1>1 DEF FleetInv, Seen, TxRow
<1>3. /\ \A s \in tx[w].slots : slot'[s].machine = slot[s].machine /\ slot'[s].st = "issued"
      /\ \A s \in Slot \ tx[w].slots : slot'[s] = slot[s]
      /\ slot' \in [Slot -> SlotRow]
  BY <1>0, <1>1, <1>2 DEF SlotRow, SlotStates
<1>4. /\ status' \in [Machine -> Statuses]
      /\ \A m \in Machine : status'[m] = "reserved" => status[m] = "reserved" /\ m \notin tx[w].machines
  BY <1>0, <1>1, <1>2, SetAllType DEF Statuses
<1>5. \A s \in tx[w].slots : slot[s].machine # None /\ slot[s].st = "prepared"
  BY <1>0, <1>2 DEF SlotHasMachine, NobodyElseHasThem
<1>6. FleetTyped' /\ SlotHasMachine' /\ DistinctInBooking'
  <2>1. FleetTyped'
    BY <1>0, <1>1, <1>3, <1>4, IdleType DEF FleetTyped
  <2>2. SlotHasMachine'
    BY <1>0, <1>3, <1>5 DEF SlotHasMachine
  <2>3. DistinctInBooking'
    <3>1. \A s \in Slot : slot'[s].machine = slot[s].machine
      BY <1>3
    <3> QED
      BY <3>1 DEF FleetInv, DistinctInBooking
  <2> QED
    BY <2>1, <2>2, <2>3
<1>7. CancelledHoldsNothing' /\ ChargedToLastHolder'
  <2>1. CancelledHoldsNothing'
    BY <1>1, <1>2, <1>3 DEF FleetInv, CancelledHoldsNothing, StillOperational
  <2>2. ChargedToLastHolder'
    BY <1>1 DEF FleetInv, ChargedToLastHolder
  <2> QED
    BY <2>1, <2>2
<1>8. OneHolder'
  <2> SUFFICES ASSUME NEW s \in Slot, NEW t \in Slot, s # t, slot'[s].st = "issued", slot'[t].st = "issued"
               PROVE  slot'[s].machine # slot'[t].machine
    BY DEF OneHolder
  <2>1. CASE s \in tx[w].slots /\ t \in tx[w].slots
    <3>1. BookingOf[s] = BookingOf[t]
      BY <1>2, <2>1 DEF SlotsOf
    <3> QED
      BY <1>3, <1>5, <2>1, <3>1 DEF FleetInv, DistinctInBooking
  <2>2. CASE s \notin tx[w].slots /\ t \notin tx[w].slots
    BY <1>3, <2>2 DEF FleetInv, OneHolder
  <2>3. CASE s \in tx[w].slots /\ t \notin tx[w].slots
    BY <1>2, <1>3, <2>3 DEF NobodyElseHasThem
  <2>4. CASE s \notin tx[w].slots /\ t \in tx[w].slots
    BY <1>2, <1>3, <2>4 DEF NobodyElseHasThem
  <2> QED
    BY <2>1, <2>2, <2>3, <2>4
<1>9. Locks' /\ \A v \in Worker : Seen(v)'
  <2>1. \A t \in tx[w].slots : {slot[t].machine, slot'[t].machine} \subseteq tx[w].machines \cup {None}
    BY <1>2, <1>3 DEF HoldsMachines
  <2>2. \A m \in Machine : status'[m] = "reserved" => status[m] = "reserved" \/ m \in tx[w].machines
    BY <1>4
  <2> QED
    BY <1>1, <1>3, <2>1, <2>2, OthersSee
<1>10. ReservedHasHolder'
  <2> SUFFICES ASSUME NEW m \in Machine, status[m] = "reserved", m \notin tx[w].machines
               PROVE  \E t \in Slot : slot'[t].machine = m /\ slot'[t].st = "prepared"
    BY <1>4 DEF ReservedHasHolder
  <2>1. PICK t \in Slot : slot[t].machine = m /\ slot[t].st = "prepared"
    BY DEF FleetInv, ReservedHasHolder
  <2>2. t \notin tx[w].slots
    BY <1>2, <1>5, <2>1 DEF HoldsMachines
  <2> QED
    BY <1>3, <2>1, <2>2
<1> QED
  BY <1>6, <1>7, <1>8, <1>9, <1>10 DEF FleetInv

(* A check only writes the evidence; a request that fails writes nothing.     *)
LEMMA CheckAndRollbackKeep ==
    ASSUME FleetInv, NEW w \in Worker, CheckCommit(w) \/ Rollback(w)
    PROVE  FleetInv'
<1>1. /\ tx' = [tx EXCEPT ![w] = Idle]
      /\ UNCHANGED <<slot, status, window, block, cancelled, lastReturn, charged, manual>>
  BY DEF CheckCommit, Rollback, Data
<1>2. FleetTyped'
  BY <1>1, IdleType DEF FleetInv, FleetTyped
<1>3. tx'[w] = Idle /\ \A v \in Worker \ {w} : tx'[v] = tx[v]
  BY <1>1 DEF FleetInv, FleetTyped
<1>4. Locks'
  BY <1>3 DEF FleetInv, Locks, Idle
<1>5. Seen(w)'
  BY <1>3 DEF Seen, Idle
<1>6. ASSUME NEW v \in Worker \ {w} PROVE Seen(v)'
  <2>1. tx'[v] = tx[v] /\ Seen(v)
    BY <1>3 DEF FleetInv
  <2> QED
    BY <1>1, <2>1 DEF Seen, HoldsMachines, NotOut, StillOperational, MachineIsFree,
                      NobodyElseHasThem, FreedIsRight, MachinesOf
<1>7. /\ SlotHasMachine' /\ DistinctInBooking' /\ OneHolder'
      /\ ReservedHasHolder' /\ CancelledHoldsNothing' /\ ChargedToLastHolder'
  BY <1>1 DEF FleetInv, SlotHasMachine, DistinctInBooking, OneHolder, ReservedHasHolder,
              CancelledHoldsNothing, ChargedToLastHolder
<1> QED
  BY <1>2, <1>4, <1>5, <1>6, <1>7 DEF FleetInv

LEMMA ReturnKeeps == ASSUME FleetInv, NEW b \in Booking, Return(b) PROVE FleetInv'
<1> USE FleetAssumption
<1> DEFINE ss == SlotsOf(b)
           ms == MachinesOf(ss)
<1>0. /\ FleetTyped /\ SlotHasMachine /\ slot \in [Slot -> SlotRow] /\ status \in [Machine -> Statuses]
      /\ window \in [Machine -> BOOLEAN] /\ lastReturn \in [Machine -> Booking \cup {None}]
      /\ ss \in SUBSET Slot
  BY DEF FleetInv, FleetTyped, SlotsOf
<1>1. /\ ms \in SUBSET Machine
      /\ \A s \in ss : slot[s].machine \in ms \cup {None}
  BY <1>0, MachinesOfType
<1>2. /\ \A s \in ss : slot[s].st = "issued"
      /\ slot' = [s \in Slot |-> IF s \in ss THEN [slot[s] EXCEPT !.st = "returned"] ELSE slot[s]]
      /\ status' = SetAll(ms, "cleaning")
      /\ window' = [m \in Machine |-> window[m] \/ m \in ms]
      /\ lastReturn' = [m \in Machine |-> IF m \in ms THEN b ELSE lastReturn[m]]
      /\ UNCHANGED <<block, evidence, cancelled, charged, tx, manual>>
      /\ Unlocked(ss, ms)
  BY DEF Return
<1> HIDE DEF ss, ms
<1>3. /\ \A s \in ss : slot'[s].machine = slot[s].machine /\ slot'[s].st = "returned"
      /\ \A s \in Slot \ ss : slot'[s] = slot[s]
      /\ slot' \in [Slot -> SlotRow]
  BY <1>0, <1>2 DEF SlotRow, SlotStates
<1>4. /\ status' \in [Machine -> Statuses]
      /\ \A m \in Machine : status'[m] = "reserved" => status[m] = "reserved"
  BY <1>0, <1>1, <1>2, SetAllType DEF Statuses
<1>5. FleetTyped' /\ SlotHasMachine' /\ DistinctInBooking'
  <2>1. FleetTyped'
    BY <1>0, <1>2, <1>3, <1>4 DEF FleetTyped
  <2>2. SlotHasMachine'
    BY <1>0, <1>2, <1>3 DEF SlotHasMachine
  <2>3. DistinctInBooking'
    <3>1. \A s \in Slot : slot'[s].machine = slot[s].machine
      BY <1>3
    <3> QED
      BY <3>1 DEF FleetInv, DistinctInBooking
  <2> QED
    BY <2>1, <2>2, <2>3
<1>6. Locks'
  BY <1>2 DEF FleetInv, Locks
<1>7. ASSUME NEW w \in Worker PROVE Seen(w)'
  <2>1. tx[w].op # "check" => tx[w].slots \cap ss = {} /\ tx[w].machines \cap ms = {}
    BY <1>2 DEF Unlocked
  <2>2. \A s \in ss : {slot[s].machine, slot'[s].machine} \subseteq ms \cup {None}
    BY <1>1, <1>3
  <2>3. \A m \in Machine : status'[m] = "reserved" => status[m] = "reserved" \/ m \in ms
    BY <1>4
  <2>4. tx'[w] = tx[w] /\ cancelled' = cancelled /\ Seen(w)
    BY <1>2 DEF FleetInv
  <2> QED
    BY <1>0, <1>1, <1>3, <2>1, <2>2, <2>3, <2>4, SeenStays
<1>8. OneHolder' /\ CancelledHoldsNothing' /\ ChargedToLastHolder'
  <2>1. OneHolder'
    <3>1. \A s \in Slot : slot'[s].st = "issued" => slot'[s] = slot[s]
      BY <1>3
    <3> QED
      BY <3>1 DEF FleetInv, OneHolder
  <2>2. CancelledHoldsNothing'
    BY <1>0, <1>2, <1>3 DEF FleetInv, CancelledHoldsNothing
  <2>3. ChargedToLastHolder'
    BY <1>2 DEF FleetInv, ChargedToLastHolder
  <2> QED
    BY <2>1, <2>2, <2>3
<1>9. ReservedHasHolder'
  <2> SUFFICES ASSUME NEW m \in Machine, status[m] = "reserved"
               PROVE  \E t \in Slot : slot'[t].machine = m /\ slot'[t].st = "prepared"
    BY <1>4 DEF ReservedHasHolder
  <2>1. PICK t \in Slot : slot[t].machine = m /\ slot[t].st = "prepared"
    BY DEF FleetInv, ReservedHasHolder
  <2> QED
    BY <1>2, <1>3, <2>1
<1> QED
  BY <1>5, <1>6, <1>7, <1>8, <1>9 DEF FleetInv

(* Manual operations on a machine, and what is booked on its last customer.   *)
LEMMA ManualKeeps ==
    ASSUME FleetInv, NEW m \in Machine,
           \/ \E st \in ManualStatuses : SetStatus(m, st)
           \/ CompleteCleaning(m) \/ ChangeBlock(m) \/ PostReturnFinding(m) \/ TechnicalDefect(m)
    PROVE  FleetInv'
<1>0. /\ status \in [Machine -> Statuses] /\ window \in [Machine -> BOOLEAN]
      /\ block \in SUBSET Machine /\ manual \in Nat
  BY DEF FleetInv, FleetTyped
<1>1. UNCHANGED <<slot, cancelled, tx, lastReturn, evidence>>
  BY DEF SetStatus, CompleteCleaning, ChangeBlock, PostReturnFinding, TechnicalDefect
<1>2. /\ status' \in [Machine -> Statuses]
      /\ \A n \in Machine : status'[n] = "reserved" => status[n] = "reserved"
  BY <1>0 DEF SetStatus, CompleteCleaning, ChangeBlock, PostReturnFinding, TechnicalDefect,
              ManualStatuses, Statuses
<1>3. window' \in [Machine -> BOOLEAN] /\ block' \in SUBSET Machine /\ manual' \in Nat
  <2>1. \/ window' = window
        \/ window' = [window EXCEPT ![m] = FALSE]
        \/ window' = [window EXCEPT ![m] = @ /\ status[m] # "cleaning"]
    BY DEF SetStatus, CompleteCleaning, ChangeBlock, PostReturnFinding, TechnicalDefect
  <2>2. window' \in [Machine -> BOOLEAN]
    BY <1>0, <2>1
  <2>3. block' \in SUBSET Machine
    BY <1>0 DEF SetStatus, CompleteCleaning, ChangeBlock, PostReturnFinding, TechnicalDefect
  <2>4. manual' \in Nat
    BY <1>0 DEF SetStatus, CompleteCleaning, ChangeBlock, PostReturnFinding, TechnicalDefect
  <2> QED
    BY <2>2, <2>3, <2>4
<1>4. FleetTyped' /\ SlotHasMachine' /\ DistinctInBooking' /\ OneHolder' /\ CancelledHoldsNothing'
  BY <1>1, <1>2, <1>3 DEF FleetInv, FleetTyped, SlotHasMachine, DistinctInBooking, OneHolder, CancelledHoldsNothing
<1>5. ReservedHasHolder'
  BY <1>1, <1>2 DEF FleetInv, ReservedHasHolder
<1>6. Locks' /\ \A w \in Worker : Seen(w)'
  BY <1>1, <1>2, NobodyMinds
<1>7. ChargedToLastHolder'
  <2>1. CASE charged' = charged
    BY <2>1 DEF FleetInv, ChargedToLastHolder
  <2>2. CASE NotReissued(m) /\ Charge(m)
    <3>1. {s \in Slot : slot[s].machine = m /\ slot[s].st = "issued"} = {}
      BY <2>2 DEF NotReissued
    <3>2. Holder(m) = {lastReturn[m]}
      BY <3>1 DEF Holder
    <3> QED
      BY <2>2, <3>2 DEF Charge, FleetInv, ChargedToLastHolder
  <2> QED
    BY <2>1, <2>2 DEF SetStatus, CompleteCleaning, ChangeBlock, PostReturnFinding, TechnicalDefect
<1> QED
  BY <1>4, <1>5, <1>6, <1>7 DEF FleetInv

-----------------------------------------------------------------------------
(* Invariance. *)

LEMMA FleetInitially == FleetInit => FleetInv
<1> SUFFICES ASSUME FleetInit PROVE FleetInv
  OBVIOUS
<1> USE FleetAssumption
<1>1. FleetTyped
  BY DEF FleetInit, FleetTyped, SlotRow, SlotStates, Statuses, Idle, TxRow
<1>2. /\ \A s \in Slot : slot[s].st = "open" /\ slot[s].machine = None
      /\ \A w \in Worker : tx[w] = Idle
      /\ \A m \in Machine : status[m] = "ready"
  BY DEF FleetInit
<1>3. SlotHasMachine /\ DistinctInBooking /\ OneHolder /\ ReservedHasHolder /\ CancelledHoldsNothing
  BY <1>2 DEF SlotHasMachine, DistinctInBooking, OneHolder, ReservedHasHolder, CancelledHoldsNothing
<1>4. Locks /\ \A w \in Worker : Seen(w)
  <2>1. Idle.op = "idle" /\ Idle.slots = {} /\ Idle.machines = {}
    BY DEF Idle
  <2>2. Locks
    BY <1>2, <2>1 DEF Locks
  <2>3. \A w \in Worker : Seen(w)
    BY <1>2, <2>1 DEF Seen
  <2> QED
    BY <2>2, <2>3
<1>5. ChargedToLastHolder
  BY DEF FleetInit, ChargedToLastHolder
<1> QED
  BY <1>1, <1>3, <1>4, <1>5 DEF FleetInv

LEMMA FleetNextKeeps == FleetInv /\ [FleetNext]_fleetVars => FleetInv'
<1> SUFFICES ASSUME FleetInv, [FleetNext]_fleetVars PROVE FleetInv'
  OBVIOUS
<1>1. CASE UNCHANGED fleetVars
  BY <1>1 DEF fleetVars, FleetInv, FleetTyped, SlotHasMachine, DistinctInBooking, Locks, OneHolder,
              ReservedHasHolder, CancelledHoldsNothing, ChargedToLastHolder, Seen, HoldsMachines, NotOut,
              StillOperational, MachineIsFree, NobodyElseHasThem, FreedIsRight, MachinesOf
<1>2. ASSUME NEW w \in Worker, WorkerStep(w) PROVE FleetInv'
  BY <1>2, LocksKeep, AssignCommitKeeps, ReleaseCommitKeeps, PrepareCommitsKeep, IssueCommitKeeps,
     CheckAndRollbackKeep DEF WorkerStep
<1>3. CASE ManualStep
  BY <1>3, ReturnKeeps, ManualKeeps DEF ManualStep
<1> QED
  BY <1>1, <1>2, <1>3 DEF FleetNext

(* Whatever requests, manual operations and failures do: what a request read *)
(* under its locks still holds when it writes (assignment-service.ts,        *)
(* handover-service.ts, cancellation-service.ts).                            *)
THEOREM FleetInvariance == FleetSpec => []FleetInv
BY FleetInitially, FleetNextKeeps, PTL DEF FleetSpec

(* Slots, machines and requests stay well formed.                            *)
THEOREM FleetTypeCorrect == FleetSpec => []FleetTyped
BY FleetInvariance, PTL DEF FleetInv

(* A machine is with one customer at a time.                                 *)
THEOREM MachineHasOneHolder == FleetSpec => []OneHolder
BY FleetInvariance, PTL DEF FleetInv

(* A machine never stays reserved when no slot has it prepared any more, and *)
(* no slot of a cancelled booking is given a machine or handed out.          *)
THEOREM NothingIsHeldInVain == FleetSpec => []NothingHeldInVain
BY FleetInvariance, PTL DEF FleetInv, NothingHeldInVain

(* A finding after the return and a defect charge the last customer only.    *)
THEOREM LastHolderIsCharged == FleetSpec => []ChargedToLastHolder
BY FleetInvariance, PTL DEF FleetInv

-----------------------------------------------------------------------------
Kind == {"recipient", "signature", "photo", "finalize"}
RowState == {"pending", "due", "syncing", "synced", "cleaned", "conflict", "failed_permanent",
             "failed_retryable", "discarded"}
Signing == [name : Name, shown : Name, by : Int]
Capture == [kind : Kind, name : Name, st : RowState, deps : SUBSET Ids,
            base : [name : Name, sig : Signing \cup {Nil}]]
Engine == [todo : SUBSET Ids, open : SUBSET Ids, cur : Ids \cup {0}]
Delivery == [id : Ids, tab : Tab \cup {Nil}, nr : Nat]
DraftRead == [name : Name, sig : Signing \cup {Nil}]
Serves == [id : Ids, tab : Tab \cup {Nil}, at : {"begun", "looked", "rendered"},
           draft : DraftRead \cup {Nil}, outcome : {Nil, "applied", "conflict", "rejected"}]
Stored == [name : Name, sig : Signing \cup {Nil}, photos : SUBSET Ids,
           final : {"open", "device", "colleague", "meanwhile"}]

OfflineTyped ==
    /\ queue \in Seq(Capture) /\ Captured \subseteq Ids
    /\ tab \in [Tab -> Engine]
    /\ net \in SUBSET Delivery
    /\ answer \in [Tab -> {Nil, "applied", "conflict", "rejected", "busy"}]
    /\ serving \in Serves \cup {Nil}
    /\ receipt \in [Ids -> {"none", "processing", "stale", "applied", "conflict", "rejected"}]
    /\ handover \in Stored
    /\ trouble \in Nat

(* A capture that no longer has to be waited for.                            *)
Done(j) == receipt[j] = "applied" \/ queue[j].st = "discarded"
AllBefore(i) == \A j \in 1 .. i - 1 : Done(j)

(* Only what was captured is sent, served and received.                      *)
Serving(i) == serving # Nil /\ serving.id = i
WasSent(i) == (\E m \in net : m.id = i) \/ Serving(i) \/ receipt[i] # "none"
OnlyCaptured ==
    /\ \A t \in Tab : tab[t].todo \subseteq Captured /\ tab[t].cur \in Captured \cup {0}
    /\ \A i \in Ids : WasSent(i) => i \in Captured

(* What a tab waits for is on its way, being served, or answered: one of the *)
(* three, and it is the row the tab has sent.                                *)
Asking(m, t) == m \in net /\ m.tab = t
ServingFor(t) == serving # Nil /\ serving.tab = t
OneAtATime ==
    \A t \in Tab :
        /\ \A m, n \in net : m.tab = t /\ n.tab = t => m = n
        /\ \A m \in net : m.tab = t => m.id = tab[t].cur /\ ~ServingFor(t) /\ answer[t] = Nil
        /\ ServingFor(t) => serving.id = tab[t].cur /\ answer[t] = Nil
        /\ answer[t] # Nil => tab[t].cur # 0
        /\ answer[t] = "applied" => receipt[tab[t].cur] = "applied"

(* A receipt is the effect, and only a request that is not yet settled is    *)
(* served.                                                                   *)
Effect(i) == /\ queue[i].kind = "photo" => i \in handover.photos
             /\ queue[i].kind = "finalize" => handover.final \in {"device", "meanwhile"}
(* A finalisation that goes on has seen the handover open: if it is finalised *)
(* before the write, it is the colleague's meanwhile.                        *)
LookedOpen == (At("looked") \/ At("rendered")) /\ Finalises => handover.final \in {"open", "meanwhile"}
EffectsAreThere ==
    /\ \A i \in Captured : receipt[i] = "applied" => Effect(i)
    /\ serving # Nil => receipt[serving.id] \in {"processing", "stale"}
    /\ serving # Nil /\ serving.outcome = "applied" => Effect(serving.id)
    /\ LookedOpen
    /\ \A i \in Captured : queue[i].st \in {"synced", "cleaned"} => receipt[i] = "applied"

(* A finalisation waits for all before it: the row depends on what was open  *)
(* then, the run knows what is open still, and once it is sent all before it *)
(* is done.                                                                  *)
FinalisationWaits ==
    /\ \A i \in Captured : queue[i].kind = "finalize" => \A j \in 1 .. i - 1 : j \in queue[i].deps \/ Done(j)
    /\ \A t \in Tab : \A i \in tab[t].todo : \A j \in 1 .. i - 1 : j \in tab[t].open \/ Done(j)
    /\ \A i \in Captured : queue[i].kind = "finalize" /\ WasSent(i) => AllBefore(i)

OfflineInv == OfflineTyped /\ OnlyCaptured /\ OneAtATime /\ EffectsAreThere /\ FinalisationWaits

LEMMA OfflineIsSafeNow == OfflineInv => OfflineSafety
  <1> SUFFICES ASSUME OfflineInv PROVE OfflineSafety
  OBVIOUS
<1>1. AcknowledgedIsThere
  BY DEF OfflineInv, AcknowledgedIsThere, EffectsAreThere, Effect
<1>2. FinalisedWithAll
  BY DEF OfflineInv, FinalisedWithAll, FinalisationWaits, AllBefore, Done, WasSent
<1>3. SyncedIsInert
  BY DEF OfflineInv, OfflineTyped, SyncedIsInert, EffectsAreThere, OnlyCaptured, WasSent, Serving, Serves
<1> QED BY <1>1, <1>2, <1>3 DEF OfflineSafety

(* ------------------------------ the queue ------------------------------- *)
(* The rows stay, and only their states change.                              *)
RowsStay == /\ Len(queue') = Len(queue)
            /\ \A i \in Captured : queue'[i].kind = queue[i].kind /\ queue'[i].deps = queue[i].deps

LEMMA RowRestated ==
    ASSUME queue \in Seq(Capture), NEW i \in Captured, NEW st \in RowState, queue' = [queue EXCEPT ![i].st = st]
    PROVE  /\ queue' \in Seq(Capture) /\ RowsStay /\ queue'[i].st = st
           /\ \A j \in Captured \ {i} : queue'[j] = queue[j]
<1>1. PICK row : row = [queue[i] EXCEPT !.st = st]
  OBVIOUS
<1>2. Len(queue) \in Nat /\ queue \in [1 .. Len(queue) -> Capture] /\ queue[i] \in Capture
  BY DEF Captured
<1>3. row \in Capture /\ row.st = st /\ row.kind = queue[i].kind /\ row.deps = queue[i].deps
  BY <1>1, <1>2 DEF Capture
<1>4. queue' = [queue EXCEPT ![i] = row]
  BY <1>1
<1>5. queue' \in [1 .. Len(queue) -> Capture]
  BY <1>2, <1>3, <1>4
<1>6. queue' \in Seq(Capture) /\ Len(queue') = Len(queue)
  BY <1>2, <1>5
<1> QED BY <1>2, <1>3, <1>4, <1>6 DEF RowsStay, Captured

LEMMA RowsRead ==
    ASSUME OfflineTyped
    PROVE  /\ Len(queue) \in Nat /\ Captured = 1 .. Len(queue)
           /\ \A i \in Captured : i \in Ids /\ queue[i] \in Capture /\ i \in Nat /\ i # 0
  BY DEF OfflineTyped, Captured

LEMMA NotYetCaptured ==
    ASSUME RowsStay PROVE Captured' = Captured
  BY DEF RowsStay, Captured

(* What is done stays done, and what a run no longer waits for is done.      *)
LEMMA WaitsOn ==
    ASSUME OfflineInv, RowsStay, \A j \in Captured : Done(j) => Done(j)',
           \A t \in Tab : \/ /\ tab'[t].todo \subseteq tab[t].todo
                             /\ tab'[t].todo # {} => \A j \in tab[t].open : j \in tab'[t].open \/ Done(j)'
                          \/ /\ tab'[t].todo \subseteq Captured
                             /\ \A j \in Captured : j \in tab'[t].open \/ Done(j)',
           \A i \in Captured : WasSent(i)' => WasSent(i) \/ (queue[i].kind = "finalize" => AllBefore(i))
    PROVE  FinalisationWaits'
<1>1. Captured' = Captured /\ \A i \in Captured : \A j \in 1 .. i - 1 : j \in Captured
  BY NotYetCaptured, RowsRead DEF OfflineInv
<1>2. ASSUME NEW i \in Captured, queue'[i].kind = "finalize", NEW j \in 1 .. i - 1
      PROVE  j \in queue'[i].deps \/ Done(j)'
  BY <1>1, <1>2 DEF OfflineInv, FinalisationWaits, RowsStay
<1>3. ASSUME NEW t \in Tab, NEW i \in tab'[t].todo, NEW j \in 1 .. i - 1 PROVE j \in tab'[t].open \/ Done(j)'
  <2>1. CASE i \in tab[t].todo
    <3>1. i \in Captured /\ (j \in tab[t].open \/ Done(j))
      BY <2>1 DEF OfflineInv, OnlyCaptured, FinalisationWaits
    <3> QED BY <1>1, <1>3, <3>1
  <2>2. CASE i \notin tab[t].todo
    BY <1>1, <1>3, <2>2
  <2> QED BY <2>1, <2>2
<1>4. ASSUME NEW i \in Captured, queue'[i].kind = "finalize", WasSent(i)' PROVE AllBefore(i)'
  <2>1. AllBefore(i)
    BY <1>4 DEF OfflineInv, FinalisationWaits, RowsStay
  <2> QED BY <1>1, <2>1 DEF AllBefore
<1> QED BY <1>1, <1>2, <1>3, <1>4 DEF FinalisationWaits

(* What is served goes on as it was, for a row of the same kind.             *)
LEMMA StillLookedOpen ==
    ASSUME OfflineInv, handover' = handover,
           serving' # Nil => /\ serving # Nil /\ serving'.id = serving.id /\ serving'.at = serving.at
                             /\ serving'.outcome = serving.outcome /\ queue'[serving.id].kind = queue[serving.id].kind
    PROVE  LookedOpen'
  BY DEF OfflineInv, EffectsAreThere, LookedOpen, At, Finalises

(* A state of a row changes, and nothing else.                               *)
LEMMA RowMoves ==
    ASSUME OfflineInv, NEW i \in Captured, NEW st \in RowState, queue' = [queue EXCEPT ![i].st = st],
           queue[i].st # "discarded", st \in {"synced", "cleaned"} => queue[i].st \in {"synced", "cleaned"},
           UNCHANGED <<tab, net, answer, serving, receipt, handover>>, trouble' \in Nat
    PROVE  OfflineInv'
<1>1. /\ queue' \in Seq(Capture) /\ RowsStay /\ queue'[i].st = st
      /\ \A j \in Captured \ {i} : queue'[j] = queue[j]
  BY RowRestated DEF OfflineInv, OfflineTyped
<1>2. Captured' = Captured
  BY <1>1, NotYetCaptured
<1>3. OfflineTyped'
  BY <1>1, <1>2 DEF OfflineInv, OfflineTyped
<1>4. OnlyCaptured'
  BY <1>2 DEF OfflineInv, OnlyCaptured, WasSent, Serving
<1>5. OneAtATime'
  BY DEF OfflineInv, OneAtATime, ServingFor
<1>6. EffectsAreThere'
  <2>1. \A j \in Captured : queue'[j].kind = queue[j].kind /\ Effect(j)' = Effect(j)
    BY <1>1 DEF RowsStay, Effect
  <2>2. serving # Nil => serving.id \in Captured
    BY DEF OfflineInv, OnlyCaptured, WasSent, Serving, OfflineTyped, Serves
  <2>3. \A j \in Captured : queue'[j].st \in {"synced", "cleaned"} => receipt'[j] = "applied"
    BY <1>1 DEF OfflineInv, EffectsAreThere
  <2>4. LookedOpen'
    BY <2>1, <2>2, StillLookedOpen
  <2> QED BY <1>2, <2>1, <2>2, <2>3, <2>4 DEF OfflineInv, EffectsAreThere
<1>7. FinalisationWaits'
  <2>1. \A j \in Captured : Done(j) => Done(j)'
    BY <1>1 DEF Done
  <2>2. \A j \in Captured : WasSent(j)' => WasSent(j)
    BY DEF WasSent, Serving
  <2> QED BY <1>1, <2>1, <2>2, WaitsOn
<1> QED BY <1>3, <1>4, <1>5, <1>6, <1>7 DEF OfflineInv

LEMMA ReviewStep == ASSUME OfflineInv, NEW i \in Captured, Review(i) \/ Discard(i) \/ CleanupSynced(i) PROVE OfflineInv'
<1>1. CASE Review(i)
  <2>1. "pending" \in RowState /\ trouble' \in Nat
    BY <1>1 DEF Review, Trouble, RowState, OfflineInv, OfflineTyped
  <2> QED BY <1>1, <2>1, RowMoves DEF Review
<1>2. CASE Discard(i)
  <2>1. "discarded" \in RowState /\ trouble' \in Nat
    BY <1>2 DEF Discard, RowState, OfflineInv, OfflineTyped
  <2> QED BY <1>2, <2>1, RowMoves DEF Discard
<1>3. CASE CleanupSynced(i)
  <2>1. "cleaned" \in RowState /\ trouble' \in Nat
    BY <1>3 DEF CleanupSynced, RowState, OfflineInv, OfflineTyped
  <2> QED BY <1>3, <2>1, RowMoves DEF CleanupSynced
<1> QED BY <1>1, <1>2, <1>3

LEMMA BackoffStep == ASSUME OfflineInv, NEW i \in Ids, BackoffOver(i) PROVE OfflineInv'
<1>1. "due" \in RowState /\ trouble' \in Nat
  BY DEF BackoffOver, RowState, OfflineInv, OfflineTyped
<1> QED BY <1>1, RowMoves DEF BackoffOver

(* ------------------------------ the server ------------------------------ *)
(* Nothing moves on the device but what it hears.                            *)
LEMMA ServerSide ==
    ASSUME OfflineInv, OfflineTyped', UNCHANGED <<queue, tab>>,
           \A i \in Ids : receipt[i] = "applied" => receipt'[i] = "applied",
           \A i \in Ids : WasSent(i)' => WasSent(i),
           OneAtATime', EffectsAreThere'
    PROVE  OfflineInv'
<1>1. RowsStay /\ Captured' = Captured
  BY DEF RowsStay, Captured
<1>2. OnlyCaptured'
  BY <1>1 DEF OfflineInv, OnlyCaptured
<1>3. \A j \in Captured : Done(j) => Done(j)'
  BY RowsRead DEF Done, OfflineInv
<1>4. FinalisationWaits'
  BY <1>1, <1>3, WaitsOn, RowsRead DEF OfflineInv
<1> QED BY <1>2, <1>4 DEF OfflineInv

Answer == {"applied", "conflict", "rejected", "busy"}

(* A reply reaches the tab that asked, if it still waits.                    *)
LEMMA ReplyTyped ==
    ASSUME OfflineTyped, NEW t \in Tab \cup {Nil}, NEW what \in Answer, Reply(t, what)
    PROVE  /\ answer' \in [Tab -> {Nil, "applied", "conflict", "rejected", "busy"}]
           /\ \A u \in Tab : answer'[u] = IF u = t THEN what ELSE answer[u]
  BY OfflineAssumption DEF OfflineTyped, Reply, Answer

LEMMA DeliveryRead ==
    ASSUME OfflineTyped, NEW m \in net
    PROVE  m \in Delivery /\ m.id \in Ids /\ m.tab \in Tab \cup {Nil}
  BY DEF OfflineTyped, Delivery

LEMMA ServesRead ==
    ASSUME OfflineTyped, serving # Nil
    PROVE  /\ serving \in Serves /\ serving.id \in Ids /\ serving.tab \in Tab \cup {Nil}
           /\ serving.outcome \in {Nil, "applied", "conflict", "rejected"}
  BY DEF OfflineTyped, Serves

(* A delivery is answered at once, with the receipt as it stands.            *)
LEMMA AnsweredOff ==
    ASSUME OfflineInv, NEW m \in net, NEW what \in Answer, Reply(m.tab, what), net' = net \ {m},
           UNCHANGED <<queue, tab, serving, handover>>,
           \A i \in Ids : receipt'[i] = receipt[i] \/ (i = m.id /\ serving = Nil /\ receipt'[i] = "applied" /\ Effect(i)),
           receipt' \in [Ids -> {"none", "processing", "stale", "applied", "conflict", "rejected"}],
           what = "applied" => receipt'[m.id] = "applied", trouble' \in Nat
    PROVE  OfflineInv'
<1>1. /\ m.id \in Ids /\ m.tab \in Tab \cup {Nil}
      /\ answer' \in [Tab -> {Nil, "applied", "conflict", "rejected", "busy"}]
      /\ \A u \in Tab : answer'[u] = IF u = m.tab THEN what ELSE answer[u]
  BY DeliveryRead, ReplyTyped DEF OfflineInv
<1>2. OfflineTyped'
  BY <1>1 DEF OfflineInv, OfflineTyped, Captured
<1>3. \A i \in Ids : receipt[i] = "applied" => receipt'[i] = "applied"
  OBVIOUS
<1>4. \A i \in Ids : WasSent(i)' => WasSent(i)
  BY DEF WasSent, Serving
<1>5. OneAtATime'
  <2> SUFFICES ASSUME NEW t \in Tab
               PROVE  /\ \A k, n \in net' : k.tab = t /\ n.tab = t => k = n
                      /\ \A k \in net' : k.tab = t => k.id = tab[t].cur /\ ~ServingFor(t) /\ answer'[t] = Nil
                      /\ ServingFor(t) => serving.id = tab[t].cur /\ answer'[t] = Nil
                      /\ answer'[t] # Nil => tab[t].cur # 0
                      /\ answer'[t] = "applied" => receipt'[tab[t].cur] = "applied"
    BY DEF OneAtATime, ServingFor
  <2>1. /\ \A k, n \in net : k.tab = t /\ n.tab = t => k = n
        /\ \A k \in net : k.tab = t => k.id = tab[t].cur /\ ~ServingFor(t) /\ answer[t] = Nil
        /\ ServingFor(t) => serving.id = tab[t].cur /\ answer[t] = Nil
        /\ answer[t] # Nil => tab[t].cur # 0
        /\ answer[t] = "applied" => receipt[tab[t].cur] = "applied"
    BY DEF OfflineInv, OneAtATime
  <2>2. tab[t].cur \in Ids \cup {0}
    BY DEF OfflineInv, OfflineTyped, Engine
  <2>3. CASE t = m.tab
    <3>1. m.id = tab[t].cur /\ ~ServingFor(t) /\ m.id # 0 /\ m.id \in Captured
      BY <2>1, <2>3, <1>1, RowsRead DEF OfflineInv, OnlyCaptured, WasSent
    <3> QED BY <2>1, <2>3, <3>1, <1>1
  <2>4. CASE t # m.tab
    <3>1. answer'[t] = answer[t]
      BY <1>1, <2>4
    <3>2. answer[t] = "applied" => tab[t].cur \in Ids
      BY <2>1, <2>2, OfflineAssumption
    <3> QED BY <2>1, <3>1, <3>2, <1>3
  <2> QED BY <2>3, <2>4
<1>6. EffectsAreThere'
  <2>1. Captured' = Captured /\ \A i \in Ids : Effect(i)' = Effect(i)
    BY DEF Captured, Effect
  <2>2. \A i \in Captured : i \in Ids
    BY RowsRead DEF OfflineInv
  <2>3. serving # Nil => serving.id \in Ids
    BY ServesRead DEF OfflineInv
  <2>4. LookedOpen'
    BY StillLookedOpen
  <2> QED BY <2>1, <2>2, <2>3, <2>4 DEF OfflineInv, EffectsAreThere
<1> QED BY <1>2, <1>3, <1>4, <1>5, <1>6, ServerSide

LEMMA AnsweredStep == ASSUME OfflineInv, NEW m \in net, Answered(m) PROVE OfflineInv'
<1>1. m.id \in Ids /\ {"applied", "busy"} \subseteq Answer /\ serving = Nil
  BY DeliveryRead DEF OfflineInv, Answer, Answered
<1>2. receipt \in [Ids -> {"none", "processing", "stale", "applied", "conflict", "rejected"}] /\ trouble' \in Nat
  BY DEF OfflineInv, OfflineTyped, Answered
<1>3. CASE Settled(m.id) /\ Reply(m.tab, "applied") /\ UNCHANGED receipt
  BY <1>1, <1>2, <1>3, AnsweredOff DEF Answered, Settled
<1>4. CASE receipt[m.id] = "processing" /\ Reply(m.tab, "busy") /\ UNCHANGED receipt
  BY <1>1, <1>2, <1>4, AnsweredOff DEF Answered
<1>5. CASE /\ receipt[m.id] = "stale" /\ Recovered(m.id)
           /\ receipt' = [receipt EXCEPT ![m.id] = "applied"] /\ Reply(m.tab, "applied")
  <2>1. Effect(m.id)
    <3>1. m.id \in Captured /\ queue[m.id] \in Capture
      BY <1>1, RowsRead DEF OfflineInv, OnlyCaptured, WasSent
    <3> QED BY <1>5, <3>1 DEF Recovered, Effect, Capture, Kind
  <2>2. /\ receipt' \in [Ids -> {"none", "processing", "stale", "applied", "conflict", "rejected"}]
        /\ receipt'[m.id] = "applied" /\ \A i \in Ids \ {m.id} : receipt'[i] = receipt[i]
    BY <1>1, <1>2, <1>5
  <2> QED BY <1>1, <1>2, <1>5, <2>1, <2>2, AnsweredOff DEF Answered
<1> QED BY <1>3, <1>4, <1>5 DEF Answered

LEMMA UnavailableStep == ASSUME OfflineInv, NEW m \in net, Unavailable(m) PROVE OfflineInv'
<1>1. "busy" \in Answer /\ trouble' \in Nat
  BY DEF OfflineInv, OfflineTyped, Answer, Unavailable, Trouble
<1>2. receipt \in [Ids -> {"none", "processing", "stale", "applied", "conflict", "rejected"}]
  BY DEF OfflineInv, OfflineTyped
<1> QED BY <1>1, <1>2, AnsweredOff DEF Unavailable

LEMMA ReserveStep == ASSUME OfflineInv, NEW m \in net, Reserve(m) PROVE OfflineInv'
<1>1. /\ m.id \in Ids /\ m.tab \in Tab \cup {Nil} /\ serving = Nil /\ receipt[m.id] # "applied"
      /\ receipt' = [receipt EXCEPT ![m.id] = "processing"] /\ net' = net \ {m}
      /\ serving' = [id |-> m.id, tab |-> m.tab, at |-> "begun", draft |-> Nil, outcome |-> Nil]
      /\ UNCHANGED <<queue, tab, answer, handover, trouble>>
  BY DeliveryRead DEF OfflineInv, Reserve, Settled
<1>2. /\ serving' \in Serves /\ serving'.id = m.id /\ serving'.tab = m.tab /\ serving'.outcome = Nil
      /\ serving'.at = "begun"
  BY <1>1 DEF Serves
<1>3. OfflineTyped'
  BY <1>1, <1>2 DEF OfflineInv, OfflineTyped, Captured
<1>4. /\ receipt'[m.id] = "processing" /\ \A i \in Ids \ {m.id} : receipt'[i] = receipt[i]
  BY <1>1 DEF OfflineInv, OfflineTyped
<1>5. \A i \in Ids : WasSent(i)' => WasSent(i)
  BY <1>1, <1>2, <1>4 DEF WasSent, Serving
<1>6. OneAtATime'
  <2> SUFFICES ASSUME NEW t \in Tab
               PROVE  /\ \A k, n \in net' : k.tab = t /\ n.tab = t => k = n
                      /\ \A k \in net' : k.tab = t => k.id = tab[t].cur /\ ~ServingFor(t)' /\ answer[t] = Nil
                      /\ ServingFor(t)' => serving'.id = tab[t].cur /\ answer[t] = Nil
                      /\ answer[t] # Nil => tab[t].cur # 0
                      /\ answer[t] = "applied" => receipt'[tab[t].cur] = "applied"
    BY <1>1 DEF OneAtATime, ServingFor
  <2>1. /\ \A k, n \in net : k.tab = t /\ n.tab = t => k = n
        /\ \A k \in net : k.tab = t => k.id = tab[t].cur /\ ~ServingFor(t) /\ answer[t] = Nil
        /\ answer[t] # Nil => tab[t].cur # 0
        /\ answer[t] = "applied" => receipt[tab[t].cur] = "applied"
    BY DEF OfflineInv, OneAtATime
  <2>2. tab[t].cur \in Ids \cup {0}
    BY DEF OfflineInv, OfflineTyped, Engine
  <2>3. answer[t] = "applied" => receipt'[tab[t].cur] = "applied"
    BY <2>1, <2>2, <1>1, <1>4, OfflineAssumption
  <2> QED BY <2>1, <2>3, <1>1, <1>2 DEF ServingFor
<1>7. EffectsAreThere'
  <2>1. Captured' = Captured /\ (\A i \in Ids : Effect(i)' = Effect(i)) /\ \A i \in Captured : i \in Ids
    BY <1>1, RowsRead DEF Captured, Effect, OfflineInv
  <2>2. LookedOpen'
    BY <1>2 DEF LookedOpen, At
  <2> QED BY <1>1, <1>2, <1>4, <2>1, <2>2, OfflineAssumption DEF OfflineInv, EffectsAreThere
<1> QED BY <1>1, <1>3, <1>4, <1>5, <1>6, <1>7, ServerSide

(* What the service does with the rows.  Photos are added, and a handover    *)
(* that is no longer open stays as it is.                                    *)
HandoverGoesOn ==
    /\ handover' \in Stored /\ handover.photos \subseteq handover'.photos
    /\ handover.final # "open" => handover'.final = handover.final

LEMMA EffectStays ==
    ASSUME UNCHANGED queue, HandoverGoesOn, NEW i, Effect(i) PROVE Effect(i)'
  BY DEF Effect, HandoverGoesOn

(* The request that is served gets its outcome.                              *)
LEMMA OutcomeStep ==
    ASSUME OfflineInv, serving # Nil, NEW what \in {"applied", "conflict", "rejected"},
           serving' = [serving EXCEPT !.outcome = what], HandoverGoesOn,
           what = "applied" => Effect(serving.id)', UNCHANGED <<queue, tab, net, answer, receipt>>, trouble' \in Nat
    PROVE  OfflineInv'
<1>1. serving \in Serves
  BY ServesRead DEF OfflineInv
<1>2. serving' \in Serves /\ serving'.id = serving.id /\ serving'.tab = serving.tab /\ serving'.outcome = what
  BY <1>1 DEF Serves
<1>3. OfflineTyped'
  BY <1>2 DEF OfflineInv, OfflineTyped, Captured, HandoverGoesOn
<1>4. \A i \in Ids : WasSent(i)' => WasSent(i)
  BY <1>2 DEF WasSent, Serving
<1>5. OneAtATime'
  <2>1. \A t : ServingFor(t)' => ServingFor(t)
    BY <1>2 DEF ServingFor
  <2> QED BY <2>1, <1>2 DEF OfflineInv, OneAtATime
<1>6. EffectsAreThere'
  <2>1. Captured' = Captured /\ (\A i \in Captured : Effect(i) => Effect(i)')
    BY EffectStays DEF Captured
  <2>2. LookedOpen'
    BY <1>2, OfflineAssumption DEF LookedOpen, At
  <2> QED BY <1>2, <2>1, <2>2 DEF OfflineInv, EffectsAreThere
<1> QED BY <1>3, <1>4, <1>5, <1>6, ServerSide

(* What is served goes on to its next step, and the handover stays.          *)
LEMMA GoesOnStep ==
    ASSUME OfflineInv, serving # Nil, serving.outcome = Nil, NEW at \in {"looked", "rendered"}, NEW d \in DraftRead \cup {Nil},
           GoesOn(at, d), Finalises => handover.final \in {"open", "meanwhile"},
           UNCHANGED <<queue, tab, net, answer, receipt, trouble>>
    PROVE  OfflineInv'
<1>1. serving \in Serves /\ serving' = [serving EXCEPT !.at = at, !.draft = d] /\ handover' = handover
  BY ServesRead DEF OfflineInv, GoesOn
<1>2. serving' \in Serves /\ serving'.id = serving.id /\ serving'.tab = serving.tab /\ serving'.outcome = serving.outcome
  BY <1>1 DEF Serves
<1>3. OfflineTyped'
  BY <1>1, <1>2 DEF OfflineInv, OfflineTyped, Captured
<1>4. \A i \in Ids : WasSent(i)' => WasSent(i)
  BY <1>2 DEF WasSent, Serving
<1>5. OneAtATime'
  <2>1. \A t : ServingFor(t)' => ServingFor(t)
    BY <1>2 DEF ServingFor
  <2> QED BY <2>1, <1>2 DEF OfflineInv, OneAtATime
<1>6. EffectsAreThere'
  <2>1. Captured' = Captured /\ (\A i : Effect(i)' = Effect(i))
    BY <1>1 DEF Captured, Effect
  <2>2. LookedOpen'
    BY <1>1, <1>2 DEF LookedOpen, Finalises
  <2> QED BY <1>2, <2>1, <2>2 DEF OfflineInv, EffectsAreThere
<1> QED BY <1>3, <1>4, <1>5, <1>6, ServerSide

(* What is served has been captured.                                         *)
LEMMA ServedRow ==
    ASSUME OfflineInv, serving # Nil
    PROVE  /\ serving.id \in Ids /\ serving.id \in Captured /\ queue[serving.id] \in Capture
           /\ handover \in Stored /\ trouble \in Nat /\ queue[serving.id].kind \in Kind /\ queue[serving.id].name \in Name
<1>1. serving.id \in Ids
  BY ServesRead DEF OfflineInv
<1>2. serving.id \in Captured
  BY <1>1 DEF OfflineInv, OnlyCaptured, WasSent, Serving
<1>3. queue[serving.id] \in Capture
  BY <1>2, RowsRead DEF OfflineInv
<1> QED BY <1>1, <1>2, <1>3 DEF OfflineInv, OfflineTyped, Capture

(* An outcome that leaves the handover as it is.                             *)
LEMMA OutcomeOnly ==
    ASSUME OfflineInv, serving # Nil, NEW what \in {"applied", "conflict"}, Outcome(what, handover),
           what = "applied" => Effect(serving.id), UNCHANGED <<queue, tab, net, answer, receipt, trouble>>
    PROVE  OfflineInv'
<1>1. HandoverGoesOn /\ trouble' \in Nat /\ Effect(serving.id)' = Effect(serving.id)
  BY ServedRow DEF HandoverGoesOn, Outcome, Effect
<1> QED BY <1>1, OutcomeStep DEF Outcome

LEMMA LookStep == ASSUME OfflineInv, Look PROVE OfflineInv'
<1>1. /\ serving # Nil /\ serving.outcome = Nil /\ handover \in Stored
      /\ UNCHANGED <<queue, tab, net, answer, receipt, trouble>>
  BY ServedRow DEF Look, At
<1>2. CASE AlreadyFinalized \/ (Finalises /\ handover.sig = Nil)
  BY <1>1, <1>2, OutcomeOnly DEF Look
<1>3. CASE ~(AlreadyFinalized \/ (Finalises /\ handover.sig = Nil))
  BY <1>1, <1>3, GoesOnStep DEF Look, AlreadyFinalized
<1> QED BY <1>2, <1>3

LEMMA RenderStep == ASSUME OfflineInv, Render PROVE OfflineInv'
<1>1. /\ serving # Nil /\ serving.outcome = Nil /\ handover \in Stored /\ At("looked") /\ Finalises
      /\ UNCHANGED <<queue, tab, net, answer, receipt, trouble>>
  BY ServedRow DEF Render, At
<1>2. handover.final \in {"open", "meanwhile"}
  BY <1>1 DEF OfflineInv, EffectsAreThere, LookedOpen
<1>3. CASE AlreadyFinalized /\ Outcome("applied", handover)
  <2>1. Effect(serving.id)
    BY <1>1, <1>2, <1>3 DEF Effect, AlreadyFinalized, Finalises
  <2> QED BY <1>1, <1>3, <2>1, OutcomeOnly
<1>4. CASE Outcome("conflict", handover)
  BY <1>1, <1>4, OutcomeOnly
<1>5. CASE GoesOn("rendered", Draft)
  <2>1. Draft \in DraftRead
    BY <1>1 DEF Draft, DraftRead, Stored
  <2> QED BY <1>1, <1>2, <1>5, <2>1, GoesOnStep
<1> QED BY <1>3, <1>4, <1>5 DEF Render

LEMMA ExecuteStep == ASSUME OfflineInv, Execute PROVE OfflineInv'
<1>1. PICK i : i = serving.id
  OBVIOUS
<1>2. /\ serving # Nil /\ i \in Ids /\ i \in Captured /\ queue[i] \in Capture
      /\ UNCHANGED <<queue, tab, net, answer, receipt>> /\ trouble' \in Nat
  BY <1>1, ServedRow DEF Execute, At
<1>3. handover \in Stored /\ queue[i].kind \in Kind /\ queue[i].name \in Name
  BY <1>1, <1>2, ServedRow
<1>4. ASSUME NEW what \in {"applied", "conflict", "rejected"}, NEW d, Outcome(what, d), d \in Stored,
             handover.photos \subseteq d.photos, handover.final # "open" => d.final = handover.final,
             what = "applied" => /\ queue[i].kind = "photo" => i \in d.photos
                                 /\ queue[i].kind = "finalize" => d.final \in {"device", "meanwhile"}
      PROVE  OfflineInv'
  <2>1. HandoverGoesOn /\ serving' = [serving EXCEPT !.outcome = what] /\ handover' = d
    BY <1>4 DEF HandoverGoesOn, Outcome
  <2>2. what = "applied" => Effect(serving.id)'
    BY <1>1, <1>2, <1>4, <2>1 DEF Effect
  <2> QED BY <1>2, <2>1, <2>2, OutcomeStep
<1>5. CASE AlreadyFinalized
  <2>1. CASE Finalises
    <3>1. At("rendered") /\ Outcome("applied", handover)
      BY <1>5, <2>1 DEF Execute
    <3>2. handover.final = "meanwhile" /\ queue[i].kind = "finalize"
      BY <1>1, <1>5, <2>1, <3>1 DEF OfflineInv, EffectsAreThere, LookedOpen, AlreadyFinalized, Finalises
    <3> QED BY <1>3, <1>4, <3>1, <3>2
  <2>2. CASE ~Finalises
    BY <1>3, <1>4, <1>5, <2>2 DEF Execute
  <2> QED BY <2>1, <2>2
<1>6. CASE ~AlreadyFinalized /\ queue[i].kind = "recipient"
  <2>1. PICK d : d = [handover EXCEPT !.name = queue[i].name, !.sig = Nil]
    OBVIOUS
  <2>2. d \in Stored /\ d.photos = handover.photos /\ d.final = handover.final
    <3>1. PICK e : e = [handover EXCEPT !.name = queue[i].name]
      OBVIOUS
    <3>2. e \in Stored /\ e.photos = handover.photos /\ e.final = handover.final
      BY <1>3, <3>1 DEF Stored
    <3>3. d = [e EXCEPT !.sig = Nil]
      BY <2>1, <3>1, <1>3 DEF Stored
    <3> QED BY <3>2, <3>3 DEF Stored
  <2>3. Outcome("applied", d)
    BY <1>1, <1>6, <2>1 DEF Execute
  <2> QED BY <1>4, <1>6, <2>2, <2>3
<1>7. CASE ~AlreadyFinalized /\ queue[i].kind = "photo"
  <2>1. PICK d : d = [handover EXCEPT !.photos = @ \cup {i}]
    OBVIOUS
  <2>2. d \in Stored /\ d.photos = handover.photos \cup {i} /\ d.final = handover.final
    BY <1>2, <1>3, <2>1 DEF Stored
  <2>3. Outcome("applied", d)
    BY <1>1, <1>7, <2>1 DEF Execute
  <2> QED BY <1>4, <1>7, <2>2, <2>3
<1>8. CASE ~AlreadyFinalized /\ queue[i].kind = "signature"
  <2>1. CASE handover.sig # Nil /\ handover.sig.by = i
    <3>1. Outcome("applied", handover)
      BY <1>1, <1>8, <2>1 DEF Execute
    <3> QED BY <1>3, <1>4, <1>8, <3>1
  <2>2. CASE ~(handover.sig # Nil /\ handover.sig.by = i)
    <3>1. PICK g : g = [name |-> handover.name, shown |-> queue[i].name, by |-> i]
      OBVIOUS
    <3>2. PICK d : d = [handover EXCEPT !.sig = g]
      OBVIOUS
    <3>3. g \in Signing
      BY <1>2, <1>3, <3>1, RowsRead DEF Signing, Stored, OfflineInv
    <3>4. d \in Stored /\ d.photos = handover.photos /\ d.final = handover.final
      BY <1>3, <3>2, <3>3 DEF Stored
    <3>5. Outcome("applied", d)
      BY <1>1, <1>8, <2>2, <3>1, <3>2 DEF Execute
    <3> QED BY <1>4, <1>8, <3>4, <3>5
  <2> QED BY <2>1, <2>2
<1>9. CASE ~AlreadyFinalized /\ queue[i].kind = "finalize"
  <2>1. CASE Draft # serving.draft
    <3>1. Outcome("conflict", handover)
      BY <1>1, <1>9, <2>1 DEF Execute
    <3> QED BY <1>3, <1>4, <3>1
  <2>2. CASE Draft = serving.draft
    <3>1. PICK d : d = [handover EXCEPT !.final = "device"]
      OBVIOUS
    <3>2. d \in Stored /\ d.photos = handover.photos /\ d.final = "device"
      BY <1>3, <3>1 DEF Stored
    <3>3. Outcome("applied", d)
      BY <1>1, <1>9, <2>2, <3>1 DEF Execute
    <3> QED BY <1>4, <1>9, <3>2, <3>3 DEF AlreadyFinalized
  <2> QED BY <2>1, <2>2
<1> QED BY <1>3, <1>5, <1>6, <1>7, <1>8, <1>9 DEF Execute, Kind

LEMMA RefuseStep == ASSUME OfflineInv, Refuse PROVE OfflineInv'
<1>1. serving # Nil /\ HandoverGoesOn /\ trouble' \in Nat
  BY DEF Refuse, Outcome, HandoverGoesOn, Trouble, OfflineInv, OfflineTyped
<1> QED BY <1>1, OutcomeStep DEF Refuse, Outcome

(* The colleague changes what the service has, while nobody has finalised.   *)
LEMMA ColleagueStep == ASSUME OfflineInv, Colleague PROVE OfflineInv'
<1>1. handover \in Stored /\ handover.final = "open" /\ UNCHANGED <<queue, tab, net, answer, serving, receipt>> /\ trouble' \in Nat
  <2>1. handover.final = "open" /\ Trouble /\ UNCHANGED <<queue, tab, net, answer, serving, receipt>>
    BY DEF Colleague
  <2> QED BY <2>1 DEF Trouble, OfflineInv, OfflineTyped
<1>2. handover' \in Stored /\ handover'.photos = handover.photos
  <2>1. ASSUME NEW nm \in Name, handover' = [handover EXCEPT !.name = nm, !.sig = Nil]
        PROVE  handover' \in Stored /\ handover'.photos = handover.photos
    <3>1. PICK e : e = [handover EXCEPT !.name = nm]
      OBVIOUS
    <3>2. e \in Stored /\ e.photos = handover.photos
      BY <1>1, <3>1 DEF Stored
    <3>3. handover' = [e EXCEPT !.sig = Nil]
      BY <2>1, <3>1, <1>1 DEF Stored
    <3> QED BY <3>2, <3>3 DEF Stored
  <2>2. CASE handover' = [handover EXCEPT !.final = IF Meanwhile THEN "meanwhile" ELSE "colleague"]
    BY <1>1, <2>2 DEF Stored
  <2>3. ASSUME NEW g, g = [name |-> handover.name, shown |-> handover.name, by |-> -trouble'],
               handover' = [handover EXCEPT !.sig = g]
        PROVE  handover' \in Stored /\ handover'.photos = handover.photos
    <3>1. g \in Signing
      BY <1>1, <2>3 DEF Stored, Signing
    <3> QED BY <1>1, <2>3, <3>1 DEF Stored
  <2> QED BY <2>1, <2>2, <2>3 DEF Colleague
<1>3. HandoverGoesOn
  BY <1>1, <1>2 DEF HandoverGoesOn
<1>4. OfflineTyped'
  BY <1>1, <1>2 DEF OfflineInv, OfflineTyped, Captured
<1>5. OneAtATime' /\ \A i \in Ids : WasSent(i)' => WasSent(i)
  BY <1>1 DEF OfflineInv, OneAtATime, ServingFor, WasSent, Serving
<1>6. EffectsAreThere'
  <2>1. Captured' = Captured /\ (\A i \in Ids : Effect(i) => Effect(i)') /\ \A i \in Captured : i \in Ids
    BY <1>1, <1>3, EffectStays, RowsRead DEF Captured, OfflineInv
  <2>2. serving # Nil => serving.id \in Ids
    BY ServesRead DEF OfflineInv
  <2>3. LookedOpen'
    <3>1. (At("looked") \/ At("rendered"))' /\ Finalises' => Meanwhile
      BY <1>1 DEF Meanwhile, At, Finalises
    <3>2. handover'.final = handover.final \/ handover'.final = IF Meanwhile THEN "meanwhile" ELSE "colleague"
      BY <1>1 DEF Colleague, Stored
    <3> QED BY <1>1, <3>1, <3>2 DEF LookedOpen
  <2> QED BY <1>1, <2>1, <2>2, <2>3 DEF OfflineInv, EffectsAreThere
<1> QED BY <1>1, <1>4, <1>5, <1>6, ServerSide

LEMMA StaleStep == ASSUME OfflineInv, NEW i \in Ids, GoStale(i) PROVE OfflineInv'
<1>1. /\ receipt' = [receipt EXCEPT ![i] = "stale"] /\ receipt[i] = "processing"
      /\ UNCHANGED <<queue, tab, net, answer, serving, handover, trouble>>
  BY DEF GoStale
<1>2. OfflineTyped'
  BY <1>1 DEF OfflineInv, OfflineTyped, Captured
<1>3. receipt'[i] = "stale" /\ \A j \in Ids \ {i} : receipt'[j] = receipt[j]
  BY <1>1 DEF OfflineInv, OfflineTyped
<1>4. \A j \in Ids : WasSent(j)' => WasSent(j)
  BY <1>1, <1>3 DEF WasSent, Serving
<1>5. OneAtATime'
  <2>1. \A t \in Tab : answer[t] = "applied" => receipt'[tab[t].cur] = "applied"
    <3>1. \A t \in Tab : tab[t].cur \in Ids \cup {0}
      BY DEF OfflineInv, OfflineTyped, Engine
    <3> QED BY <1>1, <1>3, <3>1, OfflineAssumption DEF OfflineInv, OneAtATime
  <2> QED BY <1>1, <2>1 DEF OfflineInv, OneAtATime, ServingFor
<1>6. EffectsAreThere'
  <2>1. Captured' = Captured /\ (\A j \in Ids : Effect(j)' = Effect(j)) /\ \A j \in Captured : j \in Ids
    BY <1>1, RowsRead DEF Captured, Effect, OfflineInv
  <2>2. serving # Nil => serving.id \in Ids
    BY ServesRead DEF OfflineInv
  <2>3. LookedOpen'
    BY <1>1, StillLookedOpen
  <2> QED BY <1>1, <1>3, <2>1, <2>2, <2>3 DEF OfflineInv, EffectsAreThere
<1> QED BY <1>1, <1>2, <1>3, <1>4, <1>5, <1>6, ServerSide

(* The one that is served ends, and its tab is told.                         *)
LEMMA ServedOff ==
    ASSUME OfflineInv, serving # Nil, NEW what \in Answer, Reply(serving.tab, what), serving' = Nil,
           UNCHANGED <<queue, tab, net, handover>>,
           receipt' \in [Ids -> {"none", "processing", "stale", "applied", "conflict", "rejected"}],
           \A i \in Ids : receipt'[i] = receipt[i] \/ (i = serving.id /\ (receipt'[i] = "applied" => Effect(i))),
           what = "applied" => receipt'[serving.id] = "applied", trouble' \in Nat
    PROVE  OfflineInv'
<1>1. serving.id \in Ids /\ serving.tab \in Tab \cup {Nil} /\ receipt[serving.id] \in {"processing", "stale"}
  BY ServesRead DEF OfflineInv, EffectsAreThere
<1>2. /\ answer' \in [Tab -> {Nil, "applied", "conflict", "rejected", "busy"}]
      /\ \A u \in Tab : answer'[u] = IF u = serving.tab THEN what ELSE answer[u]
  BY <1>1, ReplyTyped DEF OfflineInv
<1>3. OfflineTyped'
  BY <1>2 DEF OfflineInv, OfflineTyped, Captured
<1>4. \A i \in Ids : receipt[i] = "applied" => receipt'[i] = "applied"
  BY <1>1
<1>5. \A i \in Ids : WasSent(i)' => WasSent(i)
  BY <1>1 DEF WasSent, Serving
<1>6. OneAtATime'
  <2> SUFFICES ASSUME NEW t \in Tab
               PROVE  /\ \A k, n \in net : k.tab = t /\ n.tab = t => k = n
                      /\ \A k \in net : k.tab = t => k.id = tab[t].cur /\ answer'[t] = Nil
                      /\ answer'[t] # Nil => tab[t].cur # 0
                      /\ answer'[t] = "applied" => receipt'[tab[t].cur] = "applied"
    BY DEF OneAtATime, ServingFor
  <2>1. /\ \A k, n \in net : k.tab = t /\ n.tab = t => k = n
        /\ \A k \in net : k.tab = t => k.id = tab[t].cur /\ ~ServingFor(t) /\ answer[t] = Nil
        /\ ServingFor(t) => serving.id = tab[t].cur /\ answer[t] = Nil
        /\ answer[t] # Nil => tab[t].cur # 0
        /\ answer[t] = "applied" => receipt[tab[t].cur] = "applied"
    BY DEF OfflineInv, OneAtATime
  <2>2. tab[t].cur \in Ids \cup {0} /\ 0 \notin Captured
    BY RowsRead DEF OfflineInv, OfflineTyped, Engine
  <2>3. CASE t = serving.tab
    <3>1. ServingFor(t) /\ serving.id = tab[t].cur /\ serving.id # 0
      BY <1>1, <2>1, <2>2, <2>3 DEF ServingFor, OfflineInv, OnlyCaptured, WasSent, Serving
    <3> QED BY <2>1, <2>3, <3>1, <1>2
  <2>4. CASE t # serving.tab
    <3>1. answer'[t] = answer[t]
      BY <1>2, <2>4
    <3>2. answer[t] = "applied" => tab[t].cur \in Ids
      BY <2>1, <2>2, OfflineAssumption
    <3> QED BY <2>1, <3>1, <3>2, <1>4
  <2> QED BY <2>3, <2>4
<1>7. EffectsAreThere'
  <2>1. Captured' = Captured /\ (\A i \in Ids : Effect(i)' = Effect(i)) /\ \A i \in Captured : i \in Ids
    BY RowsRead DEF Captured, Effect, OfflineInv
  <2>2. LookedOpen'
    BY DEF LookedOpen, At
  <2> QED BY <1>4, <2>1, <2>2 DEF OfflineInv, EffectsAreThere
<1> QED BY <1>3, <1>4, <1>5, <1>6, <1>7, ServerSide

LEMMA FinishStep == ASSUME OfflineInv, Finish PROVE OfflineInv'
<1>1. serving # Nil /\ serving.outcome \in Answer /\ serving.id \in Ids /\ trouble' \in Nat
  BY ServesRead DEF OfflineInv, OfflineTyped, Finish, Answer
<1>2. receipt' = [receipt EXCEPT ![serving.id] = serving.outcome]
  BY DEF Finish
<1>3. /\ receipt' \in [Ids -> {"none", "processing", "stale", "applied", "conflict", "rejected"}]
      /\ receipt'[serving.id] = serving.outcome
      /\ \A i \in Ids \ {serving.id} : receipt'[i] = receipt[i]
  BY <1>1, <1>2, ServesRead DEF OfflineInv, OfflineTyped, Finish
<1>4. receipt'[serving.id] = "applied" => Effect(serving.id)
  BY <1>1, <1>3 DEF OfflineInv, EffectsAreThere
<1> QED BY <1>1, <1>3, <1>4, ServedOff DEF Finish

LEMMA CrashStep == ASSUME OfflineInv, Crash PROVE OfflineInv'
<1>1. "busy" \in Answer /\ trouble' \in Nat /\ receipt \in [Ids -> {"none", "processing", "stale", "applied", "conflict", "rejected"}]
  BY DEF OfflineInv, OfflineTyped, Answer, Crash, Trouble
<1> QED BY <1>1, ServedOff DEF Crash

(* ------------------------------ the device ------------------------------ *)
LEMMA TabRead ==
    ASSUME OfflineInv, NEW t \in Tab
    PROVE  /\ tab[t] \in Engine /\ tab[t].todo \subseteq Captured /\ tab[t].cur \in Captured \cup {0}
           /\ 0 \notin Captured /\ Captured \subseteq Ids /\ Captured \subseteq Nat
  BY RowsRead DEF OfflineInv, OfflineTyped, OnlyCaptured

(* A tab that waits for nothing has nothing on its way.                      *)
LEMMA NothingAsked ==
    ASSUME OfflineInv, NEW t \in Tab, tab[t].cur = 0
    PROVE  (\A m \in net : m.tab # t) /\ ~ServingFor(t) /\ answer[t] = Nil
<1>1. 0 \notin Captured
  BY TabRead
<1>2. \A m \in net : m.id \in Captured
  BY DeliveryRead DEF OfflineInv, OnlyCaptured, WasSent
<1>3. serving # Nil => serving.id \in Captured
  BY ServesRead DEF OfflineInv, OnlyCaptured, WasSent, Serving
<1> QED BY <1>1, <1>2, <1>3 DEF OfflineInv, OneAtATime, ServingFor

(* And one whose answer has come neither.                                    *)
LEMMA OnlyAnswer ==
    ASSUME OfflineInv, NEW t \in Tab, answer[t] # Nil
    PROVE  (\A m \in net : m.tab # t) /\ ~ServingFor(t) /\ tab[t].cur \in Captured
  BY TabRead DEF OfflineInv, OneAtATime

LEMMA WrittenRow ==
    ASSUME OfflineInv, NEW i \in Captured, NEW st \in RowState, queue' = Written(i, st)
    PROVE  /\ queue' \in Seq(Capture) /\ RowsStay
           /\ \A j \in Captured : queue[j].st = "discarded" => queue'[j].st = "discarded"
           /\ \A j \in Captured : queue'[j].st = queue[j].st \/ (j = i /\ queue'[j].st = st)
<1>1. CASE queue' = queue
  BY <1>1 DEF OfflineInv, OfflineTyped, RowsStay
<1>2. CASE queue' = [queue EXCEPT ![i].st = st] /\ queue[i].st # "discarded"
  BY <1>2, RowRestated DEF OfflineInv, OfflineTyped
<1> QED BY <1>1, <1>2 DEF Written

(* A tab takes what has come back.                                           *)
LEMMA TabHears ==
    ASSUME OfflineInv, NEW t \in Tab, answer[t] # Nil, NEW st \in RowState, st # "cleaned",
           st = "synced" => receipt[tab[t].cur] = "applied",
           queue' = Written(tab[t].cur, st), NEW e \in Engine, tab' = [tab EXCEPT ![t] = e],
           e.todo \subseteq tab[t].todo, e.cur = 0,
           e.todo # {} => \A j \in tab[t].open : j \in e.open \/ receipt[j] = "applied",
           answer' = [answer EXCEPT ![t] = Nil], UNCHANGED <<net, serving, receipt, handover, trouble>>
    PROVE  OfflineInv'
<1>1. (\A m \in net : m.tab # t) /\ ~ServingFor(t) /\ tab[t].cur \in Captured
  BY OnlyAnswer
<1>2. /\ queue' \in Seq(Capture) /\ RowsStay /\ Captured' = Captured
      /\ \A j \in Captured : queue[j].st = "discarded" => queue'[j].st = "discarded"
      /\ \A j \in Captured : queue'[j].st = queue[j].st \/ (j = tab[t].cur /\ queue'[j].st = st)
  BY <1>1, WrittenRow, NotYetCaptured
<1>3. tab'[t] = e /\ (\A u \in Tab \ {t} : tab'[u] = tab[u]) /\ tab' \in [Tab -> Engine]
  BY DEF OfflineInv, OfflineTyped
<1>4. answer'[t] = Nil /\ (\A u \in Tab \ {t} : answer'[u] = answer[u])
  BY DEF OfflineInv, OfflineTyped
<1>5. OfflineTyped'
  BY <1>2, <1>3 DEF OfflineInv, OfflineTyped
<1>6. \A i \in Ids : WasSent(i)' => WasSent(i)
  BY DEF WasSent, Serving
<1>7. OnlyCaptured'
  BY <1>2, <1>3, <1>6 DEF OfflineInv, OnlyCaptured
<1>8. OneAtATime'
  <2> SUFFICES ASSUME NEW u \in Tab
               PROVE  /\ \A m, n \in net : m.tab = u /\ n.tab = u => m = n
                      /\ \A m \in net : m.tab = u => m.id = tab'[u].cur /\ ~ServingFor(u) /\ answer'[u] = Nil
                      /\ ServingFor(u) => serving.id = tab'[u].cur /\ answer'[u] = Nil
                      /\ answer'[u] # Nil => tab'[u].cur # 0
                      /\ answer'[u] = "applied" => receipt[tab'[u].cur] = "applied"
    BY DEF OneAtATime, ServingFor
  <2>1. CASE u = t
    BY <1>1, <1>4, <2>1, OfflineAssumption
  <2>2. CASE u # t
    BY <1>3, <1>4, <2>2 DEF OfflineInv, OneAtATime
  <2> QED BY <2>1, <2>2
<1>9. EffectsAreThere'
  <2>1. \A j \in Captured : Effect(j)' = Effect(j)
    BY <1>2 DEF RowsStay, Effect
  <2>2. serving # Nil => serving.id \in Captured
    BY ServesRead DEF OfflineInv, OnlyCaptured, WasSent, Serving
  <2>3. \A j \in Captured : queue'[j].st \in {"synced", "cleaned"} => receipt[j] = "applied"
    BY <1>2 DEF OfflineInv, EffectsAreThere
  <2>4. LookedOpen'
    BY <1>2, <2>2, StillLookedOpen DEF RowsStay
  <2> QED BY <1>2, <2>1, <2>2, <2>3, <2>4 DEF OfflineInv, EffectsAreThere
<1>10. FinalisationWaits'
  <2>1. \A j : receipt[j] = "applied" => Done(j)'
    BY DEF Done
  <2>2. \A j \in Captured : Done(j) => Done(j)'
    BY <1>2 DEF Done
  <2>3. \A i \in Captured : i \in Ids
    BY RowsRead DEF OfflineInv
  <2>4. \A u \in Tab : /\ tab'[u].todo \subseteq tab[u].todo
                       /\ tab'[u].todo # {} => \A j \in tab[u].open : j \in tab'[u].open \/ Done(j)'
    BY <1>3, <2>1
  <2> QED BY <1>2, <1>6, <2>2, <2>3, <2>4, WaitsOn
<1> QED BY <1>5, <1>7, <1>8, <1>9, <1>10 DEF OfflineInv

LEMMA AfterEngine ==
    ASSUME OfflineInv, NEW t \in Tab, NEW open \in SUBSET Ids, After(t, open)
    PROVE  \E e \in Engine : /\ tab' = [tab EXCEPT ![t] = e] /\ e.todo \subseteq tab[t].todo /\ e.cur = 0
                             /\ e.todo # {} => e.open = open
<1>1. CASE tab[t].todo = {}
  <2>1. Rest \in Engine /\ Rest.todo = {} /\ Rest.cur = 0
    BY DEF Rest, Engine
  <2> QED BY <1>1, <2>1 DEF After
<1>2. CASE tab[t].todo # {}
  <2>1. tab[t] \in Engine
    BY TabRead
  <2>2. PICK f : f = [tab[t] EXCEPT !.cur = 0]
    OBVIOUS
  <2>3. f \in Engine /\ f.todo = tab[t].todo /\ f.cur = 0
    BY <2>1, <2>2 DEF Engine
  <2>4. PICK e : e = [f EXCEPT !.open = open]
    OBVIOUS
  <2>5. e \in Engine /\ e.todo = tab[t].todo /\ e.cur = 0 /\ e.open = open
    BY <2>3, <2>4 DEF Engine
  <2>6. e = [tab[t] EXCEPT !.cur = 0, !.open = open]
    BY <2>1, <2>2, <2>4 DEF Engine
  <2>7. tab' = [tab EXCEPT ![t] = e]
    BY <1>2, <2>6 DEF After
  <2> QED BY <2>5, <2>7
<1> QED BY <1>1, <1>2

LEMMA TakeAnswerStep == ASSUME OfflineInv, NEW t \in Tab, TakeAnswer(t) PROVE OfflineInv'
<1>1. answer[t] \in {"applied", "conflict", "rejected"}
  BY DEF TakeAnswer, RowStatus
<1>2. PICK st : st = RowStatus[answer[t]]
  OBVIOUS
<1>3. st \in RowState /\ st # "cleaned" /\ (st = "synced" => answer[t] = "applied")
  BY <1>1, <1>2 DEF RowStatus, RowState
<1>4. PICK open \in SUBSET Ids : /\ After(t, open)
                                 /\ \A j \in tab[t].open : j \in open \/ (j = tab[t].cur /\ answer[t] = "applied")
  BY TabRead DEF TakeAnswer, Engine
<1>5. PICK e \in Engine : /\ tab' = [tab EXCEPT ![t] = e] /\ e.todo \subseteq tab[t].todo /\ e.cur = 0
                          /\ e.todo # {} => e.open = open
  BY <1>4, AfterEngine
<1>6. answer[t] = "applied" => receipt[tab[t].cur] = "applied"
  BY DEF OfflineInv, OneAtATime
<1>7. /\ answer[t] # Nil /\ queue' = Written(tab[t].cur, st) /\ answer' = [answer EXCEPT ![t] = Nil]
      /\ UNCHANGED <<net, serving, receipt, handover, trouble>>
  BY <1>1, <1>2, OfflineAssumption DEF TakeAnswer
<1> QED BY <1>3, <1>4, <1>5, <1>6, <1>7, TabHears

LEMMA TakeErrorStep == ASSUME OfflineInv, NEW t \in Tab, TakeError(t) PROVE OfflineInv'
<1>1. tab[t].open \in SUBSET Ids /\ After(t, tab[t].open)
  BY TabRead DEF TakeError, Engine
<1>2. PICK e \in Engine : /\ tab' = [tab EXCEPT ![t] = e] /\ e.todo \subseteq tab[t].todo /\ e.cur = 0
                          /\ e.todo # {} => e.open = tab[t].open
  BY <1>1, AfterEngine
<1>3. "failed_retryable" \in RowState /\ answer[t] # Nil
  BY OfflineAssumption DEF RowState, TakeError
<1> QED BY <1>2, <1>3, TabHears DEF TakeError

(* A tab gives up or is closed: nobody waits for its request any more.       *)
LEMMA LetsGo ==
    ASSUME OfflineInv, NEW t \in Tab, queue' \in Seq(Capture), RowsStay,
           \A j \in Captured : queue[j].st = "discarded" => queue'[j].st = "discarded",
           \A j \in Captured : queue'[j].st \in {"synced", "cleaned"} => queue[j].st \in {"synced", "cleaned"},
           tab' = [tab EXCEPT ![t] = Rest], net' \in {Orphaned(t), {m \in net : m.tab # t}}, Forget(t),
           UNCHANGED <<receipt, handover>>, trouble' \in Nat
    PROVE  OfflineInv'
<1>1. Rest \in Engine /\ Rest.todo = {} /\ Rest.cur = 0
  BY DEF Rest, Engine
<1>2. tab'[t] = Rest /\ (\A u \in Tab \ {t} : tab'[u] = tab[u]) /\ tab' \in [Tab -> Engine]
  BY <1>1 DEF OfflineInv, OfflineTyped
<1>3. /\ answer' \in [Tab -> {Nil, "applied", "conflict", "rejected", "busy"}]
      /\ answer'[t] = Nil /\ (\A u \in Tab \ {t} : answer'[u] = answer[u])
  BY DEF Forget, OfflineInv, OfflineTyped
<1>4. net' \in SUBSET Delivery /\ \A k \in net' : k.tab # t /\ \E m \in net : m.id = k.id /\ (k = m \/ k.tab = Nil)
  <2>1. CASE net' = Orphaned(t)
    <3>1. ASSUME NEW k \in net' PROVE k \in Delivery /\ k.tab # t /\ \E m \in net : m.id = k.id /\ (k = m \/ k.tab = Nil)
      <4>1. PICK m \in net : k = IF m.tab = t THEN [m EXCEPT !.tab = Nil] ELSE m
        BY <2>1 DEF Orphaned
      <4>2. m \in Delivery
        BY DeliveryRead DEF OfflineInv
      <4>3. CASE m.tab = t
        <5>1. k \in Delivery /\ k.tab = Nil /\ k.id = m.id
          BY <4>1, <4>2, <4>3 DEF Delivery
        <5> QED BY <5>1, OfflineAssumption
      <4>4. CASE m.tab # t
        BY <4>1, <4>2, <4>4
      <4> QED BY <4>3, <4>4
    <3> QED BY <3>1
  <2>2. CASE net' = {m \in net : m.tab # t}
    BY <2>2 DEF OfflineInv, OfflineTyped
  <2> QED BY <2>1, <2>2
<1>5. /\ serving' \in Serves \cup {Nil}
      /\ serving' # Nil => /\ serving # Nil /\ serving'.id = serving.id /\ serving'.outcome = serving.outcome
                           /\ serving'.at = serving.at
                           /\ serving'.tab # t /\ (serving'.tab = serving.tab \/ serving'.tab = Nil)
  <2>1. CASE serving # Nil /\ serving.tab = t
    <3>1. serving \in Serves /\ serving' = [serving EXCEPT !.tab = Nil]
      BY <2>1, ServesRead DEF Forget, OfflineInv
    <3> QED BY <2>1, <3>1, OfflineAssumption DEF Serves
  <2>2. CASE ~(serving # Nil /\ serving.tab = t)
    BY <2>2 DEF Forget, OfflineInv, OfflineTyped
  <2> QED BY <2>1, <2>2
<1>6. Captured' = Captured
  BY NotYetCaptured
<1>7. OfflineTyped'
  BY <1>2, <1>3, <1>4, <1>5, <1>6 DEF OfflineInv, OfflineTyped
<1>8. \A i \in Ids : WasSent(i)' => WasSent(i)
  BY <1>4, <1>5 DEF WasSent, Serving
<1>9. OnlyCaptured'
  BY <1>1, <1>2, <1>6, <1>8 DEF OfflineInv, OnlyCaptured
<1>10. OneAtATime'
  <2> SUFFICES ASSUME NEW u \in Tab
               PROVE  /\ \A m, n \in net' : m.tab = u /\ n.tab = u => m = n
                      /\ \A m \in net' : m.tab = u => m.id = tab'[u].cur /\ ~ServingFor(u)' /\ answer'[u] = Nil
                      /\ ServingFor(u)' => serving'.id = tab'[u].cur /\ answer'[u] = Nil
                      /\ answer'[u] # Nil => tab'[u].cur # 0
                      /\ answer'[u] = "applied" => receipt[tab'[u].cur] = "applied"
    BY DEF OneAtATime, ServingFor
  <2>1. u # Nil
    BY OfflineAssumption
  <2>2. CASE u = t
    BY <1>3, <1>4, <1>5, <2>2, OfflineAssumption DEF ServingFor
  <2>3. CASE u # t
    <3>1. \A k \in net' : k.tab = u => k \in net
      BY <1>4, <2>1
    <3>2. ServingFor(u)' => ServingFor(u) /\ serving'.id = serving.id
      BY <1>5, <2>1 DEF ServingFor
    <3>3. tab'[u] = tab[u] /\ answer'[u] = answer[u]
      BY <1>2, <1>3, <2>3
    <3> QED BY <3>1, <3>2, <3>3 DEF OfflineInv, OneAtATime
  <2> QED BY <2>2, <2>3
<1>11. EffectsAreThere'
  <2>1. \A j \in Captured : Effect(j)' = Effect(j)
    BY DEF RowsStay, Effect
  <2>2. serving # Nil => serving.id \in Captured
    BY ServesRead DEF OfflineInv, OnlyCaptured, WasSent, Serving
  <2>3. LookedOpen'
    BY <1>5, <2>2, StillLookedOpen DEF RowsStay
  <2> QED BY <1>5, <1>6, <2>1, <2>2, <2>3 DEF OfflineInv, EffectsAreThere
<1>12. FinalisationWaits'
  <2>1. \A j \in Captured : Done(j) => Done(j)'
    BY DEF Done
  <2>2. \A u \in Tab : /\ tab'[u].todo \subseteq tab[u].todo
                       /\ tab'[u].todo # {} => \A j \in tab[u].open : j \in tab'[u].open \/ Done(j)'
    BY <1>1, <1>2
  <2>3. \A i \in Captured : i \in Ids
    BY RowsRead DEF OfflineInv
  <2> QED BY <1>8, <2>1, <2>2, <2>3, WaitsOn
<1> QED BY <1>7, <1>9, <1>10, <1>11, <1>12 DEF OfflineInv

LEMMA AbortStep == ASSUME OfflineInv, NEW t \in Tab, Abort(t) PROVE OfflineInv'
<1>1. tab[t].cur \in Captured /\ "failed_retryable" \in RowState /\ trouble' \in Nat
  BY TabRead DEF Abort, RowState, Trouble, OfflineInv, OfflineTyped
<1>2. /\ queue' \in Seq(Capture) /\ RowsStay
      /\ \A j \in Captured : queue[j].st = "discarded" => queue'[j].st = "discarded"
      /\ \A j \in Captured : queue'[j].st = queue[j].st \/ (j = tab[t].cur /\ queue'[j].st = "failed_retryable")
  BY <1>1, WrittenRow DEF Abort
<1> QED BY <1>1, <1>2, LetsGo DEF Abort

LEMMA CloseTabStep == ASSUME OfflineInv, NEW t \in Tab, CloseTab(t) PROVE OfflineInv'
<1>1. queue' = queue /\ queue' \in Seq(Capture) /\ RowsStay /\ trouble' \in Nat
  BY DEF CloseTab, Trouble, RowsStay, OfflineInv, OfflineTyped
<1> QED BY <1>1, LetsGo DEF CloseTab

(* A tab that waits for nothing begins a run, or ends one.                   *)
LEMMA RunChanges ==
    ASSUME OfflineInv, NEW t \in Tab, tab[t].cur = 0, NEW e \in Engine, tab' = [tab EXCEPT ![t] = e], e.cur = 0,
           e.todo \subseteq Captured, e.todo # {} => \A j \in Captured : j \in e.open \/ Done(j)',
           queue' \in Seq(Capture), RowsStay,
           \A j \in Captured : queue[j].st = "discarded" => queue'[j].st = "discarded",
           \A j \in Captured : queue'[j].st \in {"synced", "cleaned"} => queue[j].st \in {"synced", "cleaned"},
           UNCHANGED <<net, answer, serving, receipt, handover, trouble>>
    PROVE  OfflineInv'
<1>1. (\A m \in net : m.tab # t) /\ ~ServingFor(t) /\ answer[t] = Nil
  BY NothingAsked
<1>2. tab'[t] = e /\ (\A u \in Tab \ {t} : tab'[u] = tab[u]) /\ tab' \in [Tab -> Engine]
  BY DEF OfflineInv, OfflineTyped
<1>3. Captured' = Captured
  BY NotYetCaptured
<1>4. OfflineTyped'
  BY <1>2, <1>3 DEF OfflineInv, OfflineTyped
<1>5. \A i \in Ids : WasSent(i)' => WasSent(i)
  BY DEF WasSent, Serving
<1>6. OnlyCaptured'
  BY <1>2, <1>3, <1>5 DEF OfflineInv, OnlyCaptured
<1>7. OneAtATime'
  <2> SUFFICES ASSUME NEW u \in Tab
               PROVE  /\ \A m, n \in net : m.tab = u /\ n.tab = u => m = n
                      /\ \A m \in net : m.tab = u => m.id = tab'[u].cur /\ ~ServingFor(u) /\ answer[u] = Nil
                      /\ ServingFor(u) => serving.id = tab'[u].cur /\ answer[u] = Nil
                      /\ answer[u] # Nil => tab'[u].cur # 0
                      /\ answer[u] = "applied" => receipt[tab'[u].cur] = "applied"
    BY DEF OneAtATime, ServingFor
  <2>1. CASE u = t
    BY <1>1, <2>1, OfflineAssumption
  <2>2. CASE u # t
    BY <1>2, <2>2 DEF OfflineInv, OneAtATime
  <2> QED BY <2>1, <2>2
<1>8. EffectsAreThere'
  <2>1. \A j \in Captured : Effect(j)' = Effect(j)
    BY DEF RowsStay, Effect
  <2>2. serving # Nil => serving.id \in Captured
    BY ServesRead DEF OfflineInv, OnlyCaptured, WasSent, Serving
  <2>3. LookedOpen'
    BY <2>2, StillLookedOpen DEF RowsStay
  <2> QED BY <1>3, <2>1, <2>2, <2>3 DEF OfflineInv, EffectsAreThere
<1>9. FinalisationWaits'
  <2>1. \A j \in Captured : Done(j) => Done(j)'
    BY DEF Done
  <2>2. \A i \in Captured : i \in Ids
    BY RowsRead DEF OfflineInv
  <2>3. CASE e.todo = {}
    <3>1. \A u \in Tab : /\ tab'[u].todo \subseteq tab[u].todo
                         /\ tab'[u].todo # {} => \A j \in tab[u].open : j \in tab'[u].open \/ Done(j)'
      BY <1>2, <2>3
    <3> QED BY <1>5, <2>1, <2>2, <3>1, WaitsOn
  <2>4. CASE e.todo # {}
    <3>1. \A u \in Tab : \/ /\ tab'[u].todo \subseteq tab[u].todo
                            /\ tab'[u].todo # {} => \A j \in tab[u].open : j \in tab'[u].open \/ Done(j)'
                         \/ /\ tab'[u].todo \subseteq Captured
                            /\ \A j \in Captured : j \in tab'[u].open \/ Done(j)'
      BY <1>2, <2>4
    <3> QED BY <1>5, <2>1, <2>2, <3>1, WaitsOn
  <2> QED BY <2>3, <2>4
<1> QED BY <1>4, <1>6, <1>7, <1>8, <1>9 DEF OfflineInv

LEMMA EndRunStep == ASSUME OfflineInv, NEW t \in Tab, EndRun(t) PROVE OfflineInv'
<1>1. Rest \in Engine /\ Rest.todo = {} /\ Rest.cur = 0
  BY DEF Rest, Engine
<1>2. queue' = queue /\ queue' \in Seq(Capture) /\ RowsStay
  BY DEF EndRun, RowsStay, OfflineInv, OfflineTyped
<1> QED BY <1>1, <1>2, RunChanges DEF EndRun

LEMMA StartRunStep == ASSUME OfflineInv, NEW t \in Tab, StartRun(t) PROVE OfflineInv'
<1>1. queue \in Seq(Capture) /\ Len(queue) \in Nat /\ Captured = DOMAIN queue /\ Captured \subseteq Ids
      /\ \A i \in Captured : queue[i] \in Capture
  BY RowsRead DEF OfflineInv, OfflineTyped
<1>2. queue' = [i \in Captured |-> IF queue[i].st = "syncing" THEN [queue[i] EXCEPT !.st = "pending"] ELSE queue[i]]
  BY <1>1 DEF StartRun, ResetSyncing
<1>3. ASSUME NEW i \in Captured
      PROVE  /\ queue'[i] \in Capture /\ queue'[i].kind = queue[i].kind /\ queue'[i].deps = queue[i].deps
             /\ queue'[i].st = queue[i].st \/ (queue[i].st = "syncing" /\ queue'[i].st = "pending")
  <2>1. CASE queue[i].st = "syncing"
    <3>1. queue'[i] = [queue[i] EXCEPT !.st = "pending"]
      BY <1>2, <2>1
    <3> QED BY <1>1, <2>1, <3>1 DEF Capture, RowState
  <2>2. CASE queue[i].st # "syncing"
    BY <1>1, <1>2, <2>2
  <2> QED BY <2>1, <2>2
<1>4. queue' \in Seq(Capture) /\ RowsStay
  <2>1. queue' \in [1 .. Len(queue) -> Capture]
    BY <1>1, <1>2, <1>3 DEF Captured
  <2>2. queue' \in Seq(Capture) /\ Len(queue') = Len(queue)
    BY <1>1, <2>1
  <2> QED BY <1>3, <2>2 DEF RowsStay
<1>5. PICK e : e = [cur |-> 0, open |-> OpenIds,
                    todo |-> {i \in Captured : ResetSyncing(queue)[i].st \in {"pending", "due"}}]
  OBVIOUS
<1>6. e \in Engine /\ e.cur = 0 /\ e.todo \subseteq Captured /\ e.open = OpenIds
  BY <1>1, <1>5 DEF Engine, OpenIds
<1>7. tab' = [tab EXCEPT ![t] = e] /\ tab[t].cur = 0
  BY <1>5 DEF StartRun, Rest
<1>8. \A j \in Captured : j \in e.open \/ Done(j)'
  <2>1. \A j \in Captured : j \in OpenIds \/ queue[j].st \in {"synced", "cleaned", "discarded"}
    BY DEF OpenIds
  <2>2. \A j \in Captured : queue[j].st \in {"synced", "cleaned"} => receipt[j] = "applied"
    BY DEF OfflineInv, EffectsAreThere
  <2>3. receipt' = receipt
    BY DEF StartRun
  <2> QED BY <1>3, <1>6, <2>1, <2>2, <2>3 DEF Done
<1>9. UNCHANGED <<net, answer, serving, receipt, handover, trouble>>
  BY DEF StartRun
<1> QED BY <1>3, <1>4, <1>6, <1>7, <1>8, <1>9, RunChanges

(* A finalisation that is sent has all before it behind it.                  *)
LEMMA SendStep == ASSUME OfflineInv, NEW t \in Tab, NEW i \in Ids, Send(t, i) PROVE OfflineInv'
<1>1. /\ i \in Captured /\ tab[t].cur = 0 /\ i \in tab[t].todo /\ queue[i].st \notin {"cleaned", "discarded"}
      /\ \A j \in queue[i].deps : j \notin tab[t].open
      /\ UNCHANGED <<answer, serving, receipt, handover, trouble>>
  BY TabRead DEF Send, DependenciesSatisfied
<1>2. (\A m \in net : m.tab # t) /\ ~ServingFor(t) /\ answer[t] = Nil
  BY <1>1, NothingAsked
<1>3. /\ queue' \in Seq(Capture) /\ RowsStay /\ queue'[i].st = "syncing"
      /\ \A j \in Captured \ {i} : queue'[j] = queue[j]
  BY <1>1, RowRestated DEF Send, RowState, OfflineInv, OfflineTyped
<1>4. PICK e : e = [tab[t] EXCEPT !.cur = i, !.todo = {j \in @ : j > i}]
  OBVIOUS
<1>5. e \in Engine /\ e.cur = i /\ e.todo \subseteq tab[t].todo /\ e.open = tab[t].open
  <2>1. tab[t] \in Engine
    BY TabRead
  <2>2. PICK f : f = [tab[t] EXCEPT !.cur = i]
    OBVIOUS
  <2>3. f \in Engine /\ f.cur = i /\ f.todo = tab[t].todo /\ f.open = tab[t].open
    BY <2>1, <2>2 DEF Engine
  <2>4. e = [f EXCEPT !.todo = {j \in tab[t].todo : j > i}]
    BY <1>4, <2>1, <2>2 DEF Engine
  <2> QED BY <2>3, <2>4 DEF Engine
<1>6. tab' = [tab EXCEPT ![t] = e]
  BY <1>4 DEF Send, OfflineInv, OfflineTyped
<1>7. tab'[t] = e /\ (\A u \in Tab \ {t} : tab'[u] = tab[u]) /\ tab' \in [Tab -> Engine]
  BY <1>5, <1>6 DEF OfflineInv, OfflineTyped
<1>8. PICK m : m = [id |-> i, tab |-> t, nr |-> trouble]
  OBVIOUS
<1>9. net' = net \cup {m} /\ m \in Delivery /\ m.id = i /\ m.tab = t
  BY <1>8 DEF Send, Delivery, OfflineInv, OfflineTyped
<1>10. Captured' = Captured
  BY <1>3, NotYetCaptured
<1>11. OfflineTyped'
  BY <1>1, <1>3, <1>7, <1>9, <1>10 DEF OfflineInv, OfflineTyped
<1>12. \A j \in Ids : WasSent(j)' => WasSent(j) \/ j = i
  BY <1>1, <1>9 DEF WasSent, Serving
<1>13. OnlyCaptured'
  BY <1>1, <1>5, <1>7, <1>10, <1>12 DEF OfflineInv, OnlyCaptured
<1>14. OneAtATime'
  <2> SUFFICES ASSUME NEW u \in Tab
               PROVE  /\ \A k, n \in net' : k.tab = u /\ n.tab = u => k = n
                      /\ \A k \in net' : k.tab = u => k.id = tab'[u].cur /\ ~ServingFor(u) /\ answer[u] = Nil
                      /\ ServingFor(u) => serving.id = tab'[u].cur /\ answer[u] = Nil
                      /\ answer[u] # Nil => tab'[u].cur # 0
                      /\ answer[u] = "applied" => receipt[tab'[u].cur] = "applied"
    BY <1>1 DEF OneAtATime, ServingFor
  <2>1. CASE u = t
    BY <1>2, <1>5, <1>7, <1>9, <2>1, OfflineAssumption
  <2>2. CASE u # t
    <3>1. \A k \in net' : k.tab = u => k \in net
      BY <1>9, <2>2
    <3> QED BY <3>1, <1>7, <2>2 DEF OfflineInv, OneAtATime
  <2> QED BY <2>1, <2>2
<1>15. EffectsAreThere'
  <2>1. \A j \in Captured : Effect(j)' = Effect(j)
    BY <1>1, <1>3 DEF RowsStay, Effect
  <2>2. serving # Nil => serving.id \in Captured
    BY ServesRead DEF OfflineInv, OnlyCaptured, WasSent, Serving
  <2>3. LookedOpen'
    BY <1>1, <1>3, <2>2, StillLookedOpen DEF RowsStay
  <2> QED BY <1>1, <1>3, <1>10, <2>1, <2>2, <2>3 DEF OfflineInv, EffectsAreThere
<1>16. FinalisationWaits'
  <2>1. \A j \in Captured : Done(j) => Done(j)'
    BY <1>1, <1>3 DEF Done
  <2>2. queue[i].kind = "finalize" => AllBefore(i)
    BY <1>1 DEF OfflineInv, FinalisationWaits, AllBefore
  <2>3. \A j \in Captured : j \in Ids
    BY RowsRead DEF OfflineInv
  <2>4. \A u \in Tab : /\ tab'[u].todo \subseteq tab[u].todo
                       /\ tab'[u].todo # {} => \A j \in tab[u].open : j \in tab'[u].open \/ Done(j)'
    BY <1>5, <1>7
  <2> QED BY <1>3, <1>12, <2>1, <2>2, <2>3, <2>4, WaitsOn
<1> QED BY <1>11, <1>13, <1>14, <1>15, <1>16 DEF OfflineInv

(* ------------------------------ captures -------------------------------- *)
LEMMA Least == ASSUME NEW T \in SUBSET Nat, T # {} PROVE \E m \in T : \A k \in T : m <= k
<1>1. PICK m \in T : \A k \in T : ~(<<k, m>> \in OpToRel(<, Nat))
  BY NatLessThanWellFounded, WFMin
<1>2. \A k \in T : ~(k < m)
  BY <1>1 DEF OpToRel
<1> QED BY <1>2

LEMMA LastIsOne ==
    ASSUME NEW n \in Nat, NEW T \in SUBSET (1 .. n), T # {}
    PROVE  LastOf(T) \in T
<1>0. \A k \in T : n - k \in Nat /\ k \in Nat
  OBVIOUS
<1>1. PICK U : U = {n - k : k \in T}
  OBVIOUS
<1>a. U \in SUBSET Nat /\ U # {}
  BY <1>0, <1>1
<1>2. PICK m \in U : \A k \in U : m <= k
  BY <1>a, Least
<1>3. PICK x \in T : m = n - x
  BY <1>1, <1>2
<1>4. \A y \in T : x >= y
  <2> TAKE y \in T
  <2>1. n - x <= n - y
    BY <1>1, <1>2, <1>3
  <2> QED BY <1>0, <2>1
<1> QED BY <1>4 DEF LastOf, Max

LEMMA ShownNameTyped == ASSUME OfflineTyped PROVE ShownName \in Name
<1>1. Len(queue) \in Nat /\ Captured = 1 .. Len(queue) /\ handover.name \in Name
      /\ \A i \in Captured : queue[i].name \in Name /\ queue[i].base.name \in Name
  BY RowsRead DEF OfflineTyped, Capture, Stored
<1>2. PICK T : T = Applicable("recipient")
  OBVIOUS
<1>3. T \in SUBSET (1 .. Len(queue))
  BY <1>1, <1>2 DEF Applicable
<1>4. CASE T = {}
  <2>1. LastOf(T) = 0
    BY <1>4 DEF LastOf
  <2>2. queue # << >> => 1 \in Captured
    BY <1>1 DEF OfflineTyped
  <2> QED BY <1>1, <1>2, <2>1, <2>2 DEF ShownName
<1>5. CASE T # {}
  <2>0. LastOf(T) \in T
    BY <1>1, <1>3, <1>5, LastIsOne
  <2>1. LastOf(T) \in T /\ LastOf(T) # 0
    BY <1>3, <2>0
  <2> QED BY <1>1, <1>2, <1>3, <2>1 DEF ShownName
<1> QED BY <1>4, <1>5

LEMMA EnqueueStep ==
    ASSUME OfflineInv, NEW kind \in Kind, NEW nm \in Name, NEW deps \in SUBSET Ids, Enqueue(kind, nm, deps),
           kind = "finalize" => deps = OpenIds
    PROVE  OfflineInv'
<1> DEFINE n == Len(queue) + 1
<1>1. PICK base : base = IF queue # << >> THEN queue[1].base ELSE [name |-> handover.name, sig |-> handover.sig]
  OBVIOUS
<1>2. PICK row : row = [kind |-> kind, name |-> nm, st |-> "pending", deps |-> deps, base |-> base]
  OBVIOUS
<1>3. queue' = Append(queue, row) /\ UNCHANGED <<tab, net, answer, serving, receipt, handover, trouble>>
  BY <1>1, <1>2 DEF Enqueue
<1>4. /\ Len(queue) \in Nat /\ Captured = 1 .. Len(queue) /\ queue \in Seq(Capture) /\ Captured \subseteq Ids
      /\ \A i \in Captured : queue[i] \in Capture
  BY RowsRead DEF OfflineInv, OfflineTyped
<1>5. base \in [name : Name, sig : Signing \cup {Nil}]
  <2>1. CASE queue = << >>
    BY <1>1, <2>1 DEF OfflineInv, OfflineTyped, Stored
  <2>2. CASE queue # << >>
    <3>1. 1 \in Captured
      BY <1>4, <2>2
    <3> QED BY <1>1, <1>4, <2>2, <3>1 DEF Capture
  <2> QED BY <2>1, <2>2
<1>6. row \in Capture
  BY <1>2, <1>5 DEF Capture, RowState
<1>7. /\ queue' \in Seq(Capture) /\ Len(queue') = n /\ queue'[n] = row
      /\ \A i \in Captured : queue'[i] = queue[i]
  BY <1>3, <1>4, <1>6
<1>8. Captured' = Captured \cup {n} /\ n \notin Captured
  BY <1>4, <1>7 DEF Captured
<1>9. n \in Ids
  <2>1. PICK p \in Plan : Len(queue) < Len(p)
    BY DEF Enqueue
  <2>2. p \in Seq(Kind) /\ Len(p) \in Nat /\ DOMAIN p = 1 .. Len(p)
    BY <2>1, OfflineAssumption DEF Kind
  <2>3. n \in DOMAIN p
    BY <1>4, <2>1, <2>2
  <2> QED BY <2>1, <2>3 DEF Ids
<1>10. OfflineTyped'
  BY <1>3, <1>4, <1>7, <1>8, <1>9 DEF OfflineInv, OfflineTyped
<1>11. \A i \in Ids : WasSent(i)' = WasSent(i)
  BY <1>3 DEF WasSent, Serving
<1>12. OnlyCaptured'
  BY <1>3, <1>8, <1>11 DEF OfflineInv, OnlyCaptured
<1>13. OneAtATime'
  BY <1>3 DEF OfflineInv, OneAtATime, ServingFor
<1>14. receipt[n] = "none" /\ ~WasSent(n)
  BY <1>8, <1>9 DEF OfflineInv, OnlyCaptured, WasSent
<1>15. EffectsAreThere'
  <2>1. \A i \in Captured : Effect(i)' = Effect(i)
    BY <1>3, <1>7 DEF Effect
  <2>2. serving # Nil => serving.id \in Captured
    BY ServesRead DEF OfflineInv, OnlyCaptured, WasSent, Serving
  <2>3. queue'[n].st = "pending"
    BY <1>2, <1>7
  <2>4. LookedOpen'
    BY <1>3, <1>7, <2>2, StillLookedOpen
  <2> QED BY <1>3, <1>7, <1>8, <1>14, <2>1, <2>2, <2>3, <2>4 DEF OfflineInv, EffectsAreThere
<1>16. FinalisationWaits'
  <2>1. \A i \in Captured : Done(i)' = Done(i)
    BY <1>3, <1>7 DEF Done
  <2>2. \A i \in Captured : \A j \in 1 .. i - 1 : j \in Captured
    BY <1>4
  <2>3. \A j \in 1 .. n - 1 : j \in Captured
    BY <1>4
  <2>4. ASSUME NEW i \in Captured', queue'[i].kind = "finalize", NEW j \in 1 .. i - 1
        PROVE  j \in queue'[i].deps \/ Done(j)'
    <3>1. CASE i \in Captured
      <4>1. j \in queue[i].deps \/ Done(j)
        BY <1>7, <2>4, <3>1 DEF OfflineInv, FinalisationWaits
      <4> QED BY <1>7, <2>1, <2>2, <3>1, <4>1
    <3>2. CASE i = n
      <4>1. j \in Captured /\ queue'[i].deps = OpenIds
        BY <1>2, <1>7, <2>3, <2>4, <3>2
      <4>2. j \notin OpenIds => queue[j].st \in {"synced", "cleaned", "discarded"}
        BY <4>1 DEF OpenIds
      <4>3. j \notin OpenIds => Done(j)
        BY <4>1, <4>2 DEF Done, OfflineInv, EffectsAreThere
      <4> QED BY <2>1, <4>1, <4>3
    <3> QED BY <1>8, <3>1, <3>2
  <2>5. ASSUME NEW t \in Tab, NEW i \in tab[t].todo, NEW j \in 1 .. i - 1 PROVE j \in tab[t].open \/ Done(j)'
    <3>1. i \in Captured
      BY TabRead
    <3> QED BY <2>1, <2>2, <3>1 DEF OfflineInv, FinalisationWaits
  <2>6. ASSUME NEW i \in Captured', queue'[i].kind = "finalize", WasSent(i)' PROVE AllBefore(i)'
    <3>1. i \in Captured
      BY <1>8, <1>9, <1>11, <1>14, <2>6
    <3>2. AllBefore(i)
      BY <1>4, <1>7, <1>11, <2>6, <3>1 DEF OfflineInv, FinalisationWaits
    <3> QED BY <2>1, <2>2, <3>1, <3>2 DEF AllBefore
  <2> QED BY <1>3, <2>4, <2>5, <2>6 DEF FinalisationWaits
<1> QED BY <1>10, <1>12, <1>13, <1>15, <1>16 DEF OfflineInv

LEMMA CaptureStep ==
    ASSUME OfflineInv, (\E nm \in Name : CaptureRecipient(nm)) \/ CaptureSignature \/ CapturePhoto \/ CaptureFinalize
    PROVE  OfflineInv'
<1>1. /\ ShownName \in Name /\ OpenIds \in SUBSET Ids /\ {} \in SUBSET Ids
      /\ Kind = {"recipient", "signature", "photo", "finalize"}
  BY ShownNameTyped, RowsRead DEF OfflineInv, OpenIds, Kind
<1>2. ASSUME NEW nm \in Name, CaptureRecipient(nm) PROVE OfflineInv'
  BY <1>1, <1>2, EnqueueStep DEF CaptureRecipient
<1>3. CASE CaptureSignature
  BY <1>1, <1>3, EnqueueStep DEF CaptureSignature
<1>4. CASE CapturePhoto
  BY <1>1, <1>4, EnqueueStep DEF CapturePhoto
<1>5. CASE CaptureFinalize
  BY <1>1, <1>5, EnqueueStep DEF CaptureFinalize
<1> QED BY <1>2, <1>3, <1>4, <1>5

LEMMA OfflineStart == OfflineInit => OfflineInv
<1> SUFFICES ASSUME OfflineInit PROVE OfflineInv
  OBVIOUS
<1>1. Captured = {} /\ queue \in Seq(Capture)
  BY DEF OfflineInit, Captured
<1>2. handover \in Stored
  BY OfflineAssumption DEF OfflineInit, OpenDesk, Stored, Signing
<1>3. Rest \in Engine /\ Rest.todo = {} /\ Rest.cur = 0
  BY DEF Rest, Engine
<1>4. OfflineTyped
  BY <1>1, <1>2, <1>3 DEF OfflineInit, OfflineTyped
<1>5. \A i \in Ids : ~WasSent(i)
  BY DEF OfflineInit, WasSent, Serving
<1>6. OnlyCaptured
  BY <1>3, <1>5 DEF OfflineInit, OnlyCaptured
<1>7. OneAtATime
  BY OfflineAssumption DEF OfflineInit, OneAtATime, ServingFor
<1>8. EffectsAreThere /\ FinalisationWaits
  BY <1>1, <1>3 DEF OfflineInit, EffectsAreThere, LookedOpen, At, FinalisationWaits
<1> QED BY <1>4, <1>6, <1>7, <1>8 DEF OfflineInv

LEMMA OfflineSteps == OfflineInv /\ [OfflineNext]_offlineVars => OfflineInv'
<1> SUFFICES ASSUME OfflineInv, [OfflineNext]_offlineVars PROVE OfflineInv'
  OBVIOUS
<1>1. CASE UNCHANGED offlineVars
  BY <1>1 DEF offlineVars, OfflineInv, OfflineTyped, Captured, OnlyCaptured, WasSent, Serving, OneAtATime, ServingFor,
              EffectsAreThere, Effect, LookedOpen, At, Finalises, FinalisationWaits, Done, AllBefore
<1>2. CASE (\E nm \in Name : CaptureRecipient(nm)) \/ CaptureSignature \/ CapturePhoto \/ CaptureFinalize
  BY <1>2, CaptureStep
<1>3. ASSUME NEW i \in Captured, Review(i) \/ Discard(i) \/ CleanupSynced(i) PROVE OfflineInv'
  BY <1>3, ReviewStep
<1>4. ASSUME NEW t \in Tab, DeviceStep(t) \/ Abort(t) \/ CloseTab(t) PROVE OfflineInv'
  BY <1>4, StartRunStep, SendStep, EndRunStep, TakeAnswerStep, TakeErrorStep, AbortStep, CloseTabStep DEF DeviceStep
<1>5. CASE ServerStep
  BY <1>5, AnsweredStep, ReserveStep, LookStep, RenderStep, ExecuteStep, FinishStep DEF ServerStep
<1>6. CASE Refuse \/ Crash \/ Colleague
  BY <1>6, RefuseStep, CrashStep, ColleagueStep
<1>7. ASSUME NEW m \in net, Unavailable(m) PROVE OfflineInv'
  BY <1>7, UnavailableStep
<1>8. ASSUME NEW i \in Ids, GoStale(i) PROVE OfflineInv'
  BY <1>8, StaleStep
<1>9. CASE BackoffEnds
  BY <1>9, BackoffStep DEF BackoffEnds
<1> QED BY <1>1, <1>2, <1>3, <1>4, <1>5, <1>6, <1>7, <1>8, <1>9 DEF OfflineNext

LEMMA OfflineInvariance == OfflineSpec => []OfflineInv
BY OfflineStart, OfflineSteps, PTL DEF OfflineSpec

(* For any captures, tabs and troubles: what the device was told is stored   *)
(* is stored, with its receipt, although the process may die between a       *)
(* reservation, its effect and the receipt; a handover whose finalisation    *)
(* the device was told of is finalised, by a colleague if one was faster     *)
(* between its look and its write; a finalisation comes after all that was   *)
(* captured before, except what the employee discarded; and what is stored   *)
(* is never executed again, however late a repeated request, or that of a    *)
(* second tab, arrives                                                       *)
(* (offline/sync-service.ts, packages/offline).                              *)
THEOREM OfflineIsSafe == OfflineSpec => []OfflineSafety
BY OfflineInvariance, OfflineIsSafeNow, PTL
=============================================================================
