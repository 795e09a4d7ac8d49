--------------------------- MODULE AppointmentBook ---------------------------
(* The appointments of bookings: created for a confirmed booking, moved,     *)
(* assigned, completed and cancelled under the lock of their row; what the   *)
(* customer is told of a new time by mail, and the mark that he still has to *)
(* be told.  The mails leave later, in any order, and are reported back to   *)
(* the row by their version.  Person stands for employees.                   *)
EXTENDS Actors

CONSTANTS Booking, Slot       \* Slot: points in time an appointment can have
Kind == {"out", "return"}     \* delivery or pickup, and the return

VARIABLES
    process,   \* open or cancelled, how the goods reach the customer, the times he asked for
    meeting,   \* appointments: the row of a booking and kind, or NoMeeting
    letter,    \* deliveries of kind appointment_changed
    heard      \* times the customer was told, the last one last; None: that the time is open
bookVars == <<process, meeting, letter, heard, visit, edits>>

NoMeeting == [status |-> "absent"]
Row(b, k) == meeting[b][k]
StillOn(b, k) == Row(b, k).status = "scheduled"

BookInit ==
    /\ ActorsInit
    /\ process \in [Booking -> [status : {"open"}, owner : Person \cup {None},
                                fulfillment : {"pickup", "delivery"}, wish : [Kind -> Slot \cup {None}]]]
    /\ \A b \in Booking : process[b].fulfillment = "pickup" => process[b].wish["return"] = None
    /\ meeting = [b \in Booking |-> [k \in Kind |-> NoMeeting]]
    /\ letter = {} /\ heard = [b \in Booking |-> [k \in Kind |-> <<>>]]

Tell(b, k, t) == heard' = [heard EXCEPT ![b][k] = Append(@, t)]
KeepHeard == UNCHANGED heard
Change(b, k, row) == meeting' = [meeting EXCEPT ![b][k] = [row EXCEPT !.version = @ + 1]]

(* --------------------- creation from the booking ----------------------- *)
(* read without a lock; the rows are inserted one by one *)
EnsureAppointments(w, b) ==
    /\ process[b].status = "open" /\ \E k \in Kind : Row(b, k) = NoMeeting
    /\ Begin(w, [op |-> "ensure", booking |-> b, owner |-> process[b].owner])
    /\ UNCHANGED <<process, meeting, letter, heard, edits>>

(* an agreed time of the snapshot counts as known to the customer *)
InsertAppointment(w, k) ==
    LET b == visit[w].booking
    IN /\ visit[w].op = "ensure" /\ Row(b, k) = NoMeeting
       /\ meeting' = [meeting EXCEPT ![b][k] =
            [status |-> "scheduled", start |-> process[b].wish[k], assigned |-> visit[w].owner,
             info |-> FALSE, known |-> None, version |-> 0, ack |-> None]]
       /\ IF process[b].wish[k] = None THEN KeepHeard ELSE Tell(b, k, process[b].wish[k])
       /\ UNCHANGED <<process, letter, visit, edits>>

(* both rows are there, or the process died; the next list that is opened tries again *)
EnsureEnds(w) ==
    /\ visit[w].op = "ensure" /\ End(w)
    /\ UNCHANGED <<process, meeting, letter, heard, edits>>

(* ------------------------- changes of the row -------------------------- *)
(* what the customer knows is kept at the first move of an agreed time *)
KnownAfter(row) == IF row.known # None THEN row.known ELSE row.start

Rescheduled(row, t) ==
    IF t = row.start THEN row
    ELSE [row EXCEPT !.start = t, !.info = @ \/ row.start # None, !.known = KnownAfter(row),
                     !.version = @ + 1]
(* a time set where none was agreed is taken as agreed with the customer *)
FirstTime(b, k) == Row(b, k).start = None /\ ~Row(b, k).info

(* with the version the caller has seen *)
Reschedule(b, k, t) ==
    /\ Edit /\ StillOn(b, k) /\ t # Row(b, k).start
    /\ meeting' = [meeting EXCEPT ![b][k] = Rescheduled(@, t)]
    /\ IF FirstTime(b, k) THEN Tell(b, k, t) ELSE KeepHeard
    /\ UNCHANGED <<process, letter, visit>>

(* Friday and Sunday in one transaction, for pickups only *)
ApplyWeekendStandard(b, friday, sunday) ==
    LET at == [k \in Kind |-> IF k = "out" THEN friday ELSE sunday]
    IN /\ Edit /\ process[b].fulfillment = "pickup" /\ \A k \in Kind : StillOn(b, k)
       /\ \E k \in Kind : Row(b, k).start # at[k]
       /\ meeting' = [meeting EXCEPT ![b] = [k \in Kind |-> Rescheduled(@[k], at[k])]]
       /\ heard' = [heard EXCEPT ![b] = [k \in Kind |->
                        IF FirstTime(b, k) THEN Append(@[k], at[k]) ELSE @[k]]]
       /\ UNCHANGED <<process, letter, visit>>

(* a change on the day itself has to be acknowledged by the new person *)
Assign(b, k, p, today) ==
    /\ Edit /\ StillOn(b, k) /\ Row(b, k).assigned # p
    /\ Change(b, k, [Row(b, k) EXCEPT !.assigned = p,
            !.ack = IF today /\ Row(b, k).assigned # None /\ Row(b, k).start # None THEN p ELSE None])
    /\ UNCHANGED <<process, letter, heard, visit>>

Acknowledge(b, k) ==
    /\ StillOn(b, k) /\ Row(b, k).ack # None
    /\ meeting' = [meeting EXCEPT ![b][k].ack = None]
    /\ UNCHANGED <<process, letter, heard, visit, edits>>

(* in the calendar: returns that were never handed over, with a person assigned *)
Complete(b) ==
    /\ Edit /\ StillOn(b, "return") /\ Row(b, "return").assigned # None
    /\ Change(b, "return", [Row(b, "return") EXCEPT !.status = "completed"])
    /\ UNCHANGED <<process, letter, heard, visit>>

(* inside the finalisation of the handover or of the return *)
CompleteWithin(b, k, p) ==
    /\ Edit /\ StillOn(b, k)
    /\ Change(b, k, [Row(b, k) EXCEPT !.status = "completed",
                                      !.assigned = IF @ = None THEN p ELSE @])
    /\ UNCHANGED <<process, letter, heard, visit>>

(* the rows that are there, in the transaction of the cancellation *)
CancelForProcess(b) ==
    /\ Edit /\ process[b].status = "open"
    /\ process' = [process EXCEPT ![b].status = "cancelled"]
    /\ meeting' = [meeting EXCEPT ![b] = [k \in Kind |->
            IF StillOn(b, k) THEN [Row(b, k) EXCEPT !.status = "cancelled", !.version = Row(b, k).version + 1]
            ELSE Row(b, k)]]
    /\ UNCHANGED <<letter, heard, visit>>

(* -------------------- telling the customer by mail --------------------- *)
InformCustomer(w, b, k) ==
    /\ Edit /\ StillOn(b, k) /\ Row(b, k).info /\ process[b].status = "open"
    /\ Begin(w, [op |-> "inform", booking |-> b, kind |-> k, version |-> Row(b, k).version,
                 old |-> Row(b, k).known, new |-> Row(b, k).start])
    /\ UNCHANGED <<process, meeting, letter, heard>>

LettersOf(b, k, v) ==
    {m \in letter : m.booking = b /\ m.kind = k /\ m.version = v}
(* one delivery per version, another one only after a failed or blocked one *)
EnqueueRetryingFailed(w) ==
    LET v == visit[w]  before == LettersOf(v.booking, v.kind, v.version)
    IN /\ v.op = "inform" /\ End(w)
       /\ letter' = IF \E m \in before : m.state \notin {"failed", "blocked"} THEN letter
                    ELSE letter \cup {[booking |-> v.booking, kind |-> v.kind, version |-> v.version,
                                       old |-> v.old, new |-> v.new, state |-> "pending",
                                       try |-> Cardinality(before)]}
       /\ UNCHANGED <<process, meeting, heard, edits>>

LetterState(m, st) == letter' = (letter \ {m}) \cup {[m EXCEPT !.state = st]}
(* only the status is looked at before the mail leaves, not the version *)
PreSendGuard(m) == StillOn(m.booking, m.kind) /\ process[m.booking].status = "open"

MailLeaves(m) ==
    /\ m.state = "pending"
    /\ \/ PreSendGuard(m) /\ LetterState(m, "sent") /\ Tell(m.booking, m.kind, m.new)
       \/ PreSendGuard(m) /\ LetterState(m, "failed") /\ KeepHeard
       \/ ~PreSendGuard(m) /\ LetterState(m, "blocked") /\ KeepHeard
    /\ UNCHANGED <<process, meeting, visit, edits>>

(* mutant: the mark goes whatever the version *)
InfoAnyway(row, v) == FALSE
(* the mark goes when nothing was changed since the mail *)
InfoAfter(row, v) == row.info /\ row.version # v

MailSent(m) ==
    /\ m.state = "sent" /\ LetterState(m, "noted")
    /\ meeting' = [meeting EXCEPT ![m.booking][m.kind] =
            [@ EXCEPT !.known = IF Row(m.booking, m.kind).version = m.version
                                THEN None ELSE m.new,
                      !.info = InfoAfter(Row(m.booking, m.kind), m.version)]]
    /\ UNCHANGED <<process, heard, visit, edits>>

BookNext ==
    \/ \E b \in Booking :
        \/ Complete(b) \/ CancelForProcess(b)
        \/ \E f, s \in Slot : ApplyWeekendStandard(b, f, s)
        \/ \E w \in Clerk : EnsureAppointments(w, b)
        \/ \E k \in Kind :
            \/ \E t \in Slot \cup {None} : Reschedule(b, k, t)
            \/ \E p \in Person : CompleteWithin(b, k, p) \/ \E today \in BOOLEAN : Assign(b, k, p, today)
            \/ Acknowledge(b, k)
            \/ \E w \in Clerk : InformCustomer(w, b, k)
    \/ \E w \in Clerk : EnsureEnds(w) \/ EnqueueRetryingFailed(w) \/ \E k \in Kind : InsertAppointment(w, k)
    \/ \E m \in letter : MailLeaves(m) \/ MailSent(m)
BookSpec == BookInit /\ [][BookNext]_bookVars

Told(b, k) == {heard[b][k][i] : i \in DOMAIN heard[b][k]}

(* As long as no mail named the time of an appointment, the mark that the    *)
(* customer has to be informed stands, whatever mail of an earlier move is   *)
(* reported late.                                                            *)
DueUntilTold ==
    \A b \in Booking, k \in Kind :
        StillOn(b, k) /\ Row(b, k).start # None /\ ~Row(b, k).info => Row(b, k).start \in Told(b, k)

(* The old time a mail names is one the customer had been told, as long as   *)
(* no mail said that the time is open again.                                 *)
OldTimeWasTold ==
    \A b \in Booking, k \in Kind :
        Row(b, k) # NoMeeting /\ Row(b, k).known # None /\ None \notin Told(b, k) =>
            Row(b, k).known \in Told(b, k)

(* What the customer was told and what the appointment remembers of it.      *)
BookSafety == DueUntilTold /\ OldTimeWasTold
=============================================================================
