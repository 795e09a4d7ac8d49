------------------------------ MODULE Settlement ------------------------------
(***************************************************************************)
(* The settlement of one finalised return, until its invoice exists:       *)
(* apps/api/src/settlement/settlement-service.ts and settlement/jobs.ts,   *)
(* on top of the transfer of InvoiceTransfer.  Staff decide what is        *)
(* charged for damages and missing parts; if anything is, the customer is  *)
(* told by one mail, and 24 hours after that mail was sent the settlement  *)
(* goes to accounting by itself (the auto job), or earlier or later by a   *)
(* click.  Every change is one transaction under the lock of the           *)
(* settlement row (mutate), which refuses it once a transfer is prepared,  *)
(* recomputes the derived facts (rebuildWithin), and looks after the auto  *)
(* job when it has committed (afterCommit) - unless the process dies.      *)
(*                                                                         *)
(* amount is the sum of the charges the customer must be told about; the   *)
(* other lines, deposits, versions and texts are left out, and so is the   *)
(* process that is completed after the transfer.                           *)
(***************************************************************************)
EXTENDS InvoiceTransfer

CONSTANT MaxAmount    \* bound on the charges

ASSUME SettlementAssumption == MaxAmount \in Nat \ {0}

VARIABLES
    settle,    \* the row of settlements; open: a decision on a cost is, wait: the 24 hours
    notice,    \* the row of settlement_customer_notices and what its mail says
    job,       \* the pending or running job settlement.accounting_transfer
    mode       \* how each execution was started

settlementVars == <<settle, notice, job, mode>>
vars == <<row, call, contact, invoices, hazards, settle, notice, job, mode>>

Fresh == [amount |-> 0, open |-> FALSE, wait |-> "none", manual |-> FALSE, changed |-> FALSE,
          response |-> "none", edited |-> FALSE, payload |-> 0, by |-> "nobody"]

NoNotice == [status |-> "none", told |-> 0]

Init ==
    /\ TransferInit
    /\ \E open \in BOOLEAN : settle = [Fresh EXCEPT !.open = open]
    /\ notice = NoNotice
    /\ job = "none"
    /\ mode = [c \in Calls |-> "none"]

-----------------------------------------------------------------------------
(* deriveSettlementStatus and transferBlockers. *)

(* an open clarification of a blocking type *)
Blocking(s) == s.open \/ s.response = "open"
Told(s) == s.wait # "none"
NoticeMissing(s) == s.amount > 0 /\ ~Told(s)
Waiting(s) == s.amount > 0 /\ s.wait = "running"
Clear(s) == ~Blocking(s) /\ ~NoticeMissing(s) /\ ~Waiting(s)

(* what the job needs more than a click *)
Automatic(s) == ~s.manual /\ (s.amount = 0 \/ (s.wait = "over" /\ ~s.changed))

Allowed(s, m) == Clear(s) /\ (m = "manual" \/ Automatic(s))

(* isMutable: no transfer is prepared *)
Mutable == row.status = "none"

-----------------------------------------------------------------------------
(* mutate. *)

(* rebuildWithin: until it is sent the notice is prepared, or dropped; one    *)
(* that is queued is not dropped                                              *)
Rebuilt(s, n) ==
    CASE Told(s) -> n
      [] ~Told(s) /\ s.amount > 0 /\ n.status = "none" -> [n EXCEPT !.status = "prepared"]
      [] ~Told(s) /\ s.amount = 0 /\ n.status # "queued" -> NoNotice
      [] OTHER -> n

(* ensureAutoJob: one job, pulled forward but never put off; it takes the job *)
(* that is running for one that is still to come                              *)
Ensured(s) ==
    CASE s.manual -> job
      [] ~s.manual /\ Clear(s) /\ job = "later" -> "due"
      [] ~s.manual /\ Clear(s) /\ job = "none" -> "due"
      [] ~s.manual /\ Waiting(s) /\ ~Blocking(s) /\ job = "none" -> "later"
      [] OTHER -> job

(* afterCommit may be lost with the process *)
Mutate(s, n) ==
    /\ Mutable
    /\ settle' = s
    /\ notice' = Rebuilt(s, n)
    /\ job' \in {Ensured(s), job}
    /\ UNCHANGED <<row, call, contact, invoices, hazards, mode>>

(* history: the charges change while a mail that tells of them is under way  *)
Charged(s, amount) ==
    [s EXCEPT !.amount = amount,
              !.edited = @ \/ (~Told(s) /\ notice.status \in {"queued", "failed"})]

Answered(s) == IF s.response = "open" THEN [s EXCEPT !.response = "done"] ELSE s

(* mutant: an amount changed after the notice is like one changed before *)
Unmarked(s) == Answered(s)

(* markAmountsChangedAfterNotice *)
Marked(s) ==
    IF Told(s) THEN Answered([s EXCEPT !.changed = TRUE, !.manual = TRUE]) ELSE s

(* a damage or a missing part is found, or the decision not to charge one is *)
(* taken back: a decision on its cost is open                                *)
Discover == ~settle.open /\ Mutate([settle EXCEPT !.open = TRUE], notice)

(* resolveClarification: charge it ... *)
Charge(x) ==
    /\ settle.open /\ settle.amount + x <= MaxAmount
    /\ LET s == [settle EXCEPT !.open = FALSE]
       IN Mutate(Marked(Charged(s, settle.amount + x)), notice)

(* ... or do not; as well when the missing part has come back *)
Waive == settle.open /\ Mutate([settle EXCEPT !.open = FALSE], notice)

(* updateLine *)
Update(a) ==
    /\ settle.amount > 0 /\ a > 0 /\ a # settle.amount
    /\ Mutate(Marked(Charged(settle, a)), notice)

(* removeLine: the position is not charged, and the auto job may run again   *)
Remove(a) ==
    /\ a < settle.amount
    /\ Mutate([Answered(Charged(settle, a)) EXCEPT !.manual = @ /\ settle.wait = "freed"], notice)

(* approveAndSendNotice: the mail is put into the outbox *)
Approve ==
    /\ NoticeMissing(settle) /\ ~Blocking(settle)
    /\ notice.status \in {"prepared", "failed"}
    /\ Mutate([settle EXCEPT !.edited = FALSE], [status |-> "queued", told |-> settle.amount])

(* noticeMailSent: called when the mail is sent, a failed one by a resend    *)
NoticeSent ==
    /\ notice.status \in {"queued", "failed"}
    /\ Mutate([settle EXCEPT !.wait = "running"], [notice EXCEPT !.status = "sent"])

(* noticeMailFailed: no transaction of the settlement *)
NoticeFailed ==
    /\ notice.status = "queued"
    /\ notice' = [notice EXCEPT !.status = "failed"]
    /\ UNCHANGED <<row, call, contact, invoices, hazards, settle, job, mode>>

(* mutant: the answer is taken down although a transfer is prepared *)
RespondAnyTime ==
    /\ Told(settle) /\ settle.response = "none"
    /\ settle' = [settle EXCEPT !.response = "open", !.manual = TRUE]
    /\ UNCHANGED <<row, call, contact, invoices, hazards, notice, job, mode>>

(* recordCustomerResponse *)
Respond ==
    /\ Told(settle) /\ settle.response = "none"
    /\ Mutate([settle EXCEPT !.response = "open", !.manual = TRUE], notice)

(* releaseAsCalculated *)
Release ==
    /\ settle.response = "open"
    /\ Mutate([settle EXCEPT !.response = "done", !.wait = "freed", !.manual = TRUE], notice)

(* endWait: it looks at the status that was derived last, which may be old   *)
EndWait ==
    /\ settle.amount > 0 /\ settle.wait \in {"running", "over"} /\ ~Blocking(settle)
    /\ Mutate([settle EXCEPT !.wait = "freed", !.manual = TRUE], notice)

(* refresh: someone looks at the settlement *)
View == Mutate(settle, notice)

(* wait_until passes *)
WindowEnds ==
    /\ settle.wait = "running"
    /\ settle' = [settle EXCEPT !.wait = "over"]
    /\ UNCHANGED <<row, call, contact, invoices, hazards, notice, job, mode>>

-----------------------------------------------------------------------------
(* The transfer is started, by the job or by a click. *)

Due == job = "due" \/ (job = "later" /\ settle.wait # "running")

(* prepareTransferWithin: the payload is frozen when there is none *)
Started(c, m) ==
    /\ Start(c)
    /\ settle' = IF row.status = "none" THEN [settle EXCEPT !.payload = settle.amount, !.by = m]
                 ELSE settle
    /\ mode' = [mode EXCEPT ![c] = m]
    /\ UNCHANGED notice

(* runAutoTransfer, up to execute; it goes on as well when all is done *)
StartAuto(c) ==
    /\ Due /\ (row.status = "succeeded" \/ Allowed(settle, "auto"))
    /\ Started(c, "auto")
    /\ job' = "running"

(* ... or it is skipped: ensureAutoJob sees the job itself *)
SkipAuto ==
    /\ Due /\ row.status # "succeeded" /\ ~Allowed(settle, "auto")
    /\ job' = "none"
    /\ UNCHANGED <<row, call, contact, invoices, hazards, settle, notice, mode>>

(* transferNow, up to execute *)
StartManual(c) ==
    /\ row.status # "none" \/ Allowed(settle, "manual")
    /\ Started(c, "manual")
    /\ UNCHANGED job

(* when an execution ends, its job is done, or is to run again: after an     *)
(* error, a crash, or for a claim of someone else                            *)
Finish(c) ==
    IF call'[c].at = "idle"
    THEN /\ mode' = [mode EXCEPT ![c] = "none"]
         /\ job' \in IF mode[c] = "auto" THEN {"none", "due"} ELSE {job}
    ELSE UNCHANGED <<mode, job>>

(* phase 1 asks again whether the transfer is allowed (recheck) *)
Step(c) ==
    /\ \/ Claim(c) /\ Allowed(settle, mode[c])
       \/ TurnAway(c) \/ CallLexware(c) \/ Commit(c) \/ Crash(c)
    /\ Finish(c)
    /\ UNCHANGED <<settle, notice>>

Environment ==
    /\ Expire \/ \E k \in Contacts : Link(k)
    /\ UNCHANGED settlementVars

Staff ==
    \/ Discover \/ Waive \/ Approve \/ Respond \/ Release \/ EndWait \/ View
    \/ \E x \in 1..MaxAmount : Charge(x) \/ Update(x)
    \/ \E a \in 0..(MaxAmount - 1) : Remove(a)

Next ==
    \/ Staff \/ NoticeSent \/ NoticeFailed \/ WindowEnds \/ SkipAuto \/ Environment
    \/ \E c \in Calls : StartAuto(c) \/ StartManual(c) \/ Step(c)

Spec == Init /\ [][Next]_vars

-----------------------------------------------------------------------------
(* The type of the state. *)
TypeOK ==
    /\ TransferTypeOK
    /\ settle \in [amount : 0..MaxAmount, open : BOOLEAN, manual : BOOLEAN, changed : BOOLEAN,
                   wait : {"none", "running", "over", "freed"},
                   response : {"none", "open", "done"}, edited : BOOLEAN,
                   payload : 0..MaxAmount, by : {"nobody", "auto", "manual"}]
    /\ notice \in [status : {"none", "prepared", "queued", "failed", "sent"},
                   told : 0..MaxAmount]
    /\ job \in {"none", "later", "due", "running"}
    /\ mode \in [Calls -> {"none", "auto", "manual"}]

(* Once a transfer is prepared, until its invoice exists and ever after: the *)
(* invoice is over what the settlement says, no question is open, and the    *)
(* customer was told what had to be told and had the time to object - no     *)
(* mutation, listener or job that comes in between can change that.          *)
PreparedIsClear ==
    row.status # "none" => Clear(settle) /\ settle.payload = settle.amount

(* The job charges for damages only what the customer was told, and only     *)
(* after the 24 hours - unless the charges changed while the mail was under  *)
(* way.                                                                      *)
ToldBeforeCharged ==
    settle.by = "auto" /\ settle.payload > 0 /\ ~settle.edited
        => settle.wait = "over" /\ settle.payload <= notice.told

(* Once a human has ended the wait or released the settlement as calculated, *)
(* it never goes to accounting by itself, whatever positions are removed     *)
(* afterwards.                                                               *)
ReleasedIsManual == settle.wait = "freed" => settle.by # "auto"
=============================================================================
