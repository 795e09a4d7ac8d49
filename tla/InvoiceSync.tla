----------------------------- MODULE InvoiceSync -----------------------------
(***************************************************************************)
(* How the payment of one invoice comes back from Lexware: signed webhooks *)
(* become rows and jobs, a job or the reconciliation reads the invoice and *)
(* its payment in two requests, writes the mapping in one transaction and  *)
(* mirrors the status to the settlement in another.                        *)
(***************************************************************************)
EXTENDS Actors

CONSTANTS Notice,      \* webhook events
          NoticeRuns   \* bound: attempts of a lexware.event.process job
ASSUME NoticeAssumption ==
    NoticeRuns \in Nat \ {0} /\ None \notin Notice /\ None \notin {"MISSING", "VOIDED", "UNEXPECTED"}

VARIABLES
    bill,       \* the invoice at Lexware: status, whether something was taken back
    notice,     \* lexware_webhook_events: sent by Lexware, row, job, attempts
    mapping,    \* lexware_invoice_mappings: linked, voucher status, payment, code
    transfer,   \* accounting_transfers: status and attention code
    mirrored,   \* payment status of transfer and settlement
    connected   \* lexware_integration_state.status = "connected"

invoiceSyncVars == <<bill, notice, mapping, transfer, mirrored, connected, visit, edits>>

OwnCodes == {"MISSING", "VOIDED", "UNEXPECTED"}
NoNotice == [sent |-> FALSE, row |-> "none", job |-> "none", runs |-> 0]

InvoiceSyncInit ==
    /\ bill = [is |-> "open", reverted |-> FALSE]
    /\ notice = [n \in Notice |-> NoNotice]
    /\ mapping = [linked |-> FALSE, voucher |-> None, pay |-> None, code |-> None]
    /\ transfer = [st |-> "in_progress", code |-> None]
    /\ mirrored = None
    /\ connected = TRUE
    /\ ActorsInit
-----------------------------------------------------------------------------
VoucherStatus(s) == IF s = "overdue" THEN "open" ELSE s

(* Lexware: the invoice falls due, is paid, unpaid, voided or deleted, and *)
(* every change is announced.                                              *)
Becomes(s, n) ==
    /\ Edit /\ ~notice[n].sent
    /\ bill' = [is |-> s, reverted |-> bill.reverted \/ s = "open"]
    /\ notice' = [notice EXCEPT ![n].sent = TRUE]
    /\ UNCHANGED <<mapping, transfer, mirrored, connected, visit>>

BillChanges(n) ==
    \/ bill.is \in {"open", "overdue"} /\ \E s \in {"paid", "voided", "gone"} : Becomes(s, n)
    \/ bill.is = "open" /\ \E s \in {"overdue", "draft"} : Becomes(s, n)
    \/ bill.is = "paid" /\ \E s \in {"open", "voided"} : Becomes(s, n)
    \/ bill.is \in {"draft", "gone"} /\ Becomes("open", n)

(* The transfer that made the invoice stores its id; it succeeds, or stays *)
(* with accounting because the totals differ.                              *)
InvoiceLinked(mismatch) ==
    /\ Edit /\ ~mapping.linked /\ bill.is \in {"open", "overdue", "paid"}
    /\ IF mismatch
       THEN /\ mapping' = [linked |-> TRUE, voucher |-> None, pay |-> None,
                           code |-> "TOTAL_MISMATCH"]
            /\ transfer' = [st |-> "attention", code |-> "TOTAL_MISMATCH"]
            /\ UNCHANGED mirrored
       ELSE /\ mapping' = [linked |-> TRUE, voucher |-> VoucherStatus(bill.is),
                           pay |-> bill.is, code |-> None]
            /\ transfer' = [st |-> "succeeded", code |-> None]
            /\ mirrored' = bill.is
    /\ UNCHANGED <<bill, notice, connected, visit>>

(* receive: the row and the job are two writes; a crash between them loses *)
(* the answer, and Lexware sends the event again.                          *)
Enqueue(n) == IF notice[n].job = "none" THEN "queued" ELSE notice[n].job
ReceiveNotice(n, dies) ==
    /\ notice[n].sent /\ notice[n].row # "answered" /\ notice[n].job = "none"
    /\ dies => Edit
    /\ ~dies => UNCHANGED edits
    /\ notice' = [notice EXCEPT ![n].row = "queued",
                                ![n].job = IF dies THEN @ ELSE Enqueue(n)]
    /\ UNCHANGED <<bill, mapping, transfer, mirrored, connected, visit>>
-----------------------------------------------------------------------------
(* lexware.event.process: done events are left alone, without a mapping    *)
(* the event is ignored, otherwise the invoice is synchronised.            *)
Finished(n) == notice[n].row \in {"processed", "ignored"}

Finish(n, row, job) ==
    notice' = [notice EXCEPT ![n].row = IF row = None THEN @ ELSE row, ![n].job = job]

NoticeStarts(w, n) ==
    /\ visit[w] = NoVisit /\ notice[n].job = "queued"
    /\ IF Finished(n) THEN Finish(n, None, "done") /\ UNCHANGED visit
       ELSE IF ~mapping.linked THEN Finish(n, "ignored", "done") /\ UNCHANGED visit
       ELSE /\ notice' = [notice EXCEPT ![n].job = "running", ![n].runs = @ + 1]
            /\ visit' = [visit EXCEPT ![w] = [op |-> "sync", at |-> "invoice", for |-> n,
                                              row |-> mapping]]
    /\ UNCHANGED <<bill, mapping, transfer, mirrored, connected, edits>>

(* Reconciliation: what is open or not known to be paid, except what was   *)
(* voided or deleted.                                                      *)
Candidate == /\ mapping.linked
             /\ mapping.code \notin {"VOIDED", "MISSING"}
             /\ \/ mapping.pay \in {"open", "overdue"}
                \/ mapping.code = None /\ mapping.voucher # "paid"

ReconcileStarts(w) ==
    /\ Edit /\ visit[w] = NoVisit /\ connected /\ Candidate
    /\ \A x \in Clerk : visit[x] # NoVisit => visit[x].for # None   \* advisory lock
    /\ visit' = [visit EXCEPT ![w] = [op |-> "sync", at |-> "invoice", for |-> None,
                                      row |-> mapping]]
    /\ UNCHANGED <<bill, notice, mapping, transfer, mirrored, connected>>

(* The end of one synchronisation, for the job that asked for it.          *)
Over(w, row) ==
    /\ visit' = [visit EXCEPT ![w] = NoVisit]
    /\ IF visit[w].for = None THEN UNCHANGED notice ELSE Finish(visit[w].for, row, "done")
Retried(n) == IF notice[n].runs < NoticeRuns THEN "queued" ELSE "dead"
-----------------------------------------------------------------------------
(* syncLexwareInvoice.                                                     *)
Balanced(s) == s \in {"paid", "voided"}      \* nothing is owed on a voided invoice

NormalizeLexwarePaymentStatus(s, balanced) ==
    CASE s = "voided" -> "attention"
      [] s # "voided" /\ (s = "paid" \/ balanced) -> "paid"
      [] s = "draft" /\ ~balanced -> "attention"
      [] OTHER -> s

(* A foreign code of the transfer is never overwritten, the mapping's is.  *)
SetAttention(w, code) ==
    /\ mapping' = [mapping EXCEPT !.code = code,
                                  !.voucher = IF code = "VOIDED" THEN "voided"
                                              ELSE IF code = "UNEXPECTED" THEN visit[w].bill
                                              ELSE @]
    /\ transfer' = IF transfer.code \in OwnCodes \cup {None}
                   THEN [transfer EXCEPT !.code = code] ELSE transfer
    /\ Over(w, "processed")

GetInvoice(w) ==
    /\ visit[w].op = "sync" /\ visit[w].at = "invoice"
    /\ CASE bill.is = "gone" -> SetAttention(w, "MISSING")
         [] bill.is = "voided" -> SetAttention(w, "VOIDED")
         [] OTHER -> /\ visit' = [visit EXCEPT ![w] =
                            [op |-> "sync", at |-> "payment", for |-> @.for, row |-> @.row,
                             bill |-> bill.is]]
                     /\ UNCHANGED <<notice, mapping, transfer>>
    /\ UNCHANGED <<bill, mirrored, connected, edits>>

GetPayment(w) ==
    LET s == NormalizeLexwarePaymentStatus(visit[w].bill, Balanced(bill.is)) IN
    /\ visit[w].op = "sync" /\ visit[w].at = "payment"
    /\ CASE bill.is = "gone" -> SetAttention(w, "MISSING")
         [] bill.is # "gone" /\ s = "attention" -> SetAttention(w, "UNEXPECTED")
         [] OTHER -> /\ visit' = [visit EXCEPT ![w] =
                            [op |-> "sync", at |-> "write", for |-> @.for, row |-> @.row,
                             bill |-> @.bill, pay |-> s]]
                     /\ UNCHANGED <<notice, mapping, transfer>>
    /\ UNCHANGED <<bill, mirrored, connected, edits>>

(* Only a code this synchronisation sets itself is taken back, and only if *)
(* the row carried it when it was read.                                    *)
\* mutant: a code that was set after the row was read is taken back as well
ClearsUnread(w) == visit[w].row.code \in OwnCodes \cup {None}
ClearsOwnAttention(w) == visit[w].row.code \in OwnCodes
Unchanged(w) == /\ ~ClearsOwnAttention(w)
                /\ visit[w].row.voucher = VoucherStatus(visit[w].bill)
                /\ visit[w].row.pay = visit[w].pay

WriteMapping(w) ==
    /\ visit[w].op = "sync" /\ visit[w].at = "write"
    /\ mapping' = [mapping EXCEPT !.voucher = VoucherStatus(visit[w].bill),
                                  !.pay = visit[w].pay,
                                  !.code = IF ClearsOwnAttention(w) THEN None ELSE @]
    /\ transfer' = IF ClearsOwnAttention(w) /\ transfer.code = visit[w].row.code
                   THEN [transfer EXCEPT !.code = None] ELSE transfer
    /\ IF Unchanged(w) THEN Over(w, "processed")
       ELSE visit' = [visit EXCEPT ![w].at = "mirror"] /\ UNCHANGED notice
    /\ UNCHANGED <<bill, mirrored, connected, edits>>

(* setPaymentStatus refuses while the transfer has not succeeded, and that *)
(* refusal is swallowed.                                                   *)
SetPaymentStatus(w) ==
    /\ visit[w].op = "sync" /\ visit[w].at = "mirror"
    /\ mirrored' = IF transfer.st = "succeeded" THEN visit[w].pay ELSE mirrored
    /\ Over(w, "processed")
    /\ UNCHANGED <<bill, mapping, transfer, connected, edits>>

(* A request that fails, or a database error between the two transactions: *)
(* unauthorized disconnects and is final, everything else is tried again.  *)
SyncFails(w, unauthorized) ==
    /\ Edit /\ visit[w] # NoVisit
    /\ unauthorized => visit[w].at \in {"invoice", "payment"}
    /\ connected' = (connected /\ ~unauthorized)
    /\ visit' = [visit EXCEPT ![w] = NoVisit]
    /\ IF visit[w].for = None THEN UNCHANGED notice
       ELSE Finish(visit[w].for, "failed",
                   IF unauthorized THEN "done" ELSE Retried(visit[w].for))
    /\ UNCHANGED <<bill, mapping, transfer, mirrored>>

Reconnected == /\ ~connected /\ connected' = TRUE
               /\ UNCHANGED <<bill, notice, mapping, transfer, mirrored, visit, edits>>

InvoiceSyncNext ==
    \/ \E n \in Notice :
          \/ BillChanges(n)
          \/ \E dies \in BOOLEAN : ReceiveNotice(n, dies)
          \/ \E w \in Clerk : NoticeStarts(w, n)
    \/ \E mismatch \in BOOLEAN : InvoiceLinked(mismatch)
    \/ \E w \in Clerk :
          \/ ReconcileStarts(w) \/ GetInvoice(w) \/ GetPayment(w)
          \/ WriteMapping(w) \/ SetPaymentStatus(w)
          \/ \E unauthorized \in BOOLEAN : SyncFails(w, unauthorized)
    \/ Reconnected

InvoiceSyncSpec == InvoiceSyncInit /\ [][InvoiceSyncNext]_invoiceSyncVars
-----------------------------------------------------------------------------
Calm == /\ \A w \in Clerk : visit[w] = NoVisit
        /\ \A n \in Notice : notice[n].sent => Finished(n)

Tells == CASE bill.is = "gone" -> mapping.code = "MISSING"
           [] bill.is = "voided" -> mapping.code = "VOIDED"
           [] OTHER -> mapping.pay = bill.is

(* When every announced change has been handled, in whatever order and     *)
(* after whatever failures, the mapping says what Lexware says, or the     *)
(* next reconciliation reads it - unless Lexware took something back.      *)
StaleIsReconciled ==
    Calm /\ transfer.st = "succeeded" /\ ~bill.reverted /\ bill.is # "draft" =>
        Tells \/ Candidate
=============================================================================
