--------------------------- MODULE InvoiceTransfer ---------------------------
(***************************************************************************)
(* One row of accounting_transfers and the executions that bring its       *)
(* invoice to Lexware: apps/api/src/accounting/transfer-service.ts,        *)
(* executeTwoPhase.  An execution is a click or a run of the job; it may   *)
(* crash anywhere.  Phase 1 claims the row in a transaction, phase 2 talks *)
(* to Lexware without a lock - resolve the contact, look for an invoice    *)
(* that an earlier execution may have created, POST, GET - and phase 3     *)
(* records the result in a transaction.  The invoice is written for the    *)
(* contact that the customer is linked to, and an administrator may link   *)
(* the customer to another one (lexware/contact-sync-service.ts, link).    *)
(*                                                                         *)
(* Assumed of Lexware: an answer with an error status means that nothing   *)
(* was created, unless it is a gateway timeout (504,                       *)
(* docs/LEXWARE_API_NOTES.md), and a request that is given up before it    *)
(* arrived never arrives.  hazards is a history variable: what happened    *)
(* that the protocol cannot cope with.                                     *)
(***************************************************************************)
EXTENDS Integers, Sequences, FiniteSets

CONSTANTS
    Calls,        \* executions under way at the same time
    None,
    Contacts,     \* the Lexware contacts the customer may be linked to
    MaxAttempts   \* bound on accounting_transfers.attempts

ASSUME TransferAssumption ==
    /\ None \notin Calls \cup Contacts
    /\ Contacts # {}
    /\ MaxAttempts \in Nat

VARIABLES
    row,       \* accounting_transfers with the invoice id of its mapping (0: null)
    call,      \* the executions
    contact,   \* the contact the customer is linked to
    invoices,  \* the invoices at Lexware, by id: the contact each is written for, and
               \* whether its total is the expected one
    hazards    \* history

transferVars == <<row, call, contact, invoices, hazards>>

Row(s, o, l, i, n) == [status |-> s, owner |-> o, live |-> l, known |-> i, attempts |-> n]

NoCall == [at |-> "idle", duty |-> FALSE, known |-> 0, contact |-> None, id |-> 0,
           searched |-> FALSE, result |-> "none"]

TransferInit ==
    /\ row = Row("none", None, FALSE, 0, 0)
    /\ call = [c \in Calls |-> NoCall]
    /\ contact \in Contacts
    /\ invoices = <<>>
    /\ hazards = {}

-----------------------------------------------------------------------------
(* What the steps are built from. *)

Ids == 1..Len(invoices)

InPhase2(c) == call[c].at \notin {"idle", "called"}

(* an invoice at Lexware that the row does not name, or a request on its way *)
Unrecorded == (\E i \in Ids : i # row.known) \/ \E c \in Calls : call[c].at = "sent"

(* the row does not rule out that an earlier execution created an invoice    *)
NeedsRecovery == row.status \in {"outcome_unknown", "in_progress"}

End(c) == call' = [call EXCEPT ![c] = NoCall]

(* phase 2 ends: the result and the invoice id it knows *)
Result(c, r, i) ==
    call' = [call EXCEPT ![c].at = "result", ![c].result = r, ![c].id = i,
                         ![c].known = 0, ![c].contact = None]

(* claimed again, or refused, while an execution that lost its claim runs *)
Overtakes(c) == \E d \in Calls \ {c} : InPhase2(d)
Noting(h, happens) == hazards' = IF happens THEN hazards \cup {h} ELSE hazards

-----------------------------------------------------------------------------
(* Before phase 1: the settlement has prepared the row. *)

Prepare ==
    row' = IF row.status = "none" THEN [row EXCEPT !.status = "pending"] ELSE row

Start(c) ==
    /\ call[c].at = "idle"
    /\ Prepare
    /\ call' = [call EXCEPT ![c].at = "called"]
    /\ UNCHANGED <<contact, invoices, hazards>>

-----------------------------------------------------------------------------
(* Phase 1, one transaction under the lock of the row. *)

Claimable ==
    \/ row.status \in {"pending", "failed", "outcome_unknown"}
    \/ row.status = "in_progress" /\ ~row.live

(* succeeded, under manual review, or being executed; or recheck says no *)
TurnAway(c) ==
    /\ call[c].at = "called"
    /\ End(c)
    /\ UNCHANGED <<row, contact, invoices, hazards>>

(* fail: the configuration or the data block the transfer; the claim fields  *)
(* stay as they are                                                          *)
Block(c) ==
    /\ call[c].at = "called" /\ Claimable
    /\ row.attempts < MaxAttempts
    /\ \E s \in {IF NeedsRecovery THEN "outcome_unknown" ELSE "failed", "attention"} :
          row' = Row(s, row.owner, FALSE, row.known, row.attempts + 1)
    /\ End(c)
    /\ Noting("overtaken", Overtakes(c))
    /\ UNCHANGED <<contact, invoices>>

(* mutant: an expired claim is taken over like a failed transfer *)
TakeWithoutDuty(c) ==
    /\ call[c].at = "called" /\ Claimable
    /\ row.attempts < MaxAttempts
    /\ row' = Row("in_progress", c, TRUE, row.known, row.attempts + 1)
    /\ call' = [call EXCEPT ![c].at = "claimed", ![c].known = row.known,
                            ![c].duty = (row.status = "outcome_unknown")]
    /\ Noting("overtaken", Overtakes(c))
    /\ UNCHANGED <<contact, invoices>>

(* the row is claimed, and the duty to look for an invoice is remembered *)
Take(c) ==
    /\ call[c].at = "called" /\ Claimable
    /\ row.attempts < MaxAttempts
    /\ row' = Row("in_progress", c, TRUE, row.known, row.attempts + 1)
    /\ call' = [call EXCEPT ![c].at = "claimed", ![c].known = row.known,
                            ![c].duty = NeedsRecovery]
    /\ Noting("overtaken", Overtakes(c))
    /\ UNCHANGED <<contact, invoices>>

(* TRANSFER_CLAIM_MS pass *)
Expire ==
    /\ row.live
    /\ row' = [row EXCEPT !.live = FALSE]
    /\ UNCHANGED <<call, contact, invoices, hazards>>

-----------------------------------------------------------------------------
(* Phase 2, callLexware. *)

Phase2 == UNCHANGED <<row, contact>>

(* resolveForTransfer: the contact the customer is linked to now, or none    *)
Resolve(c) ==
    /\ call[c].at = "claimed"
    /\ \/ call' = [call EXCEPT ![c].contact = contact,
                     ![c].at = IF call[c].duty \/ call[c].known # 0 THEN "search" ELSE "sent"]
       \/ Result(c, "failed", 0)
    /\ Phase2 /\ UNCHANGED <<invoices, hazards>>

(* recoverInvoice by the id that is known: found, or gone or of another total *)
ReadKnown(c) ==
    /\ call[c].at = "search" /\ call[c].known # 0
    /\ \/ /\ invoices[call[c].known].fits
          /\ call' = [call EXCEPT ![c].at = "created", ![c].id = call[c].known,
                                  ![c].known = 0, ![c].contact = None, ![c].searched = TRUE]
       \/ Result(c, "attention", 0)
       \/ Result(c, "failed", 0)
    /\ Phase2 /\ UNCHANGED <<invoices, hazards>>

(* recoverInvoice by the list of the contact's invoices: those with our       *)
(* marker and the expected total match, others are passed over; the list may *)
(* be too long to be searched                                                *)
SearchList(c) ==
    LET written == {i \in Ids : invoices[i].contact = call[c].contact}
        found == {i \in written : invoices[i].fits}
    IN /\ call[c].at = "search" /\ call[c].known = 0
       /\ \/ /\ found = {}
             /\ call' = [call EXCEPT ![c].at = "sent", ![c].searched = TRUE]
             /\ Noting("overlooked", written # {})
          \/ \E i \in found :
                /\ found = {i}
                /\ call' = [call EXCEPT ![c].at = "created", ![c].id = i,
                                        ![c].contact = None, ![c].searched = TRUE]
                /\ UNCHANGED hazards
          \/ Result(c, "attention", 0) /\ UNCHANGED hazards
          \/ Result(c, "failed", 0) /\ UNCHANGED hazards
       /\ Phase2 /\ UNCHANGED invoices

(* Lexware gets the POST and creates the invoice; its total may be another    *)
Arrive(c) ==
    /\ call[c].at = "sent"
    /\ \E fits \in BOOLEAN :
          invoices' = Append(invoices, [contact |-> call[c].contact, fits |-> fits])
    /\ call' = [call EXCEPT ![c].at = "arrived", ![c].id = Len(invoices) + 1,
                            ![c].contact = None]
    /\ Phase2 /\ UNCHANGED hazards

(* the answer to the POST names the invoice *)
Answer(c) ==
    /\ call[c].at = "arrived"
    /\ call' = [call EXCEPT ![c].at = "created"]
    /\ Phase2 /\ UNCHANGED <<invoices, hazards>>

(* the answer is an error: nothing was created *)
Refuse(c) ==
    /\ call[c].at = "sent"
    /\ Result(c, "failed", 0)
    /\ Phase2 /\ UNCHANGED <<invoices, hazards>>

(* no answer, for a timeout or a network error *)
Silence(c) ==
    /\ call[c].at \in {"sent", "arrived"}
    /\ Result(c, "unknown", 0)
    /\ Phase2 /\ UNCHANGED <<invoices, hazards>>

(* a 2xx answer whose body cannot be read or breaks off, or a gateway        *)
(* timeout: client.ts throws something that is neither a timeout nor a       *)
(* network error                                                             *)
Garble(c) ==
    /\ call[c].at = "arrived"
    /\ Result(c, "failed", 0)
    /\ Noting("garbled", TRUE)
    /\ Phase2 /\ UNCHANGED invoices

(* the invoice is read: as expected, not as expected, or not readable *)
ReadBack(c) ==
    /\ call[c].at = "created"
    /\ \E r \in {"success", "attention", "unknown"} :
          /\ r = "success" => invoices[call[c].id].fits
          /\ Result(c, r, call[c].id)
    /\ Phase2 /\ UNCHANGED <<invoices, hazards>>

-----------------------------------------------------------------------------
(* Phase 3, commitResult, one transaction under the lock of the row. *)

ClaimLost(c) == row.owner # c
Conflicting(c) == row.known \notin {0, call[c].id}

(* a success of an execution that lost its claim needs a human; the id that  *)
(* is recorded already stays                                                 *)
Committed(c) ==
    LET r == call[c]
        done(s, i) == Row(s, None, FALSE, IF i = 0 THEN row.known ELSE i, row.attempts)
    IN CASE row.status = "succeeded" -> row
         [] row.status # "succeeded" /\ r.result = "success" ->
               IF Conflicting(c) THEN done("attention", 0)
               ELSE done(IF ClaimLost(c) THEN "attention" ELSE "succeeded", r.id)
         [] row.status # "succeeded" /\ r.result = "attention" -> done("attention", r.id)
         [] row.status # "succeeded" /\ r.result = "unknown" -> done("outcome_unknown", r.id)
         [] OTHER -> done(IF r.duty /\ ~r.searched THEN "outcome_unknown" ELSE "failed", 0)

Commit(c) ==
    /\ call[c].at = "result"
    /\ row' = Committed(c)
    /\ End(c)
    /\ UNCHANGED <<contact, invoices, hazards>>

-----------------------------------------------------------------------------
(* A process dies in the middle of an execution; what it sent stays sent.    *)
Crash(c) ==
    /\ call[c].at # "idle"
    /\ End(c)
    /\ UNCHANGED <<row, contact, invoices, hazards>>

(* ContactSyncService.link: it looks at no transfer *)
Link(k) ==
    /\ k # contact
    /\ contact' = k
    /\ Noting("relinked", Unrecorded \/ \E c \in Calls : call[c].contact # None)
    /\ UNCHANGED <<row, call, invoices>>

Claim(c) == Block(c) \/ Take(c)

CallLexware(c) ==
    \/ Resolve(c) \/ ReadKnown(c) \/ SearchList(c)
    \/ Arrive(c) \/ Answer(c) \/ Refuse(c) \/ Silence(c) \/ Garble(c) \/ ReadBack(c)

TransferNext ==
    \/ \E c \in Calls :
          Start(c) \/ TurnAway(c) \/ Claim(c) \/ CallLexware(c) \/ Commit(c) \/ Crash(c)
    \/ Expire
    \/ \E k \in Contacts : Link(k)

TransferSpec == TransferInit /\ [][TransferNext]_transferVars

-----------------------------------------------------------------------------
Statuses == {"none", "pending", "in_progress", "failed", "outcome_unknown",
             "attention", "succeeded"}
Points == {"idle", "called", "claimed", "search", "sent", "arrived", "created", "result"}
Results == {"none", "success", "attention", "unknown", "failed"}

(* The type of the state. *)
TransferTypeOK ==
    /\ row \in [status : Statuses, owner : Calls \cup {None}, live : BOOLEAN,
                known : Nat, attempts : 0..MaxAttempts]
    /\ call \in [Calls -> [at : Points, duty : BOOLEAN, known : Nat,
                           contact : Contacts \cup {None}, id : Nat,
                           searched : BOOLEAN, result : Results]]
    /\ contact \in Contacts
    /\ invoices \in Seq([contact : Contacts, fits : BOOLEAN])
    /\ hazards \subseteq {"overtaken", "relinked", "garbled", "overlooked"}

(* One settlement gives one invoice, whatever crashes, times out, is clicked *)
(* twice or runs again after its claim expired - unless one of four things   *)
(* happened: an execution was still running when its claim was taken over,   *)
(* the customer was linked to another contact while an invoice might exist   *)
(* that is not recorded, Lexware's answer to the POST could not be read, or   *)
(* a search passed over an invoice of ours since its total is another.       *)
OneInvoice == hazards = {} => Len(invoices) <= 1

(* An invoice that may exist at Lexware and is not recorded is never         *)
(* forgotten: the next execution looks for it before it creates one.         *)
DutyKept ==
    hazards = {} /\ Unrecorded => row.status \in {"in_progress", "outcome_unknown", "attention"}

(* A transfer that succeeded names an invoice that exists, with the expected *)
(* total, whoever recorded it.                                               *)
SucceededIsReal == row.status = "succeeded" => row.known \in Ids /\ invoices[row.known].fits

(* What succeeded is never touched again, and what needs a human is not tried *)
(* again by itself, as long as no execution outlives its claim.               *)
VerdictsAreFinal ==
    [][/\ row.status = "succeeded" => row' = row
       /\ row.status = "attention" /\ "overtaken" \notin hazards => row' = row]_transferVars

(* A failed transfer has created nothing (docs/TECH_DECISIONS.md: "Jeder     *)
(* Fehler nach dem abgesetzten Create => outcome_unknown"; the comment of     *)
(* phase 3: "failed ... vor jedem Create, daher kein Unknown-Zustand").       *)
FailedBeforeCreate == row.status = "failed" => invoices = <<>>
=============================================================================
