---------------------------- MODULE HandoverDesk ----------------------------
(***************************************************************************)
(* The paper side of one handover: delivery note, recipient, signatures,   *)
(* and the finalisation that prints them and then stores them.             *)
(*                                                                         *)
(* Every change of the draft is one transaction under the lock of the row  *)
(* of handovers.  What is read before that lock is a step of its own:      *)
(* the recipient's name, the request to sign, and the three reads of phase *)
(* 1 of the finalisation.  Machines are MachineFleet's part.               *)
(***************************************************************************)
EXTENDS Actors

CONSTANTS Quota,          \* booked containers: litres of free syrup
          MaxLines,       \* bound: lines of the delivery note
          MaxQuantity     \* bound: quantity of a line
ASSUME DeskAssumption == Quota \in Nat /\ {MaxLines, MaxQuantity} \subseteq Nat

VARIABLES
    line,        \* delivery_note_items: kind, planned and actual quantity
    recipient,   \* handovers: kind and name of the recipient
    rep,         \* booking_pickup_representatives: name
    signature,   \* handover_signatures by role: name and drawing
    desk,        \* handovers.status, and whether the booking was cancelled
    shelf,       \* system stock of the article
    damaged,     \* the machine has an open damage; what the handover froze
    protocol     \* what the stored protocol says

handoverVars == <<line, recipient, rep, signature, desk, shelf, damaged, protocol, visit,
                  edits>>

Nobody == [kind |-> None, name |-> None]
Roles == {"customer", "staff"}

Draft == desk.status = "draft" /\ ~desk.cancelled

SumOf(kinds) == MapThenSumSet(LAMBDA i : IF line[i].kind \in kinds THEN line[i].actual ELSE 0,
                              DOMAIN line)
CanisterLimit == Quota

(* ensureForBooking: the lines of the booking, free syrup among them.       *)
HandoverInit ==
    /\ line = <<[kind |-> "included", planned |-> Quota, actual |-> Quota]>>
    /\ recipient = Nobody /\ rep = None
    /\ signature = [r \in Roles |-> None]
    /\ desk = [status |-> "draft", cancelled |-> FALSE]
    /\ shelf = 2 * MaxQuantity
    /\ damaged = [open |-> FALSE, frozen |-> None]
    /\ protocol = None
    /\ ActorsInit
-----------------------------------------------------------------------------
(* Quantities of the delivery note.                                        *)
UpdateItemQuantity(i, q) ==
    /\ Edit /\ Draft
    /\ line[i].kind = "included" => q <= line[i].planned
    /\ line[i].kind = "purchase" =>
           SumOf({"purchase"}) - line[i].actual + q <= CanisterLimit
    /\ line' = [line EXCEPT ![i].actual = q]
    /\ UNCHANGED <<recipient, rep, signature, desk, shelf, damaged, protocol, visit>>

Line(kind, q) == IF q = 0 THEN <<>> ELSE <<[kind |-> kind, planned |-> q, actual |-> q]>>

(* Syrup is free up to what the included lines leave of the quota.         *)
Syrup(q) == LET free == Min({q, Max({0, Quota - SumOf({"included"})})})
            IN  Line("included", free) \o Line("commission", q - free)
Canister(q) == IF SumOf({"purchase"}) + q > CanisterLimit THEN <<>> ELSE Line("purchase", q)

AddAddition(q) ==
    /\ Edit /\ Draft
    /\ \E more \in {Syrup(q), Canister(q)} :
           /\ more # <<>> /\ Len(line) + Len(more) <= MaxLines
           /\ line' = line \o more
    /\ UNCHANGED <<recipient, rep, signature, desk, shelf, damaged, protocol, visit>>
-----------------------------------------------------------------------------
(* The recipient, and the signature that belongs to the recipient's name.  *)
ReplaceRecipient(who) ==
    /\ recipient' = who
    /\ signature' = [signature EXCEPT !.customer = None]

FollowsRepresentative(who) ==
    IF recipient.kind = "representative" THEN ReplaceRecipient(who)
    ELSE UNCHANGED <<recipient, signature>>

SetRepresentative(name) ==
    /\ Edit /\ Draft
    /\ rep' = name
    /\ FollowsRepresentative([kind |-> "representative", name |-> name])
    /\ UNCHANGED <<line, desk, shelf, damaged, protocol, visit>>

ClearRepresentative ==
    /\ Edit /\ Draft
    /\ rep' = None
    /\ FollowsRepresentative(Nobody)
    /\ UNCHANGED <<line, desk, shelf, damaged, protocol, visit>>

(* The name is looked up before the row is locked.                         *)
RecipientChosen(w, kind) ==
    /\ Edit /\ visit[w] = NoVisit
    /\ kind = "representative" => rep # None
    /\ visit' = [visit EXCEPT ![w] =
           [op |-> "recipient",
            who |-> [kind |-> kind,
                     name |-> IF kind = "representative" THEN rep ELSE kind]]]
    /\ UNCHANGED <<line, recipient, rep, signature, desk, shelf, damaged, protocol>>

RecipientStored(w) ==
    /\ visit[w].op = "recipient"
    /\ IF Draft THEN ReplaceRecipient(visit[w].who) ELSE UNCHANGED <<recipient, signature>>
    /\ visit' = [visit EXCEPT ![w] = NoVisit]
    /\ UNCHANGED <<line, rep, desk, shelf, damaged, protocol, edits>>

(* The drawing is uploaded first; the name that is stored with it is the   *)
(* one of the locked row.  Whether the booking is cancelled is not asked.  *)
(* No two drawings are the same: each is known by its edit.                *)
SignStarted(w, role) ==
    /\ Edit /\ visit[w] = NoVisit /\ desk.status = "draft"
    /\ role = "customer" => recipient # Nobody
    /\ visit' = [visit EXCEPT ![w] = [op |-> "sign", role |-> role, ink |-> edits,
                                      name |-> recipient.name]]
    /\ UNCHANGED <<line, recipient, rep, signature, desk, shelf, damaged, protocol>>

SignerName(w) == recipient.name

SignStored(w) ==
    /\ visit[w].op = "sign"
    /\ LET v == visit[w] IN
       IF desk.status = "draft" /\ (v.role = "customer" => recipient # Nobody)
       THEN signature' = [signature EXCEPT ![v.role] =
                [name |-> IF v.role = "staff" THEN "staff" ELSE SignerName(w),
                 ink |-> v.ink]]
       ELSE UNCHANGED signature
    /\ visit' = [visit EXCEPT ![w] = NoVisit]
    /\ UNCHANGED <<line, recipient, rep, desk, shelf, damaged, protocol, edits>>
-----------------------------------------------------------------------------
(* signatureBytes fails when a signature is missing.                       *)
Signed == \A r \in Roles : signature[r] # None

(* Finalisation.  handoverBlockers on what is read at that moment.         *)
Required == SumOf({"included", "commission", "purchase"})
NoBlocker ==
    /\ Draft
    /\ \A i \in DOMAIN line : line[i].kind = "included" => line[i].actual <= line[i].planned
    /\ SumOf({"purchase"}) <= CanisterLimit
    /\ Required <= shelf
    /\ recipient # Nobody
    /\ Signed

Fingerprint == <<line, recipient, rep>>

(* One finalisation of a handover at a time in one process (finalizeMutex). *)
Exclusive == \A w \in Clerk : visit[w].op \notin {"view", "drawings", "rendered"}

ViewRead(w) ==
    /\ visit[w] = NoVisit /\ NoBlocker /\ Exclusive
    /\ visit' = [visit EXCEPT ![w] = [op |-> "view", view |-> Fingerprint]]
    /\ UNCHANGED <<line, recipient, rep, signature, desk, shelf, damaged, protocol, edits>>

(* The two drawings are loaded.                                            *)
DrawingsRead(w) ==
    /\ visit[w].op = "view"
    /\ visit' = [visit EXCEPT ![w] =
           IF ~Signed THEN NoVisit
           ELSE [op |-> "drawings", view |-> visit[w].view,
                 drawn |-> [r \in Roles |-> signature[r].ink]]]
    /\ UNCHANGED <<line, recipient, rep, signature, desk, shelf, damaged, protocol, edits>>

(* The rows of the signatures, the damages; both documents are uploaded.   *)
Rendered(w) ==
    /\ visit[w].op = "drawings"
    /\ visit' = [visit EXCEPT ![w] =
           IF ~Signed THEN NoVisit
           ELSE [op |-> "rendered", view |-> visit[w].view, drawn |-> visit[w].drawn,
                 rows |-> signature, damage |-> damaged.open]]
    /\ UNCHANGED <<line, recipient, rep, signature, desk, shelf, damaged, protocol, edits>>

\* mutant: what was rendered is not compared with what is locked
StillAsRenderedUnasked(w) == visit[w].op = "rendered"
StillAsRendered(w) ==
    /\ visit[w].view = Fingerprint
    /\ \A r \in Roles : visit[w].rows[r].ink = signature[r].ink

Printed(v) == [lines |-> v.view[1], to |-> v.view[2], rep |-> v.view[3],
               names |-> [r \in Roles |-> v.rows[r].name], drawn |-> v.drawn]

(* Phase 2: one transaction under the locks of the handover, the slots and *)
(* the machines.                                                           *)
Finalized(w) ==
    /\ visit[w].op = "rendered"
    /\ IF NoBlocker /\ StillAsRendered(w)
       THEN /\ desk' = [desk EXCEPT !.status = "finalized"]
            /\ shelf' = shelf - Required
            /\ damaged' = [damaged EXCEPT !.frozen = visit[w].damage]
            /\ protocol' = Printed(visit[w])
       ELSE UNCHANGED <<desk, shelf, damaged, protocol>>
    /\ visit' = [visit EXCEPT ![w] = NoVisit]
    /\ UNCHANGED <<line, recipient, rep, signature, edits>>
-----------------------------------------------------------------------------
(* Other services: a damage is recorded, stock is taken, the booking is    *)
(* cancelled (under the lock of the handover, before anything is issued).  *)
DamageRecorded == /\ ~damaged.open
                  /\ damaged' = [damaged EXCEPT !.open = TRUE]
                  /\ UNCHANGED <<line, recipient, rep, signature, desk, shelf, protocol, visit,
                                 edits>>
StockTaken == /\ shelf = 2 * MaxQuantity /\ desk.status = "draft"
              /\ shelf' = 1
              /\ UNCHANGED <<line, recipient, rep, signature, desk, damaged, protocol, visit,
                             edits>>
BookingCancelled == /\ Draft
                    /\ desk' = [desk EXCEPT !.cancelled = TRUE]
                    /\ UNCHANGED <<line, recipient, rep, signature, shelf, damaged,
                                   protocol, visit, edits>>

HandoverNext ==
    \/ \E i \in DOMAIN line, q \in 0 .. MaxQuantity : UpdateItemQuantity(i, q)
    \/ \E q \in 1 .. MaxQuantity : AddAddition(q)
    \/ \E name \in Person : SetRepresentative(name)
    \/ ClearRepresentative
    \/ DamageRecorded \/ StockTaken \/ BookingCancelled
    \/ \E w \in Clerk :
          \/ \E kind \in {"customer", "representative", "other"} : RecipientChosen(w, kind)
          \/ \E role \in Roles : SignStarted(w, role)
          \/ RecipientStored(w) \/ SignStored(w)
          \/ ViewRead(w) \/ DrawingsRead(w) \/ Rendered(w) \/ Finalized(w)

HandoverSpec == HandoverInit /\ [][HandoverNext]_handoverVars
-----------------------------------------------------------------------------
(* The stored protocol says what the rows of the finalised handover say:   *)
(* lines, recipient, representative and the names under the signatures,    *)
(* although it was rendered from three reads before the transaction, and   *)
(* stays true because nothing changes a finalised handover.                *)
ProtocolTrue ==
    desk.status = "finalized" =>
        /\ protocol.lines = line /\ protocol.to = recipient /\ protocol.rep = rep
        /\ \A r \in Roles : protocol.names[r] = signature[r].name

(* The customer's signature is always the one of the recipient: a change   *)
(* of the recipient, the correction of the representative's name included, *)
(* removes it, and a signature drawn meanwhile gets the new name.          *)
SignatureNamesRecipient ==
    signature.customer # None => signature.customer.name = recipient.name

(* What is signed at the desk and what is stored say the same, through every *)
(* interleaving of changes, signatures and finalisation.                    *)
HandoverSafety == ProtocolTrue /\ SignatureNamesRecipient
=============================================================================
