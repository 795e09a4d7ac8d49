----------------------------- MODULE ReturnDesk -----------------------------
(***************************************************************************)
(* One return: the draft with the checks of the machine, the commission    *)
(* goods, the damages and missing parts, the signatures, the finalisation  *)
(* in two phases, and what may still be added afterwards.                  *)
(*                                                                         *)
(* Every change of the draft is one transaction under the lock of the row  *)
(* of rental_returns and takes all it writes from locked rows; only the    *)
(* finalisation reads before.  Machines and slots are MachineFleet's part. *)
(***************************************************************************)
EXTENDS Actors

CONSTANTS Issued,      \* quantity of the commission line that was handed out
          Accessories, \* lids of the machine
          Damage       \* damages that can be found
Finding == [origin : {"return", "post_return_finding"}, photos : Nat, active : BOOLEAN]
ASSUME ReturnAssumption == {Issued, Accessories} \subseteq Nat /\ None \notin Finding

VARIABLES
    ret,         \* rental_returns: status, returner, times
    section,     \* return_machines: accessories, cleanliness, photos of dirt
    missing,     \* missing_accessory_cases: quantities, and whether active
    back,        \* return_inventory_items: unopened back, chargeable
    damages,     \* machine_damages by damage: None or origin, photos, active
    returnSig,   \* return_signatures by role
    returnDoc,   \* what the registered protocol says
    stored       \* protocol files in the storage: number of uploads without a row

returnVars == <<ret, section, missing, back, damages, returnSig, returnDoc, stored,
                visit, edits>>

Nobody2 == [kind |-> None, name |-> None]
SignRoles == {"customer", "staff"}
Open == ret.status = "draft"

(* Only a booking that is not cancelled and has issued machines has one.   *)
ReturnInit ==
    /\ ret = [status |-> "none", returner |-> Nobody2, draftAt |-> None, at |-> None,
              corrected |-> None]
    /\ section = [complete |-> None, clean |-> None, photos |-> 0]
    /\ missing = [quantity |-> 0, active |-> FALSE, resolved |-> FALSE]
    /\ back = [unopened |-> 0, chargeable |-> None]
    /\ damages = [d \in Damage |-> None]
    /\ returnSig = [r \in SignRoles |-> None]
    /\ returnDoc = None /\ stored = 0
    /\ ActorsInit
-----------------------------------------------------------------------------
Start == /\ ret.status = "none"
         /\ ret' = [ret EXCEPT !.status = "draft"]
         /\ UNCHANGED <<section, missing, back, damages, returnSig, returnDoc, stored,
                        visit, edits>>

(* A change of the person, by kind or by name, removes the signature.      *)
PersonChanged(who) == ret.returner # who

SetReturner(who) ==
    /\ Open /\ Edit
    /\ ret' = [ret EXCEPT !.returner = who]
    /\ returnSig' = IF PersonChanged(who) THEN [returnSig EXCEPT !.customer = None]
                    ELSE returnSig
    /\ UNCHANGED <<section, missing, back, damages, returnDoc, stored, visit>>

ConfirmAccessoriesComplete ==
    /\ Open /\ Edit /\ missing.quantity = 0
    /\ section' = [section EXCEPT !.complete = TRUE]
    /\ UNCHANGED <<ret, missing, back, damages, returnSig, returnDoc, stored, visit>>

AddMissingCase ==
    /\ Open /\ Edit /\ missing.quantity < Accessories
    /\ missing' = [missing EXCEPT !.quantity = @ + 1]
    /\ section' = [section EXCEPT !.complete = FALSE]
    /\ UNCHANGED <<ret, back, damages, returnSig, returnDoc, stored, visit>>

DeleteMissingCase ==
    /\ Open /\ Edit /\ missing.quantity > 0
    /\ missing' = [missing EXCEPT !.quantity = @ - 1]
    /\ section' = [section EXCEPT !.complete = IF missing.quantity = 1 THEN None ELSE @]
    /\ UNCHANGED <<ret, back, damages, returnSig, returnDoc, stored, visit>>

CheckCleanliness(result) ==
    /\ Open /\ Edit
    /\ section' = [section EXCEPT !.clean = result]
    /\ UNCHANGED <<ret, missing, back, damages, returnSig, returnDoc, stored, visit>>

AddCleanupPhoto ==
    /\ Open /\ Edit /\ section.photos = 0
    /\ section' = [section EXCEPT !.photos = 1]
    /\ UNCHANGED <<ret, missing, back, damages, returnSig, returnDoc, stored, visit>>

SetReturnedQuantity(q) ==
    /\ Open /\ Edit /\ q <= Issued
    /\ back' = [back EXCEPT !.unopened = q]
    /\ UNCHANGED <<ret, section, missing, damages, returnSig, returnDoc, stored, visit>>

DamageOpen(d) == Open /\ damages[d] = None

AddDamage(d) ==
    /\ DamageOpen(d) /\ Edit
    /\ damages' = [damages EXCEPT ![d] = [origin |-> "return", photos |-> 0,
                                          active |-> FALSE]]
    /\ UNCHANGED <<ret, section, missing, back, returnSig, returnDoc, stored, visit>>

DeleteDamage(d) ==
    /\ Open /\ Edit /\ damages[d] # None
    /\ damages' = [damages EXCEPT ![d] = None]
    /\ UNCHANGED <<ret, section, missing, back, returnSig, returnDoc, stored, visit>>

(* assertEditable, under the lock of the leading row: a draft's damage     *)
(* while it is a draft, a later finding while the machine is in cleaning.  *)
AddDamagePhoto(d) ==
    /\ Edit /\ damages[d] # None /\ damages[d].photos < 2
    /\ damages[d].origin = "return" => Open
    /\ damages' = [damages EXCEPT ![d].photos = @ + 1]
    /\ UNCHANGED <<ret, section, missing, back, returnSig, returnDoc, stored, visit>>

(* No two drawings are the same: each is known by its edit.                *)
Sign(role) ==
    /\ Open /\ Edit
    /\ role = "customer" => ret.returner # Nobody2
    /\ returnSig' = [returnSig EXCEPT ![role] =
           [name |-> IF role = "staff" THEN "staff" ELSE ret.returner.name, ink |-> edits]]
    /\ UNCHANGED <<ret, section, missing, back, damages, returnDoc, stored, visit>>

SetDraftActualReturnAt(t) ==
    /\ Open /\ Edit
    /\ ret' = [ret EXCEPT !.draftAt = t]
    /\ UNCHANGED <<section, missing, back, damages, returnSig, returnDoc, stored, visit>>
-----------------------------------------------------------------------------
(* Finalisation: returnBlockers, the fingerprint, three reads of phase 1.  *)
HasSignatures == \A r \in SignRoles : returnSig[r] # None
NoReturnBlocker ==
    /\ Open /\ HasSignatures
    /\ ret.returner # Nobody2
    /\ section.complete # None /\ section.clean # None
    /\ section.clean = "dirty" => section.photos > 0
    /\ \A d \in Damage : damages[d] # None => damages[d].photos > 0

\* mutant: the damages are not part of what is compared
ReturnFingerprintBare == <<ret.returner, ret.draftAt, section, missing.quantity, back>>
ReturnFingerprint == <<ret.returner, ret.draftAt, section, missing.quantity, back, damages>>

Phase1 == {"view", "time", "drawings", "rendered"}
DetailRead(w) ==
    /\ NoReturnBlocker
    /\ \A v \in Clerk : visit[v].op \notin Phase1
    /\ Begin(w, [op |-> "view", view |-> ReturnFingerprint, damages |-> damages])
    /\ UNCHANGED <<ret, section, missing, back, damages, returnSig, returnDoc, stored, edits>>

RowRead(w) ==
    /\ visit[w].op = "view"
    /\ Continue(w, [op |-> "time", view |-> visit[w].view, damages |-> visit[w].damages,
                    at |-> IF ret.draftAt = None THEN "now" ELSE ret.draftAt])
    /\ UNCHANGED <<ret, section, missing, back, damages, returnSig, returnDoc, stored, edits>>

PicturesRead(w) ==
    /\ visit[w].op = "time"
    /\ IF HasSignatures
       THEN Continue(w, [op |-> "drawings", view |-> visit[w].view, at |-> visit[w].at,
                         damages |-> visit[w].damages,
                         drawn |-> [r \in SignRoles |-> returnSig[r].ink]])
       ELSE End(w)
    /\ UNCHANGED <<ret, section, missing, back, damages, returnSig, returnDoc, stored, edits>>

ProtocolUploaded(w) ==
    /\ visit[w].op = "drawings"
    /\ IF HasSignatures
       THEN /\ Continue(w, [op |-> "rendered", view |-> visit[w].view, at |-> visit[w].at,
                            damages |-> visit[w].damages, drawn |-> visit[w].drawn,
                            rows |-> returnSig])
            /\ stored' = stored + 1
       ELSE End(w) /\ UNCHANGED stored
    /\ UNCHANGED <<ret, section, missing, back, damages, returnSig, returnDoc, edits>>

Matches(w) == /\ visit[w].view = ReturnFingerprint
              /\ \A r \in SignRoles : visit[w].rows[r].ink = returnSig[r].ink

(* The return's damages become current, its missing parts follow-ups, the  *)
(* chargeable quantity is frozen.                                          *)
Activated == [d \in Damage |-> IF damages[d] = None THEN None
                               ELSE [damages[d] EXCEPT !.active = TRUE]]
ReturnFinalized(w) ==
    /\ visit[w].op = "rendered" /\ NoReturnBlocker /\ Matches(w)
    /\ ret' = [ret EXCEPT !.status = "finalized", !.at = visit[w].at]
    /\ missing' = [missing EXCEPT !.active = missing.quantity > 0]
    /\ back' = [back EXCEPT !.chargeable = Issued - back.unopened]
    /\ damages' = Activated
    /\ returnDoc' = [view |-> visit[w].view, damages |-> visit[w].damages, at |-> visit[w].at,
                     names |-> [r \in SignRoles |-> visit[w].rows[r].name],
                     drawn |-> visit[w].drawn]
    /\ stored' = stored - 1
    /\ End(w)
    /\ UNCHANGED <<section, returnSig, edits>>

(* Refused before the document is registered: the upload is deleted again. *)
FinalizeRefused(w) ==
    /\ visit[w].op = "rendered" /\ ~(NoReturnBlocker /\ Matches(w))
    /\ stored' = stored - 1 /\ End(w)
    /\ UNCHANGED <<ret, section, missing, back, damages, returnSig, returnDoc, edits>>

(* The database refuses after the row of the document was written: the row *)
(* is rolled back, but "registered" already says it is there.              *)
FinalizeFailed(w) ==
    /\ visit[w].op = "rendered" /\ NoReturnBlocker /\ Matches(w) /\ Edit
    /\ End(w)
    /\ UNCHANGED <<ret, section, missing, back, damages, returnSig, returnDoc, stored>>
-----------------------------------------------------------------------------
(* After the finalisation.                                                 *)
CorrectActualReturnAt(t) ==
    /\ ret.status = "finalized" /\ Edit
    /\ ret' = [ret EXCEPT !.corrected = t]
    /\ UNCHANGED <<section, missing, back, damages, returnSig, returnDoc, stored, visit>>

ResolveMissingCase ==
    /\ ret.status = "finalized" /\ missing.quantity > 0 /\ ~missing.resolved /\ Edit
    /\ missing' = [missing EXCEPT !.resolved = TRUE]
    /\ UNCHANGED <<ret, section, back, damages, returnSig, returnDoc, stored, visit>>

PostReturnFinding(d) ==
    /\ ret.status = "finalized" /\ damages[d] = None /\ Edit
    /\ damages' = [damages EXCEPT ![d] = [origin |-> "post_return_finding", photos |-> 1,
                                          active |-> TRUE]]
    /\ UNCHANGED <<ret, section, missing, back, returnSig, returnDoc, stored, visit>>

ResolveCurrent(d) ==
    /\ damages[d] # None /\ damages[d].active /\ Edit
    /\ damages' = [damages EXCEPT ![d].active = FALSE]
    /\ UNCHANGED <<ret, section, missing, back, returnSig, returnDoc, stored, visit>>

Returners == {[kind |-> "customer", name |-> "customer"]}
             \cup {[kind |-> "other", name |-> p] : p \in Person}
ReturnNext ==
    \/ Start \/ ConfirmAccessoriesComplete \/ AddMissingCase \/ DeleteMissingCase
    \/ AddCleanupPhoto \/ ResolveMissingCase
    \/ \E who \in Returners : SetReturner(who)
    \/ \E result \in {"ok", "dirty"} : CheckCleanliness(result)
    \/ \E q \in 0 .. Issued : SetReturnedQuantity(q)
    \/ \E t \in {"earlier", None} : SetDraftActualReturnAt(t)
    \/ CorrectActualReturnAt("earlier")
    \/ \E role \in SignRoles : Sign(role)
    \/ \E d \in Damage : \/ AddDamage(d) \/ DeleteDamage(d) \/ AddDamagePhoto(d)
                         \/ PostReturnFinding(d) \/ ResolveCurrent(d)
    \/ \E w \in Clerk : \/ DetailRead(w) \/ RowRead(w) \/ PicturesRead(w)
                        \/ ProtocolUploaded(w)
                        \/ ReturnFinalized(w) \/ FinalizeRefused(w) \/ FinalizeFailed(w)

ReturnSpec == ReturnInit /\ [][ReturnNext]_returnVars
-----------------------------------------------------------------------------
(* What the signed protocol says stays what the rows of the return say:    *)
(* the person, the checks, the quantities, and each damage of the return   *)
(* with the photos it was printed with.  A later finding is not part of it.*)
ReturnProtocolTrue ==
    ret.status = "finalized" =>
        /\ returnDoc.view[1] = ret.returner /\ returnDoc.at = ret.at
        /\ returnDoc.view[3] = section /\ returnDoc.view[4] = missing.quantity
        /\ returnDoc.view[5].unopened = back.unopened
        /\ back.unopened + back.chargeable = Issued
        /\ \A d \in Damage :
              LET now == damages[d]  said == returnDoc.damages[d] IN
              IF now # None /\ now.origin = "return"
              THEN said # None /\ said.photos = now.photos
              ELSE said = None
        /\ \A r \in SignRoles : returnDoc.names[r] = returnSig[r].name

(* The customer's signature is the one of the person who returned it.      *)
SignatureNamesReturner ==
    returnSig.customer # None => returnSig.customer.name = ret.returner.name

(* The same for what is taken back.                                        *)
ReturnSafety == ReturnProtocolTrue /\ SignatureNamesReturner
=============================================================================
