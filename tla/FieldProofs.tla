----------------------------- MODULE FieldProofs -----------------------------
(***************************************************************************)
(* What holds of the desk, the warehouse and the appointments for any      *)
(* number of requests at the same time, rows, times and changes: handover  *)
(* and return (the signed protocol says what the rows say), the stock (an  *)
(* approval keeps what moved since the count), the book of appointments    *)
(* (nobody waits for a time that was never told), the tours (a plan is the *)
(* one of what is still to be driven) and the device out of reach (nothing *)
(* captured is lost, and an expired lease stays shut).                     *)
(*                                                                         *)
(* The six rest on different facts.  A protocol is true because a drawing *)
(* is compared and drawings are unique; a count because no two open counts *)
(* share an article; an appointment because every change of its time       *)
(* raises its version, and a mail carries the version it was written from; *)
(* a route because whoever plans carries the version of the tour it read,  *)
(* and a driver because starting and taking over hold a lock of his; an    *)
(* expired lease because the time that refused it is noted on the disk.    *)
(***************************************************************************)
EXTENDS HandoverDesk, ReturnDesk, StockLedger, AppointmentBook, TourDay, OfflineDevice,
        FiniteSetTheorems, SequenceTheorems, TLAPS

-----------------------------------------------------------------------------
(* Handover (HandoverDesk).                                                 *)

\* a stored or printed signature
Sig(s) == s = [name |-> s.name, ink |-> s.ink] /\ s.ink \in Nat /\ s.ink > edits

DeskTyped ==
    /\ DOMAIN visit = Clerk
    /\ edits \in Nat
    /\ desk = [status |-> desk.status, cancelled |-> desk.cancelled]
    /\ desk.status \in {"draft", "finalized"} /\ desk.cancelled \in BOOLEAN
    /\ DOMAIN signature = Roles
    /\ \A r \in Roles : signature[r] # None => Sig(signature[r])

(* Drawings are known apart: what waits to be stored has been stored or      *)
(* printed nowhere, and what is printed is the row that carries it.          *)
DrawingsApart ==
    /\ \A w \in Clerk : visit[w].op = "sign" =>
         /\ visit[w].role \in Roles
         /\ visit[w].ink \in Nat /\ visit[w].ink > edits
         /\ \A r \in Roles : signature[r] # None => signature[r].ink # visit[w].ink
         /\ \A v \in Clerk : visit[v].op = "sign" /\ visit[v].ink = visit[w].ink => v = w
    /\ \A w \in Clerk : visit[w].op = "rendered" => \A r \in Roles :
         /\ Sig(visit[w].rows[r])
         /\ signature[r] # None /\ signature[r].ink = visit[w].rows[r].ink
               => signature[r].name = visit[w].rows[r].name
         /\ \A v \in Clerk : visit[v].op = "sign" => visit[v].ink # visit[w].rows[r].ink

(* The two properties need both.                                            *)
DeskInv == DeskTyped /\ DrawingsApart /\ HandoverSafety
(* Every operation of the handover keeps it.                                *)
LEMMA DeskStep ==
    ASSUME DeskInv, HandoverNext PROVE DeskInv'
<1> USE DEF DeskInv, DeskTyped, DrawingsApart, Sig, HandoverSafety, ProtocolTrue,
   SignatureNamesRecipient, Draft, Edit, NoVisit, Roles
<1>1. ASSUME NEW i \in DOMAIN line, NEW q \in 0 .. MaxQuantity, UpdateItemQuantity(i, q) PROVE
   DeskInv'
  BY <1>1 DEF UpdateItemQuantity
<1>2. ASSUME NEW q \in 1 .. MaxQuantity, AddAddition(q) PROVE DeskInv'
  BY <1>2 DEF AddAddition
<1>3. ASSUME NEW name \in Person, SetRepresentative(name) PROVE DeskInv'
  BY <1>3 DEF SetRepresentative, FollowsRepresentative, ReplaceRecipient
<1>4. ASSUME ClearRepresentative PROVE DeskInv'
  BY <1>4 DEF ClearRepresentative, FollowsRepresentative, ReplaceRecipient
<1>5. ASSUME DamageRecorded PROVE DeskInv'
  BY <1>5 DEF DamageRecorded
<1>6. ASSUME StockTaken PROVE DeskInv'
  BY <1>6 DEF StockTaken
<1>7. ASSUME BookingCancelled PROVE DeskInv'
  <2>1. DeskTyped'
    BY <1>7 DEF BookingCancelled
  <2>2. DrawingsApart'
    BY <1>7 DEF BookingCancelled
  <2>3. ProtocolTrue'
    BY <1>7 DEF BookingCancelled
  <2>4. SignatureNamesRecipient'
    BY <1>7 DEF BookingCancelled
  <2> QED BY <2>1, <2>2, <2>3, <2>4
<1>8. ASSUME NEW w \in Clerk, NEW kind \in {"customer", "representative", "other"},
   RecipientChosen(w, kind) PROVE DeskInv'
  BY <1>8 DEF RecipientChosen
<1>9. ASSUME NEW w \in Clerk, NEW role \in Roles, SignStarted(w, role) PROVE DeskInv'
  BY <1>9 DEF SignStarted
<1>10. ASSUME NEW w \in Clerk, RecipientStored(w) PROVE DeskInv'
  BY <1>10 DEF RecipientStored, ReplaceRecipient
<1>11. ASSUME NEW w \in Clerk, SignStored(w) PROVE DeskInv'
  BY <1>11 DEF SignStored, SignerName
<1>12. ASSUME NEW w \in Clerk, ViewRead(w) PROVE DeskInv'
  BY <1>12 DEF ViewRead
<1>13. ASSUME NEW w \in Clerk, DrawingsRead(w) PROVE DeskInv'
  BY <1>13 DEF DrawingsRead
<1>14. ASSUME NEW w \in Clerk, Rendered(w) PROVE DeskInv'
  BY <1>14 DEF Rendered, Signed
<1>15. ASSUME NEW w \in Clerk, Finalized(w) PROVE DeskInv'
  <2>1. CASE NoBlocker /\ StillAsRendered(w)
    <3>1. protocol'.lines = line /\ protocol'.to = recipient /\ protocol'.rep = rep
      BY <1>15, <2>1 DEF Finalized, StillAsRendered, Printed, Fingerprint
    <3>2. ASSUME NEW r \in Roles PROVE protocol'.names[r] = signature[r].name
      <4>1. visit[w].op = "rendered" /\ visit[w].rows[r].ink = signature[r].ink /\ signature[r] # None
        BY <1>15, <2>1 DEF Finalized, StillAsRendered, NoBlocker, Signed
      <4>2. protocol'.names[r] = visit[w].rows[r].name
        BY <1>15, <2>1 DEF Finalized, Printed
      <4> QED BY <4>1, <4>2
    <3> QED BY <1>15, <2>1, <3>1, <3>2 DEF Finalized
  <2>2. CASE ~(NoBlocker /\ StillAsRendered(w))
    BY <1>15, <2>2 DEF Finalized
  <2> QED BY <2>1, <2>2
<1> QED BY <1>1, <1>2, <1>3, <1>4, <1>5, <1>6, <1>7, <1>8, <1>9, <1>10, <1>11, <1>12, <1>13,
   <1>14, <1>15 DEF HandoverNext

LEMMA DeskStart == HandoverInit => DeskInv
  BY DEF HandoverInit, ActorsInit, NoVisit, Roles, DeskInv, DeskTyped, DrawingsApart, Sig,
     HandoverSafety, ProtocolTrue, SignatureNamesRecipient

(* While a draft is changed, signed and finalised from several places, the  *)
(* registered protocol names what the rows of the handover say, with the    *)
(* signatures of the persons they name (HandoverDesk, any requests, lines   *)
(* and changes).                                                            *)
THEOREM HandoverIsSafe == HandoverSpec => []HandoverSafety
<1>1. DeskInv /\ [HandoverNext]_handoverVars => DeskInv'
  <2> SUFFICES ASSUME DeskInv, [HandoverNext]_handoverVars PROVE DeskInv'
    OBVIOUS
  <2>1. CASE HandoverNext
    BY <2>1, DeskStep
  <2>2. CASE UNCHANGED handoverVars
    BY <2>2 DEF handoverVars, DeskInv, DeskTyped, DrawingsApart, Sig, HandoverSafety,
       ProtocolTrue, SignatureNamesRecipient
  <2> QED BY <2>1, <2>2
<1>2. DeskInv => HandoverSafety
  BY DEF DeskInv
<1> QED BY DeskStart, <1>1, <1>2, PTL DEF HandoverSpec
-----------------------------------------------------------------------------
(* Return (ReturnDesk).                                                     *)
DrawnBy(s) == s = [name |-> s.name, ink |-> s.ink] /\ s.ink \in Nat /\ s.ink > edits

MissingCase == [quantity : Nat, active : BOOLEAN, resolved : BOOLEAN]

(* The rows and the drawings that are stored.                               *)
ReturnTyped ==
    /\ DOMAIN visit = Clerk /\ edits \in Nat
    /\ ret = [status |-> ret.status, returner |-> ret.returner, draftAt |-> ret.draftAt,
              at |-> ret.at, corrected |-> ret.corrected]
    /\ ret.status \in {"none", "draft", "finalized"}
    /\ missing \in MissingCase
    /\ back = [unopened |-> back.unopened, chargeable |-> back.chargeable]
    /\ back.unopened \in Nat
    /\ DOMAIN returnSig = SignRoles
    /\ \A r \in SignRoles : returnSig[r] # None => DrawnBy(returnSig[r])
    /\ damages \in [Damage -> {None} \cup Finding]

(* Until the return is finalised all its damages are found by it; the       *)
(* damages printed are those compared; and a printed signature is the row   *)
(* with the same drawing.                                                   *)
PrintedIsRead ==
    /\ ret.status # "finalized" =>
         \A d \in Damage : damages[d] # None => damages[d].origin = "return"
    /\ \A w \in Clerk : visit[w].op \in Phase1 => visit[w].view[6] = visit[w].damages
    /\ \A w \in Clerk : visit[w].op = "rendered" => \A r \in SignRoles :
         /\ DrawnBy(visit[w].rows[r])
         /\ returnSig[r] # None /\ returnSig[r].ink = visit[w].rows[r].ink
               => returnSig[r].name = visit[w].rows[r].name

ReturnInv == ReturnTyped /\ PrintedIsRead /\ ReturnSafety


(* Neither the follow-up of a missing part nor that of a damage changes     *)
(* what was found.                                                          *)
SameFindings == \A d \in Damage :
    /\ damages'[d] = None <=> damages[d] = None
    /\ damages[d] # None => /\ damages'[d].origin = damages[d].origin
                             /\ damages'[d].photos = damages[d].photos

LEMMA MissingFollowed ==
    ASSUME missing \in MissingCase, ResolveMissingCase
    PROVE missing' \in MissingCase /\ missing'.quantity = missing.quantity
  BY DEF MissingCase, ResolveMissingCase

LEMMA MissingActivated ==
    ASSUME missing \in MissingCase, missing' = [missing EXCEPT !.active = missing.quantity > 0]
    PROVE missing' \in MissingCase /\ missing'.quantity = missing.quantity
  <1> DEFINE on == missing.quantity > 0
  <1>1. on \in BOOLEAN /\ missing' = [missing EXCEPT !.active = on]
    OBVIOUS
  <1> HIDE DEF on
  <1> QED BY <1>1 DEF MissingCase

LEMMA DamageFollowed ==
    ASSUME damages \in [Damage -> {None} \cup Finding], NEW d \in Damage, ResolveCurrent(d)
    PROVE damages' \in [Damage -> {None} \cup Finding] /\ SameFindings
<1>1. damages[d] \in Finding /\ damages' = [damages EXCEPT ![d] = [damages[d] EXCEPT !.active = FALSE]]
  BY DEF ResolveCurrent
<1> DEFINE new == [damages[d] EXCEPT !.active = FALSE]
<1>2. new \in Finding /\ new.origin = damages[d].origin /\ new.photos = damages[d].photos
  BY <1>1 DEF Finding
<1>3. new # None /\ damages[d] # None
  BY <1>1, <1>2, ReturnAssumption
<1>0. damages' = [damages EXCEPT ![d] = new]
  BY <1>1
<1> HIDE DEF new
<1>4. damages' \in [Damage -> {None} \cup Finding]
  BY <1>0, <1>2
<1>5. damages'[d] = new /\ \A e \in Damage \ {d} : damages'[e] = damages[e]
  BY <1>0
<1>6. SameFindings
  BY <1>2, <1>3, <1>5 DEF SameFindings
<1> QED BY <1>4, <1>6

LEMMA DamagesActivated ==
    ASSUME damages \in [Damage -> {None} \cup Finding], damages' = Activated
    PROVE damages' \in [Damage -> {None} \cup Finding] /\ SameFindings
<1>1. ASSUME NEW d \in Damage, damages[d] # None
      PROVE damages'[d] \in Finding /\ damages'[d].origin = damages[d].origin
            /\ damages'[d].photos = damages[d].photos
  BY <1>1 DEF Activated, Finding
<1>2. DOMAIN damages' = Damage /\ damages' = [d \in Damage |-> damages'[d]]
  BY DEF Activated
<1>3. ASSUME NEW d \in Damage, damages[d] = None PROVE damages'[d] = None
  BY <1>3 DEF Activated
<1>4. ASSUME NEW d \in Damage PROVE damages'[d] \in {None} \cup Finding
  BY <1>1, <1>3
<1>5. damages' \in [Damage -> {None} \cup Finding]
  BY <1>2, <1>4
<1>6. SameFindings
  BY <1>1, <1>3, ReturnAssumption DEF SameFindings
<1> QED BY <1>5, <1>6
(* Every operation of the return keeps it.                                  *)
LEMMA ReturnStep ==
    ASSUME ReturnInv, ReturnNext PROVE ReturnInv'
<1> USE DEF ReturnInv, MissingCase, Finding, ReturnTyped, PrintedIsRead, DrawnBy, ReturnSafety,
   ReturnProtocolTrue, SignatureNamesReturner, Open, Edit, NoVisit, Begin, Continue, End,
   SignRoles, Phase1
<1>1. ASSUME Start PROVE ReturnInv'
  BY <1>1 DEF Start
<1>2. ASSUME ConfirmAccessoriesComplete PROVE ReturnInv'
  BY <1>2 DEF ConfirmAccessoriesComplete
<1>3. ASSUME AddMissingCase PROVE ReturnInv'
  BY <1>3 DEF AddMissingCase
<1>4. ASSUME DeleteMissingCase PROVE ReturnInv'
  BY <1>4 DEF DeleteMissingCase
<1>5. ASSUME AddCleanupPhoto PROVE ReturnInv'
  BY <1>5 DEF AddCleanupPhoto
<1>6. ASSUME ResolveMissingCase PROVE ReturnInv'
  <2>1. missing' \in MissingCase /\ missing'.quantity = missing.quantity
    BY <1>6, MissingFollowed
  <2> HIDE DEF MissingCase
  <2> QED BY <1>6, <2>1 DEF ResolveMissingCase
<1>7. ASSUME NEW who \in Returners, SetReturner(who) PROVE ReturnInv'
  BY <1>7 DEF SetReturner, PersonChanged
<1>8. ASSUME NEW result \in {"ok", "dirty"}, CheckCleanliness(result) PROVE ReturnInv'
  BY <1>8 DEF CheckCleanliness
<1>9. ASSUME NEW q \in 0 .. Issued, SetReturnedQuantity(q) PROVE ReturnInv'
  BY <1>9 DEF SetReturnedQuantity, ReturnAssumption
<1>10. ASSUME NEW t \in {"earlier", None}, SetDraftActualReturnAt(t) PROVE ReturnInv'
  BY <1>10 DEF SetDraftActualReturnAt
<1>11. ASSUME CorrectActualReturnAt("earlier") PROVE ReturnInv'
  BY <1>11 DEF CorrectActualReturnAt
<1>12. ASSUME NEW role \in SignRoles, Sign(role) PROVE ReturnInv'
  BY <1>12 DEF Sign
<1>13. ASSUME NEW d \in Damage, AddDamage(d) PROVE ReturnInv'
  <2>1. ReturnTyped'
    <3> HIDE DEF PrintedIsRead, ReturnProtocolTrue, SignatureNamesReturner
    <3> QED BY <1>13 DEF AddDamage, DamageOpen
  <2>2. PrintedIsRead'
    <3> HIDE DEF ReturnProtocolTrue, SignatureNamesReturner
    <3> QED BY <1>13 DEF AddDamage, DamageOpen
  <2>3. ReturnProtocolTrue'
    <3> HIDE DEF PrintedIsRead, SignatureNamesReturner
    <3> QED BY <1>13 DEF AddDamage, DamageOpen
  <2>4. SignatureNamesReturner'
    <3> HIDE DEF PrintedIsRead, ReturnProtocolTrue
    <3> QED BY <1>13 DEF AddDamage, DamageOpen
  <2> QED BY <2>1, <2>2, <2>3, <2>4
<1>14. ASSUME NEW d \in Damage, DeleteDamage(d) PROVE ReturnInv'
  BY <1>14 DEF DeleteDamage
<1>15. ASSUME NEW d \in Damage, AddDamagePhoto(d) PROVE ReturnInv'
  BY <1>15 DEF AddDamagePhoto
<1>16. ASSUME NEW d \in Damage, PostReturnFinding(d) PROVE ReturnInv'
  <2>1. ReturnTyped'
    <3> HIDE DEF PrintedIsRead, ReturnProtocolTrue, SignatureNamesReturner
    <3> QED BY <1>16 DEF PostReturnFinding
  <2>2. PrintedIsRead'
    <3> HIDE DEF ReturnProtocolTrue, SignatureNamesReturner
    <3> QED BY <1>16 DEF PostReturnFinding
  <2>3. ReturnProtocolTrue'
    <3> HIDE DEF PrintedIsRead, SignatureNamesReturner
    <3> QED BY <1>16 DEF PostReturnFinding
  <2>4. SignatureNamesReturner'
    <3> HIDE DEF PrintedIsRead, ReturnProtocolTrue
    <3> QED BY <1>16 DEF PostReturnFinding
  <2> QED BY <2>1, <2>2, <2>3, <2>4
<1>17. ASSUME NEW d \in Damage, ResolveCurrent(d) PROVE ReturnInv'
  <2> HIDE DEF Finding
  <2>1. damages' \in [Damage -> {None} \cup Finding] /\ SameFindings
    BY <1>17, DamageFollowed
  <2>2. ReturnTyped'
    BY <1>17, <2>1 DEF ResolveCurrent
  <2> HIDE DEF ReturnTyped
  <2>3. PrintedIsRead'
    <3> HIDE DEF ReturnProtocolTrue, SignatureNamesReturner
    <3>1. ret.status # "finalized" =>
            \A e \in Damage : damages'[e] # None => damages'[e].origin = "return"
      BY <2>1 DEF SameFindings
    <3>2. edits \in Nat /\ edits' \in Nat /\ edits' <= edits
          /\ ret' = ret /\ visit' = visit /\ returnSig' = returnSig
      BY <1>17 DEF ResolveCurrent, ReturnTyped
    <3>3. \A w \in Clerk : visit'[w].op \in Phase1 => visit'[w].view[6] = visit'[w].damages
      BY <3>2
    <3>4. ASSUME NEW w \in Clerk, visit'[w].op = "rendered", NEW r \in SignRoles
          PROVE /\ DrawnBy(visit[w].rows[r])'
                /\ returnSig'[r] # None /\ returnSig'[r].ink = visit'[w].rows[r].ink
                      => returnSig'[r].name = visit'[w].rows[r].name
      <4> DEFINE row == visit[w].rows[r]
      <4>1. visit'[w].rows[r] = row /\ DrawnBy(row)
            /\ (returnSig[r] # None /\ returnSig[r].ink = row.ink => returnSig[r].name = row.name)
        BY <3>2, <3>4
      <4> HIDE DEF row, PrintedIsRead
      <4> QED BY <3>2, <4>1
    <3> QED BY <3>1, <3>2, <3>3, <3>4
  <2>4. ReturnProtocolTrue'
    BY <1>17, <2>1 DEF ResolveCurrent, SameFindings, ReturnTyped
  <2>5. SignatureNamesReturner'
    BY <1>17 DEF ResolveCurrent
  <2> QED BY <2>2, <2>3, <2>4, <2>5
<1>18. ASSUME NEW w \in Clerk, DetailRead(w) PROVE ReturnInv'
  BY <1>18 DEF DetailRead, ReturnFingerprint
<1>19. ASSUME NEW w \in Clerk, RowRead(w) PROVE ReturnInv'
  BY <1>19 DEF RowRead
<1>20. ASSUME NEW w \in Clerk, PicturesRead(w) PROVE ReturnInv'
  BY <1>20 DEF PicturesRead
<1>21. ASSUME NEW w \in Clerk, ProtocolUploaded(w) PROVE ReturnInv'
  BY <1>21 DEF ProtocolUploaded, HasSignatures
<1>22. ASSUME NEW w \in Clerk, ReturnFinalized(w) PROVE ReturnInv'
  <2>1. returnDoc'.view = ReturnFingerprint /\ returnDoc'.damages = damages
    BY <1>22 DEF ReturnFinalized, Matches, ReturnFingerprint
  <2>2. ASSUME NEW r \in SignRoles PROVE returnDoc'.names[r] = returnSig[r].name
    <3>1. visit[w].op = "rendered" /\ visit[w].rows[r].ink = returnSig[r].ink /\ returnSig[r] # None
      BY <1>22 DEF ReturnFinalized, Matches, NoReturnBlocker, HasSignatures
    <3>2. returnDoc'.names[r] = visit[w].rows[r].name
      BY <1>22 DEF ReturnFinalized
    <3> QED BY <3>1, <3>2
  <2>3. /\ damages' \in [Damage -> {None} \cup Finding]
        /\ SameFindings
        /\ missing' \in MissingCase
        /\ missing'.quantity = missing.quantity
    BY <1>22, DamagesActivated, MissingActivated DEF ReturnFinalized
  <2> HIDE DEF MissingCase, Finding
  <2>4. ReturnTyped'
    <3> HIDE DEF PrintedIsRead, ReturnProtocolTrue, SignatureNamesReturner
    <3> QED BY <1>22, <2>3 DEF ReturnFinalized
  <2>8. back'.unopened = back.unopened /\ back'.unopened + back'.chargeable = Issued
    <3> HIDE DEF PrintedIsRead, ReturnProtocolTrue, SignatureNamesReturner
    <3> QED BY <1>22, ReturnAssumption DEF ReturnFinalized
  <2>7. \A d \in Damage :
          IF damages'[d] # None /\ damages'[d].origin = "return"
          THEN damages[d] # None /\ damages[d].photos = damages'[d].photos
          ELSE damages[d] = None
    BY <1>22, <2>3 DEF ReturnFinalized, NoReturnBlocker, SameFindings
  <2>9. ReturnProtocolTrue'
    <3>1. /\ returnDoc'.view[1] = ret'.returner /\ returnDoc'.at = ret'.at
          /\ returnDoc'.view[3] = section' /\ returnDoc'.view[4] = missing'.quantity
          /\ returnDoc'.view[5].unopened = back'.unopened
      BY <1>22, <2>1, <2>3, <2>8 DEF ReturnFinalized, ReturnFingerprint
    <3>2. \A r \in SignRoles : returnDoc'.names[r] = returnSig'[r].name
      BY <1>22, <2>2 DEF ReturnFinalized
    <3> QED BY <2>1, <2>7, <2>8, <3>1, <3>2
  <2>5. PrintedIsRead'
    BY <1>22 DEF ReturnFinalized, End
  <2>6. SignatureNamesReturner'
    BY <1>22 DEF ReturnFinalized
  <2> QED BY <2>4, <2>5, <2>6, <2>9
<1>23. ASSUME NEW w \in Clerk, FinalizeRefused(w) PROVE ReturnInv'
  BY <1>23 DEF FinalizeRefused
<1>24. ASSUME NEW w \in Clerk, FinalizeFailed(w) PROVE ReturnInv'
  BY <1>24 DEF FinalizeFailed
<1> QED BY <1>1, <1>2, <1>3, <1>4, <1>5, <1>6, <1>7, <1>8, <1>9, <1>10, <1>11, <1>12, <1>13,
   <1>14, <1>15, <1>16, <1>17, <1>18, <1>19, <1>20, <1>21, <1>22, <1>23, <1>24 DEF ReturnNext

LEMMA ReturnStart == ReturnInit => ReturnInv
  BY DEF ReturnInit, ActorsInit, NoVisit, SignRoles, Phase1, ReturnInv, MissingCase, Finding,
     ReturnTyped, PrintedIsRead, DrawnBy, ReturnSafety, ReturnProtocolTrue, SignatureNamesReturner

(* The protocol of a finalised return says what its rows say, whatever was  *)
(* changed while it was rendered and whatever is found or resolved later; a *)
(* signature goes with the person who gave it (ReturnDesk, any requests,    *)
(* damages and changes).                                                    *)
THEOREM ReturnIsSafe == ReturnSpec => []ReturnSafety
<1>1. ReturnInv /\ [ReturnNext]_returnVars => ReturnInv'
  <2> SUFFICES ASSUME ReturnInv, [ReturnNext]_returnVars PROVE ReturnInv'
    OBVIOUS
  <2>1. CASE ReturnNext
    BY <2>1, ReturnStep
  <2>2. CASE UNCHANGED returnVars
    BY <2>2 DEF returnVars, ReturnInv, MissingCase, Finding, ReturnTyped, PrintedIsRead, DrawnBy,
       ReturnSafety, ReturnProtocolTrue, SignatureNamesReturner
  <2> QED BY <2>1, <2>2
<1>2. ReturnInv => ReturnSafety
  BY DEF ReturnInv
<1> QED BY ReturnStart, <1>1, <1>2, PTL DEF ReturnSpec
-----------------------------------------------------------------------------
(* Stock (StockLedger).                                                     *)
(* What a count has written down of an article it counts, beside what is    *)
(* there and what moved since.                                              *)
LineOf(c, a) ==
    LET system == count[c].system[a]
        since == count[c].since[a] IN
    /\ count[c].counted[a] \in Nat /\ system \in Nat \cup {None} /\ since \in Int
    /\ a \notin count[c].crossed =>
          IF system = None THEN stock[a] = None /\ since = 0 ELSE stock[a] = system + since

OpenCount(c) ==
    LET as == DOMAIN count[c].counted IN
    /\ count[c] = [st |-> count[c].st, system |-> count[c].system, counted |-> count[c].counted,
                   since |-> count[c].since, crossed |-> count[c].crossed]
    /\ as \subseteq Article
    /\ count[c].counted = [a \in as |-> count[c].counted[a]]
    /\ count[c].since = [a \in as |-> count[c].since[a]]
    /\ \A a \in as : LineOf(c, a)

(* No two counts that await approval share an article.                      *)
StockInv ==
    /\ DOMAIN stock = Article /\ \A a \in Article : stock[a] \in Nat \cup {None}
    /\ DOMAIN count = Count
    /\ \A c \in Count : Watched(c) => OpenCount(c)
    /\ \A c, e \in Count : Pending(c) /\ Pending(e) /\ c # e =>
          DOMAIN count[c].counted \cap DOMAIN count[e].counted = {}

(* What an approval adds is the difference of the count.                    *)
LEMMA CorrectedCount ==
    ASSUME StockInv, NEW c \in Count, Pending(c), NEW a \in DOMAIN count[c].counted, Approvable(c)
    PROVE /\ Value(stock[a]) + Correction(c, a) \in Nat
          /\ a \notin count[c].crossed =>
                Value(stock[a]) + Correction(c, a) = count[c].counted[a] + count[c].since[a]
<1>1. LineOf(c, a) /\ a \in Article /\ stock[a] \in Nat \cup {None}
  BY DEF StockInv, OpenCount, Watched
<1>2. CASE stock[a] = None
  <2>1. Value(stock[a]) + Correction(c, a) = count[c].counted[a] /\ count[c].counted[a] \in Nat
    BY <1>1, <1>2 DEF LineOf, Correction, Value
  <2>2. ASSUME a \notin count[c].crossed PROVE count[c].since[a] = 0
    <3>1. count[c].system[a] = None
      BY <1>1, <1>2, <2>2, ActorsAssumption DEF LineOf
    <3> QED BY <1>1, <2>2, <3>1 DEF LineOf
  <2> QED BY <2>1, <2>2
<1>3. CASE stock[a] # None
  <2>1. count[c].system[a] # None /\ stock[a] + Correction(c, a) >= 0
    BY <1>3 DEF Approvable
  <2>2. stock[a] \in Nat /\ count[c].system[a] \in Nat /\ count[c].counted[a] \in Nat
        /\ count[c].since[a] \in Int
        /\ (a \notin count[c].crossed => stock[a] = count[c].system[a] + count[c].since[a])
    BY <1>1, <1>3, <2>1 DEF LineOf
  <2>3. Correction(c, a) = count[c].counted[a] - count[c].system[a] /\ Value(stock[a]) = stock[a]
    BY <1>3, <2>1 DEF Correction, Value
  <2> QED BY <2>1, <2>2, <2>3
<1> QED BY <1>2, <1>3

LEMMA StockStart == StockInit => StockInv
  BY StockAssumption DEF StockInit, StockInv, Watched, Creating, Pending

(* A movement of an article is counted by what moved since.                 *)
LEMMA MovementStep ==
    ASSUME StockInv, NEW a \in Article, NEW delta \in Int, NEW new \in BOOLEAN,
           ApplyMovement(a, delta, new), stock[a] # None \/ new = FALSE
    PROVE StockInv'
<1>1. stock[a] \in Nat /\ stock[a] # None /\ Value(stock[a]) = stock[a] /\ stock[a] + delta >= 0
  BY DEF ApplyMovement, Movable, Value, StockInv
<1>2. stock' = [stock EXCEPT ![a] = stock[a] + delta] /\ DOMAIN count' = Count
  BY <1>1 DEF ApplyMovement
<1>3. stock[a] + delta \in Nat
  BY <1>1
<1>4. \A b \in Article : stock'[b] \in Nat \cup {None}
  BY <1>2, <1>3 DEF StockInv
<1>5. ASSUME NEW c \in Count
      PROVE count'[c] = IF Watched(c) /\ a \in DOMAIN count[c].since
                        THEN [count[c] EXCEPT !.since[a] = @ + delta] ELSE count[c]
  BY <1>5 DEF ApplyMovement
<1>6. ASSUME NEW c \in Count, Watched(c)
      PROVE /\ OpenCount(c)' /\ count'[c].st = count[c].st
            /\ count'[c].counted = count[c].counted
  <2>1. OpenCount(c) /\ DOMAIN count[c].since = DOMAIN count[c].counted
    BY <1>6 DEF StockInv, OpenCount
  <2>2. CASE a \notin DOMAIN count[c].counted
    <3>1. count'[c] = count[c]
      BY <1>5, <2>1, <2>2
    <3>2. ASSUME NEW b \in DOMAIN count[c].counted PROVE LineOf(c, b)'
      <4>1. LineOf(c, b) /\ stock'[b] = stock[b]
        BY <1>2, <2>1, <2>2 DEF OpenCount, StockInv
      <4> QED BY <3>1, <4>1 DEF LineOf
    <3> QED BY <2>1, <3>1, <3>2 DEF OpenCount
  <2>3. CASE a \in DOMAIN count[c].counted
    <3> DEFINE moved == [count[c].since EXCEPT ![a] = @ + delta]
               row == [st |-> count[c].st, system |-> count[c].system,
                       counted |-> count[c].counted, since |-> moved, crossed |-> count[c].crossed]
    <3>1. count'[c] = row
      <4>1. count'[c] = [count[c] EXCEPT !.since[a] = @ + delta]
        BY <1>5, <1>6, <2>1, <2>3
      <4> QED BY <2>1, <4>1 DEF OpenCount
    <3>2. DOMAIN moved = DOMAIN count[c].counted
          /\ \A b \in DOMAIN moved : moved[b] = IF b = a THEN count[c].since[a] + delta ELSE count[c].since[b]
      BY <2>1
    <3>3. moved = [b \in DOMAIN count[c].counted |-> moved[b]]
      BY <2>1
    <3> HIDE DEF moved
    <3>4. ASSUME NEW b \in DOMAIN count[c].counted PROVE LineOf(c, b)'
      <4>1. LineOf(c, b) /\ stock'[b] = IF b = a THEN stock[b] + delta ELSE stock[b]
        BY <1>2, <2>1 DEF OpenCount, StockInv
      <4>2. moved[b] = IF b = a THEN count[c].since[b] + delta ELSE count[c].since[b]
        BY <3>2
      <4>3. count[c].since[b] \in Int
        BY <4>1 DEF LineOf
      <4> QED BY <1>1, <3>1, <4>1, <4>2, <4>3 DEF LineOf
    <3> QED BY <2>1, <3>1, <3>3, <3>4 DEF OpenCount
  <2> QED BY <2>2, <2>3
<1>7. ASSUME NEW c \in Count, ~Watched(c) PROVE count'[c] = count[c]
  BY <1>5, <1>7
<1>8. \A c \in Count : (Watched(c)' <=> Watched(c)) /\ (Pending(c)' <=> Pending(c))
  BY <1>6, <1>7 DEF Watched, Creating, Pending
<1> QED BY <1>2, <1>4, <1>6, <1>8 DEF StockInv, Watched

(* The four operations of a count.                                          *)
LEMMA ReadStep ==
    ASSUME StockInv, NEW c \in Count, NEW counted \in Counts, ReadStocktake(c, counted)
    PROVE StockInv'
<1> DEFINE as == DOMAIN counted
           row == [st |-> "counting", system |-> [a \in as |-> stock[a]], counted |-> counted,
                   since |-> [a \in as |-> 0], crossed |-> {}]
<1>1. PICK bs \in SUBSET Article : counted \in [bs -> 0 .. MaxStock]
  BY DEF Counts
<1>2. as \subseteq Article /\ counted = [a \in as |-> counted[a]] /\ \A a \in as : counted[a] \in Nat
  BY <1>1, StockAssumption
<1>3. /\ stock' = stock /\ DOMAIN count' = Count /\ count'[c] = row
      /\ \A e \in Count \ {c} : count'[e] = count[e]
  BY DEF ReadStocktake, StockInv
<1>4. OpenCount(c)'
  <2>1. ASSUME NEW a \in as PROVE LineOf(c, a)'
    <3>1. count'[c].since[a] = 0 /\ count'[c].system[a] = stock[a] /\ stock'[a] = stock[a]
          /\ count'[c].counted[a] = counted[a]
          /\ stock[a] \in Nat \cup {None} /\ counted[a] \in Nat
      BY <1>2, <1>3 DEF StockInv
    <3> QED BY <3>1 DEF LineOf
  <2> QED BY <1>2, <1>3, <2>1 DEF OpenCount
<1>5. ASSUME NEW e \in Count \ {c}, OpenCount(e) PROVE OpenCount(e)'
  BY <1>3, <1>5 DEF OpenCount, LineOf
<1>6. ~Pending(c)' /\ \A e \in Count \ {c} : (Watched(e)' <=> Watched(e)) /\ (Pending(e)' <=> Pending(e))
  BY <1>3 DEF Watched, Creating, Pending
<1> HIDE DEF row
<1> QED BY <1>3, <1>4, <1>5, <1>6 DEF StockInv

LEMMA CreateStep ==
    ASSUME StockInv, NEW c \in Count, CreateStocktake(c)
    PROVE StockInv'
<1>1. Watched(c) /\ OpenCount(c) /\ stock' = stock /\ DOMAIN count' = Count
      /\ \A e \in Count \ {c} : count'[e] = count[e]
  BY DEF CreateStocktake, Watched, StockInv
<1>2. CASE Pending(c)'
  <2>1. ~OpenFor(DOMAIN count[c].counted)
    BY <1>2 DEF CreateStocktake, StockInv, Pending
  <2>2. count'[c] = [st |-> "pending_approval", system |-> count[c].system, counted |-> count[c].counted,
                     since |-> count[c].since, crossed |-> count[c].crossed]
    BY <1>1, <1>2, <2>1 DEF CreateStocktake, StockInv, Pending, OpenCount
  <2>3. OpenCount(c)'
    <3>1. ASSUME NEW a \in DOMAIN count[c].counted PROVE LineOf(c, a)'
      BY <1>1, <2>2 DEF OpenCount, LineOf
    <3> QED BY <1>1, <2>2, <3>1 DEF OpenCount
  <2>4. ASSUME NEW e \in Count \ {c}, Pending(e)
        PROVE DOMAIN count'[e].counted \cap DOMAIN count'[c].counted = {}
    BY <1>1, <2>1, <2>2, <2>4 DEF OpenFor
  <2>5. ASSUME NEW e \in Count \ {c}, OpenCount(e) PROVE OpenCount(e)'
    BY <1>1, <2>5 DEF OpenCount, LineOf
  <2>6. \A e \in Count \ {c} : (Watched(e)' <=> Watched(e)) /\ (Pending(e)' <=> Pending(e))
    BY <1>1 DEF Watched, Creating, Pending
  <2>7. ASSUME NEW d \in Count, NEW e \in Count, d # e, Pending(d)', Pending(e)'
        PROVE DOMAIN count'[d].counted \cap DOMAIN count'[e].counted = {}
    <3>1. CASE d # c /\ e # c
      BY <1>1, <2>6, <2>7, <3>1 DEF StockInv
    <3>2. CASE d = c
      BY <2>4, <2>6, <2>7, <3>2
    <3>3. CASE e = c
      BY <2>4, <2>6, <2>7, <3>3
    <3> QED BY <3>1, <3>2, <3>3
  <2> QED BY <1>1, <2>3, <2>5, <2>6, <2>7 DEF StockInv
<1>3. CASE ~Pending(c)'
  <2>1. ~Watched(c)'
    BY <1>3 DEF CreateStocktake, StockInv, Watched, Creating, Pending, OpenCount
  <2>2. ASSUME NEW e \in Count \ {c}, OpenCount(e) PROVE OpenCount(e)'
    BY <1>1, <2>2 DEF OpenCount, LineOf
  <2>3. \A e \in Count \ {c} : (Watched(e)' <=> Watched(e)) /\ (Pending(e)' <=> Pending(e))
    BY <1>1 DEF Watched, Creating, Pending
  <2> QED BY <1>1, <1>3, <2>1, <2>2, <2>3 DEF StockInv
<1> QED BY <1>2, <1>3

LEMMA CorrectStep ==
    ASSUME StockInv, NEW c \in Count, NEW a \in Article, NEW q \in 0 .. MaxStock,
           CorrectCountedStock(c, a, q)
    PROVE StockInv'
<1>1. q \in Nat /\ Pending(c) /\ OpenCount(c) /\ a \in DOMAIN count[c].counted
  BY StockAssumption DEF CorrectCountedStock, StockInv, Watched
<1> DEFINE row == [st |-> count[c].st, system |-> count[c].system,
                   counted |-> [count[c].counted EXCEPT ![a] = q],
                   since |-> count[c].since, crossed |-> count[c].crossed]
<1>2. count'[c] = row /\ DOMAIN count' = Count /\ stock' = stock
      /\ \A e \in Count \ {c} : count'[e] = count[e]
  BY <1>1 DEF CorrectCountedStock, OpenCount, StockInv
<1>3. /\ DOMAIN row.counted = DOMAIN count[c].counted /\ row.system = count[c].system
      /\ row.since = count[c].since /\ row.crossed = count[c].crossed
      /\ \A b \in DOMAIN row.counted : row.counted[b] = IF b = a THEN q ELSE count[c].counted[b]
  BY <1>1 DEF OpenCount
<1>4. ASSUME NEW b \in DOMAIN row.counted PROVE LineOf(c, b)'
  <2>1. LineOf(c, b)
    BY <1>1, <1>3 DEF OpenCount
  <2>2. count'[c].counted[b] \in Nat /\ count'[c].system[b] = count[c].system[b]
        /\ count'[c].since[b] = count[c].since[b] /\ count'[c].crossed = count[c].crossed
    BY <1>1, <1>2, <1>3, <2>1 DEF LineOf
  <2> QED BY <1>2, <2>1, <2>2 DEF LineOf
<1>5. OpenCount(c)'
  BY <1>1, <1>2, <1>3, <1>4 DEF OpenCount
<1>6. ASSUME NEW e \in Count \ {c}, OpenCount(e) PROVE OpenCount(e)'
  BY <1>2, <1>6 DEF OpenCount, LineOf
<1>7. \A e \in Count : /\ Pending(e)' <=> Pending(e)
                       /\ Watched(e)' <=> Watched(e)
                       /\ DOMAIN count'[e].counted = DOMAIN count[e].counted
  BY <1>1, <1>2, <1>3 DEF Pending, Creating, Watched
<1> HIDE DEF row
<1> QED BY <1>2, <1>5, <1>6, <1>7 DEF StockInv

LEMMA ApproveStep ==
    ASSUME StockInv, NEW c \in Count, ApproveStocktake(c)
    PROVE /\ StockInv'
          /\ \A a \in DOMAIN count[c].counted \ count[c].crossed :
                stock'[a] = count[c].counted[a] + count[c].since[a]
<1> DEFINE as == DOMAIN count[c].counted
<1>1. Pending(c) /\ Approvable(c) /\ OpenCount(c) /\ as \subseteq Article
  BY DEF ApproveStocktake, StockInv, OpenCount, Watched
<1>2. /\ DOMAIN stock' = Article /\ DOMAIN count' = Count
      /\ \A a \in Article : stock'[a] = IF a \in as THEN Value(stock[a]) + Correction(c, a) ELSE stock[a]
  BY <1>1 DEF ApproveStocktake, StockInv, OpenCount
<1>3. ASSUME NEW a \in as
      PROVE /\ stock'[a] \in Nat
            /\ a \notin count[c].crossed => stock'[a] = count[c].counted[a] + count[c].since[a]
  BY <1>1, <1>2, CorrectedCount
<1>4. count'[c].st = "approved"
  BY <1>1 DEF ApproveStocktake, OpenCount
<1>5. ASSUME NEW e \in Count \ {c}
      PROVE count'[e] = IF Creating(e)
               THEN [count[e] EXCEPT !.crossed = @ \cup {a \in as \cap DOMAIN count[e].counted : stock'[a] # stock[a]}]
               ELSE count[e]
  BY <1>5 DEF ApproveStocktake
<1>6. ASSUME NEW e \in Count \ {c}, Pending(e)
      PROVE count'[e] = count[e] /\ OpenCount(e)'
  <2>1. OpenCount(e) /\ count'[e] = count[e]
    BY <1>5, <1>6 DEF Pending, Creating, StockInv, Watched
  <2>2. DOMAIN count[e].counted \cap as = {}
    BY <1>1, <1>6 DEF StockInv
  <2>3. ASSUME NEW a \in DOMAIN count[e].counted PROVE LineOf(e, a)'
    <3>1. LineOf(e, a) /\ a \in Article /\ a \notin as
      BY <2>1, <2>2 DEF OpenCount
    <3>2. stock'[a] = stock[a]
      BY <1>2, <3>1
    <3> QED BY <2>1, <3>1, <3>2 DEF LineOf
  <2> QED BY <2>1, <2>3 DEF OpenCount
<1>7. ASSUME NEW e \in Count \ {c}, Creating(e)
      PROVE count'[e].st = "counting" /\ OpenCount(e)'
  <2> DEFINE changed == {a \in as \cap DOMAIN count[e].counted : stock'[a] # stock[a]}
  <2>1. OpenCount(e)
    BY <1>7 DEF Watched, StockInv
  <2>2. count'[e] = [st |-> count[e].st, system |-> count[e].system, counted |-> count[e].counted,
                     since |-> count[e].since, crossed |-> count[e].crossed \cup changed]
    BY <1>5, <1>7, <2>1 DEF OpenCount
  <2>3. ASSUME NEW a \in DOMAIN count[e].counted PROVE LineOf(e, a)'
    <3>1. LineOf(e, a) /\ a \in Article
      BY <2>1 DEF OpenCount
    <3>2. ASSUME a \notin count[e].crossed \cup changed PROVE stock'[a] = stock[a]
      BY <1>2, <3>1, <3>2
    <3> HIDE DEF changed
    <3> QED BY <2>2, <3>1, <3>2 DEF LineOf
  <2> HIDE DEF changed
  <2> QED BY <1>7, <2>1, <2>2, <2>3 DEF OpenCount, Creating
<1>8. ASSUME NEW e \in Count, ~Watched(e) \/ e = c PROVE ~Watched(e)'
  <2>1. CASE e = c
    BY <1>4, <2>1 DEF Watched, Creating, Pending
  <2>2. CASE e # c
    BY <1>5, <1>8, <2>2 DEF Watched, Creating, Pending
  <2> QED BY <2>1, <2>2
<1>9. \A e \in Count : Pending(e)' => e # c /\ Pending(e)
  BY <1>4, <1>6, <1>7, <1>8 DEF Watched, Pending, Creating
<1>10. \A a \in Article : stock'[a] \in Nat \cup {None}
  BY <1>2, <1>3 DEF StockInv
<1>11. \A e \in Count : Watched(e)' => OpenCount(e)'
  BY <1>6, <1>7, <1>8 DEF Watched
<1>12. \A d, e \in Count : Pending(d)' /\ Pending(e)' /\ d # e =>
          DOMAIN count'[d].counted \cap DOMAIN count'[e].counted = {}
  BY <1>6, <1>9 DEF StockInv
<1>13. StockInv'
  BY <1>2, <1>10, <1>11, <1>12 DEF StockInv
<1> QED BY <1>3, <1>13

LEMMA StockKept ==
    ASSUME StockInv, stock' = stock, count' = count PROVE StockInv'
  BY DEF StockInv, Watched, Creating, Pending, OpenCount, LineOf

LEMMA StockStep ==
    ASSUME StockInv, StockNext PROVE StockInv'
<1>1. ASSUME NEW a \in Article, NEW q \in 1 .. MaxStock, Receive(a, q) \/ IssueWithin(a, q)
      PROVE StockInv'
  <2>1. q \in Int /\ -q \in Int /\ FALSE \in BOOLEAN
    BY StockAssumption
  <2>2. ASSUME NEW delta \in Int, ApplyMovement(a, delta, FALSE) PROVE StockInv'
    BY <2>1, <2>2, MovementStep
  <2> QED BY <1>1, <2>1, <2>2 DEF Receive, IssueWithin
<1>2. ASSUME NEW a \in Article, NEW q \in 1 .. MaxStock, ReturnWithin(a, q) PROVE StockInv'
  <2>1. ApplyMovement(a, q, FALSE)
    BY <1>2 DEF ReturnWithin, ApplyMovement, Movable
  <2>2. q \in Int /\ FALSE \in BOOLEAN
    BY StockAssumption
  <2> QED BY <2>1, <2>2, MovementStep
<1>3. ASSUME NEW a \in Article, Deactivate(a) PROVE StockInv'
  BY <1>3, StockKept DEF Deactivate
<1> QED BY <1>1, <1>2, <1>3, ReadStep, CreateStep, CorrectStep, ApproveStep DEF StockNext

(* Whatever moves between a count and its approval: the stock becomes what  *)
(* was counted and what moved since, but for the articles an approval       *)
(* crossed while the count was created (StockLedger, any articles, counts). *)
THEOREM ApprovalKeepsMovements == StockSpec => CountedPlusSince
<1> DEFINE Approval ==
      \A c \in Count : count[c].st = "pending_approval" /\ count'[c].st = "approved" =>
          \A a \in DOMAIN count[c].counted \ count[c].crossed :
             stock'[a] = count[c].counted[a] + count[c].since[a]
<1>1. StockInv /\ [StockNext]_stockVars => StockInv'
  BY StockStep, StockKept DEF stockVars
<1>2. StockInv /\ [StockNext]_stockVars => Approval
  <2> SUFFICES ASSUME StockInv, [StockNext]_stockVars, NEW c \in Count,
                      count[c].st = "pending_approval", count'[c].st = "approved"
               PROVE \A a \in DOMAIN count[c].counted \ count[c].crossed :
                        stock'[a] = count[c].counted[a] + count[c].since[a]
    OBVIOUS
  <2>1. CASE ApproveStocktake(c)
    BY <2>1, ApproveStep
  <2>2. ASSUME NEW e \in Count, e # c, ApproveStocktake(e) PROVE FALSE
    <3>1. ~Creating(c)
      BY DEF Creating
    <3> QED BY <2>2, <3>1 DEF ApproveStocktake, StockInv
  <2>3. ASSUME NEW e \in Count, NEW counted \in Counts, ReadStocktake(e, counted) PROVE FALSE
    BY <2>3 DEF ReadStocktake, StockInv
  <2>4. ASSUME NEW e \in Count, CreateStocktake(e) PROVE FALSE
    BY <2>4 DEF CreateStocktake, StockInv, Creating
  <2>5. ASSUME NEW e \in Count, NEW a \in Article, NEW q \in 0 .. MaxStock, CorrectCountedStock(e, a, q)
        PROVE FALSE
    BY <2>5 DEF CorrectCountedStock, StockInv, OpenCount, Pending, Watched
  <2>6. ASSUME NEW a \in Article, NEW delta, NEW new, ApplyMovement(a, delta, new) PROVE FALSE
    <3>1. OpenCount(c)
      BY DEF StockInv, Watched, Pending
    <3>2. count'[c].st = count[c].st
      BY <2>6, <3>1 DEF ApplyMovement, OpenCount
    <3> QED BY <3>2
  <2>7. CASE count' = count
    BY <2>7
  <2> QED BY <2>1, <2>2, <2>3, <2>4, <2>5, <2>6, <2>7
        DEF StockNext, stockVars, Receive, IssueWithin, ReturnWithin, Deactivate
<1> QED BY StockStart, <1>1, <1>2, PTL DEF StockSpec, CountedPlusSince

(* The first count of an article can be approved as long as it waits: the   *)
(* article cannot have got a stock meanwhile, unless by an approval that    *)
(* crossed the creation of the count.                                       *)
THEOREM FirstCountsWait == StockSpec => []FirstCountApprovable
<1>1. StockInv /\ [StockNext]_stockVars => StockInv'
  BY StockStep, StockKept DEF stockVars
<1>2. StockInv => FirstCountApprovable
  BY DEF StockInv, FirstCountApprovable, OpenCount, LineOf, Watched
<1> QED BY StockStart, <1>1, <1>2, PTL DEF StockSpec

-----------------------------------------------------------------------------
(* Appointments (AppointmentBook).                                          *)
When == Slot \cup {None}
Whole(r) ==
    r = [status |-> r.status, start |-> r.start, assigned |-> r.assigned, info |-> r.info,
         known |-> r.known, version |-> r.version, ack |-> r.ack]
USE DEF Whole

(* A row of appointments.                                                   *)
IsRow(r) ==
    /\ Whole(r)
    /\ r.status # "absent" /\ r.start \in When /\ r.info \in BOOLEAN /\ r.version \in Nat

(* What the row remembers and what was said agree, whatever its status:     *)
(* without the mark the time was said, and where the mark has no old time   *)
(* the customer was told that the time is open.                             *)
Agrees(r, told) ==
    /\ r.start # None /\ ~r.info => r.start \in told
    /\ r.known # None => r.known \in told \/ None \in told
    /\ r.info /\ r.known = None => None \in told
RowTrue(b, k) == Row(b, k) = NoMeeting \/ (IsRow(Row(b, k)) /\ Agrees(Row(b, k), Told(b, k)))

(* A mail names the time its version of the row had.                        *)
NamesItsVersion(m) ==
    /\ m.booking \in Booking /\ m.kind \in Kind /\ m.new \in When /\ m.version \in Nat
    /\ LET r == Row(m.booking, m.kind) IN
       r # NoMeeting /\ m.version <= r.version /\ (m.version = r.version => m.new = r.start)
Mailed(m) ==
    m = [booking |-> m.booking, kind |-> m.kind, version |-> m.version, old |-> m.old,
         new |-> m.new, state |-> m.state, try |-> m.try]
USE DEF Mailed
LetterTrue(m) ==
    /\ Mailed(m)
    /\ NamesItsVersion(m)
    /\ m.state \in {"sent", "noted"} => m.new \in Told(m.booking, m.kind)
VisitTrue(v) == /\ v.op = "ensure" => v.booking \in Booking
                /\ v.op = "inform" => NamesItsVersion(v)

(* The tables, the processes, what was said.                                *)
BookShape ==
    /\ DOMAIN visit = Clerk
    /\ DOMAIN process = Booking
    /\ \A b \in Booking :
          /\ process[b] = [status |-> process[b].status, owner |-> process[b].owner,
                           fulfillment |-> process[b].fulfillment, wish |-> process[b].wish]
          /\ \A k \in Kind : process[b].wish[k] \in When
    /\ DOMAIN meeting = Booking /\ \A b \in Booking : DOMAIN meeting[b] = Kind
    /\ heard \in [Booking -> [Kind -> Seq(When)]]
BookInv ==
    /\ BookShape
    /\ \A b \in Booking, k \in Kind : RowTrue(b, k)
    /\ \A m \in letter : LetterTrue(m)
    /\ \A w \in Clerk : VisitTrue(visit[w])

Said(s) == {s[i] : i \in DOMAIN s}

(* One more time said.                                                     *)
LEMMA SaidOneMore ==
    ASSUME NEW S, NEW s \in Seq(S), NEW t \in S
    PROVE /\ Append(s, t) \in Seq(S)
          /\ Said(Append(s, t)) = Said(s) \cup {t}
<1>1. Append(s, t) \in Seq(S) /\ Len(s) \in Nat /\ DOMAIN s = 1 .. Len(s)
      /\ DOMAIN Append(s, t) = 1 .. Len(s) + 1 /\ Append(s, t)[Len(s) + 1] = t
      /\ \A i \in 1 .. Len(s) : Append(s, t)[i] = s[i]
  OBVIOUS
<1> QED BY <1>1 DEF Said

(* A row goes on: its version grows when its time changes, and nothing said *)
(* is taken back.                                                           *)
GoesOn(b, k) ==
    /\ Told(b, k) \subseteq Told(b, k)'
    /\ Row(b, k) # NoMeeting =>
          /\ Row(b, k)' # NoMeeting /\ Row(b, k).version <= Row(b, k)'.version
          /\ Row(b, k)'.version \in Nat
          /\ Row(b, k)'.version = Row(b, k).version => Row(b, k)'.start = Row(b, k).start

(* Then a mail still names the time of its version.                         *)
LEMMA VersionsGoOn ==
    ASSUME BookInv, NEW m, NamesItsVersion(m), \A b \in Booking, k \in Kind : GoesOn(b, k)
    PROVE NamesItsVersion(m)'
<1> DEFINE b == m.booking  k == m.kind
<1>1. b \in Booking /\ k \in Kind /\ GoesOn(b, k) /\ m.version \in Nat /\ m.new \in When
  BY DEF NamesItsVersion
<1>2. Row(b, k) # NoMeeting /\ m.version <= Row(b, k).version
      /\ (m.version = Row(b, k).version => m.new = Row(b, k).start)
  BY DEF NamesItsVersion
<1>3. Row(b, k).version \in Nat
  BY <1>1, <1>2 DEF BookInv, RowTrue, IsRow
<1> QED BY <1>1, <1>2, <1>3 DEF GoesOn, NamesItsVersion

(* So it is enough to look at each row, and at the mails and requests that  *)
(* are new.                                                                 *)
LEMMA BookGoesOn ==
    ASSUME BookInv, BookShape',
           \A b \in Booking, k \in Kind : RowTrue(b, k)' /\ GoesOn(b, k),
           \A m \in letter' : m \in letter \/ LetterTrue(m)',
           \A w \in Clerk : visit'[w] = visit[w] \/ VisitTrue(visit[w])'
    PROVE BookInv'
<1>1. ASSUME NEW m \in letter, LetterTrue(m) PROVE LetterTrue(m)'
  <2>1. NamesItsVersion(m)'
    BY <1>1, VersionsGoOn DEF LetterTrue
  <2>2. Told(m.booking, m.kind) \subseteq Told(m.booking, m.kind)'
    BY <1>1 DEF LetterTrue, NamesItsVersion, GoesOn
  <2> QED BY <1>1, <2>1, <2>2 DEF LetterTrue
<1>2. ASSUME NEW w \in Clerk PROVE VisitTrue(visit[w])'
  <2>1. CASE visit'[w] = visit[w]
    BY <2>1, VersionsGoOn DEF VisitTrue, BookInv
  <2>2. CASE VisitTrue(visit[w])'
    BY <2>2
  <2> QED BY <2>1, <2>2
<1> QED BY <1>1, <1>2 DEF BookInv

(* A time is said or not.                                                   *)
Speaks(b, k) ==
    heard'[b][k] = heard[b][k] \/ \E t \in When : heard'[b][k] = Append(heard[b][k], t)

LEMMA SpokenOnce ==
    ASSUME BookInv, NEW b \in Booking, NEW k \in Kind, NEW t \in When,
           heard'[b][k] = Append(heard[b][k], t)
    PROVE /\ heard'[b][k] \in Seq(When) /\ Told(b, k)' = Told(b, k) \cup {t}
          /\ t \in Told(b, k)' /\ Told(b, k) \subseteq Told(b, k)' /\ Speaks(b, k)
<1> DEFINE s == heard[b][k]
<1>1. s \in Seq(When) /\ Told(b, k) = Said(s) /\ Told(b, k)' = Said(heard'[b][k])
  BY DEF BookInv, BookShape, Told, Said
<1>2. heard'[b][k] = Append(s, t)
  OBVIOUS
<1>3. Speaks(b, k)
  BY DEF Speaks
<1> HIDE DEF s
<1>4. heard'[b][k] \in Seq(When) /\ Told(b, k)' = Told(b, k) \cup {t}
  BY <1>1, <1>2, SaidOneMore
<1> QED BY <1>3, <1>4

LEMMA Spoken ==
    ASSUME BookInv, NEW b \in Booking, NEW k \in Kind
    PROVE /\ heard'[b][k] = heard[b][k] => heard'[b][k] \in Seq(When) /\ Told(b, k)' = Told(b, k)
          /\ \A t \in When : heard'[b][k] = Append(heard[b][k], t) =>
                heard'[b][k] \in Seq(When) /\ Told(b, k)' = Told(b, k) \cup {t}
<1> DEFINE s == heard[b][k]
<1>1. s \in Seq(When) /\ Told(b, k) = Said(s) /\ Told(b, k)' = Said(heard'[b][k])
  BY DEF BookInv, BookShape, Told, Said
<1> HIDE DEF s
<1>2. ASSUME NEW t \in When, heard'[b][k] = Append(s, t)
      PROVE heard'[b][k] \in Seq(When) /\ Told(b, k)' = Told(b, k) \cup {t}
  BY <1>1, <1>2, SaidOneMore
<1>3. heard'[b][k] = s => heard'[b][k] \in Seq(When) /\ Told(b, k)' = Told(b, k)
  BY <1>1
<1> QED BY <1>2, <1>3 DEF s

LEMMA RowGoesOn ==
    ASSUME BookInv, NEW b \in Booking, NEW k \in Kind, NEW r, IsRow(r), Speaks(b, k),
           meeting'[b][k] = r, Agrees(r, Told(b, k)'),
           Row(b, k) # NoMeeting => /\ Row(b, k).version <= r.version
                                    /\ r.version = Row(b, k).version => r.start = Row(b, k).start
    PROVE RowTrue(b, k)' /\ GoesOn(b, k)
<1>1. r # NoMeeting
  BY DEF IsRow, NoMeeting
<1>2. Told(b, k) \subseteq Told(b, k)'
  BY Spoken DEF Speaks
<1> QED BY <1>1, <1>2 DEF RowTrue, GoesOn, IsRow, Row

(* One row gets new contents, and one time may be said.                     *)
OnlyRow(b, k, r) ==
    /\ DOMAIN meeting' = Booking /\ \A c \in Booking : DOMAIN meeting'[c] = Kind
    /\ meeting'[b][k] = r
    /\ \A c \in Booking, j \in Kind : c # b \/ j # k => meeting'[c][j] = meeting[c][j]
OnlyHeard(b, k) ==
    heard' = heard \/ \E t \in When : heard' = [heard EXCEPT ![b][k] = Append(heard[b][k], t)]

LEMMA RowChanged ==
    ASSUME BookInv, NEW b \in Booking, NEW k \in Kind, NEW r, IsRow(r),
           OnlyRow(b, k, r), OnlyHeard(b, k), Agrees(r, Told(b, k)'),
           Row(b, k) # NoMeeting => /\ Row(b, k).version <= r.version
                                    /\ r.version = Row(b, k).version => r.start = Row(b, k).start,
           process' = process
    PROVE /\ \A c \in Booking, j \in Kind : RowTrue(c, j)' /\ GoesOn(c, j)
          /\ visit' = visit => BookShape'
<1>1. Speaks(b, k) /\ DOMAIN heard' = Booking /\ (\A c \in Booking : heard'[c] \in [Kind -> Seq(When)])
      /\ \A c \in Booking, j \in Kind : c # b \/ j # k => heard'[c][j] = heard[c][j]
  <2>1. CASE heard' = heard
    BY <2>1 DEF BookInv, BookShape, Speaks
  <2>2. ASSUME NEW t \in When, heard' = [heard EXCEPT ![b][k] = Append(heard[b][k], t)]
        PROVE <1>1!:
    <3>1. heard'[b][k] = Append(heard[b][k], t)
      BY <2>2 DEF BookInv, BookShape
    <3>2. heard'[b][k] \in Seq(When)
      BY <3>1, Spoken
    <3> QED BY <2>2, <3>1, <3>2 DEF BookInv, BookShape, Speaks
  <2> QED BY <2>1, <2>2 DEF OnlyHeard
<1>2. heard' = [c \in Booking |-> heard'[c]]
  BY DEF OnlyHeard, BookInv, BookShape
<1>3. ASSUME NEW c \in Booking, NEW j \in Kind, c # b \/ j # k PROVE RowTrue(c, j)' /\ GoesOn(c, j)
  <2>1. Row(c, j)' = Row(c, j) /\ Told(c, j)' = Told(c, j) /\ RowTrue(c, j)
    BY <1>1, <1>3 DEF Row, Told, BookInv, OnlyRow
  <2> QED BY <2>1 DEF RowTrue, GoesOn, IsRow
<1>4. RowTrue(b, k)' /\ GoesOn(b, k)
  BY <1>1, RowGoesOn DEF OnlyRow
<1> QED BY <1>1, <1>2, <1>3, <1>4 DEF BookShape, BookInv, OnlyRow

LEMMA RowSet ==
    ASSUME BookInv, NEW b \in Booking, NEW k \in Kind, NEW r,
           meeting' = [meeting EXCEPT ![b][k] = r]
    PROVE OnlyRow(b, k, r)
  BY DEF BookInv, BookShape, OnlyRow

LEMMA RowsStay ==
    ASSUME BookInv, UNCHANGED <<process, meeting, heard>>
    PROVE /\ \A b \in Booking, k \in Kind : RowTrue(b, k)' /\ GoesOn(b, k)
          /\ DOMAIN visit' = Clerk => BookShape'
<1>1. ASSUME NEW b \in Booking, NEW k \in Kind PROVE RowTrue(b, k)' /\ GoesOn(b, k)
  <2>1. Row(b, k)' = Row(b, k) /\ Told(b, k)' = Told(b, k) /\ RowTrue(b, k)
    BY DEF Row, Told, BookInv
  <2> QED BY <2>1 DEF RowTrue, GoesOn, IsRow
<1> QED BY <1>1 DEF BookInv, BookShape

(* A row that only gets a new version.                                      *)
LEMMA RowTouched ==
    ASSUME BookInv, NEW b \in Booking, NEW k \in Kind, Row(b, k) # NoMeeting, NEW r, IsRow(r),
           r.start = Row(b, k).start, r.info = Row(b, k).info, r.known = Row(b, k).known,
           Row(b, k).version <= r.version,
           meeting' = [meeting EXCEPT ![b][k] = r],
           UNCHANGED <<process, letter, heard, visit>>
    PROVE BookInv'
<1>1. RowTrue(b, k) /\ Told(b, k)' = Told(b, k)
  BY DEF BookInv, Told
<1>2. Agrees(r, Told(b, k)')
  BY <1>1 DEF RowTrue, Agrees
<1>3. (\A c \in Booking, j \in Kind : RowTrue(c, j)' /\ GoesOn(c, j)) /\ BookShape'
  BY <1>1, <1>2, RowSet, RowChanged DEF OnlyHeard
<1> QED BY <1>3, BookGoesOn

(* A time is moved: the old one is kept until the customer knows the new.   *)
LEMMA RescheduledRow ==
    ASSUME NEW r, IsRow(r), NEW t \in When, t # r.start, NEW told, Agrees(r, told),
           NEW later, told \subseteq later, r.start = None /\ ~r.info => t \in later
    PROVE /\ IsRow(Rescheduled(r, t)) /\ Agrees(Rescheduled(r, t), later)
          /\ r.version < Rescheduled(r, t).version
<1> DEFINE marked == r.info \/ r.start # None
           known == KnownAfter(r)
           n == [r EXCEPT !.start = t, !.info = marked, !.known = known, !.version = r.version + 1]
<1>1. Rescheduled(r, t) = n /\ marked \in BOOLEAN
  BY DEF Rescheduled
<1>2. /\ Whole(n)
      /\ n.status = r.status /\ n.start = t /\ n.info = marked /\ n.known = known
      /\ n.version = r.version + 1
  <2>1. Whole(r)
    BY DEF IsRow
  <2> HIDE DEF marked, known
  <2> QED BY <1>1, <2>1
<1> HIDE DEF n
<1>3. IsRow(n) /\ r.version < n.version
  BY <1>1, <1>2 DEF IsRow
<1>4. Agrees(n, later)
  <2>1. n.start # None /\ ~n.info => n.start \in later
    BY <1>2
  <2>2. n.known # None => n.known \in later \/ None \in later
    BY <1>2 DEF KnownAfter, Agrees
  <2>3. n.info /\ n.known = None => None \in later
    BY <1>2 DEF KnownAfter, Agrees
  <2> QED BY <2>1, <2>2, <2>3 DEF Agrees
<1> QED BY <1>1, <1>3, <1>4

LEMMA BookStart == BookInit => BookInv
<1> SUFFICES ASSUME BookInit PROVE BookInv
  OBVIOUS
<1>1. BookShape
  <2>1. <<>> \in Seq(When)
    OBVIOUS
  <2> QED BY <2>1 DEF BookInit, ActorsInit, BookShape, When
<1>2. \A b \in Booking, k \in Kind : Row(b, k) = NoMeeting
  BY DEF BookInit, Row
<1>3. letter = {} /\ \A w \in Clerk : visit[w].op = "none"
  BY DEF BookInit, ActorsInit, NoVisit
<1>4. \A w \in Clerk : VisitTrue(visit[w])
  BY <1>3 DEF VisitTrue
<1>5. ASSUME NEW b \in Booking, NEW k \in Kind PROVE RowTrue(b, k)
  <2>1. Row(b, k) = NoMeeting
    BY <1>2
  <2> QED BY <2>1 DEF RowTrue
<1> QED BY <1>1, <1>3, <1>4, <1>5 DEF BookInv

(* A row that is there.                                                     *)
LEMMA ScheduledRow ==
    ASSUME BookInv, NEW b \in Booking, NEW k \in Kind, Row(b, k) # NoMeeting
    PROVE /\ IsRow(Row(b, k)) /\ Agrees(Row(b, k), Told(b, k)) /\ meeting[b][k] = Row(b, k)
          /\ heard[b][k] \in Seq(When)
  BY DEF BookInv, RowTrue, Row, BookShape

LEMMA OnIsThere == \A b, k : StillOn(b, k) => Row(b, k) # NoMeeting
  BY DEF StillOn, NoMeeting

(* Setting one field of a row that is not about the time, and its version.  *)
LEMMA ChangeTouches ==
    ASSUME BookInv, NEW b \in Booking, NEW k \in Kind, Row(b, k) # NoMeeting, NEW row, IsRow(row),
           row.start = Row(b, k).start, row.info = Row(b, k).info, row.known = Row(b, k).known,
           row.version = Row(b, k).version, Change(b, k, row),
           UNCHANGED <<process, letter, heard, visit>>
    PROVE BookInv'
<1> DEFINE r == [row EXCEPT !.version = row.version + 1]
<1>1. Whole(row) /\ row.version \in Nat
  BY DEF IsRow
<1>2. /\ Whole(r)
      /\ r.status = row.status /\ r.start = row.start /\ r.info = row.info /\ r.known = row.known
      /\ r.version = row.version + 1
  BY <1>1
<1>3. meeting' = [meeting EXCEPT ![b][k] = r]
  BY DEF Change
<1> HIDE DEF r
<1>4. IsRow(r) /\ Row(b, k).version <= r.version
  BY <1>1, <1>2 DEF IsRow
<1> QED BY <1>2, <1>3, <1>4, RowTouched

(* The operations, one by one.                                              *)
LEMMA EnsureStep ==
    ASSUME BookInv, NEW w \in Clerk, NEW b \in Booking,
           EnsureAppointments(w, b) \/ EnsureEnds(w)
    PROVE BookInv'
<1>1. UNCHANGED <<process, meeting, letter, heard>> /\ DOMAIN visit' = Clerk
  BY DEF EnsureAppointments, EnsureEnds, Begin, End, BookInv, BookShape
<1>2. \A v \in Clerk : visit'[v] = visit[v] \/ VisitTrue(visit[v])'
  BY DEF EnsureAppointments, EnsureEnds, Begin, End, BookInv, BookShape, VisitTrue, NoVisit
<1> QED BY <1>1, <1>2, RowsStay, BookGoesOn

LEMMA InsertStep ==
    ASSUME BookInv, NEW w \in Clerk, NEW k \in Kind, InsertAppointment(w, k) PROVE BookInv'
<1>0. PICK b \in Booking : b = visit[w].booking
  BY DEF InsertAppointment, BookInv, VisitTrue
<1> DEFINE r == [status |-> "scheduled", start |-> process[b].wish[k], assigned |-> visit[w].owner,
                 info |-> FALSE, known |-> None, version |-> 0, ack |-> None]
<1>1. b \in Booking /\ Row(b, k) = NoMeeting /\ process[b].wish[k] \in When
  BY <1>0 DEF InsertAppointment, BookInv, BookShape
<1>2. meeting' = [meeting EXCEPT ![b][k] = r] /\ UNCHANGED <<process, letter, visit>>
      /\ (IF process[b].wish[k] = None THEN heard' = heard
          ELSE heard' = [heard EXCEPT ![b][k] = Append(heard[b][k], process[b].wish[k])])
  BY <1>0 DEF InsertAppointment, Tell, KeepHeard
<1>3. IsRow(r) /\ r.start = process[b].wish[k] /\ r.info = FALSE /\ r.known = None
  BY <1>1 DEF IsRow
<1>4. OnlyHeard(b, k)
  BY <1>1, <1>2 DEF OnlyHeard
<1>5. r.start # None => r.start \in Told(b, k)'
  <2> SUFFICES ASSUME r.start # None PROVE r.start \in Told(b, k)'
    OBVIOUS
  <2>1. heard'[b][k] = Append(heard[b][k], r.start)
    BY <1>1, <1>2, <1>3 DEF BookInv, BookShape
  <2>2. b \in Booking /\ r.start \in When
    BY <1>1, <1>3
  <2> HIDE DEF r
  <2> QED BY <2>1, <2>2, SpokenOnce
<1> HIDE DEF r
<1>6. Agrees(r, Told(b, k)')
  BY <1>3, <1>5 DEF Agrees
<1>7. OnlyRow(b, k, r) /\ process' = process /\ visit' = visit /\ letter' = letter
  BY <1>1, <1>2, RowSet
<1>8. (\A c \in Booking, j \in Kind : RowTrue(c, j)' /\ GoesOn(c, j)) /\ BookShape'
  <2>1. b \in Booking /\ Row(b, k) = NoMeeting /\ IsRow(r)
    BY <1>1, <1>3
  <2> QED BY <1>4, <1>6, <1>7, <2>1, RowChanged
<1> QED BY <1>7, <1>8, BookGoesOn

LEMMA RescheduleStep ==
    ASSUME BookInv, NEW b \in Booking, NEW k \in Kind, NEW t \in When, Reschedule(b, k, t)
    PROVE BookInv'
<1> DEFINE r == Rescheduled(Row(b, k), t)
<1>1. Row(b, k) # NoMeeting /\ t # Row(b, k).start /\ UNCHANGED <<process, letter, visit>>
  BY OnIsThere DEF Reschedule
<1>2. IsRow(Row(b, k)) /\ Agrees(Row(b, k), Told(b, k)) /\ meeting[b][k] = Row(b, k)
  BY <1>1, ScheduledRow
<1>3. meeting' = [meeting EXCEPT ![b][k] = r]
      /\ (IF FirstTime(b, k) THEN heard' = [heard EXCEPT ![b][k] = Append(heard[b][k], t)]
          ELSE heard' = heard)
  BY <1>2 DEF Reschedule, Tell, KeepHeard
<1>4. OnlyHeard(b, k)
  BY <1>3 DEF OnlyHeard
<1>5. Told(b, k) \subseteq Told(b, k)' /\ (FirstTime(b, k) => t \in Told(b, k)')
  <2>1. FirstTime(b, k) => heard'[b][k] = Append(heard[b][k], t)
    BY <1>3 DEF BookInv, BookShape
  <2>2. ~FirstTime(b, k) => heard'[b][k] = heard[b][k]
    BY <1>3
  <2> QED BY <2>1, <2>2, Spoken
<1>6. IsRow(r) /\ Agrees(r, Told(b, k)') /\ Row(b, k).version < r.version
  BY <1>1, <1>2, <1>5, RescheduledRow DEF FirstTime
<1> HIDE DEF r
<1>7. Row(b, k).version \in Nat /\ r.version \in Nat
  BY <1>2, <1>6 DEF IsRow
<1>8. (\A c \in Booking, j \in Kind : RowTrue(c, j)' /\ GoesOn(c, j)) /\ BookShape'
  <2>1. OnlyRow(b, k, r) /\ process' = process /\ visit' = visit
    BY <1>1, <1>3, RowSet
  <2>2. Row(b, k).version <= r.version /\ r.version # Row(b, k).version
    BY <1>6, <1>7
  <2> QED BY <1>4, <1>6, <2>1, <2>2, RowChanged
<1> QED BY <1>1, <1>8, BookGoesOn

LEMMA WeekendStep ==
    ASSUME BookInv, NEW b \in Booking, NEW f \in Slot, NEW s \in Slot,
           ApplyWeekendStandard(b, f, s)
    PROVE BookInv'
<1> DEFINE at == [k \in Kind |-> IF k = "out" THEN f ELSE s]
           row(k) == Rescheduled(Row(b, k), at[k])
<1>1. UNCHANGED <<process, letter, visit>> /\ \A k \in Kind : Row(b, k) # NoMeeting
  BY OnIsThere DEF ApplyWeekendStandard
<1>2. meeting' = [meeting EXCEPT ![b] = [k \in Kind |-> Rescheduled(meeting[b][k], at[k])]]
      /\ heard' = [heard EXCEPT ![b] = [k \in Kind |->
                      IF FirstTime(b, k) THEN Append(heard[b][k], at[k]) ELSE heard[b][k]]]
  BY DEF ApplyWeekendStandard
<1>3. ASSUME NEW k \in Kind
      PROVE /\ RowTrue(b, k)' /\ GoesOn(b, k) /\ heard'[b][k] \in Seq(When)
  <2> DEFINE r == row(k)  t == at[k]
  <2>1. t \in When
    BY DEF When
  <2>2. IsRow(Row(b, k)) /\ Agrees(Row(b, k), Told(b, k)) /\ meeting[b][k] = Row(b, k)
    BY <1>1, ScheduledRow
  <2>3. meeting'[b][k] = r
        /\ heard'[b][k] = IF FirstTime(b, k) THEN Append(heard[b][k], t) ELSE heard[b][k]
    BY <1>2, <2>2 DEF BookInv, BookShape
  <2> HIDE DEF at
  <2>4. /\ Speaks(b, k) /\ heard'[b][k] \in Seq(When)
        /\ Told(b, k) \subseteq Told(b, k)' /\ (FirstTime(b, k) => t \in Told(b, k)')
    <3> HIDE DEF t
    <3>1. CASE FirstTime(b, k)
      <4>1. heard'[b][k] = Append(heard[b][k], t)
        BY <2>3, <3>1
      <4> QED BY <2>1, <4>1, SpokenOnce
    <3>2. CASE ~FirstTime(b, k)
      BY <2>3, <3>2, Spoken DEF Speaks
    <3> QED BY <3>1, <3>2
  <2>5. CASE t = Row(b, k).start
    <3>1. r = Row(b, k)
      BY <2>5 DEF Rescheduled
    <3>2. Agrees(r, Told(b, k)')
      BY <2>2, <2>4, <3>1 DEF Agrees
    <3>3. r.version \in Nat
      BY <2>2, <3>1 DEF IsRow
    <3> HIDE DEF r
    <3> QED BY <2>2, <2>3, <2>4, <3>1, <3>2, <3>3, RowGoesOn
  <2>6. CASE t # Row(b, k).start
    <3>1. IsRow(r) /\ Agrees(r, Told(b, k)') /\ Row(b, k).version < r.version
      BY <2>1, <2>2, <2>4, <2>6, RescheduledRow DEF FirstTime
    <3> HIDE DEF r
    <3>2. Row(b, k).version \in Nat /\ r.version \in Nat
      BY <2>2, <3>1 DEF IsRow
    <3> QED BY <2>3, <2>4, <3>1, <3>2, RowGoesOn
  <2> QED BY <2>4, <2>5, <2>6
<1>4. ASSUME NEW c \in Booking, c # b, NEW k \in Kind PROVE RowTrue(c, k)' /\ GoesOn(c, k)
  <2>1. Row(c, k)' = Row(c, k) /\ Told(c, k)' = Told(c, k) /\ RowTrue(c, k)
    BY <1>2, <1>4 DEF Row, Told, BookInv, BookShape
  <2> QED BY <2>1 DEF RowTrue, GoesOn, IsRow
<1>5. BookShape'
  <2>1. DOMAIN meeting' = Booking /\ \A c \in Booking : DOMAIN meeting'[c] = Kind
    BY <1>2 DEF BookInv, BookShape
  <2>2. heard'[b] \in [Kind -> Seq(When)]
    <3> DEFINE h == [k \in Kind |-> IF FirstTime(b, k) THEN Append(heard[b][k], at[k]) ELSE heard[b][k]]
    <3>1. heard'[b] = h
      BY <1>2 DEF BookInv, BookShape
    <3>2. \A k \in Kind : heard'[b][k] \in Seq(When)
      BY <1>3
    <3>3. DOMAIN h = Kind /\ h = [k \in Kind |-> h[k]]
      OBVIOUS
    <3> HIDE DEF h
    <3> QED BY <3>1, <3>2, <3>3
  <2>3. heard' \in [Booking -> [Kind -> Seq(When)]]
    <3>1. heard' = [heard EXCEPT ![b] = heard'[b]]
      BY <1>2 DEF BookInv, BookShape
    <3> QED BY <2>2, <3>1 DEF BookInv, BookShape
  <2> QED BY <1>1, <2>1, <2>3 DEF BookInv, BookShape
<1> QED BY <1>1, <1>3, <1>4, <1>5, BookGoesOn

(* What does not touch the time: the person, the acknowledgement, the end.  *)
Other(r, st, p, q, v) ==
    [status |-> st, start |-> r.start, assigned |-> p, info |-> r.info, known |-> r.known,
     version |-> v, ack |-> q]

LEMMA OtherFields ==
    ASSUME NEW r, IsRow(r), NEW st \in {"scheduled", "completed", "cancelled"}, NEW p, NEW q,
           NEW v \in Nat
    PROVE /\ IsRow(Other(r, st, p, q, v)) /\ Other(r, st, p, q, v).start = r.start
          /\ Other(r, st, p, q, v).info = r.info /\ Other(r, st, p, q, v).known = r.known
          /\ Other(r, st, p, q, v).version = v
<1> DEFINE n == Other(r, st, p, q, v)
<1>1. /\ Whole(n)
      /\ n.status = st /\ n.start = r.start /\ n.info = r.info /\ n.known = r.known
      /\ n.version = v
  BY DEF Other
<1> HIDE DEF n
<1>2. IsRow(n)
  BY <1>1 DEF IsRow
<1> QED BY <1>1, <1>2 DEF n

(* The same row however its update is written.                              *)
LEMMA OtherEnd ==
    ASSUME NEW r, IsRow(r), NEW x
    PROVE [r EXCEPT !.status = x] = Other(r, x, r.assigned, r.ack, r.version)
<1> DEFINE n == [r EXCEPT !.status = x]
<1>1. Whole(r)
  BY DEF IsRow
<1>2. /\ Whole(n)
      /\ n.status = x /\ n.start = r.start /\ n.assigned = r.assigned /\ n.info = r.info
      /\ n.known = r.known /\ n.version = r.version /\ n.ack = r.ack
  BY <1>1
<1> HIDE DEF n
<1>3. n = Other(r, x, r.assigned, r.ack, r.version)
  BY <1>2 DEF Other
<1> QED BY <1>3 DEF n

LEMMA OtherEndedBy ==
    ASSUME NEW r, IsRow(r), NEW x, NEW y
    PROVE [r EXCEPT !.status = x, !.assigned = y] = Other(r, x, y, r.ack, r.version)
<1> DEFINE m == [r EXCEPT !.status = x]
           n == [m EXCEPT !.assigned = y]
<1>1. Whole(r)
  BY DEF IsRow
<1>2. /\ Whole(m)
      /\ m.status = x /\ m.start = r.start /\ m.assigned = r.assigned /\ m.info = r.info
      /\ m.known = r.known /\ m.version = r.version /\ m.ack = r.ack
  BY <1>1
<1>3. [r EXCEPT !.status = x, !.assigned = y] = n
  OBVIOUS
<1> HIDE DEF m
<1>4. /\ Whole(n)
      /\ n.status = x /\ n.start = r.start /\ n.assigned = y /\ n.info = r.info
      /\ n.known = r.known /\ n.version = r.version /\ n.ack = r.ack
  BY <1>2
<1> HIDE DEF n
<1> QED BY <1>3, <1>4 DEF Other

LEMMA OtherPerson ==
    ASSUME NEW r, IsRow(r), NEW x, NEW y
    PROVE [r EXCEPT !.assigned = x, !.ack = y] = Other(r, r.status, x, y, r.version)
<1> DEFINE m == [r EXCEPT !.assigned = x]
           n == [m EXCEPT !.ack = y]
<1>1. Whole(r)
  BY DEF IsRow
<1>2. /\ Whole(m)
      /\ m.status = r.status /\ m.start = r.start /\ m.assigned = x /\ m.info = r.info
      /\ m.known = r.known /\ m.version = r.version /\ m.ack = r.ack
  BY <1>1
<1>3. [r EXCEPT !.assigned = x, !.ack = y] = n
  OBVIOUS
<1> HIDE DEF m
<1>4. /\ Whole(n)
      /\ n.status = r.status /\ n.start = r.start /\ n.assigned = x /\ n.info = r.info
      /\ n.known = r.known /\ n.version = r.version /\ n.ack = y
  BY <1>2
<1> HIDE DEF n
<1> QED BY <1>3, <1>4 DEF Other

LEMMA AnotherVersion ==
    ASSUME NEW r, IsRow(r), NEW x, NEW y
    PROVE [r EXCEPT !.status = x, !.version = y] = Other(r, x, r.assigned, r.ack, y)
<1> DEFINE m == [r EXCEPT !.status = x]
           n == [m EXCEPT !.version = y]
<1>1. Whole(r)
  BY DEF IsRow
<1>2. /\ Whole(m)
      /\ m.status = x /\ m.start = r.start /\ m.assigned = r.assigned /\ m.info = r.info
      /\ m.known = r.known /\ m.version = r.version /\ m.ack = r.ack
  BY <1>1
<1>3. [r EXCEPT !.status = x, !.version = y] = n
  OBVIOUS
<1> HIDE DEF m
<1>4. /\ Whole(n)
      /\ n.status = x /\ n.start = r.start /\ n.assigned = r.assigned /\ n.info = r.info
      /\ n.known = r.known /\ n.version = y /\ n.ack = r.ack
  BY <1>2
<1> HIDE DEF n
<1> QED BY <1>3, <1>4 DEF Other

LEMMA OtherAck ==
    ASSUME NEW r, IsRow(r), NEW x
    PROVE [r EXCEPT !.ack = x] = Other(r, r.status, r.assigned, x, r.version)
<1> DEFINE n == [r EXCEPT !.ack = x]
<1>1. Whole(r)
  BY DEF IsRow
<1>2. /\ Whole(n)
      /\ n.status = r.status /\ n.start = r.start /\ n.assigned = r.assigned /\ n.info = r.info
      /\ n.known = r.known /\ n.version = r.version /\ n.ack = x
  BY <1>1
<1> HIDE DEF n
<1>3. n = Other(r, r.status, r.assigned, x, r.version)
  BY <1>2 DEF Other
<1> QED BY <1>3 DEF n

LEMMA OtherChange ==
    ASSUME BookInv, NEW b \in Booking, NEW k \in Kind, Row(b, k) # NoMeeting,
           NEW st \in {"scheduled", "completed", "cancelled"}, NEW x, NEW y,
           Change(b, k, Other(Row(b, k), st, x, y, Row(b, k).version)),
           UNCHANGED <<process, letter, heard, visit>>
    PROVE BookInv'
<1> DEFINE n == Other(Row(b, k), st, x, y, Row(b, k).version)
<1>1. IsRow(Row(b, k)) /\ Row(b, k).version \in Nat
  BY ScheduledRow DEF IsRow
<1>2. /\ IsRow(n) /\ n.start = Row(b, k).start /\ n.info = Row(b, k).info
      /\ n.known = Row(b, k).known /\ n.version = Row(b, k).version
  BY <1>1, OtherFields
<1>3. Change(b, k, n)
  OBVIOUS
<1> HIDE DEF n
<1> QED BY <1>2, <1>3, ChangeTouches

LEMMA OtherStep ==
    ASSUME BookInv, NEW b \in Booking, NEW k \in Kind, NEW p,
           \/ \E today \in BOOLEAN : Assign(b, k, p, today)
           \/ k = "return" /\ Complete(b)
           \/ CompleteWithin(b, k, p)
    PROVE BookInv'
<1>1. Row(b, k) # NoMeeting /\ UNCHANGED <<process, letter, heard, visit>>
      /\ Row(b, k).status = "scheduled"
  BY OnIsThere DEF Assign, Complete, CompleteWithin, StillOn
<1>2. IsRow(Row(b, k))
  BY <1>1, ScheduledRow
<1>3. PICK row : row = Row(b, k)
  OBVIOUS
<1>4. ASSUME NEW today \in BOOLEAN, Assign(b, k, p, today) PROVE BookInv'
  <2> DEFINE q == IF today /\ row.assigned # None /\ row.start # None THEN p ELSE None
  <2>1. Change(b, k, [row EXCEPT !.assigned = p, !.ack = q])
    BY <1>3, <1>4 DEF Assign
  <2> HIDE DEF q
  <2>2. Change(b, k, Other(row, "scheduled", p, q, row.version))
    BY <1>1, <1>2, <1>3, <2>1, OtherPerson
  <2> QED BY <1>1, <1>3, <2>2, OtherChange
<1>5. ASSUME k = "return", Complete(b) PROVE BookInv'
  <2>1. Change(b, k, [row EXCEPT !.status = "completed"])
    BY <1>3, <1>5 DEF Complete
  <2>2. Change(b, k, Other(row, "completed", row.assigned, row.ack, row.version))
    BY <1>2, <1>3, <2>1, OtherEnd
  <2> QED BY <1>1, <1>3, <2>2, OtherChange
<1>6. ASSUME CompleteWithin(b, k, p) PROVE BookInv'
  <2> DEFINE x == IF row.assigned = None THEN p ELSE row.assigned
  <2>1. Change(b, k, [row EXCEPT !.status = "completed", !.assigned = x])
    BY <1>3, <1>6 DEF CompleteWithin
  <2> HIDE DEF x
  <2>2. Change(b, k, Other(row, "completed", x, row.ack, row.version))
    BY <1>2, <1>3, <2>1, OtherEndedBy
  <2> QED BY <1>1, <1>3, <2>2, OtherChange
<1> QED BY <1>4, <1>5, <1>6

LEMMA AcknowledgeStep ==
    ASSUME BookInv, NEW b \in Booking, NEW k \in Kind, Acknowledge(b, k) PROVE BookInv'
<1>1. Row(b, k) # NoMeeting /\ UNCHANGED <<process, letter, heard, visit>>
      /\ Row(b, k).status = "scheduled"
  BY OnIsThere DEF Acknowledge, StillOn
<1>2. IsRow(Row(b, k)) /\ meeting[b][k] = Row(b, k)
  BY <1>1, ScheduledRow
<1>3. PICK row : row = Row(b, k)
  OBVIOUS
<1> DEFINE n == Other(row, "scheduled", row.assigned, None, row.version)
<1>4. meeting' = [meeting EXCEPT ![b][k] = n]
  <2>1. meeting' = [meeting EXCEPT ![b][k] = [row EXCEPT !.ack = None]]
    BY <1>2, <1>3 DEF Acknowledge
  <2>2. [row EXCEPT !.ack = None] = n
    BY <1>1, <1>2, <1>3, OtherAck
  <2> QED BY <2>1, <2>2
<1>5. row.version \in Nat
  BY <1>2, <1>3 DEF IsRow
<1>6. IsRow(n) /\ n.start = row.start /\ n.info = row.info /\ n.known = row.known
      /\ row.version <= n.version
  BY <1>2, <1>3, <1>5, OtherFields
<1> HIDE DEF n
<1> QED BY <1>1, <1>3, <1>4, <1>6, RowTouched

LEMMA CancelStep ==
    ASSUME BookInv, NEW b \in Booking, CancelForProcess(b) PROVE BookInv'
<1>1. /\ meeting' = [meeting EXCEPT ![b] = [k \in Kind |->
                        IF StillOn(b, k)
                        THEN [Row(b, k) EXCEPT !.status = "cancelled", !.version = Row(b, k).version + 1]
                        ELSE Row(b, k)]]
      /\ UNCHANGED <<letter, heard, visit>>
      /\ process' = [process EXCEPT ![b].status = "cancelled"]
  BY DEF CancelForProcess
<1>2. ASSUME NEW k \in Kind PROVE RowTrue(b, k)' /\ GoesOn(b, k)
  <2>1. heard'[b][k] = heard[b][k] /\ Told(b, k)' = Told(b, k)
    BY <1>1 DEF Told
  <2>2. CASE ~StillOn(b, k)
    <3>1. Row(b, k)' = Row(b, k) /\ RowTrue(b, k)
      BY <1>1, <2>2 DEF Row, BookInv, BookShape
    <3> QED BY <2>1, <3>1 DEF RowTrue, GoesOn, IsRow
  <2>3. CASE StillOn(b, k)
    <3>1. PICK row : row = Row(b, k)
      OBVIOUS
    <3> DEFINE n == Other(row, "cancelled", row.assigned, row.ack, row.version + 1)
    <3>2. Row(b, k) # NoMeeting /\ IsRow(row) /\ Agrees(row, Told(b, k)) /\ meeting[b][k] = row
      BY <2>3, <3>1, OnIsThere, ScheduledRow
    <3>3. row.version \in Nat
      BY <3>2 DEF IsRow
    <3>4. meeting'[b][k] = [row EXCEPT !.status = "cancelled", !.version = row.version + 1]
      BY <1>1, <2>3, <3>1, <3>2 DEF BookInv, BookShape
    <3>5. meeting'[b][k] = n
      <4> DEFINE v == row.version + 1
      <4>1. meeting'[b][k] = [row EXCEPT !.status = "cancelled", !.version = v]
        BY <3>4
      <4> HIDE DEF v
      <4>2. meeting'[b][k] = Other(row, "cancelled", row.assigned, row.ack, v)
        <5>1. IsRow(row)
          BY <3>2
        <5>2. [row EXCEPT !.status = "cancelled", !.version = v]
              = Other(row, "cancelled", row.assigned, row.ack, v)
          BY <5>1, AnotherVersion
        <5> QED BY <4>1, <5>2
      <4> QED BY <4>2 DEF v
    <3>6. /\ IsRow(n) /\ n.start = row.start /\ n.info = row.info /\ n.known = row.known
          /\ n.version = row.version + 1
      BY <3>2, <3>3, OtherFields
    <3> HIDE DEF n
    <3>7. Agrees(n, Told(b, k)') /\ row.version <= n.version /\ n.version # row.version
      BY <2>1, <3>2, <3>3, <3>6 DEF Agrees
    <3>8. Speaks(b, k)
      BY <2>1 DEF Speaks
    <3> QED BY <3>1, <3>2, <3>5, <3>6, <3>7, <3>8, RowGoesOn
  <2> QED BY <2>2, <2>3
<1>3. ASSUME NEW c \in Booking, c # b, NEW k \in Kind PROVE RowTrue(c, k)' /\ GoesOn(c, k)
  <2>1. Row(c, k)' = Row(c, k) /\ Told(c, k)' = Told(c, k) /\ RowTrue(c, k)
    BY <1>1, <1>3 DEF Row, Told, BookInv, BookShape
  <2> QED BY <2>1 DEF RowTrue, GoesOn, IsRow
<1>4. BookShape'
  <2>1. DOMAIN meeting' = Booking /\ \A c \in Booking : DOMAIN meeting'[c] = Kind
    BY <1>1 DEF BookInv, BookShape
  <2> DEFINE p == process[b]
             q == [p EXCEPT !.status = "cancelled"]
  <2>2. DOMAIN process' = Booking /\ process'[b] = q
        /\ \A c \in Booking \ {b} : process'[c] = process[c]
    BY <1>1 DEF BookInv, BookShape
  <2>3. p = [status |-> p.status, owner |-> p.owner, fulfillment |-> p.fulfillment, wish |-> p.wish]
    BY DEF BookInv, BookShape
  <2>4. q = [status |-> q.status, owner |-> q.owner, fulfillment |-> q.fulfillment, wish |-> q.wish]
        /\ q.wish = process[b].wish
    <3> HIDE DEF p
    <3>1. q = [status |-> q.status, owner |-> q.owner, fulfillment |-> q.fulfillment, wish |-> q.wish]
          /\ q.wish = p.wish
      BY <2>3
    <3> QED BY <3>1 DEF p
  <2> HIDE DEF q
  <2> QED BY <1>1, <2>1, <2>2, <2>4 DEF BookInv, BookShape
<1> QED BY <1>1, <1>2, <1>3, <1>4, BookGoesOn

LEMMA InformStep ==
    ASSUME BookInv, NEW w \in Clerk, NEW b \in Booking, NEW k \in Kind, InformCustomer(w, b, k)
    PROVE BookInv'
<1>0. PICK v : v = [op |-> "inform", booking |-> b, kind |-> k, version |-> Row(b, k).version,
                    old |-> Row(b, k).known, new |-> Row(b, k).start]
  OBVIOUS
<1>1. Row(b, k) # NoMeeting /\ UNCHANGED <<process, meeting, letter, heard>>
      /\ visit' = [visit EXCEPT ![w] = v]
  BY <1>0, OnIsThere DEF InformCustomer, Begin
<1>2. IsRow(Row(b, k))
  BY <1>1, ScheduledRow
<1>3. NamesItsVersion(v)'
  BY <1>0, <1>1, <1>2 DEF IsRow, NamesItsVersion, Row
<1>4. \A u \in Clerk : visit'[u] = visit[u] \/ VisitTrue(visit[u])'
  <2>1. visit'[w] = v /\ v.op = "inform"
    BY <1>0, <1>1 DEF BookInv, BookShape
  <2>2. VisitTrue(v)'
    BY <1>3, <2>1 DEF VisitTrue
  <2>3. VisitTrue(visit[w])'
    BY <2>1, <2>2 DEF VisitTrue, NamesItsVersion
  <2> QED BY <1>1, <2>3 DEF BookInv, BookShape
<1>5. DOMAIN visit' = Clerk
  BY <1>1 DEF BookInv, BookShape
<1> QED BY <1>1, <1>4, <1>5, RowsStay, BookGoesOn

LEMMA EnqueueStep ==
    ASSUME BookInv, NEW w \in Clerk, EnqueueRetryingFailed(w) PROVE BookInv'
<1> DEFINE v == visit[w]
           m == [booking |-> v.booking, kind |-> v.kind, version |-> v.version,
                 old |-> v.old, new |-> v.new, state |-> "pending",
                 try |-> Cardinality(LettersOf(v.booking, v.kind, v.version))]
<1>1. /\ v.op = "inform" /\ letter' \subseteq letter \cup {m}
      /\ UNCHANGED <<process, meeting, heard>> /\ visit' = [visit EXCEPT ![w] = NoVisit]
  BY DEF EnqueueRetryingFailed, End
<1>2. NamesItsVersion(v)
  BY <1>1 DEF BookInv, VisitTrue
<1>3. LetterTrue(m)
  <2>1. NamesItsVersion(m)
    BY <1>2 DEF NamesItsVersion
  <2> QED BY <2>1 DEF LetterTrue
<1>4. PICK n : n = m
  OBVIOUS
<1>5. LetterTrue(n)'
  BY <1>1, <1>3, <1>4 DEF LetterTrue, NamesItsVersion, Row, Told
<1> HIDE DEF m
<1>6. \A x \in letter' : x \in letter \/ LetterTrue(x)'
  BY <1>1, <1>4, <1>5
<1>7. (\A u \in Clerk : visit'[u] = visit[u] \/ VisitTrue(visit[u])') /\ DOMAIN visit' = Clerk
  BY <1>1 DEF BookInv, BookShape, VisitTrue, NoVisit
<1> QED BY <1>1, <1>6, <1>7, RowsStay, BookGoesOn

(* The state of a mail changes; what it says does not.                      *)
LEMMA MailState ==
    ASSUME NEW m, Mailed(m), NEW st
    PROVE LET n == [m EXCEPT !.state = st] IN
          /\ Mailed(n)
          /\ n.booking = m.booking /\ n.kind = m.kind /\ n.version = m.version /\ n.new = m.new
          /\ n.state = st
  OBVIOUS

LEMMA MailMoves ==
    ASSUME BookInv, NEW m \in letter, NEW st, LetterState(m, st),
           \A b \in Booking, k \in Kind : GoesOn(b, k),
           st \in {"sent", "noted"} => m.new \in Told(m.booking, m.kind)'
    PROVE \A x \in letter' : x \in letter \/ LetterTrue(x)'
<1>1. LetterTrue(m)
  BY DEF BookInv
<1> DEFINE n == [m EXCEPT !.state = st]
<1>2. /\ Mailed(n)
      /\ n.booking = m.booking /\ n.kind = m.kind /\ n.version = m.version /\ n.new = m.new
      /\ n.state = st
  <2>1. Mailed(m)
    BY <1>1 DEF LetterTrue
  <2> QED BY <2>1
<1>3. letter' \subseteq letter \cup {n}
  BY DEF LetterState
<1> HIDE DEF n
<1>4. NamesItsVersion(m)'
  BY <1>1, VersionsGoOn DEF LetterTrue
<1>5. NamesItsVersion(n)'
  BY <1>2, <1>4 DEF NamesItsVersion
<1>6. LetterTrue(n)'
  BY <1>2, <1>5 DEF LetterTrue
<1> QED BY <1>3, <1>6

LEMMA LeaveStep ==
    ASSUME BookInv, NEW m \in letter, MailLeaves(m) PROVE BookInv'
<1>1. m.booking \in Booking /\ m.kind \in Kind /\ m.new \in When
  BY DEF BookInv, LetterTrue, NamesItsVersion
<1>2. UNCHANGED <<process, meeting, visit>>
  BY DEF MailLeaves
<1>3. ASSUME NEW st \in {"failed", "blocked"}, LetterState(m, st), heard' = heard PROVE BookInv'
  <2>1. (\A b \in Booking, k \in Kind : RowTrue(b, k)' /\ GoesOn(b, k)) /\ BookShape'
    BY <1>2, <1>3, RowsStay DEF BookInv, BookShape
  <2>2. \A x \in letter' : x \in letter \/ LetterTrue(x)'
    BY <1>3, <2>1, MailMoves
  <2> QED BY <1>2, <2>1, <2>2, BookGoesOn
<1>4. ASSUME PreSendGuard(m), LetterState(m, "sent"), Tell(m.booking, m.kind, m.new) PROVE BookInv'
  <2> DEFINE b == m.booking  k == m.kind  r == Row(b, k)
  <2>1. r # NoMeeting /\ heard' = [heard EXCEPT ![b][k] = Append(heard[b][k], m.new)]
    BY <1>4, OnIsThere DEF PreSendGuard, Tell
  <2>2. IsRow(r) /\ Agrees(r, Told(b, k)) /\ meeting[b][k] = r
    BY <1>1, <2>1, ScheduledRow
  <2>3. heard'[b][k] = Append(heard[b][k], m.new)
    BY <1>1, <2>1 DEF BookInv, BookShape
  <2>4. m.new \in Told(b, k)' /\ Told(b, k) \subseteq Told(b, k)'
    BY <1>1, <2>3, SpokenOnce
  <2>5. Agrees(r, Told(b, k)')
    BY <2>2, <2>4 DEF Agrees
  <2>6. OnlyRow(b, k, r) /\ OnlyHeard(b, k)
    BY <1>1, <1>2, <2>1, <2>2 DEF OnlyRow, OnlyHeard, BookInv, BookShape
  <2>7. r.version <= r.version
    BY <2>2 DEF IsRow
  <2>8. (\A c \in Booking, j \in Kind : RowTrue(c, j)' /\ GoesOn(c, j)) /\ BookShape'
    <3>1. PICK x : x = r
      OBVIOUS
    <3> QED BY <1>1, <1>2, <2>2, <2>5, <2>6, <2>7, <3>1, RowChanged
  <2>9. \A x \in letter' : x \in letter \/ LetterTrue(x)'
    BY <1>4, <2>4, <2>8, MailMoves
  <2> QED BY <1>2, <2>8, <2>9, BookGoesOn
<1> QED BY <1>3, <1>4 DEF MailLeaves, KeepHeard

LEMMA SentStep ==
    ASSUME BookInv, NEW m \in letter, MailSent(m) PROVE BookInv'
<1>0. PICK b \in Booking, k \in Kind : b = m.booking /\ k = m.kind
  BY DEF BookInv, LetterTrue, NamesItsVersion
<1>1. PICK r : r = Row(b, k)
  OBVIOUS
<1>2. /\ r # NoMeeting /\ m.version \in Nat /\ (m.version = r.version => m.new = r.start)
      /\ m.new \in Told(b, k) /\ m.state = "sent"
  BY <1>0, <1>1 DEF BookInv, LetterTrue, NamesItsVersion, MailSent
<1>3. IsRow(r) /\ Agrees(r, Told(b, k)) /\ meeting[b][k] = r
  BY <1>1, <1>2, ScheduledRow
<1> DEFINE known == IF r.version = m.version THEN None ELSE m.new
           info == r.info /\ r.version # m.version
           n == [r EXCEPT !.known = known, !.info = info]
<1>4. /\ meeting' = [meeting EXCEPT ![b][k] = n] /\ LetterState(m, "noted")
      /\ UNCHANGED <<process, heard, visit>>
  BY <1>0, <1>1, <1>3 DEF MailSent, InfoAfter
<1>5. Told(b, k)' = Told(b, k)
  BY <1>4 DEF Told
<1>6. /\ n.known = known /\ n.info = info /\ n.start = r.start /\ n.version = r.version
      /\ n.status = r.status
      /\ Whole(n)
  <2> DEFINE l == [r EXCEPT !.known = known]
             e == [l EXCEPT !.info = info]
  <2>1. Whole(r)
    BY <1>3 DEF IsRow
  <2>2. n = e
    OBVIOUS
  <2> HIDE DEF known, info
  <2>3. /\ l.known = known /\ l.info = r.info /\ l.start = r.start /\ l.version = r.version
        /\ l.status = r.status
        /\ Whole(l)
    BY <2>1
  <2> HIDE DEF l
  <2>4. /\ e.known = known /\ e.info = info /\ e.start = r.start /\ e.version = r.version
        /\ e.status = r.status
        /\ Whole(e)
    BY <2>3
  <2> HIDE DEF e, n
  <2> QED BY <2>2, <2>4
<1> HIDE DEF n
<1>7. IsRow(n) /\ r.version <= n.version /\ info \in BOOLEAN
  BY <1>3, <1>6 DEF IsRow
<1>8. Agrees(n, Told(b, k)')
  <2>1. n.start # None /\ ~n.info => n.start \in Told(b, k)
    BY <1>2, <1>3, <1>6 DEF Agrees
  <2>2. n.known # None => n.known \in Told(b, k) \/ None \in Told(b, k)
    BY <1>2, <1>6
  <2>3. n.info /\ n.known = None => None \in Told(b, k)
    BY <1>2, <1>6
  <2> QED BY <1>5, <2>1, <2>2, <2>3 DEF Agrees
<1> HIDE DEF known, info
<1>9. OnlyRow(b, k, n) /\ OnlyHeard(b, k) /\ process' = process /\ visit' = visit
  BY <1>4, RowSet DEF OnlyHeard
<1>10. (\A c \in Booking, j \in Kind : RowTrue(c, j)' /\ GoesOn(c, j)) /\ BookShape'
  BY <1>1, <1>6, <1>7, <1>8, <1>9, RowChanged
<1>11. \A x \in letter' : x \in letter \/ LetterTrue(x)'
  BY <1>0, <1>2, <1>4, <1>5, <1>10, MailMoves
<1> QED BY <1>9, <1>10, <1>11, BookGoesOn

LEMMA BookStep == ASSUME BookInv, BookNext PROVE BookInv'
<1>1. ASSUME NEW b \in Booking, Complete(b) PROVE BookInv'
  BY <1>1, OtherStep DEF Kind
<1>2. ASSUME NEW b \in Booking, CancelForProcess(b) PROVE BookInv'
  BY <1>2, CancelStep
<1>3. ASSUME NEW b \in Booking, NEW f \in Slot, NEW s \in Slot, ApplyWeekendStandard(b, f, s)
      PROVE BookInv'
  BY <1>3, WeekendStep
<1>4. ASSUME NEW b \in Booking, NEW w \in Clerk, EnsureAppointments(w, b) PROVE BookInv'
  BY <1>4, EnsureStep
<1>5. ASSUME NEW b \in Booking, NEW k \in Kind, NEW t \in Slot \cup {None}, Reschedule(b, k, t)
      PROVE BookInv'
  BY <1>5, RescheduleStep DEF When
<1>6. ASSUME NEW b \in Booking, NEW k \in Kind, NEW p \in Person,
             CompleteWithin(b, k, p) \/ \E today \in BOOLEAN : Assign(b, k, p, today)
      PROVE BookInv'
  BY <1>6, OtherStep
<1>7. ASSUME NEW b \in Booking, NEW k \in Kind, Acknowledge(b, k) PROVE BookInv'
  BY <1>7, AcknowledgeStep
<1>8. ASSUME NEW b \in Booking, NEW k \in Kind, NEW w \in Clerk, InformCustomer(w, b, k) PROVE BookInv'
  BY <1>8, InformStep
<1>9. ASSUME NEW w \in Clerk, EnsureEnds(w) PROVE BookInv'
  <2>1. visit[w].booking \in Booking
    BY <1>9 DEF EnsureEnds, BookInv, VisitTrue
  <2> QED BY <1>9, <2>1, EnsureStep
<1>10. ASSUME NEW w \in Clerk, EnqueueRetryingFailed(w) PROVE BookInv'
  BY <1>10, EnqueueStep
<1>11. ASSUME NEW w \in Clerk, NEW k \in Kind, InsertAppointment(w, k) PROVE BookInv'
  BY <1>11, InsertStep
<1>12. ASSUME NEW m \in letter, MailLeaves(m) \/ MailSent(m) PROVE BookInv'
  BY <1>12, LeaveStep, SentStep
<1> QED BY <1>1, <1>2, <1>3, <1>4, <1>5, <1>6, <1>7, <1>8, <1>9, <1>10, <1>11, <1>12 DEF BookNext

(* Whatever mails are under way and in which order they are reported: an    *)
(* appointment whose time nobody told keeps its mark, and the old time a    *)
(* mail names is one the customer had been told (AppointmentBook, any       *)
(* bookings, times and requests).                                           *)
THEOREM BookIsSafe == BookSpec => []BookSafety
<1>1. BookInv /\ [BookNext]_bookVars => BookInv'
  <2> SUFFICES ASSUME BookInv, [BookNext]_bookVars PROVE BookInv'
    OBVIOUS
  <2>1. CASE BookNext
    BY <2>1, BookStep
  <2>2. CASE UNCHANGED bookVars
    <3>1. UNCHANGED <<process, meeting, heard, letter, visit>>
      BY <2>2 DEF bookVars
    <3> QED BY <3>1, RowsStay, BookGoesOn DEF BookInv, BookShape
  <2> QED BY <2>1, <2>2
<1>2. BookInv => BookSafety
  <2> SUFFICES ASSUME BookInv, NEW b \in Booking, NEW k \in Kind, Row(b, k) # NoMeeting
               PROVE Agrees(Row(b, k), Told(b, k))
    BY OnIsThere DEF BookSafety, DueUntilTold, OldTimeWasTold, Agrees
  <2> QED BY ScheduledRow
<1> QED BY BookStart, <1>1, <1>2, PTL DEF BookSpec

-----------------------------------------------------------------------------
(* The tours of a day.  A route that was calculated fits the stops still to  *)
(* be driven (Fits) as far as nothing is known to have changed: who plans    *)
(* carries the version of the tour it has read, every change of the stops    *)
(* raises the version, and a change of a time is news until the tour has     *)
(* heard of it.                                                              *)
Leg == [appt : Appointment, place : Int, when : Int]
TourRow == [status : {"absent", "draft", "ready", "active", "completed", "cancelled"}, version : Int,
            driver : Driver, plan : {"none", "planned", "infeasible", "stale"}, route : SUBSET Leg,
            base : Int, calculated : Int]
Stop == [appt : Appointment, arrived : BOOLEAN, skipped : BOOLEAN]
Incidents == [Appointment -> {"none", "open", "told"}]
HeldVisit == [op : {"start", "takeover"}, tour : Tour, lock : Driver,
              healed : [row : TourRow, stops : Seq(Stop), incident : Incidents]]
PlanVisit == [op : {"load"}, tour : Tour, version : Int, route : SUBSET Leg, now : Int]
             \cup [op : {"plan"}, tour : Tour, version : Int, route : SUBSET Leg, now : Int, base : Int]
DriveVisit == [op : {"place"}, tour : Tour, user : Driver \cup {None}]
              \cup [op : {"resolve", "apply", "notify"}, tour : Tour, version : Int, late : SUBSET Appointment]
TourVisit == HeldVisit \cup PlanVisit \cup DriveVisit \cup {NoVisit}

Distinct(seq) == \A i, j \in DOMAIN seq : seq[i].appt = seq[j].appt => i = j
ApptRows == [Appointment -> [status : {"scheduled", "completed", "cancelled"}, when : Int,
                             assigned : Driver \cup {None}]]

TourTyped ==
    /\ tour \in [Tour -> TourRow]
    /\ stops \in [Tour -> Seq(Stop)]
    /\ \A t \in Tour : Distinct(stops[t])
    /\ appt \in ApptRows
    /\ news \in [Appointment -> {"none", "times", "cancelled", "lost"}]
    /\ \A a \in Appointment : news[a] = "cancelled" => appt[a].status = "cancelled"
    /\ depot \in Int
    /\ place \in [Tour -> Driver \cup {None}]
    /\ incident \in [Tour -> Incidents]
    /\ deputy \in [Driver -> Driver \cup {None}]
    /\ visit \in [Clerk -> TourVisit]

(* What the holder of a tour and of a driver may rely on until it commits.   *)
HealedFrom(seq, t) ==
    /\ DOMAIN seq = DOMAIN stops[t]
    /\ \A i \in DOMAIN seq :
          /\ seq[i].appt = stops[t][i].appt /\ seq[i].arrived = stops[t][i].arrived
          /\ seq[i].skipped = stops[t][i].skipped \/ appt[seq[i].appt].status = "cancelled"

HolderKnows(w) ==
    LET t == visit[w].tour  row == visit[w].healed.row
    IN /\ tour[t].status \in IF visit[w].op = "start" THEN {"draft", "ready"} ELSE {"active"}
       /\ row.status = tour[t].status /\ row.driver = tour[t].driver
       /\ row = tour[t] \/ (row.version = tour[t].version + 1 /\ ~InPlan(row))
       /\ HealedFrom(visit[w].healed.stops, t)
       /\ visit[w].lock = IF visit[w].op = "start" THEN Effective(t) ELSE visit[w].lock
       /\ \A o \in ActiveTours \ ({t} \cup away) : Effective(o) # visit[w].lock

HoldersApart ==
    \A v, w \in Clerk : Holding(v) /\ Holding(w) /\ v # w =>
        visit[v].tour # visit[w].tour /\ visit[v].lock # visit[w].lock

(* The legs of a route fit the stops still to be driven, except for times    *)
(* that are news.                                                            *)
Fits(t, legs) ==
    /\ Due(t) \subseteq {r.appt : r \in legs}
    /\ \A i, j \in Remaining(t), r, q \in legs :
          r.appt = stops[t][i].appt /\ q.appt = stops[t][j].appt => (i < j <=> r.place < q.place)
    /\ \A r \in legs : r.appt \in Due(t) /\ news[r.appt] = "none" => r.when = appt[r.appt].when

PlanFits(t) ==
    /\ tour[t].status = "absent" => ~InPlan(tour[t])
    /\ InPlan(tour[t]) /\ Editable(t) =>
          /\ Fits(t, tour[t].route)
          /\ tour[t].calculated <= tour[t].base /\ tour[t].base <= depot

PlannerKnows(w) ==
    LET t == visit[w].tour
    IN /\ visit[w].version <= tour[t].version
       /\ visit[w].version = tour[t].version => Editable(t) /\ Fits(t, visit[w].route)
       /\ visit[w].now <= depot
       /\ visit[w].op = "plan" => visit[w].now <= visit[w].base /\ visit[w].base <= depot

TourInv ==
    /\ TourTyped
    /\ EndedTourIsQuiet /\ OneActiveTourPerDriver /\ HoldersApart
    /\ \A w \in Clerk : Holding(w) => HolderKnows(w)
    /\ \A t \in Tour : PlanFits(t)
    /\ \A w \in Clerk : visit[w].op \in {"load", "plan"} => PlannerKnows(w)

(* What a change of a row leaves of it.                                      *)
LEMMA RowChanges ==
    ASSUME NEW row \in TourRow
    PROVE  /\ Bumped(row) \in TourRow /\ Bumped(row).version = row.version + 1
           /\ Bumped(row) = [status |-> row.status, version |-> row.version + 1, driver |-> row.driver,
                  plan |-> row.plan, route |-> row.route, base |-> row.base, calculated |-> row.calculated]
           /\ OtherVersion(row) \in TourRow /\ ~InPlan(OtherVersion(row))
           /\ OtherVersion(row) = [status |-> row.status, version |-> row.version, driver |-> row.driver,
                  plan |-> OtherVersion(row).plan, route |-> row.route, base |-> row.base,
                  calculated |-> row.calculated]
<1>1. Bumped(row) = [status |-> row.status, version |-> row.version + 1, driver |-> row.driver,
                  plan |-> row.plan, route |-> row.route, base |-> row.base, calculated |-> row.calculated]
  BY DEF TourRow, Bumped
<1>2. Bumped(row) \in TourRow
  BY <1>1 DEF TourRow
<1>3. OtherVersion(row) \in TourRow /\ ~InPlan(OtherVersion(row))
  BY DEF OtherVersion, InPlan, TourRow
<1>4. OtherVersion(row) = [status |-> row.status, version |-> row.version, driver |-> row.driver,
                  plan |-> OtherVersion(row).plan, route |-> row.route, base |-> row.base,
                  calculated |-> row.calculated]
  BY DEF OtherVersion, InPlan, TourRow
<1> QED BY <1>1, <1>2, <1>3, <1>4

(* What a change of a stop leaves of it.                                     *)
LEMMA StopChanges ==
    ASSUME NEW s \in Stop, NEW x \in BOOLEAN
    PROVE  /\ [s EXCEPT !.skipped = x] \in Stop /\ [s EXCEPT !.skipped = x].appt = s.appt
           /\ [s EXCEPT !.skipped = x].arrived = s.arrived /\ [s EXCEPT !.skipped = x].skipped = x
           /\ x = s.skipped => [s EXCEPT !.skipped = x] = s
           /\ [s EXCEPT !.arrived = x] \in Stop /\ [s EXCEPT !.arrived = x].appt = s.appt
           /\ [s EXCEPT !.arrived = x].skipped = s.skipped
  BY DEF Stop

(* Healing keeps the row and the stops, or raises the version and drops the  *)
(* plan.                                                                     *)
LEMMA Healing ==
    ASSUME TourTyped, NEW t \in Tour
    PROVE  /\ HealedRow(t) \in TourRow
           /\ HealedRow(t).status = tour[t].status /\ HealedRow(t).driver = tour[t].driver
           /\ \/ HealedRow(t) = tour[t] /\ HealedStops(t) = stops[t]
              \/ HealedRow(t).version = tour[t].version + 1 /\ ~InPlan(HealedRow(t))
           /\ HealedStops(t) \in Seq(Stop) /\ HealedFrom(HealedStops(t), t)
           /\ HealedIncidents(t) \in Incidents
           /\ incident[t] = Quiet => HealedIncidents(t) = Quiet
<1>t. tour[t] \in TourRow /\ stops[t] \in Seq(Stop) /\ incident[t] \in Incidents
  BY DEF TourTyped
<1> DEFINE other == OtherVersion(tour[t])
<1>o. other \in TourRow /\ ~InPlan(other) /\ other.status = tour[t].status /\ other.driver = tour[t].driver
      /\ other.version = tour[t].version
  BY <1>t, RowChanges DEF TourRow
<1>b. /\ Bumped(other) \in TourRow /\ ~InPlan(Bumped(other)) /\ Bumped(other).status = tour[t].status
      /\ Bumped(other).driver = tour[t].driver /\ Bumped(other).version = tour[t].version + 1
  <2> HIDE DEF other
  <2>1. /\ Bumped(other) \in TourRow
        /\ Bumped(other) = [status |-> other.status, version |-> other.version + 1, driver |-> other.driver,
                  plan |-> other.plan, route |-> other.route, base |-> other.base,
                  calculated |-> other.calculated]
    BY <1>o, RowChanges
  <2> QED BY <1>o, <2>1 DEF InPlan
<1>r. HealedRow(t) = IF ToSkip(t) # {} \/ DepotMoved(t) THEN Bumped(other) ELSE tour[t]
  BY DEF HealedRow
<1> HIDE DEF other
<1>1. HealedRow(t) \in TourRow /\ HealedRow(t).status = tour[t].status /\ HealedRow(t).driver = tour[t].driver
  BY <1>t, <1>r, <1>b
<1>s. DOMAIN HealedStops(t) = DOMAIN stops[t] /\ Len(stops[t]) \in Nat /\ DOMAIN stops[t] = 1..Len(stops[t])
  BY <1>t, LenProperties DEF HealedStops
<1>2. ASSUME NEW i \in DOMAIN stops[t] PROVE
        /\ HealedStops(t)[i] \in Stop
        /\ HealedStops(t)[i].appt = stops[t][i].appt /\ HealedStops(t)[i].arrived = stops[t][i].arrived
        /\ HealedStops(t)[i].skipped = stops[t][i].skipped \/ stops[t][i] \in ToSkip(t)
        /\ stops[t][i] \notin ToSkip(t) => HealedStops(t)[i] = stops[t][i]
  <2>1. stops[t][i] \in Stop
    BY <1>t, <1>s, ElementOfSeq
  <2> DEFINE x == stops[t][i].skipped \/ stops[t][i] \in ToSkip(t)
  <2>2. x \in BOOLEAN /\ stops[t][i].skipped \in BOOLEAN
    BY <2>1 DEF Stop
  <2>3. HealedStops(t)[i] = [stops[t][i] EXCEPT !.skipped = x]
    BY DEF HealedStops
  <2>4. stops[t][i] \notin ToSkip(t) => x = stops[t][i].skipped
    BY <2>2
  <2>5. x => stops[t][i].skipped \/ stops[t][i] \in ToSkip(t)
    OBVIOUS
  <2> HIDE DEF x
  <2> DEFINE s == stops[t][i]
             new == [s EXCEPT !.skipped = x]
  <2>s. s \in Stop
    BY <2>1
  <2>n. HealedStops(t)[i] = new
    BY <2>3
  <2> HIDE DEF s
  <2>a. /\ new \in Stop /\ new.appt = s.appt /\ new.arrived = s.arrived /\ new.skipped = x
        /\ (x = s.skipped => new = s)
    <3>x. x \in BOOLEAN
      BY <2>2
    <3>1. new = [appt |-> s.appt, arrived |-> s.arrived, skipped |-> x]
      BY ONLY <2>s DEF Stop
    <3>2. s.appt \in Appointment /\ s.arrived \in BOOLEAN
          /\ s = [appt |-> s.appt, arrived |-> s.arrived, skipped |-> s.skipped]
      BY ONLY <2>s DEF Stop
    <3> HIDE DEF new
    <3>3. new \in Stop
      BY ONLY <3>1, <3>2, <3>x, Zenon DEF Stop
    <3>4. new.appt = s.appt /\ new.arrived = s.arrived
      BY ONLY <3>1
    <3>5. new.skipped = x
      BY ONLY <3>1, Zenon
    <3>6. x = s.skipped => new = s
      BY ONLY <3>1, <3>2, Zenon
    <3> QED BY ONLY <3>3, <3>4, <3>5, <3>6, Zenon
  <2> HIDE DEF new
  <2>6. /\ HealedStops(t)[i] \in Stop
        /\ HealedStops(t)[i].appt = stops[t][i].appt /\ HealedStops(t)[i].arrived = stops[t][i].arrived
        /\ HealedStops(t)[i].skipped = x /\ (x = stops[t][i].skipped => HealedStops(t)[i] = stops[t][i])
    BY ONLY <2>a, <2>n, Zenon DEF s
  <2>7. HealedStops(t)[i].skipped = stops[t][i].skipped \/ stops[t][i] \in ToSkip(t)
    BY ONLY <2>2, <2>4, <2>6, Zenon
  <2> QED BY <2>4, <2>6, <2>7
<1>3. HealedStops(t) \in Seq(Stop)
  <2>1. HealedStops(t) \in [1..Len(stops[t]) -> Stop]
    BY <1>2, <1>s DEF HealedStops
  <2> QED BY <2>1, <1>s
<1>4. HealedFrom(HealedStops(t), t)
  <2>1. \A i \in DOMAIN stops[t] : stops[t][i] \in ToSkip(t) => appt[stops[t][i].appt].status = "cancelled"
    BY DEF ToSkip
  <2> QED BY <2>1, <1>2, <1>s DEF HealedFrom
<1>5. ASSUME ToSkip(t) = {} PROVE HealedStops(t) = stops[t]
  BY <1>5, <1>2, <1>3, <1>s, <1>t, SeqEqual
<1>6. HealedIncidents(t) \in Incidents /\ (incident[t] = Quiet => HealedIncidents(t) = Quiet)
  BY <1>t DEF HealedIncidents, Incidents, Quiet
<1> QED BY <1>1, <1>r, <1>b, <1>3, <1>4, <1>5, <1>6

(* Rows, drivers and locks.  ToursAreKept: what a step that neither starts a     *)
(* tour nor hands it over leaves of them.                                    *)
ToursAreKept ==
    /\ deputy' = deputy /\ away' = away
    /\ \A a \in Appointment : appt[a].status = "cancelled" => appt'[a].status = "cancelled"
    /\ \A t \in Tour : tour'[t].status = "active" =>
          tour[t].status = "active" /\ tour'[t].driver = tour[t].driver
    /\ \A w \in Clerk : Holding(w) =>
          tour'[visit[w].tour] = tour[visit[w].tour] /\ stops'[visit[w].tour] = stops[visit[w].tour]
HoldersStay == \A w \in Clerk : Holding(w)' => visit'[w] = visit[w]

OnlyHolders ==
    OneActiveTourPerDriver /\ HoldersApart /\ \A w \in Clerk : Holding(w) => HolderKnows(w)

LEMMA HeldTyped ==
    ASSUME TourTyped, NEW w \in Clerk, Holding(w)
    PROVE  /\ visit[w] \in HeldVisit /\ visit[w].tour \in Tour /\ visit[w].lock \in Driver
           /\ visit[w].healed.row \in TourRow /\ visit[w].healed.stops \in Seq(Stop)
           /\ visit[w].healed.incident \in Incidents
<1>1. visit[w] \in TourVisit /\ visit[w].op \in {"start", "takeover"}
  BY DEF TourTyped, Holding
<1>2. visit[w] \notin PlanVisit
  BY <1>1 DEF PlanVisit
<1>3. visit[w] \notin DriveVisit
  BY <1>1 DEF DriveVisit
<1>4. visit[w] # NoVisit
  BY <1>1 DEF NoVisit
<1>5. visit[w] \in HeldVisit
  BY <1>1, <1>2, <1>3, <1>4 DEF TourVisit
<1> QED BY <1>5 DEF HeldVisit

LEMMA HolderStill ==
    ASSUME TourTyped, NEW w \in Clerk, Holding(w), HolderKnows(w), visit'[w] = visit[w], deputy' = deputy,
           \A a \in Appointment : appt[a].status = "cancelled" => appt'[a].status = "cancelled",
           tour'[visit[w].tour] = tour[visit[w].tour], stops'[visit[w].tour] = stops[visit[w].tour],
           \A o \in Tour \ ({visit[w].tour} \cup away') : tour'[o].status = "active" => Effective(o)' # visit[w].lock
    PROVE  HolderKnows(w)'
<1> DEFINE t == visit[w].tour
<1>h. visit[w] \in HeldVisit /\ t \in Tour /\ visit[w].lock \in Driver
  BY HeldTyped
<1>1. tour'[t] = tour[t] /\ stops'[t] = stops[t] /\ deputy' = deputy
  OBVIOUS
<1>2. HealedFrom(visit[w].healed.stops, t)'
  <2> DEFINE seq == visit[w].healed.stops
  <2>1. HealedFrom(seq, t) /\ seq \in Seq(Stop)
    BY <1>h DEF HolderKnows, HeldVisit
  <2> HIDE DEF seq
  <2>d. DOMAIN seq = 1..Len(seq) /\ Len(seq) \in Nat
    BY <2>1, LenProperties
  <2>2. ASSUME NEW i \in DOMAIN seq PROVE seq[i].appt \in Appointment
    <3>1. seq[i] \in Stop
      BY <2>1, <2>d, ElementOfSeq
    <3> QED BY <3>1 DEF Stop
  <2>3. \A a \in Appointment : appt[a].status = "cancelled" => appt'[a].status = "cancelled"
    OBVIOUS
  <2>4. stops'[t] = stops[t]
    BY <1>1
  <2> HIDE DEF t
  <2>5. DOMAIN seq = DOMAIN stops'[t]
    BY <2>1, <2>4 DEF HealedFrom
  <2>6. ASSUME NEW i \in DOMAIN seq
        PROVE  /\ seq[i].appt = stops'[t][i].appt /\ seq[i].arrived = stops'[t][i].arrived
               /\ seq[i].skipped = stops'[t][i].skipped \/ appt'[seq[i].appt].status = "cancelled"
    BY <2>1, <2>2, <2>3, <2>4, Zenon DEF HealedFrom
  <2> QED BY <2>5, <2>6, Zenon DEF HealedFrom, seq, t
<1>3. \A o \in ActiveTours' \ ({t} \cup away') : Effective(o)' # visit[w].lock
  BY DEF ActiveTours
<1>4. Effective(t)' = Effective(t)
  BY <1>1 DEF Effective
<1> QED BY <1>1, <1>2, <1>3, <1>4 DEF HolderKnows, InPlan

LEMMA HolderStillKnows ==
    ASSUME TourTyped, ToursAreKept, NEW w \in Clerk, Holding(w), HolderKnows(w), visit'[w] = visit[w]
    PROVE  HolderKnows(w)'
<1>1. /\ tour'[visit[w].tour] = tour[visit[w].tour] /\ stops'[visit[w].tour] = stops[visit[w].tour]
      /\ deputy' = deputy
      /\ \A a \in Appointment : appt[a].status = "cancelled" => appt'[a].status = "cancelled"
  BY DEF ToursAreKept
<1>2. ASSUME NEW o \in Tour \ ({visit[w].tour} \cup away'), tour'[o].status = "active"
      PROVE  Effective(o)' # visit[w].lock
  <2>1. o \in ActiveTours \ ({visit[w].tour} \cup away) /\ Effective(o)' = Effective(o)
    BY <1>2 DEF ToursAreKept, ActiveTours, Effective
  <2> QED BY <2>1 DEF HolderKnows
<1> QED BY <1>1, <1>2, HolderStill

LEMMA LocksStay ==
    ASSUME TourTyped, OnlyHolders, ToursAreKept, HoldersStay PROVE OnlyHolders'
<1>1. OneActiveTourPerDriver'
  <2>1. away' = away /\ \A t \in ActiveTours' : t \in ActiveTours /\ Effective(t)' = Effective(t)
    BY DEF ToursAreKept, ActiveTours, Effective
  <2> QED BY <2>1 DEF OnlyHolders, OneActiveTourPerDriver
<1>2. HoldersApart'
  BY DEF OnlyHolders, HoldersStay, HoldersApart, Holding
<1>3. ASSUME NEW w \in Clerk, Holding(w)' PROVE HolderKnows(w)'
  <2>1. Holding(w) /\ visit'[w] = visit[w]
    BY <1>3 DEF HoldersStay, Holding
  <2> QED BY <2>1, HolderStillKnows DEF OnlyHolders
<1> QED BY <1>1, <1>2, <1>3 DEF OnlyHolders

(* Plans.  TourGoesOn: what a step leaves of a tour and of what is known of   *)
(* its stops; a row that keeps its version or its plan keeps all of it.      *)
StillFits(t) ==
    /\ Remaining(t)' \subseteq Remaining(t)
    /\ \A i \in Remaining(t)' : stops'[t][i].appt = stops[t][i].appt
    /\ \A a \in Due(t)' : news'[a] = "none" => news[a] = "none" /\ appt'[a].when = appt[a].when
TourGoesOn(t) ==
    /\ tour[t].version <= tour'[t].version
    /\ tour'[t].status = "absent" => tour[t].status = "absent" /\ tour'[t].plan = tour[t].plan
    /\ tour'[t].version = tour[t].version /\ tour[t].status \in OpenStatus => tour'[t].status \in OpenStatus
    /\ tour'[t].status \in OpenStatus /\ (tour'[t].version = tour[t].version \/ InPlan(tour'[t])) =>
          /\ tour[t].status \in OpenStatus \/ tour[t].status = "absent"
          /\ tour'[t].plan = tour[t].plan /\ tour'[t].route = tour[t].route
          /\ tour'[t].base = tour[t].base /\ tour'[t].calculated = tour[t].calculated
          /\ StillFits(t)
PlansGoOn == depot <= depot' /\ \A t \in Tour : TourGoesOn(t)

LEMMA FitsStays ==
    ASSUME NEW t \in Tour, NEW legs, Fits(t, legs), StillFits(t) PROVE Fits(t, legs)'
<1>1. Due(t)' \subseteq Due(t)
  BY DEF StillFits, Due
<1>2. Due(t)' \subseteq {r.appt : r \in legs}
  BY <1>1 DEF Fits
<1>3. ASSUME NEW i \in Remaining(t)', NEW j \in Remaining(t)', NEW r \in legs, NEW q \in legs,
             r.appt = stops'[t][i].appt, q.appt = stops'[t][j].appt
      PROVE  i < j <=> r.place < q.place
  BY <1>3 DEF Fits, StillFits
<1>4. ASSUME NEW r \in legs, r.appt \in Due(t)', news'[r.appt] = "none" PROVE r.when = appt'[r.appt].when
  BY <1>1, <1>4 DEF Fits, StillFits
<1> QED BY <1>2, <1>3, <1>4 DEF Fits

LEMMA PlanStays ==
    ASSUME TourTyped, TourTyped', depot <= depot', NEW t \in Tour, TourGoesOn(t), PlanFits(t) PROVE PlanFits(t)'
<1>g. TourGoesOn(t) /\ depot \in Int /\ depot' \in Int /\ depot <= depot'
  BY DEF TourTyped
<1>1. tour'[t].status = "absent" => ~InPlan(tour'[t])
  BY <1>g DEF TourGoesOn, PlanFits, InPlan
<1>2. ASSUME InPlan(tour'[t]), tour'[t].status \in OpenStatus
      PROVE  /\ Fits(t, tour[t].route)'
             /\ tour'[t].calculated <= tour'[t].base /\ tour'[t].base <= depot'
  <2>1. /\ tour[t].status \in OpenStatus \/ tour[t].status = "absent"
        /\ tour'[t].plan = tour[t].plan /\ tour'[t].route = tour[t].route
        /\ tour'[t].base = tour[t].base /\ tour'[t].calculated = tour[t].calculated
        /\ StillFits(t)
    BY <1>g, <1>2 DEF TourGoesOn
  <2>2. InPlan(tour[t])
    BY <1>2, <2>1 DEF InPlan
  <2>3. Fits(t, tour[t].route) /\ tour[t].calculated <= tour[t].base /\ tour[t].base <= depot
    BY <2>1, <2>2 DEF PlanFits, Editable
  <2>4. tour[t].base \in Int
    BY DEF TourTyped, TourRow
  <2>5. PICK legs : legs = tour[t].route
    OBVIOUS
  <2>6. Fits(t, legs)'
    BY <2>1, <2>3, <2>5, FitsStays
  <2>7. tour'[t].route = legs
    BY <2>1, <2>5
  <2>8. Fits(t, tour[t].route)'
    BY <2>6, <2>7
  <2> QED BY <2>1, <2>3, <2>4, <2>8, <1>g
<1> QED BY <1>1, <1>2 DEF PlanFits, Editable

LEMMA PlannerTyped ==
    ASSUME TourTyped, NEW w \in Clerk, visit[w].op \in {"load", "plan"}
    PROVE  /\ visit[w] \in PlanVisit /\ visit[w].tour \in Tour /\ visit[w].route \in SUBSET Leg
           /\ visit[w].version \in Int /\ visit[w].now \in Int
           /\ visit[w].op = "plan" => visit[w].base \in Int
<1>1. visit[w] \in TourVisit /\ visit[w].op \in {"load", "plan"}
  BY DEF TourTyped
<1>2. visit[w] \notin HeldVisit
  BY <1>1 DEF HeldVisit
<1>3. visit[w] \notin DriveVisit
  BY <1>1 DEF DriveVisit
<1>4. visit[w] # NoVisit
  BY <1>1 DEF NoVisit
<1>5. visit[w] \in PlanVisit
  BY <1>1, <1>2, <1>3, <1>4 DEF TourVisit
<1> QED BY <1>5 DEF PlanVisit

LEMMA PlannerStays ==
    ASSUME TourTyped, TourTyped', depot <= depot', NEW w \in Clerk, visit[w].op \in {"load", "plan"},
           PlannerKnows(w), TourGoesOn(visit[w].tour), visit'[w] = visit[w]
    PROVE  PlannerKnows(w)'
<1>0. PICK v : v = visit[w]
  OBVIOUS
<1>1. /\ v.tour \in Tour /\ v.version \in Int /\ v.now \in Int /\ (v.op = "plan" => v.base \in Int)
      /\ v.op \in {"load", "plan"} /\ visit'[w] = v /\ visit[w] = v
  BY <1>0, PlannerTyped
<1>2. PICK t \in Tour : t = v.tour
  BY <1>1
<1>k. /\ v.version <= tour[t].version /\ (v.version = tour[t].version => Editable(t) /\ Fits(t, v.route))
      /\ v.now <= depot /\ (v.op = "plan" => v.now <= v.base /\ v.base <= depot)
  BY <1>0, <1>2 DEF PlannerKnows
<1>r. TourGoesOn(t) /\ depot \in Int /\ depot' \in Int /\ depot <= depot'
      /\ tour[t].version \in Int /\ tour'[t].version \in Int /\ tour'[t] \in TourRow
  BY <1>0, <1>2 DEF TourTyped, TourRow
<1>3. v.version <= tour'[t].version /\ v.now <= depot' /\ (v.op = "plan" => v.now <= v.base /\ v.base <= depot')
  BY <1>1, <1>k, <1>r DEF TourGoesOn
<1>4. ASSUME v.version = tour'[t].version PROVE Editable(t)' /\ Fits(t, v.route)'
  <2>1. tour[t].version = tour'[t].version /\ v.version = tour[t].version
    BY <1>1, <1>4, <1>k, <1>r DEF TourGoesOn
  <2>2. Editable(t) /\ Fits(t, v.route)
    BY <2>1, <1>k
  <2>3. Editable(t)' /\ StillFits(t)
    BY <2>1, <2>2, <1>r DEF TourGoesOn, Editable
  <2> QED BY <2>2, <2>3, FitsStays
<1>5. visit[w].tour = t /\ visit'[w].tour = t /\ visit'[w] = v
  BY <1>1, <1>2
<1> QED BY <1>3, <1>4, <1>5, Zenon DEF PlannerKnows

(* What a step that leaves the tour alone, or only heals, keeps of its plan. *)
KeepsStops(seq, t) ==
    /\ DOMAIN seq \subseteq DOMAIN stops[t]
    /\ \A i \in DOMAIN seq :
          /\ seq[i].appt = stops[t][i].appt
          /\ seq[i].skipped = stops[t][i].skipped \/ appt[seq[i].appt].status = "cancelled"
ApptsGoOn(t) ==
    /\ \A a \in Appointment : appt'[a].status = "scheduled" => appt[a].status = "scheduled"
    /\ \A a \in Due(t) : appt'[a].status = "scheduled" /\ news'[a] = "none" =>
                            news[a] = "none" /\ appt'[a].when = appt[a].when

StopFacts ==
    \A t \in Tour : \A i \in DOMAIN stops[t] :
        /\ stops[t][i] \in Stop /\ stops[t][i].appt \in Appointment
        /\ i \in Remaining(t) <=> appt[stops[t][i].appt].status = "scheduled" /\ ~stops[t][i].skipped
LEMMA Remains == TourTyped => StopFacts
<1> SUFFICES ASSUME TourTyped, NEW t \in Tour, NEW i \in DOMAIN stops[t]
             PROVE  /\ stops[t][i] \in Stop /\ stops[t][i].appt \in Appointment
                    /\ i \in Remaining(t)
                        <=> appt[stops[t][i].appt].status = "scheduled" /\ ~stops[t][i].skipped
  BY DEF StopFacts
<1>1. stops[t] \in Seq(Stop)
  BY DEF TourTyped
<1>2. i \in 1..Len(stops[t])
  BY <1>1, LenProperties
<1>3. stops[t][i] \in Stop
  BY <1>1, <1>2, ElementOfSeq
<1>4. stops[t][i].appt \in Appointment /\ stops[t][i].arrived \in BOOLEAN /\ stops[t][i].skipped \in BOOLEAN
  BY <1>3 DEF Stop
<1>5. appt[stops[t][i].appt].status \in {"scheduled", "completed", "cancelled"}
  BY <1>4 DEF TourTyped, ApptRows
<1>6. StopState(stops[t][i]) \in {"open", "arrived"}
        <=> appt[stops[t][i].appt].status = "scheduled" /\ ~stops[t][i].skipped
  <2>1. CASE appt[stops[t][i].appt].status = "completed"
    BY <2>1 DEF StopState
  <2>2. CASE appt[stops[t][i].appt].status = "cancelled"
    BY <2>2 DEF StopState
  <2>3. CASE appt[stops[t][i].appt].status = "scheduled"
    <3> DEFINE skipped == stops[t][i].skipped  arrived == stops[t][i].arrived
    <3>1. StopState(stops[t][i]) = IF skipped THEN "skipped" ELSE IF arrived THEN "arrived" ELSE "open"
      BY <2>3 DEF StopState
    <3> HIDE DEF skipped, arrived
    <3>2. StopState(stops[t][i]) \in {"open", "arrived"} <=> ~skipped
      BY ONLY <3>1
    <3> QED BY <2>3, <3>2 DEF skipped
  <2> QED BY <1>5, <2>1, <2>2, <2>3
<1> QED BY <1>3, <1>4, <1>6 DEF Remaining

LEMMA RemainsNext == TourTyped' => StopFacts'
  BY Remains, PTL

LEMMA DueKnown ==
    ASSUME TourTyped, NEW t \in Tour
    PROVE  /\ Due(t) \subseteq Appointment /\ ApptsOf(t) \subseteq Appointment /\ Due(t) \subseteq ApptsOf(t)
           /\ \A a \in Due(t) : appt[a].status = "scheduled"
           /\ \A a : a \in ApptsOf(t) <=> \E i \in DOMAIN stops[t] : a = stops[t][i].appt
<1>r. Range(stops[t]) = {stops[t][i] : i \in DOMAIN stops[t]}
  BY DEF Range
<1>1. \A a : a \in ApptsOf(t) <=> \E i \in DOMAIN stops[t] : a = stops[t][i].appt
  BY <1>r DEF ApptsOf
<1>2. \A a \in Due(t) : \E i \in DOMAIN stops[t] : i \in Remaining(t) /\ a = stops[t][i].appt
  BY DEF Due, Remaining
<1> QED BY <1>1, <1>2, Remains DEF StopFacts

LEMMA HealedFits ==
    ASSUME TourTyped, TourTyped', NEW t \in Tour, KeepsStops(stops'[t], t), ApptsGoOn(t) PROVE StillFits(t)
<1>1. ASSUME NEW i \in Remaining(t)'
      PROVE  i \in Remaining(t) /\ stops'[t][i].appt = stops[t][i].appt
  <2>1. i \in DOMAIN stops'[t]
    BY <1>1 DEF Remaining
  <2>2. i \in DOMAIN stops[t] /\ stops'[t][i].appt = stops[t][i].appt
        /\ (stops'[t][i].skipped = stops[t][i].skipped \/ appt[stops'[t][i].appt].status = "cancelled")
    BY <2>1 DEF KeepsStops
  <2>3. appt'[stops'[t][i].appt].status = "scheduled" /\ ~stops'[t][i].skipped
        /\ stops'[t][i].appt \in Appointment
    BY <2>1, <1>1, RemainsNext DEF StopFacts
  <2>4. appt[stops[t][i].appt].status = "scheduled"
    BY <2>2, <2>3 DEF ApptsGoOn
  <2>5. ~stops[t][i].skipped
    BY <2>2, <2>3, <2>4
  <2> QED BY <2>2, <2>4, <2>5, Remains DEF StopFacts
<1>2. ASSUME NEW a \in Due(t)', news'[a] = "none" PROVE news[a] = "none" /\ appt'[a].when = appt[a].when
  <2>1. PICK i \in Remaining(t)' : a = stops'[t][i].appt
    BY <1>2 DEF Due
  <2>2. a \in Due(t)
    BY <2>1, <1>1 DEF Due
  <2>3. i \in DOMAIN stops'[t]
    BY <2>1 DEF Remaining
  <2>4. appt'[a].status = "scheduled"
    BY <2>1, <2>3, RemainsNext DEF StopFacts
  <2> QED BY <2>2, <2>4, <1>2 DEF ApptsGoOn
<1> QED BY <1>1, <1>2 DEF StillFits

(* What a step on one tour makes of it.                                      *)
VisitsStay ==
    \A w \in Clerk : visit'[w] = visit[w] \/ visit'[w].op \notin {"start", "takeover", "load", "plan"}
Becomes(t, row, seq, inc, pl) ==
    /\ row \in TourRow /\ seq \in Seq(Stop) /\ Distinct(seq) /\ inc \in Incidents /\ pl \in Driver \cup {None}
    /\ tour' = [tour EXCEPT ![t] = row] /\ stops' = [stops EXCEPT ![t] = seq]
    /\ incident' = [incident EXCEPT ![t] = inc] /\ place' = [place EXCEPT ![t] = pl]
    /\ row.status # "active" => pl = None /\ inc = Quiet
    /\ depot' = depot /\ deputy' = deputy /\ news' = news
    /\ appt' \in ApptRows
    /\ \A a \in Appointment : appt'[a].status = appt[a].status /\ appt'[a].when = appt[a].when
    /\ visit' \in [Clerk -> TourVisit]

LEMMA SameTour ==
    ASSUME TourTyped, TourTyped', NEW t \in Tour, tour'[t] = tour[t], stops'[t] = stops[t], ApptsGoOn(t)
    PROVE  TourGoesOn(t)
<1>1. tour[t] \in TourRow
  BY DEF TourTyped
<1>2. KeepsStops(stops'[t], t)
  BY DEF KeepsStops
<1>3. StillFits(t)
  BY <1>2, HealedFits
<1>4. tour[t].version \in Int
  BY <1>1 DEF TourRow
<1> QED BY <1>3, <1>4 DEF TourGoesOn

LEMMA OthersGoOn ==
    ASSUME TourTyped, NEW t \in Tour, NEW row, NEW seq, NEW inc, NEW pl, EndedTourIsQuiet,
           Becomes(t, row, seq, inc, pl)
    PROVE  /\ TourTyped' /\ EndedTourIsQuiet' /\ (TourGoesOn(t) => PlansGoOn)
           /\ tour'[t] = row /\ stops'[t] = seq /\ ApptsGoOn(t)
           /\ \A o \in Tour \ {t} : tour'[o] = tour[o] /\ stops'[o] = stops[o] /\ TourGoesOn(o)
<1>1. TourTyped'
  <2>1. tour' \in [Tour -> TourRow]
    BY DEF TourTyped, Becomes
  <2>2. stops' \in [Tour -> Seq(Stop)]
    BY DEF TourTyped, Becomes
  <2>3. \A o \in Tour : Distinct(stops[o])'
    BY <2>2 DEF TourTyped, Becomes, Distinct
  <2>4. news' \in [Appointment -> {"none", "times", "cancelled", "lost"}]
        /\ depot' \in Int /\ deputy' \in [Driver -> Driver \cup {None}]
    BY DEF TourTyped, Becomes
  <2>5. \A a \in Appointment : news'[a] = "cancelled" => appt'[a].status = "cancelled"
    BY DEF TourTyped, Becomes
  <2>6. place' \in [Tour -> Driver \cup {None}]
    BY DEF TourTyped, Becomes
  <2>7. incident' \in [Tour -> Incidents]
    BY DEF TourTyped, Becomes
  <2>8. appt' \in ApptRows /\ visit' \in [Clerk -> TourVisit]
    BY DEF Becomes
  <2> QED BY <2>1, <2>2, <2>3, <2>4, <2>5, <2>6, <2>7, <2>8 DEF TourTyped
<1>2. /\ tour'[t] = row /\ stops'[t] = seq /\ incident'[t] = inc /\ place'[t] = pl
      /\ \A o \in Tour \ {t} : /\ tour'[o] = tour[o] /\ stops'[o] = stops[o]
                               /\ incident'[o] = incident[o] /\ place'[o] = place[o]
  BY DEF TourTyped, Becomes
<1>3. EndedTourIsQuiet'
  <2>1. ASSUME NEW o \in Tour, tour'[o].status # "active" PROVE place'[o] = None /\ incident'[o] = Quiet
    <3>1. CASE o = t
      BY <1>2, <2>1, <3>1 DEF Becomes
    <3>2. CASE o # t
      BY <1>2, <2>1, <3>2 DEF EndedTourIsQuiet
    <3> QED BY <3>1, <3>2
  <2> QED BY <2>1 DEF EndedTourIsQuiet, Quiet
<1>4. ASSUME NEW o \in Tour PROVE ApptsGoOn(o)
  <2>1. Due(o) \subseteq Appointment
    BY DueKnown
  <2> QED BY <2>1 DEF ApptsGoOn, Becomes
<1>r. ASSUME NEW o \in Tour \ {t} PROVE TourGoesOn(o)
  BY <1>1, <1>2, <1>4, <1>r, SameTour
<1>5. ASSUME TourGoesOn(t) PROVE PlansGoOn
  <2>2. depot <= depot'
    BY DEF Becomes, TourTyped
  <2> QED BY <1>5, <1>r, <2>2 DEF PlansGoOn
<1> QED BY <1>1, <1>2, <1>3, <1>4, <1>5, <1>r

LEMMA PlansKept ==
    ASSUME TourInv, TourTyped', PlansGoOn
    PROVE  /\ \A t \in Tour : PlanFits(t)'
           /\ \A w \in Clerk : visit'[w] = visit[w] /\ visit'[w].op \in {"load", "plan"} => PlannerKnows(w)'
<1>1. ASSUME NEW t \in Tour PROVE PlanFits(t)'
  BY PlanStays DEF TourInv, PlansGoOn
<1>2. ASSUME NEW w \in Clerk, visit'[w] = visit[w], visit'[w].op \in {"load", "plan"} PROVE PlannerKnows(w)'
  <2>1. visit[w].op \in {"load", "plan"}
    BY <1>2
  <2>2. visit[w].tour \in Tour /\ PlannerKnows(w)
    BY <2>1, PlannerTyped DEF TourInv
  <2> QED BY <1>2, <2>1, <2>2, PlannerStays DEF TourInv, PlansGoOn
<1> QED BY <1>1, <1>2

LEMMA InvKept ==
    ASSUME TourInv, TourTyped', EndedTourIsQuiet', PlansGoOn, ToursAreKept, VisitsStay
    PROVE  TourInv'
<1>1. OnlyHolders'
  <2>1. OnlyHolders /\ TourTyped
    BY DEF TourInv, OnlyHolders
  <2>2. HoldersStay
    BY DEF VisitsStay, HoldersStay, Holding
  <2> QED BY <2>1, <2>2, LocksStay
<1>2. \A w \in Clerk : visit'[w].op \in {"load", "plan"} => PlannerKnows(w)'
  BY PlansKept DEF VisitsStay
<1> QED BY <1>1, <1>2, PlansKept DEF TourInv, OnlyHolders

(* A step on one tour, whose row nobody else holds.                          *)
LEMMA OneTour ==
    ASSUME TourInv, NEW t \in Tour, NEW row, NEW seq, NEW inc, NEW pl, Becomes(t, row, seq, inc, pl),
           away' = away, VisitsStay, RowFree(t) \/ (row = tour[t] /\ seq = stops[t]),
           row.status = "active" => tour[t].status = "active" /\ row.driver = tour[t].driver,
           TourGoesOn(t)
    PROVE  TourInv'
<1>0. TourTyped /\ EndedTourIsQuiet
  BY DEF TourInv
<1>1. /\ TourTyped' /\ EndedTourIsQuiet' /\ PlansGoOn /\ tour'[t] = row /\ stops'[t] = seq
      /\ \A o \in Tour \ {t} : tour'[o] = tour[o] /\ stops'[o] = stops[o]
  BY <1>0, OthersGoOn
<1>2. ToursAreKept
  <2>1. /\ deputy' = deputy /\ away' = away
        /\ \A a \in Appointment : appt[a].status = "cancelled" => appt'[a].status = "cancelled"
    BY DEF Becomes
  <2>2. ASSUME NEW o \in Tour, tour'[o].status = "active"
        PROVE  tour[o].status = "active" /\ tour'[o].driver = tour[o].driver
    BY <1>1, <2>2
  <2>3. ASSUME NEW w \in Clerk, Holding(w)
        PROVE  tour'[visit[w].tour] = tour[visit[w].tour] /\ stops'[visit[w].tour] = stops[visit[w].tour]
    <3>1. visit[w].tour \in Tour
      BY <1>0, <2>3, HeldTyped
    <3>2. CASE visit[w].tour # t
      BY <1>1, <3>1, <3>2
    <3>3. CASE visit[w].tour = t
      BY <1>1, <2>3, <3>3 DEF RowFree
    <3> QED BY <3>2, <3>3
  <2> QED BY <2>1, <2>2, <2>3 DEF ToursAreKept
<1> QED BY <1>1, <1>2, InvKept

LEMMA VisitKept ==
    ASSUME TourTyped, UNCHANGED visit PROVE VisitsStay /\ visit' \in [Clerk -> TourVisit]
  BY DEF TourTyped, VisitsStay

LEMMA VisitSet ==
    ASSUME TourTyped, NEW w \in Clerk, NEW v \in TourVisit, v.op \notin {"start", "takeover", "load", "plan"},
           visit' = [visit EXCEPT ![w] = v]
    PROVE  VisitsStay /\ visit' \in [Clerk -> TourVisit]
  BY DEF TourTyped, VisitsStay

LEMMA VisitEnds ==
    ASSUME TourTyped, NEW w \in Clerk, End(w) PROVE VisitsStay /\ visit' \in [Clerk -> TourVisit]
<1>1. NoVisit \in TourVisit /\ NoVisit.op = "none"
  BY DEF TourVisit, NoVisit
<1> QED BY <1>1, VisitSet DEF End

LEMMA Dropped ==
    ASSUME TourTyped, NEW t \in Tour,
           tour'[t].version = tour[t].version + 1 \/ tour'[t].version = tour[t].version + 2,
           tour'[t].status # "absent",
           ~InPlan(tour'[t]) \/ tour'[t].status \notin OpenStatus
    PROVE  TourGoesOn(t)
<1>1. tour[t].version \in Int
  BY DEF TourTyped, TourRow
<1>2. tour[t].version <= tour'[t].version /\ tour'[t].version # tour[t].version
  BY <1>1
<1> QED BY <1>2 DEF TourGoesOn

LEMMA RowRaised ==
    ASSUME TourTyped, TourTyped', NEW t \in Tour,
           tour'[t].version = tour[t].version + 1 \/ tour'[t].version = tour[t].version + 2,
          
           tour[t].status \in OpenStatus, tour'[t].status \in OpenStatus,
           tour'[t].plan = tour[t].plan, tour'[t].route = tour[t].route,
           tour'[t].base = tour[t].base, tour'[t].calculated = tour[t].calculated,
           KeepsStops(stops'[t], t), ApptsGoOn(t)
    PROVE  TourGoesOn(t)
<1>1. tour[t].version \in Int
  BY DEF TourTyped, TourRow
<1>2. tour[t].version <= tour'[t].version /\ tour'[t].version # tour[t].version
  BY <1>1
<1>3. StillFits(t) /\ tour'[t].status # "absent"
  BY HealedFits DEF OpenStatus
<1> QED BY <1>2, <1>3 DEF TourGoesOn

(* Healing, alone and within the other steps.                                *)
LEMMA HealOnReadKeeps == ASSUME TourInv, NEW t \in Tour, HealOnRead(t) PROVE TourInv'
<1> DEFINE row == HealedRow(t)  seq == HealedStops(t)  inc == HealedIncidents(t)
<1>0. TourTyped /\ EndedTourIsQuiet /\ place[t] \in Driver \cup {None} /\ RowFree(t) /\ Editable(t)
      /\ tour[t] \in TourRow
  BY DEF TourInv, HealOnRead, HealingNeeded, TourTyped
<1>1. /\ row \in TourRow /\ row.status = tour[t].status /\ row.driver = tour[t].driver
      /\ (row = tour[t] /\ seq = stops[t]) \/ (row.version = tour[t].version + 1 /\ ~InPlan(row))
      /\ seq \in Seq(Stop) /\ HealedFrom(seq, t) /\ inc \in Incidents /\ (incident[t] = Quiet => inc = Quiet)
  BY <1>0, Healing
<1>2. /\ tour' = [tour EXCEPT ![t] = row] /\ stops' = [stops EXCEPT ![t] = seq]
      /\ incident' = [incident EXCEPT ![t] = inc] /\ place' = [place EXCEPT ![t] = place[t]]
      /\ UNCHANGED <<appt, news, depot, deputy, away, visit>>
  BY <1>0 DEF HealOnRead, TourTyped
<1> HIDE DEF row, seq, inc
<1>3. VisitsStay /\ visit' \in [Clerk -> TourVisit]
  BY <1>0, <1>2, VisitKept
<1>4. Distinct(seq)
  BY <1>0, <1>1 DEF TourTyped, Distinct, HealedFrom
<1>5. row.status # "active" => place[t] = None /\ inc = Quiet
  BY <1>0, <1>1 DEF EndedTourIsQuiet
<1>6. Becomes(t, row, seq, inc, place[t])
  BY <1>0, <1>1, <1>2, <1>3, <1>4, <1>5 DEF Becomes, TourTyped
<1>7. TourTyped' /\ tour'[t] = row /\ stops'[t] = seq /\ ApptsGoOn(t)
  BY <1>0, <1>6, OthersGoOn
<1>8. TourGoesOn(t)
  <2>1. CASE row = tour[t] /\ seq = stops[t]
    BY <1>0, <1>7, <2>1, SameTour
  <2>2. CASE row.version = tour[t].version + 1 /\ ~InPlan(row)
    BY <1>0, <1>1, <1>7, <2>2, Dropped DEF Editable, OpenStatus
  <2> QED BY <1>1, <2>1, <2>2
<1> QED BY <1>0, <1>1, <1>2, <1>3, <1>6, <1>8, OneTour

(* Editing: the plan is stale after it.                                      *)
LEMMA EditKeeps ==
    ASSUME TourInv, NEW t \in Tour, EditTour(t), NEW seq \in Seq(Stop), Distinct(seq), NEW inc \in Incidents,
           incident[t] = Quiet => inc = Quiet,
           stops' = [stops EXCEPT ![t] = seq], incident' = [incident EXCEPT ![t] = inc],
           appt' \in ApptRows,
           \A a \in Appointment : appt'[a].status = appt[a].status /\ appt'[a].when = appt[a].when
    PROVE  TourInv'
<1>0. TourTyped /\ EndedTourIsQuiet /\ place[t] \in Driver \cup {None} /\ RowFree(t) /\ Editable(t)
      /\ tour[t] \in TourRow
  BY DEF TourInv, EditTour, TourTyped
<1> DEFINE other == OtherVersion(tour[t])
           row == Bumped(other)
<1>1. other \in TourRow /\ ~InPlan(other) /\ other.status = tour[t].status /\ other.driver = tour[t].driver
      /\ other.version = tour[t].version
  BY <1>0, RowChanges DEF TourRow
<1>2. /\ tour' = [tour EXCEPT ![t] = row]
      /\ place' = [place EXCEPT ![t] = place[t]] /\ UNCHANGED <<news, depot, deputy, away, visit>>
  BY <1>0 DEF EditTour, TourTyped
<1> HIDE DEF other
<1>3. row \in TourRow
      /\ row = [status |-> other.status, version |-> other.version + 1, driver |-> other.driver,
                  plan |-> other.plan, route |-> other.route, base |-> other.base,
                  calculated |-> other.calculated]
  BY <1>1, RowChanges
<1> HIDE DEF row
<1>4. ~InPlan(row) /\ row.status = tour[t].status /\ row.driver = tour[t].driver
      /\ row.version = tour[t].version + 1
  BY <1>1, <1>3 DEF InPlan
<1>5. VisitsStay /\ visit' \in [Clerk -> TourVisit]
  BY <1>0, <1>2, VisitKept
<1>6. row.status # "active" => place[t] = None /\ inc = Quiet
  BY <1>0, <1>4 DEF EndedTourIsQuiet
<1>7. Becomes(t, row, seq, inc, place[t])
  BY <1>0, <1>2, <1>3, <1>5, <1>6 DEF Becomes
<1>8. TourTyped' /\ tour'[t] = row
  BY <1>0, <1>7, OthersGoOn
<1>9. TourGoesOn(t)
  BY <1>0, <1>4, <1>8, Dropped DEF Editable, OpenStatus
<1> QED BY <1>0, <1>2, <1>4, <1>5, <1>7, <1>9, OneTour

LEMMA ApptKept ==
    ASSUME TourTyped, UNCHANGED appt
    PROVE  /\ appt' \in ApptRows
           /\ \A a \in Appointment : appt'[a].status = appt[a].status /\ appt'[a].when = appt[a].when
  BY DEF TourTyped

LEMMA OrderedTyped ==
    ASSUME TourTyped, NEW t \in Tour, NEW p \in Orders(t)
    PROVE  /\ Ordered(t, p) \in Seq(Stop) /\ Distinct(Ordered(t, p))
           /\ p \in [DOMAIN stops[t] -> DOMAIN stops[t]] /\ DOMAIN Ordered(t, p) = DOMAIN stops[t]
           /\ \A i, j \in DOMAIN stops[t] : p[i] = p[j] => i = j
           /\ \A i \in DOMAIN stops[t] : Ordered(t, p)[i] = stops[t][p[i]]
<1>1. p \in [DOMAIN stops[t] -> DOMAIN stops[t]] /\ \A i, j \in DOMAIN stops[t] : p[i] = p[j] => i = j
  BY DEF Orders, IsInjective
<1>2. stops[t] \in Seq(Stop) /\ Distinct(stops[t])
  BY DEF TourTyped
<1>3. Len(stops[t]) \in Nat /\ DOMAIN stops[t] = 1..Len(stops[t])
  BY <1>2, LenProperties
<1>4. DOMAIN Ordered(t, p) = DOMAIN stops[t] /\ \A i \in DOMAIN stops[t] : Ordered(t, p)[i] = stops[t][p[i]]
  BY <1>1 DEF Ordered
<1>5. Ordered(t, p) \in [1..Len(stops[t]) -> Stop]
  BY <1>1, <1>2, <1>3, ElementOfSeq DEF Ordered
<1>6. Ordered(t, p) \in Seq(Stop)
  BY <1>3, <1>5
<1>7. Distinct(Ordered(t, p))
  <2> SUFFICES ASSUME NEW i \in DOMAIN Ordered(t, p), NEW j \in DOMAIN Ordered(t, p),
                      Ordered(t, p)[i].appt = Ordered(t, p)[j].appt
               PROVE  i = j
    BY DEF Distinct
  <2>1. i \in DOMAIN stops[t] /\ j \in DOMAIN stops[t] /\ p[i] \in DOMAIN stops[t] /\ p[j] \in DOMAIN stops[t]
    BY <1>1, <1>4
  <2>2. stops[t][p[i]].appt = stops[t][p[j]].appt
    BY <1>4, <2>1
  <2>3. p[i] = p[j]
    BY <1>2, <2>1, <2>2 DEF Distinct
  <2> QED BY <1>1, <2>1, <2>3
<1> QED BY <1>1, <1>4, <1>6, <1>7

LEMMA UpdateStopKeeps == ASSUME TourInv, NEW t \in Tour, UpdateStop(t) PROVE TourInv'
<1>1. TourTyped /\ EditTour(t) /\ UNCHANGED <<stops, appt, incident>>
  BY DEF TourInv, UpdateStop
<1>2. /\ stops[t] \in Seq(Stop) /\ Distinct(stops[t]) /\ incident[t] \in Incidents
      /\ stops' = [stops EXCEPT ![t] = stops[t]] /\ incident' = [incident EXCEPT ![t] = incident[t]]
  BY <1>1 DEF TourTyped
<1> QED BY <1>1, <1>2, ApptKept, EditKeeps

LEMMA ReorderKeeps == ASSUME TourInv, NEW t \in Tour, NEW p \in Orders(t), Reorder(t, p) PROVE TourInv'
<1>1. TourTyped /\ EditTour(t) /\ UNCHANGED <<appt, incident>>
      /\ stops' = [stops EXCEPT ![t] = Ordered(t, p)]
  BY DEF TourInv, Reorder
<1>2. incident[t] \in Incidents /\ incident' = [incident EXCEPT ![t] = incident[t]]
  BY <1>1 DEF TourTyped
<1>3. Ordered(t, p) \in Seq(Stop) /\ Distinct(Ordered(t, p))
  BY <1>1, OrderedTyped
<1> QED BY <1>1, <1>2, <1>3, ApptKept, EditKeeps

LEMMA Removed ==
    ASSUME NEW s \in Seq(Stop), Distinct(s), NEW i \in DOMAIN s
    PROVE  RemoveAt(s, i) \in Seq(Stop) /\ Distinct(RemoveAt(s, i))
<1>1. Len(s) \in Nat /\ DOMAIN s = 1..Len(s) /\ i \in 1..Len(s)
  BY LenProperties
<1> DEFINE one == SubSeq(s, 1, i - 1)  two == SubSeq(s, i + 1, Len(s))
<1>2. /\ one \in Seq(Stop) /\ Len(one) = i - 1
      /\ \A j \in 1..(i - 1) : one[j] = s[j]
  BY <1>1, SubSeqProperties
<1>3. /\ two \in Seq(Stop) /\ Len(two) = Len(s) - i
      /\ \A j \in 1..(Len(s) - i) : two[j] = s[j + i]
  <2>1. two \in Seq(Stop) /\ Len(two) = (IF i + 1 <= Len(s) THEN Len(s) - (i + 1) + 1 ELSE 0)
        /\ \A j \in 1..(Len(s) - (i + 1) + 1) : two[j] = s[(i + 1) + j - 1]
    <3> DEFINE m == i + 1  n == Len(s)
    <3>1. m \in Int /\ n \in Int /\ \A k \in m..n : s[k] \in Stop
      BY <1>1, ElementOfSeq
    <3>2. two = SubSeq(s, m, n)
      OBVIOUS
    <3> HIDE DEF m, n, two
    <3>3. two \in Seq(Stop) /\ Len(two) = (IF m <= n THEN n - m + 1 ELSE 0)
          /\ \A j \in 1..(n - m + 1) : two[j] = s[m + j - 1]
      BY <3>1, <3>2, SubSeqProperties
    <3> QED BY <3>3 DEF m, n
  <2> HIDE DEF two
  <2>2. Len(two) = Len(s) - i
    <3>1. Len(two) = IF i + 1 <= Len(s) THEN Len(s) - (i + 1) + 1 ELSE 0
      BY <2>1
    <3> QED BY <1>1, <3>1
  <2>3. ASSUME NEW j \in 1..(Len(s) - i) PROVE two[j] = s[j + i]
    <3>1. j \in 1..(Len(s) - (i + 1) + 1) /\ (i + 1) + j - 1 = j + i
      BY <1>1, <2>3
    <3>2. two[j] = s[(i + 1) + j - 1]
      BY <2>1, <3>1
    <3> QED BY <3>1, <3>2
  <2> QED BY <2>1, <2>2, <2>3
<1> HIDE DEF one, two
<1> DEFINE new == one \o two
<1>4. /\ new \in Seq(Stop) /\ Len(new) = Len(s) - 1 /\ DOMAIN new = 1..(Len(s) - 1)
      /\ \A j \in 1..(Len(s) - 1) : new[j] = s[IF j < i THEN j ELSE j + 1]
  <2>1. new \in Seq(Stop) /\ Len(new) = Len(one) + Len(two)
        /\ \A j \in 1..(Len(one) + Len(two)) : new[j] = IF j <= Len(one) THEN one[j] ELSE two[j - Len(one)]
    BY <1>2, <1>3, ConcatProperties
  <2> HIDE DEF new
  <2>2. Len(new) = Len(s) - 1 /\ DOMAIN new = 1..(Len(s) - 1)
    BY <1>1, <1>2, <1>3, <2>1, LenProperties
  <2>3. ASSUME NEW j \in 1..(Len(s) - 1) PROVE new[j] = s[IF j < i THEN j ELSE j + 1]
    <3>1. j \in 1..(Len(one) + Len(two))
      BY <1>1, <1>2, <1>3, <2>3
    <3>2. CASE j < i
      BY <1>1, <1>2, <2>1, <2>3, <3>1, <3>2
    <3>3. CASE ~(j < i)
      <4>1. ~(j <= Len(one)) /\ j - Len(one) \in 1..(Len(s) - i) /\ j - Len(one) + i = j + 1
        BY <1>1, <1>2, <2>3, <3>3
      <4> QED BY <1>3, <2>1, <3>1, <3>3, <4>1
    <3> QED BY <3>2, <3>3
  <2> QED BY <2>1, <2>2, <2>3
<1>5. new = RemoveAt(s, i)
  BY DEF RemoveAt, one, two
<1> HIDE DEF new
<1>6. ASSUME NEW j \in DOMAIN new, NEW k \in DOMAIN new, new[j].appt = new[k].appt PROVE j = k
  <2> DEFINE J == IF j < i THEN j ELSE j + 1
             K == IF k < i THEN k ELSE k + 1
  <2>1. J \in DOMAIN s /\ K \in DOMAIN s
    BY <1>1, <1>4, <1>6
  <2>2. s[J].appt = s[K].appt
    BY <1>4, <1>6
  <2>3. J = K
    BY <2>1, <2>2, Zenon DEF Distinct
  <2> QED BY <1>1, <1>4, <1>6, <2>3
<1> QED BY <1>4, <1>5, <1>6 DEF Distinct

LEMMA RemoveStopKeeps == ASSUME TourInv, NEW t \in Tour, NEW i \in DOMAIN stops[t], RemoveStop(t, i) PROVE TourInv'
<1> DEFINE inc == [incident[t] EXCEPT ![stops[t][i].appt] = "none"]
<1>1. TourTyped /\ EditTour(t) /\ UNCHANGED appt /\ stops' = [stops EXCEPT ![t] = RemoveAt(stops[t], i)]
      /\ incident' = [incident EXCEPT ![t] = inc]
  BY DEF TourInv, RemoveStop
<1>2. stops[t] \in Seq(Stop) /\ Distinct(stops[t]) /\ incident[t] \in Incidents
  BY <1>1 DEF TourTyped
<1>3. inc \in Incidents /\ (incident[t] = Quiet => inc = Quiet)
  BY <1>2 DEF Incidents, Quiet
<1> HIDE DEF inc
<1>4. RemoveAt(stops[t], i) \in Seq(Stop) /\ Distinct(RemoveAt(stops[t], i))
  BY <1>2, Removed
<1> QED BY <1>1, <1>3, <1>4, ApptKept, EditKeeps

LEMMA AddStopKeeps ==
    ASSUME TourInv, NEW t \in Tour, NEW a \in Appointment, NEW reassign \in BOOLEAN, AddStop(t, a, reassign)
    PROVE  TourInv'
<1> DEFINE new == NewStop(a)  seq == Append(stops[t], new)
<1>1. TourTyped /\ EditTour(t) /\ UNCHANGED incident /\ stops' = [stops EXCEPT ![t] = seq] /\ Editable(t)
      /\ ToursWith(a) = {} /\ (appt' = appt \/ appt' = AssignWithin(appt, a, tour[t].driver))
  BY DEF TourInv, AddStop, EditTour
<1>2. stops[t] \in Seq(Stop) /\ Distinct(stops[t]) /\ incident[t] \in Incidents /\ tour[t].driver \in Driver
      /\ incident' = [incident EXCEPT ![t] = incident[t]]
  BY <1>1 DEF TourTyped, TourRow
<1>3. new \in Stop /\ new.appt = a
  BY DEF NewStop, Stop
<1>4. a \notin ApptsOf(t)
  BY <1>1 DEF ToursWith
<1>5. \A i \in DOMAIN stops[t] : stops[t][i].appt # a
  BY <1>1, <1>4, DueKnown
<1> HIDE DEF new
<1>6. seq \in Seq(Stop) /\ Distinct(seq)
  <2>1. Len(stops[t]) \in Nat /\ DOMAIN stops[t] = 1..Len(stops[t])
    BY <1>2, LenProperties
  <2>2. /\ seq \in Seq(Stop) /\ Len(seq) = Len(stops[t]) + 1 /\ DOMAIN seq = 1..(Len(stops[t]) + 1)
        /\ \A i \in 1..Len(stops[t]) : seq[i] = stops[t][i]
        /\ seq[Len(stops[t]) + 1] = new
    BY <1>2, <1>3, <2>1, AppendProperties, LenProperties
  <2> HIDE DEF seq
  <2>3. \A i \in DOMAIN seq : i \in DOMAIN stops[t] \/ i = Len(stops[t]) + 1
    BY <2>1, <2>2
  <2> QED BY <1>2, <1>3, <1>5, <2>1, <2>2, <2>3 DEF Distinct
<1>7. /\ appt' \in ApptRows
      /\ \A b \in Appointment : appt'[b].status = appt[b].status /\ appt'[b].when = appt[b].when
  <2>1. CASE appt' = appt
    BY <1>1, <2>1, ApptKept
  <2>2. CASE appt' = AssignWithin(appt, a, tour[t].driver)
    <3>1. appt \in ApptRows
      BY <1>1 DEF TourTyped
    <3> QED BY <2>2, <3>1, <1>2 DEF AssignWithin, ApptRows
  <2> QED BY <1>1, <2>1, <2>2
<1> HIDE DEF seq
<1> QED BY <1>1, <1>2, <1>6, <1>7, EditKeeps

(* The life cycle.                                                           *)
LEMMA TourRowSet ==
    ASSUME NEW h \in TourRow, NEW d \in Driver,
           NEW st \in {"absent", "draft", "ready", "active", "completed", "cancelled"}
    PROVE  /\ [Bumped(h) EXCEPT !.status = st] = [status |-> st, version |-> h.version + 1, driver |-> h.driver,
                  plan |-> h.plan, route |-> h.route, base |-> h.base, calculated |-> h.calculated]
           /\ [Bumped(h) EXCEPT !.driver = d] = [status |-> h.status, version |-> h.version + 1, driver |-> d,
                  plan |-> h.plan, route |-> h.route, base |-> h.base, calculated |-> h.calculated]
           /\ [Bumped(h) EXCEPT !.status = st] \in TourRow /\ [Bumped(h) EXCEPT !.driver = d] \in TourRow
<1> DEFINE b == Bumped(h)
<1>1. b \in TourRow /\ b = [status |-> h.status, version |-> h.version + 1, driver |-> h.driver,
                  plan |-> h.plan, route |-> h.route, base |-> h.base, calculated |-> h.calculated]
  BY RowChanges
<1> HIDE DEF b
<1>2. [b EXCEPT !.status = st] = [status |-> st, version |-> h.version + 1, driver |-> h.driver,
                  plan |-> h.plan, route |-> h.route, base |-> h.base, calculated |-> h.calculated]
  BY <1>1
<1>3. [b EXCEPT !.driver = d] = [status |-> h.status, version |-> h.version + 1, driver |-> d,
                  plan |-> h.plan, route |-> h.route, base |-> h.base, calculated |-> h.calculated]
  BY <1>1
<1>4. [b EXCEPT !.status = st] \in TourRow /\ [b EXCEPT !.driver = d] \in TourRow
  BY <1>1 DEF TourRow
<1> QED BY <1>2, <1>3, <1>4 DEF b

LEMMA HealedGoesOn ==
    ASSUME TourTyped, TourTyped', NEW t \in Tour, NEW h \in TourRow,
           h = tour[t] \/ (h.version = tour[t].version + 1 /\ ~InPlan(h)),
           tour'[t].version = h.version + 1, tour'[t].plan = h.plan, tour'[t].route = h.route,
           tour'[t].base = h.base, tour'[t].calculated = h.calculated,
           tour[t].status \in OpenStatus, tour'[t].status # "absent",
           HealedFrom(stops'[t], t), ApptsGoOn(t)
    PROVE  TourGoesOn(t)
<1>0. tour[t].version \in Int /\ KeepsStops(stops'[t], t)
  BY DEF TourTyped, TourRow, HealedFrom, KeepsStops
<1>1. CASE h = tour[t] /\ tour'[t].status \in OpenStatus
  BY <1>0, <1>1, RowRaised
<1>2. CASE h = tour[t] /\ tour'[t].status \notin OpenStatus
  BY <1>2, Dropped
<1>3. CASE h.version = tour[t].version + 1 /\ ~InPlan(h)
  <2>1. tour'[t].version = tour[t].version + 2
    BY <1>0, <1>3
  <2>2. ~InPlan(tour'[t])
    BY <1>3 DEF InPlan
  <2> QED BY <2>1, <2>2, Dropped
<1> QED BY <1>1, <1>2, <1>3

(* A status that follows on a healing: ready, completed.                     *)
LEMMA HealedTo ==
    ASSUME TourInv, NEW t \in Tour, NEW st \in {"ready", "completed"}, RowFree(t), Editable(t),
           NEW inc \in Incidents, NEW pl \in Driver \cup {None}, pl = None /\ inc = Quiet,
           tour' = [tour EXCEPT ![t] = [Bumped(HealedRow(t)) EXCEPT !.status = st]],
           stops' = [stops EXCEPT ![t] = HealedStops(t)],
           incident' = [incident EXCEPT ![t] = inc], place' = [place EXCEPT ![t] = pl],
           UNCHANGED <<appt, news, depot, deputy, away, visit>>
    PROVE  TourInv'
<1> DEFINE h == HealedRow(t)  seq == HealedStops(t)
           row == [Bumped(h) EXCEPT !.status = st]
<1>0. TourTyped /\ EndedTourIsQuiet /\ tour[t] \in TourRow /\ tour[t].driver \in Driver
  BY DEF TourInv, TourTyped, TourRow
<1>1. /\ h \in TourRow /\ h.status = tour[t].status /\ h.driver = tour[t].driver
      /\ h = tour[t] \/ (h.version = tour[t].version + 1 /\ ~InPlan(h))
      /\ seq \in Seq(Stop) /\ HealedFrom(seq, t)
  BY <1>0, Healing
<1>2. tour' = [tour EXCEPT ![t] = row] /\ stops' = [stops EXCEPT ![t] = seq]
  OBVIOUS
<1> HIDE DEF h, seq
<1>3. row \in TourRow /\ row = [status |-> st, version |-> h.version + 1, driver |-> h.driver,
                  plan |-> h.plan, route |-> h.route, base |-> h.base, calculated |-> h.calculated]
  BY <1>0, <1>1, TourRowSet
<1> HIDE DEF row
<1>4. VisitsStay /\ visit' \in [Clerk -> TourVisit]
  BY <1>0, VisitKept
<1>5. Distinct(seq)
  BY <1>0, <1>1 DEF TourTyped, Distinct, HealedFrom
<1>6. appt' \in ApptRows /\ \A a \in Appointment : appt'[a].status = appt[a].status /\ appt'[a].when = appt[a].when
  BY <1>0, ApptKept
<1>7. Becomes(t, row, seq, inc, pl)
  BY <1>1, <1>2, <1>3, <1>4, <1>5, <1>6 DEF Becomes
<1>8. TourTyped' /\ tour'[t] = row /\ stops'[t] = seq /\ ApptsGoOn(t)
  BY <1>0, <1>7, OthersGoOn
<1>9. TourGoesOn(t)
  <2>1. /\ tour'[t].version = h.version + 1 /\ tour'[t].plan = h.plan /\ tour'[t].route = h.route
        /\ tour'[t].base = h.base /\ tour'[t].calculated = h.calculated /\ tour'[t].status # "absent"
    BY <1>3, <1>8
  <2> QED BY <1>0, <1>1, <1>8, <2>1, HealedGoesOn DEF Editable
<1>10. row.status # "active"
  BY <1>3
<1> QED BY <1>4, <1>7, <1>9, <1>10, OneTour

LEMMA MarkReadyKeeps == ASSUME TourInv, NEW t \in Tour, MarkReady(t) PROVE TourInv'
<1>0. TourTyped /\ EndedTourIsQuiet /\ tour[t].status = "draft"
  BY DEF TourInv, MarkReady
<1>1. place[t] = None /\ incident[t] = Quiet /\ HealedIncidents(t) \in Incidents /\ HealedIncidents(t) = Quiet
      /\ Editable(t)
  BY <1>0, Healing DEF EndedTourIsQuiet, Editable, OpenStatus
<1>2. place' = [place EXCEPT ![t] = None]
  BY <1>0, <1>1 DEF MarkReady, TourTyped
<1>3. /\ tour' = [tour EXCEPT ![t] = [Bumped(HealedRow(t)) EXCEPT !.status = "ready"]]
      /\ stops' = [stops EXCEPT ![t] = HealedStops(t)]
      /\ incident' = [incident EXCEPT ![t] = HealedIncidents(t)]
      /\ RowFree(t) /\ UNCHANGED <<appt, news, depot, deputy, away, visit>>
  BY DEF MarkReady
<1> QED BY <1>1, <1>2, <1>3, HealedTo

LEMMA QuietTyped == Quiet \in Incidents
  BY DEF Quiet, Incidents

LEMMA EndTourKeeps == ASSUME TourInv, NEW t \in Tour, NEW force \in BOOLEAN, EndTour(t, force) PROVE TourInv'
<1>1. /\ tour' = [tour EXCEPT ![t] = [Bumped(HealedRow(t)) EXCEPT !.status = "completed"]]
      /\ stops' = [stops EXCEPT ![t] = HealedStops(t)]
      /\ incident' = [incident EXCEPT ![t] = Quiet] /\ place' = [place EXCEPT ![t] = None]
      /\ RowFree(t) /\ UNCHANGED <<appt, news, depot, deputy, away, visit>>
      /\ Editable(t)
  BY DEF EndTour, ReleaseWithin, Editable, OpenStatus
<1> QED BY <1>1, QuietTyped, HealedTo

LEMMA CancelKeeps == ASSUME TourInv, NEW t \in Tour, Cancel(t) PROVE TourInv'
<1> DEFINE h == tour[t]  seq == stops[t]
           row == [Bumped(h) EXCEPT !.status = "cancelled"]
<1>0. TourTyped /\ EndedTourIsQuiet /\ h \in TourRow /\ h.driver \in Driver
      /\ tour[t].status \in {"draft", "ready"} /\ RowFree(t) /\ seq \in Seq(Stop) /\ Distinct(seq)
  BY DEF TourInv, TourTyped, TourRow, Cancel
<1>1. place[t] = None /\ incident[t] = Quiet
  BY <1>0 DEF EndedTourIsQuiet
<1>2. /\ tour' = [tour EXCEPT ![t] = row] /\ stops' = [stops EXCEPT ![t] = seq]
      /\ incident' = [incident EXCEPT ![t] = Quiet] /\ place' = [place EXCEPT ![t] = None]
      /\ UNCHANGED <<appt, news, depot, deputy, away, visit>>
  BY <1>0, <1>1 DEF Cancel, TourTyped
<1> HIDE DEF h, seq
<1>3. row \in TourRow /\ row = [status |-> "cancelled", version |-> h.version + 1, driver |-> h.driver,
                  plan |-> h.plan, route |-> h.route, base |-> h.base, calculated |-> h.calculated]
  BY <1>0, TourRowSet
<1> HIDE DEF row
<1>4. VisitsStay /\ visit' \in [Clerk -> TourVisit]
  BY <1>0, <1>2, VisitKept
<1>6. appt' \in ApptRows /\ \A a \in Appointment : appt'[a].status = appt[a].status /\ appt'[a].when = appt[a].when
  BY <1>0, <1>2, ApptKept
<1>7. Becomes(t, row, seq, Quiet, None)
  BY <1>0, <1>2, <1>3, <1>4, <1>6, QuietTyped DEF Becomes
<1>8. TourTyped' /\ tour'[t] = row
  BY <1>0, <1>7, OthersGoOn
<1>9. tour'[t].version = tour[t].version + 1 /\ tour'[t].status = "cancelled"
  BY <1>3, <1>8 DEF h
<1>10. TourGoesOn(t)
  BY <1>0, <1>9, Dropped DEF OpenStatus
<1>11. row.status # "active"
  BY <1>3
<1> QED BY <1>0, <1>2, <1>4, <1>7, <1>10, <1>11, OneTour

LEMMA CreateKeeps == ASSUME TourInv, NEW t \in Tour, NEW d \in Driver, Create(t, d) PROVE TourInv'
<1> DEFINE h == tour[t]  seq == stops[t]
           row == [h EXCEPT !.status = "draft", !.driver = d]
<1>0. TourTyped /\ EndedTourIsQuiet /\ h \in TourRow /\ tour[t].status = "absent" /\ seq \in Seq(Stop) /\ Distinct(seq)
  BY DEF TourInv, TourTyped, Create
<1>1. place[t] = None /\ incident[t] = Quiet
  BY <1>0 DEF EndedTourIsQuiet
<1>2. /\ tour' = [tour EXCEPT ![t] = row] /\ stops' = [stops EXCEPT ![t] = seq]
      /\ incident' = [incident EXCEPT ![t] = Quiet] /\ place' = [place EXCEPT ![t] = None]
      /\ UNCHANGED <<appt, news, depot, deputy, away, visit>>
  BY <1>0, <1>1 DEF Create, TourTyped
<1>r. RowFree(t)
  <2> SUFFICES ASSUME NEW w \in Clerk, Holding(w), visit[w].tour = t PROVE FALSE
    BY DEF RowFree
  <2>1. tour[t].status \in {"draft", "ready"} \/ tour[t].status \in {"active"}
    BY DEF TourInv, HolderKnows
  <2> QED BY <1>0, <2>1
<1> HIDE DEF h, seq
<1>3. row \in TourRow /\ row = [status |-> "draft", version |-> h.version, driver |-> d,
                  plan |-> h.plan, route |-> h.route, base |-> h.base, calculated |-> h.calculated]
  <2>0. h \in TourRow
    BY <1>0
  <2>1. row = [status |-> "draft", version |-> h.version, driver |-> d,
                  plan |-> h.plan, route |-> h.route, base |-> h.base, calculated |-> h.calculated]
    <3>1. h = [status |-> h.status, version |-> h.version, driver |-> h.driver,
                  plan |-> h.plan, route |-> h.route, base |-> h.base, calculated |-> h.calculated]
      BY ONLY <2>0 DEF TourRow
    <3> DEFINE a == h.status  b == h.version  c == h.driver  e == h.plan  f == h.route  g == h.base  k == h.calculated
    <3>2. h = [status |-> a, version |-> b, driver |-> c, plan |-> e, route |-> f, base |-> g, calculated |-> k]
      BY <3>1
    <3> HIDE DEF a, b, c, e, f, g, k
    <3>3. [h EXCEPT !.status = "draft"] = [status |-> "draft", version |-> b, driver |-> c, plan |-> e,
                                           route |-> f, base |-> g, calculated |-> k]
      BY ONLY <3>2
    <3>4. row = [status |-> "draft", version |-> b, driver |-> d, plan |-> e,
                 route |-> f, base |-> g, calculated |-> k]
      <4> DEFINE x == [h EXCEPT !.status = "draft"]
      <4>1. row = [x EXCEPT !.driver = d]
        OBVIOUS
      <4>2. x = [status |-> "draft", version |-> b, driver |-> c, plan |-> e,
                 route |-> f, base |-> g, calculated |-> k]
        BY ONLY <3>3
      <4> HIDE DEF x, row
      <4> QED BY ONLY <4>1, <4>2
    <3> QED BY ONLY <3>4, Zenon DEF a, b, c, e, f, g, k
  <2>2. row \in TourRow
    BY ONLY <2>0, d \in Driver DEF TourRow
  <2> QED BY <2>1, <2>2
<1> HIDE DEF row
<1>4. VisitsStay /\ visit' \in [Clerk -> TourVisit]
  BY <1>0, <1>2, VisitKept
<1>6. appt' \in ApptRows /\ \A a \in Appointment : appt'[a].status = appt[a].status /\ appt'[a].when = appt[a].when
  BY <1>0, <1>2, ApptKept
<1>7. Becomes(t, row, seq, Quiet, None)
  BY <1>0, <1>2, <1>3, <1>4, <1>6, QuietTyped DEF Becomes
<1>8. TourTyped' /\ tour'[t] = row /\ stops'[t] = seq /\ ApptsGoOn(t)
  BY <1>0, <1>7, OthersGoOn
<1>9. KeepsStops(stops'[t], t)
  BY <1>8 DEF KeepsStops, seq
<1>10. TourGoesOn(t)
  <2>1. StillFits(t) /\ tour[t].version \in Int
    BY <1>0, <1>8, <1>9, HealedFits DEF TourTyped, TourRow
  <2> QED BY <1>0, <1>3, <1>8, <2>1 DEF TourGoesOn, h, OpenStatus
<1>11. row.status # "active"
  BY <1>3
<1> QED BY <1>r, <1>2, <1>4, <1>7, <1>10, <1>11, OneTour

LEMMA MarkArrivedKeeps ==
    ASSUME TourInv, NEW t \in Tour, NEW i \in DOMAIN stops[t], MarkArrived(t, i) PROVE TourInv'
<1> DEFINE h == tour[t]  seq == [stops[t] EXCEPT ![i] = [@ EXCEPT !.arrived = TRUE]]
           row == Bumped(h)
<1>0. TourTyped /\ EndedTourIsQuiet /\ h \in TourRow /\ tour[t].status = "active" /\ RowFree(t)
      /\ stops[t] \in Seq(Stop) /\ Distinct(stops[t]) /\ incident[t] \in Incidents /\ place[t] \in Driver \cup {None}
  BY DEF TourInv, TourTyped, MarkArrived
<1>2. /\ tour' = [tour EXCEPT ![t] = row] /\ stops' = [stops EXCEPT ![t] = seq]
      /\ incident' = [incident EXCEPT ![t] = incident[t]] /\ place' = [place EXCEPT ![t] = place[t]]
      /\ UNCHANGED <<appt, news, depot, deputy, away, visit>>
  BY <1>0 DEF MarkArrived, TourTyped
<1>s. /\ seq \in Seq(Stop) /\ DOMAIN seq = DOMAIN stops[t]
      /\ \A j \in DOMAIN stops[t] : seq[j].appt = stops[t][j].appt /\ seq[j].skipped = stops[t][j].skipped
  <2>1. Len(stops[t]) \in Nat /\ DOMAIN stops[t] = 1..Len(stops[t])
    BY <1>0, LenProperties
  <2>2. \A j \in DOMAIN stops[t] : stops[t][j] \in Stop
    BY <1>0, <2>1, ElementOfSeq
  <2> DEFINE x == TRUE  old == stops[t][i]  new == [old EXCEPT !.arrived = x]
  <2>3. x \in BOOLEAN /\ old \in Stop
    BY <2>2
  <2> HIDE DEF x, old
  <2>4. new \in Stop /\ new.appt = old.appt /\ new.skipped = old.skipped
    <3>1. new = [appt |-> old.appt, arrived |-> x, skipped |-> old.skipped]
      BY ONLY <2>3 DEF Stop
    <3>2. old.appt \in Appointment /\ old.skipped \in BOOLEAN
      BY ONLY <2>3 DEF Stop
    <3> HIDE DEF new
    <3>3. new \in Stop
      BY ONLY <3>1, <3>2, <2>3, Zenon DEF Stop
    <3>4. new.appt = old.appt
      BY ONLY <3>1
    <3>5. new.skipped = old.skipped
      BY ONLY <3>1, Zenon
    <3> QED BY ONLY <3>3, <3>4, <3>5, Zenon
  <2>5. seq = [stops[t] EXCEPT ![i] = new]
    BY DEF x, old
  <2> HIDE DEF new, seq
  <2>6. DOMAIN seq = DOMAIN stops[t] /\ seq[i] = new /\ \A j \in DOMAIN stops[t] : j # i => seq[j] = stops[t][j]
    BY <2>5
  <2>7. seq \in [1..Len(stops[t]) -> Stop]
    BY <2>1, <2>2, <2>4, <2>5
  <2>8. \A j \in DOMAIN stops[t] : seq[j].appt = stops[t][j].appt /\ seq[j].skipped = stops[t][j].skipped
    BY <2>4, <2>6 DEF old
  <2> QED BY <2>1, <2>6, <2>7, <2>8
<1> HIDE DEF seq
<1>3. row \in TourRow /\ row = [status |-> h.status, version |-> h.version + 1, driver |-> h.driver,
                  plan |-> h.plan, route |-> h.route, base |-> h.base, calculated |-> h.calculated]
  BY <1>0, RowChanges
<1> HIDE DEF row
<1>4. VisitsStay /\ visit' \in [Clerk -> TourVisit]
  BY <1>0, <1>2, VisitKept
<1>5. Distinct(seq)
  BY <1>0, <1>s DEF Distinct
<1>6. appt' \in ApptRows /\ \A a \in Appointment : appt'[a].status = appt[a].status /\ appt'[a].when = appt[a].when
  BY <1>0, <1>2, ApptKept
<1>f. row.status = "active" /\ row.driver = tour[t].driver
  BY <1>0, <1>3
<1>7. Becomes(t, row, seq, incident[t], place[t])
  BY <1>0, <1>2, <1>3, <1>4, <1>5, <1>6, <1>f, <1>s DEF Becomes
<1>8. TourTyped' /\ tour'[t] = row /\ stops'[t] = seq /\ ApptsGoOn(t)
  BY <1>0, <1>7, OthersGoOn
<1>9. KeepsStops(stops'[t], t)
  BY <1>8, <1>s DEF KeepsStops
<1>10. TourGoesOn(t)
  <2>1. /\ tour'[t].version = tour[t].version + 1 /\ tour'[t].plan = tour[t].plan
        /\ tour'[t].route = tour[t].route /\ tour'[t].base = tour[t].base
        /\ tour'[t].calculated = tour[t].calculated /\ tour'[t].status = "active"
    BY <1>0, <1>3, <1>8
  <2> QED BY <1>0, <1>8, <1>9, <2>1, RowRaised DEF OpenStatus
<1> QED BY <1>0, <1>2, <1>4, <1>7, <1>10, <1>f, OneTour

(* Steps that leave the tours as they are.                                   *)
LEMMA ToursStay ==
    ASSUME TourInv, TourTyped', UNCHANGED <<tour, stops, deputy, away>>, depot <= depot', VisitsStay,
           EndedTourIsQuiet',
           \A a \in Appointment :
              /\ appt[a].status # "scheduled" => appt'[a].status = appt[a].status
              /\ news'[a] = "none" => news[a] = "none" /\ appt'[a].when = appt[a].when
    PROVE  TourInv'
<1>0. TourTyped
  BY DEF TourInv
<1>1. ASSUME NEW t \in Tour PROVE TourGoesOn(t)
  <2>1. Due(t) \subseteq Appointment
    BY <1>0, DueKnown
  <2>2. ApptsGoOn(t)
    BY <2>1 DEF ApptsGoOn
  <2> QED BY <1>0, <2>2, SameTour
<1>2. PlansGoOn
  BY <1>1 DEF PlansGoOn
<1>3. ToursAreKept
  BY DEF ToursAreKept
<1> QED BY <1>2, <1>3, InvKept

LEMMA OnlyVisits ==
    ASSUME TourInv, UNCHANGED <<tour, stops, appt, news, depot, deputy, away>>, VisitsStay,
           visit' \in [Clerk -> TourVisit], place' \in [Tour -> Driver \cup {None}],
           incident' \in [Tour -> Incidents],
           \A t \in Tour : tour[t].status # "active" =>
              (place'[t] = place[t] \/ place'[t] = None) /\ (incident'[t] = incident[t] \/ incident'[t] = Quiet)
    PROVE  TourInv'
<1>0. TourTyped /\ EndedTourIsQuiet
  BY DEF TourInv
<1>1. TourTyped'
  BY <1>0 DEF TourTyped, Distinct, ApptRows
<1>2. EndedTourIsQuiet'
  BY <1>0 DEF EndedTourIsQuiet, Quiet
<1>3. depot <= depot'
  BY <1>0 DEF TourTyped
<1> QED BY <1>1, <1>2, <1>3, ToursStay

LEMMA DriveTyped ==
    ASSUME TourTyped, NEW w \in Clerk, visit[w].op \in {"place", "resolve", "apply", "notify"}
    PROVE  /\ visit[w] \in DriveVisit /\ visit[w].tour \in Tour
           /\ visit[w].op = "place" => visit[w].user \in Driver \cup {None}
           /\ visit[w].op # "place" => visit[w].version \in Int /\ visit[w].late \in SUBSET Appointment
<1>1. visit[w] \in TourVisit /\ visit[w].op \in {"place", "resolve", "apply", "notify"}
  BY DEF TourTyped
<1>2. visit[w] \notin PlanVisit
  BY <1>1 DEF PlanVisit
<1>3. visit[w] \notin HeldVisit
  BY <1>1 DEF HeldVisit
<1>4. visit[w] # NoVisit
  BY <1>1 DEF NoVisit
<1>5. visit[w] \in DriveVisit
  BY <1>1, <1>2, <1>3, <1>4 DEF TourVisit
<1> QED BY <1>5 DEF DriveVisit

LEMMA EndKeeps ==
    ASSUME TourInv, NEW w \in Clerk, RollBack(w) \/ PlanRefused(w) \/ EvaluationDropped(w) PROVE TourInv'
<1>1. TourTyped /\ End(w) /\ UNCHANGED <<tour, stops, appt, news, depot, deputy, away, place, incident>>
  BY DEF TourInv, RollBack, PlanRefused, EvaluationDropped
<1>2. VisitsStay /\ visit' \in [Clerk -> TourVisit]
  BY <1>1, VisitEnds
<1>3. place' \in [Tour -> Driver \cup {None}] /\ incident' \in [Tour -> Incidents]
  BY <1>1 DEF TourTyped
<1> QED BY <1>1, <1>2, <1>3, OnlyVisits

LEMMA LocationAuthorizedKeeps ==
    ASSUME TourInv, NEW w \in Clerk, NEW t \in Tour, LocationAuthorized(w, t) PROVE TourInv'
<1> DEFINE v == [op |-> "place", tour |-> t, user |-> Effective(t)]
<1>1. TourTyped /\ visit' = [visit EXCEPT ![w] = v]
      /\ UNCHANGED <<tour, stops, appt, news, depot, deputy, away, place, incident>>
  BY DEF TourInv, LocationAuthorized, Begin
<1>2. Effective(t) \in Driver \cup {None}
  BY <1>1 DEF TourTyped, TourRow, Effective
<1>3. v \in TourVisit /\ v.op = "place"
  BY <1>2 DEF TourVisit, DriveVisit
<1> HIDE DEF v
<1>4. VisitsStay /\ visit' \in [Clerk -> TourVisit]
  BY <1>1, <1>3, VisitSet
<1>5. place' \in [Tour -> Driver \cup {None}] /\ incident' \in [Tour -> Incidents]
  BY <1>1 DEF TourTyped
<1> QED BY <1>1, <1>4, <1>5, OnlyVisits

LEMMA LocationUpdateKeeps == ASSUME TourInv, NEW w \in Clerk, LocationUpdate(w) PROVE TourInv'
<1> DEFINE t == visit[w].tour
           pl == IF StillActive(t) THEN visit[w].user ELSE place[t]
<1>1. TourTyped /\ End(w) /\ UNCHANGED <<tour, stops, appt, news, depot, deputy, away, incident>>
      /\ visit[w].op = "place" /\ place' = [place EXCEPT ![t] = pl]
  BY DEF TourInv, LocationUpdate
<1>2. VisitsStay /\ visit' \in [Clerk -> TourVisit]
  BY <1>1, VisitEnds
<1>3. t \in Tour /\ pl \in Driver \cup {None} /\ (tour[t].status # "active" => pl = place[t])
  BY <1>1, DriveTyped DEF TourTyped, StillActive
<1> HIDE DEF t, pl
<1>4. place' \in [Tour -> Driver \cup {None}] /\ incident' \in [Tour -> Incidents]
      /\ \A o \in Tour : tour[o].status # "active" => place'[o] = place[o]
  BY <1>1, <1>3 DEF TourTyped
<1> QED BY <1>1, <1>2, <1>4, OnlyVisits

LEMMA EvaluateKeeps ==
    ASSUME TourInv, NEW w \in Clerk, NEW t \in Tour, NEW late \in SUBSET Appointment, Evaluate(w, t, late)
    PROVE  TourInv'
<1> DEFINE op == IF OpenOf(t) = {} THEN "resolve" ELSE "apply"
           v == [op |-> op, tour |-> t, version |-> tour[t].version, late |-> late]
<1>1. TourTyped /\ visit' = [visit EXCEPT ![w] = v]
      /\ UNCHANGED <<tour, stops, appt, news, depot, deputy, away, place, incident>>
  BY DEF TourInv, Evaluate, Begin
<1>2. tour[t].version \in Int /\ op \in {"resolve", "apply"}
  BY <1>1 DEF TourTyped, TourRow
<1> HIDE DEF op
<1>3. v \in TourVisit /\ v.op = op
  BY <1>2 DEF TourVisit, DriveVisit
<1> HIDE DEF v
<1>4. VisitsStay /\ visit' \in [Clerk -> TourVisit]
  BY <1>1, <1>2, <1>3, VisitSet
<1>5. place' \in [Tour -> Driver \cup {None}] /\ incident' \in [Tour -> Incidents]
  BY <1>1 DEF TourTyped
<1> QED BY <1>1, <1>4, <1>5, OnlyVisits

LEMMA ReportsKeep ==
    ASSUME TourInv, NEW t \in Tour, NEW inc \in Incidents, tour[t].status # "active" => inc = Quiet,
           incident' = [incident EXCEPT ![t] = inc], VisitsStay, visit' \in [Clerk -> TourVisit],
           UNCHANGED <<tour, stops, appt, news, depot, deputy, away, place>>
    PROVE  TourInv'
<1>1. place' \in [Tour -> Driver \cup {None}] /\ incident' \in [Tour -> Incidents]
      /\ \A o \in Tour : tour[o].status # "active" => incident'[o] = incident[o] \/ incident'[o] = Quiet
  BY DEF TourInv, TourTyped
<1> QED BY <1>1, OnlyVisits

LEMMA ResolveAllKeeps == ASSUME TourInv, NEW w \in Clerk, ResolveAll(w) PROVE TourInv'
<1>1. TourTyped /\ End(w) /\ UNCHANGED <<tour, stops, appt, news, depot, deputy, away, place>>
      /\ visit[w].op = "resolve" /\ incident' = [incident EXCEPT ![visit[w].tour] = Quiet]
  BY DEF TourInv, ResolveAll
<1>2. VisitsStay /\ visit' \in [Clerk -> TourVisit] /\ visit[w].tour \in Tour
  BY <1>1, VisitEnds, DriveTyped
<1> QED BY <1>1, <1>2, QuietTyped, ReportsKeep

LEMMA ApplyIncidentsKeeps == ASSUME TourInv, NEW w \in Clerk, ApplyIncidents(w) PROVE TourInv'
<1> DEFINE t == visit[w].tour
           late == visit[w].late \cap OpenOf(t)
           inc == [a \in Appointment |-> IF a \notin late THEN "none"
                                         ELSE IF incident[t][a] = "none" THEN "open" ELSE incident[t][a]]
           v == [visit[w] EXCEPT !.op = "notify"]
<1>1. TourTyped /\ visit' = [visit EXCEPT ![w] = v] /\ UNCHANGED <<tour, stops, appt, news, depot, deputy, away, place>>
      /\ visit[w].op = "apply" /\ tour[t].status = "active"
  BY DEF TourInv, ApplyIncidents, Continue, LockUnchanged, StillActive
<1>2. visit[w] \in DriveVisit /\ t \in Tour
  BY <1>1, DriveTyped
<1>3. incident' = [incident EXCEPT ![t] = inc] /\ inc \in Incidents
  BY <1>1, <1>2 DEF ApplyIncidents, TourTyped, Incidents
<1>4. v \in TourVisit /\ v.op = "notify"
  BY <1>1, <1>2 DEF TourVisit, DriveVisit
<1> HIDE DEF v
<1>5. VisitsStay /\ visit' \in [Clerk -> TourVisit]
  BY <1>1, <1>4, VisitSet
<1> HIDE DEF t, inc
<1> QED BY <1>1, <1>2, <1>3, <1>5, ReportsKeep

LEMMA NotifyPendingKeeps == ASSUME TourInv, NEW w \in Clerk, NotifyPending(w) PROVE TourInv'
<1> DEFINE t == visit[w].tour
           inc == [a \in Appointment |-> IF incident[t][a] # "open" THEN incident[t][a]
                                         ELSE IF a \in OpenOf(t) THEN "told" ELSE "none"]
<1>1. TourTyped /\ End(w) /\ UNCHANGED <<tour, stops, appt, news, depot, deputy, away, place>>
      /\ visit[w].op = "notify" /\ tour[t].status = "active"
  BY DEF TourInv, NotifyPending, LockUnchanged, StillActive
<1>2. t \in Tour
  BY <1>1, DriveTyped
<1>3. incident' = [incident EXCEPT ![t] = inc] /\ inc \in Incidents
  BY <1>1, <1>2 DEF NotifyPending, TourTyped, Incidents
<1>5. VisitsStay /\ visit' \in [Clerk -> TourVisit]
  BY <1>1, VisitEnds
<1> HIDE DEF t, inc
<1> QED BY <1>1, <1>2, <1>3, <1>5, ReportsKeep

(* The others.                                                               *)
LEMMA OthersKeep ==
    ASSUME TourInv, appt' \in ApptRows, news' \in [Appointment -> {"none", "times", "cancelled", "lost"}],
           depot' \in Int, depot <= depot', UNCHANGED <<tour, stops, place, incident, deputy, away, visit>>,
           \A a \in Appointment :
              /\ appt[a].status # "scheduled" => appt'[a].status = appt[a].status
              /\ news'[a] = "none" => news[a] = "none" /\ appt'[a].when = appt[a].when
              /\ news'[a] = "cancelled" => appt'[a].status = "cancelled"
    PROVE  TourInv'
<1>0. TourTyped /\ EndedTourIsQuiet
  BY DEF TourInv
<1>1. TourTyped'
  BY <1>0 DEF TourTyped, Distinct
<1>2. EndedTourIsQuiet'
  BY <1>0 DEF EndedTourIsQuiet, Quiet
<1> QED BY <1>0, <1>1, <1>2, ToursStay, VisitKept

LEMMA AppointmentKeeps ==
    ASSUME TourInv, NEW a \in Appointment,
           ListenerFails(a) \/ AppointmentMoves(a) \/ AppointmentDone(a) \/ ProcessCancelled(a)
    PROVE  TourInv'
<1>0. TourTyped /\ appt \in ApptRows /\ news \in [Appointment -> {"none", "times", "cancelled", "lost"}]
      /\ depot \in Int
      /\ \A b \in Appointment : news[b] = "cancelled" => appt[b].status = "cancelled"
  BY DEF TourInv, TourTyped
<1>a. appt[a].when \in Int /\ \A b \in Appointment : appt[b].status \in {"scheduled", "completed", "cancelled"}
  BY <1>0 DEF ApptRows
<1>1. UNCHANGED <<tour, stops, place, incident, deputy, away, visit>> /\ depot' = depot
  BY DEF ListenerFails, AppointmentMoves, AppointmentDone, ProcessCancelled
<1>2. CASE ListenerFails(a)
  <2>1. news' = [news EXCEPT ![a] = "lost"] /\ appt' = appt /\ news[a] # "none"
    BY <1>2 DEF ListenerFails
  <2> QED BY <1>0, <1>1, <2>1, OthersKeep
<1>3. CASE AppointmentMoves(a)
  <2>1. news' = [news EXCEPT ![a] = "times"] /\ appt' = [appt EXCEPT ![a].when = @ + 1]
    BY <1>3 DEF AppointmentMoves
  <2>2. appt' \in ApptRows
    BY <1>0, <1>a, <2>1 DEF ApptRows
  <2>3. /\ appt'[a].status = appt[a].status /\ news'[a] = "times"
        /\ \A b \in Appointment \ {a} : appt'[b] = appt[b] /\ news'[b] = news[b]
    BY <1>0, <2>1 DEF ApptRows
  <2> QED BY <1>0, <1>1, <2>1, <2>2, <2>3, OthersKeep
<1>4. CASE AppointmentDone(a)
  <2>1. news' = news /\ appt' = [appt EXCEPT ![a].status = "completed"] /\ appt[a].status = "scheduled"
    BY <1>4 DEF AppointmentDone
  <2>2. appt' \in ApptRows
    BY <1>0, <2>1 DEF ApptRows
  <2>3. /\ appt'[a].status = "completed" /\ appt'[a].when = appt[a].when
        /\ \A b \in Appointment \ {a} : appt'[b] = appt[b]
    BY <1>0, <2>1 DEF ApptRows
  <2> QED BY <1>0, <1>1, <2>1, <2>2, <2>3, OthersKeep
<1>5. CASE ProcessCancelled(a)
  <2>1. news' = [news EXCEPT ![a] = "cancelled"] /\ appt' = [appt EXCEPT ![a].status = "cancelled"]
        /\ appt[a].status = "scheduled"
    BY <1>5 DEF ProcessCancelled
  <2>2. appt' \in ApptRows
    BY <1>0, <2>1 DEF ApptRows
  <2>3. /\ appt'[a].status = "cancelled" /\ appt'[a].when = appt[a].when /\ news'[a] = "cancelled"
        /\ \A b \in Appointment \ {a} : appt'[b] = appt[b] /\ news'[b] = news[b]
    BY <1>0, <2>1 DEF ApptRows
  <2> QED BY <1>0, <1>1, <2>1, <2>2, <2>3, OthersKeep
<1> QED BY <1>2, <1>3, <1>4, <1>5

LEMMA DepotMovesKeeps == ASSUME TourInv, DepotMoves PROVE TourInv'
<1>0. TourTyped /\ appt \in ApptRows /\ news \in [Appointment -> {"none", "times", "cancelled", "lost"}]
      /\ depot \in Int
      /\ \A b \in Appointment : news[b] = "cancelled" => appt[b].status = "cancelled"
  BY DEF TourInv, TourTyped
<1>1. depot' = depot + 1 /\ UNCHANGED <<tour, stops, appt, news, place, incident, deputy, away, visit>>
  BY DEF DepotMoves
<1> QED BY <1>0, <1>1, OthersKeep

(* The listeners.                                                            *)
LEMMA ListenerKeeps ==
    ASSUME TourInv, NEW a \in Appointment, \A t \in ToursWith(a) : RowFree(t),
           NEW row \in [Tour -> TourRow], NEW seq \in [Tour -> Seq(Stop)], NEW inc \in [Tour -> Incidents],
           \A t \in Tour : Distinct(seq[t]),
           tour' = [t \in Tour |-> IF t \in ToursWith(a) THEN row[t] ELSE tour[t]],
           stops' = [t \in Tour |-> IF t \in ToursWith(a) THEN seq[t] ELSE stops[t]],
           incident' = [t \in Tour |-> IF t \in ToursWith(a) THEN inc[t] ELSE incident[t]],
           news' = [news EXCEPT ![a] = "none"], UNCHANGED <<appt, depot, place, deputy, away, visit>>,
           \A t \in Tour :
              /\ row[t].status = tour[t].status /\ row[t].driver = tour[t].driver
              /\ incident[t] = Quiet => inc[t] = Quiet
              /\ \/ row[t].version = tour[t].version + 1 /\ ~InPlan(row[t])
                 \/ row[t] = tour[t] /\ seq[t] = stops[t] /\ appt[a].status = "cancelled"
    PROVE  TourInv'
<1>0. TourTyped /\ EndedTourIsQuiet
  BY DEF TourInv
<1>n. news' \in [Appointment -> {"none", "times", "cancelled", "lost"}]
      /\ \A b \in Appointment : (news'[b] = "cancelled" => appt[b].status = "cancelled")
                                /\ (b # a => news'[b] = news[b])
  BY <1>0 DEF TourTyped
<1>1. TourTyped'
  <2>1. tour' \in [Tour -> TourRow] /\ stops' \in [Tour -> Seq(Stop)] /\ incident' \in [Tour -> Incidents]
    BY <1>0 DEF TourTyped
  <2>2. \A t \in Tour : Distinct(stops[t])'
    BY <1>0 DEF TourTyped, Distinct
  <2> QED BY <1>0, <1>n, <2>1, <2>2 DEF TourTyped, ApptRows
<1>2. ASSUME NEW t \in Tour PROVE tour'[t].status = tour[t].status /\ tour'[t].driver = tour[t].driver
                                  /\ (incident[t] = Quiet => incident'[t] = Quiet)
  BY <1>2
<1>3. EndedTourIsQuiet'
  BY <1>0, <1>2 DEF EndedTourIsQuiet, Quiet
<1>4. ASSUME NEW t \in Tour PROVE TourGoesOn(t)
  <2>1. CASE ~Editable(t)
    <3>1. t \notin ToursWith(a) /\ tour'[t] = tour[t] /\ tour[t].version \in Int
      BY <1>0, <2>1 DEF ToursWith, TourTyped, TourRow
    <3> QED BY <2>1, <3>1 DEF TourGoesOn, Editable
  <2>2. CASE t \notin ToursWith(a) /\ Editable(t)
    <3>1. tour'[t] = tour[t] /\ stops'[t] = stops[t] /\ a \notin ApptsOf(t)
      BY <2>2 DEF ToursWith
    <3>2. Due(t) \subseteq Appointment /\ a \notin Due(t)
      BY <1>0, <3>1, DueKnown
    <3>3. ApptsGoOn(t)
      BY <1>n, <3>2 DEF ApptsGoOn
    <3> QED BY <1>0, <1>1, <3>1, <3>3, SameTour
  <2>3. CASE t \in ToursWith(a) /\ row[t].version = tour[t].version + 1 /\ ~InPlan(row[t])
    <3>1. tour'[t] = row[t] /\ tour[t].status \in OpenStatus
      BY <2>3 DEF ToursWith, Editable
    <3> QED BY <1>0, <2>3, <3>1, Dropped DEF OpenStatus
  <2>4. CASE t \in ToursWith(a) /\ row[t] = tour[t] /\ seq[t] = stops[t] /\ appt[a].status = "cancelled"
    <3>1. tour'[t] = tour[t] /\ stops'[t] = stops[t]
      BY <2>4
    <3>2. Due(t) \subseteq Appointment /\ a \notin Due(t)
      BY <1>0, <2>4, DueKnown
    <3>3. ApptsGoOn(t)
      BY <1>n, <3>2 DEF ApptsGoOn
    <3> QED BY <1>0, <1>1, <3>1, <3>3, SameTour
  <2> QED BY <2>1, <2>2, <2>3, <2>4
<1>5. PlansGoOn
  BY <1>0, <1>4 DEF PlansGoOn, TourTyped
<1>6. ToursAreKept
  <2>1. ASSUME NEW w \in Clerk, Holding(w)
        PROVE  tour'[visit[w].tour] = tour[visit[w].tour] /\ stops'[visit[w].tour] = stops[visit[w].tour]
    <3>1. visit[w].tour \in Tour
      BY <1>0, <2>1, HeldTyped
    <3>2. visit[w].tour \notin ToursWith(a)
      BY <2>1 DEF RowFree
    <3> QED BY <3>1, <3>2
  <2> QED BY <1>2, <2>1 DEF ToursAreKept
<1> QED BY <1>0, <1>1, <1>3, <1>5, <1>6, VisitKept, InvKept

LEMMA MarkStaleKeeps == ASSUME TourInv, NEW a \in Appointment, MarkStaleForAppointment(a) PROVE TourInv'
<1>0. TourTyped
  BY DEF TourInv
<1> DEFINE row == [t \in Tour |-> Bumped(OtherVersion(tour[t]))]
<1>1. ASSUME NEW t \in Tour
      PROVE  /\ row[t] \in TourRow /\ row[t].status = tour[t].status /\ row[t].driver = tour[t].driver
             /\ row[t].version = tour[t].version + 1 /\ ~InPlan(row[t])
  <2> DEFINE other == OtherVersion(tour[t])
  <2>0. tour[t] \in TourRow
    BY <1>0 DEF TourTyped
  <2>1. other \in TourRow /\ ~InPlan(other) /\ other.status = tour[t].status /\ other.driver = tour[t].driver
        /\ other.version = tour[t].version
    BY <2>0, RowChanges DEF TourRow
  <2>2. row[t] = Bumped(other)
    OBVIOUS
  <2> HIDE DEF other, row
  <2>3. row[t] \in TourRow
      /\ row[t] = [status |-> other.status, version |-> other.version + 1, driver |-> other.driver,
                  plan |-> other.plan, route |-> other.route, base |-> other.base,
                  calculated |-> other.calculated]
    BY <2>1, <2>2, RowChanges
  <2> QED BY <2>1, <2>3 DEF InPlan
<1>2. row \in [Tour -> TourRow]
  BY <1>1
<1>3. /\ stops \in [Tour -> Seq(Stop)] /\ incident \in [Tour -> Incidents]
      /\ \A t \in Tour : Distinct(stops[t])
  BY <1>0 DEF TourTyped
<1>4. /\ \A t \in ToursWith(a) : RowFree(t)
      /\ tour' = [t \in Tour |-> IF t \in ToursWith(a) THEN row[t] ELSE tour[t]]
      /\ stops' = [t \in Tour |-> IF t \in ToursWith(a) THEN stops[t] ELSE stops[t]]
      /\ incident' = [t \in Tour |-> IF t \in ToursWith(a) THEN incident[t] ELSE incident[t]]
      /\ news' = [news EXCEPT ![a] = "none"] /\ UNCHANGED <<appt, depot, place, deputy, away, visit>>
  BY <1>3 DEF MarkStaleForAppointment, ToursWith
<1> HIDE DEF row
<1>5. PICK seq, inc : seq = stops /\ inc = incident
  OBVIOUS
<1>6. /\ seq \in [Tour -> Seq(Stop)] /\ inc \in [Tour -> Incidents] /\ \A t \in Tour : Distinct(seq[t])
      /\ stops' = [t \in Tour |-> IF t \in ToursWith(a) THEN seq[t] ELSE stops[t]]
      /\ incident' = [t \in Tour |-> IF t \in ToursWith(a) THEN inc[t] ELSE incident[t]]
  BY <1>3, <1>4, <1>5
<1>7. \A t \in Tour :
         /\ row[t].status = tour[t].status /\ row[t].driver = tour[t].driver
         /\ incident[t] = Quiet => inc[t] = Quiet
         /\ \/ row[t].version = tour[t].version + 1 /\ ~InPlan(row[t])
            \/ row[t] = tour[t] /\ seq[t] = stops[t] /\ appt[a].status = "cancelled"
  BY <1>1, <1>5
<1>8. /\ \A t \in ToursWith(a) : RowFree(t)
      /\ tour' = [t \in Tour |-> IF t \in ToursWith(a) THEN row[t] ELSE tour[t]]
      /\ news' = [news EXCEPT ![a] = "none"] /\ UNCHANGED <<appt, depot, place, deputy, away, visit>>
  BY <1>4
<1> QED BY ONLY TourInv, a \in Appointment, <1>2, <1>6, <1>7, <1>8, ListenerKeeps

LEMMA MarkCancelledKeeps == ASSUME TourInv, NEW a \in Appointment, MarkCancelledStops(a) PROVE TourInv'
<1>0. TourTyped
  BY DEF TourInv
<1> DEFINE row == [t \in Tour |-> HealedRow(t)]  seq == [t \in Tour |-> HealedStops(t)]
           inc == [t \in Tour |-> HealedIncidents(t)]
<1>a. appt[a].status = "cancelled"
  BY <1>0 DEF MarkCancelledStops, TourTyped
<1>1. ASSUME NEW t \in Tour
      PROVE  /\ row[t] \in TourRow /\ row[t].status = tour[t].status /\ row[t].driver = tour[t].driver
             /\ \/ row[t].version = tour[t].version + 1 /\ ~InPlan(row[t])
                \/ row[t] = tour[t] /\ seq[t] = stops[t]
             /\ seq[t] \in Seq(Stop) /\ Distinct(seq[t]) /\ inc[t] \in Incidents
             /\ incident[t] = Quiet => inc[t] = Quiet
  <2>1. /\ HealedRow(t) \in TourRow
        /\ HealedRow(t).status = tour[t].status /\ HealedRow(t).driver = tour[t].driver
        /\ \/ HealedRow(t) = tour[t] /\ HealedStops(t) = stops[t]
           \/ HealedRow(t).version = tour[t].version + 1 /\ ~InPlan(HealedRow(t))
        /\ HealedStops(t) \in Seq(Stop) /\ HealedFrom(HealedStops(t), t)
        /\ HealedIncidents(t) \in Incidents
        /\ incident[t] = Quiet => HealedIncidents(t) = Quiet
    BY <1>0, Healing
  <2>2. Distinct(HealedStops(t))
    BY <1>0, <2>1 DEF TourTyped, Distinct, HealedFrom
  <2> QED BY <2>1, <2>2
<1>2. row \in [Tour -> TourRow] /\ seq \in [Tour -> Seq(Stop)] /\ inc \in [Tour -> Incidents]
  BY <1>1
<1>4. /\ \A t \in ToursWith(a) : RowFree(t)
      /\ tour' = [t \in Tour |-> IF t \in ToursWith(a) THEN row[t] ELSE tour[t]]
      /\ stops' = [t \in Tour |-> IF t \in ToursWith(a) THEN seq[t] ELSE stops[t]]
      /\ incident' = [t \in Tour |-> IF t \in ToursWith(a) THEN inc[t] ELSE incident[t]]
      /\ news' = [news EXCEPT ![a] = "none"] /\ UNCHANGED <<appt, depot, place, deputy, away, visit>>
  BY DEF MarkCancelledStops, ToursWith
<1> HIDE DEF row, seq, inc
<1> QED BY <1>a, <1>1, <1>2, <1>4, ListenerKeeps

(* Starting and taking over.                                                 *)
LEMMA NewHolder ==
    ASSUME TourInv, NEW w \in Clerk, NEW v \in HeldVisit, visit[w] = NoVisit, visit' = [visit EXCEPT ![w] = v],
           UNCHANGED <<tour, stops, appt, news, depot, place, incident, deputy, away>>,
           RowFree(v.tour), DriverFree(v.lock), HolderKnows(w)'
    PROVE  TourInv'
<1>0. TourTyped /\ EndedTourIsQuiet /\ OnlyHolders
  BY DEF TourInv, OnlyHolders
<1>1. TourTyped'
  <2>1. visit' \in [Clerk -> TourVisit]
    BY <1>0 DEF TourTyped, TourVisit
  <2> QED BY <1>0, <2>1 DEF TourTyped, Distinct, ApptRows
<1>2. EndedTourIsQuiet'
  BY <1>0 DEF EndedTourIsQuiet, Quiet
<1>3. visit'[w] = v /\ v.op \in {"start", "takeover"} /\ \A u \in Clerk \ {w} : visit'[u] = visit[u]
  BY <1>0 DEF TourTyped, HeldVisit
<1>4. PlansGoOn
  <2>1. ASSUME NEW t \in Tour PROVE TourGoesOn(t)
    <3>1. ApptsGoOn(t)
      BY DEF ApptsGoOn
    <3> QED BY <1>0, <1>1, <3>1, SameTour
  <2> QED BY <1>0, <2>1 DEF PlansGoOn, TourTyped
<1>5. ToursAreKept
  BY DEF ToursAreKept
<1>6. OnlyHolders'
  <2>1. OneActiveTourPerDriver'
    BY <1>0 DEF OnlyHolders, OneActiveTourPerDriver, ActiveTours, Effective
  <2>2. HoldersApart'
    <3>1. ASSUME NEW u \in Clerk \ {w}, Holding(u)'
          PROVE  visit'[u].tour # visit'[w].tour /\ visit'[u].lock # visit'[w].lock
      BY <1>3, <3>1 DEF RowFree, DriverFree, Holding
    <3>2. ASSUME NEW u \in Clerk \ {w}, NEW x \in Clerk \ {w}, Holding(u)', Holding(x)', u # x
          PROVE  visit'[u].tour # visit'[x].tour /\ visit'[u].lock # visit'[x].lock
      BY <1>0, <1>3, <3>2 DEF OnlyHolders, HoldersApart, Holding
    <3> QED BY <3>1, <3>2 DEF HoldersApart
  <2>3. ASSUME NEW u \in Clerk \ {w}, Holding(u)' PROVE HolderKnows(u)'
    <3>1. Holding(u) /\ visit'[u] = visit[u] /\ HolderKnows(u)
      BY <1>0, <1>3, <2>3 DEF Holding, OnlyHolders
    <3> QED BY <1>0, <1>5, <3>1, HolderStillKnows
  <2> QED BY <2>1, <2>2, <2>3 DEF OnlyHolders
<1>7. \A u \in Clerk : visit'[u].op \in {"load", "plan"} => PlannerKnows(u)'
  <2>1. \A u \in Clerk : visit'[u].op \in {"load", "plan"} => visit'[u] = visit[u]
    BY <1>3
  <2> QED BY <1>1, <1>4, <2>1, PlansKept
<1> QED BY <1>1, <1>2, <1>4, <1>6, <1>7, PlansKept DEF TourInv, OnlyHolders

LEMMA HeldRecord ==
    ASSUME TourTyped, NEW t \in Tour, NEW op \in {"start", "takeover"}, NEW d \in Driver
    PROVE  /\ [op |-> op, tour |-> t, lock |-> d, healed |-> Healed(t)] \in HeldVisit
           /\ Healed(t).row = HealedRow(t) /\ Healed(t).stops = HealedStops(t)
<1>1. HealedRow(t) \in TourRow /\ HealedStops(t) \in Seq(Stop) /\ HealedIncidents(t) \in Incidents
  BY Healing
<1>2. Healed(t) \in [row : TourRow, stops : Seq(Stop), incident : Incidents]
      /\ Healed(t).row = HealedRow(t) /\ Healed(t).stops = HealedStops(t)
  BY <1>1 DEF Healed
<1> QED BY <1>2 DEF HeldVisit

LEMMA NewHolderKnows ==
    ASSUME TourTyped, NEW t \in Tour, NEW op \in {"start", "takeover"}, NEW d \in Driver, NEW w \in Clerk,
           visit'[w] = [op |-> op, tour |-> t, lock |-> d, healed |-> Healed(t)],
           UNCHANGED <<tour, stops, appt, deputy, away>>,
           tour[t].status \in (IF op = "start" THEN {"draft", "ready"} ELSE {"active"}),
           op = "start" => d = Effective(t),
           \A o \in ActiveTours \ {t} : Effective(o) # d
    PROVE  HolderKnows(w)'
<1> DEFINE h == HealedRow(t)  seq == HealedStops(t)
<1>1. /\ h.status = tour[t].status /\ h.driver = tour[t].driver
      /\ h = tour[t] \/ (h.version = tour[t].version + 1 /\ ~InPlan(h))
      /\ HealedFrom(seq, t)
  BY Healing
<1>2. /\ visit'[w].op = op /\ visit'[w].tour = t /\ visit'[w].lock = d
      /\ visit'[w].healed.row = h /\ visit'[w].healed.stops = seq
  BY HeldRecord
<1> HIDE DEF h
<1>3. HealedFrom(visit[w].healed.stops, t)'
  <2>1. PICK q : q = seq
    OBVIOUS
  <2>2. HealedFrom(q, t)'
    BY <1>1, <2>1 DEF HealedFrom
  <2> QED BY <1>2, <2>1, <2>2 DEF HealedFrom
<1>4. ActiveTours' = ActiveTours /\ \A o : Effective(o)' = Effective(o)
  BY DEF ActiveTours, Effective
<1> HIDE DEF seq
<1> QED BY <1>1, <1>2, <1>3, <1>4 DEF HolderKnows, InPlan

LEMMA EffectiveTyped == ASSUME TourTyped, NEW t \in Tour PROVE Effective(t) \in Driver
  BY DEF TourTyped, TourRow, Effective

LEMMA StartTourKeeps == ASSUME TourInv, NEW w \in Clerk, NEW t \in Tour, StartTour(w, t) PROVE TourInv'
<1> DEFINE v == [op |-> "start", tour |-> t, lock |-> Effective(t), healed |-> Healed(t)]
<1>0. TourTyped /\ Effective(t) \in Driver
  BY EffectiveTyped DEF TourInv
<1>1. /\ visit[w] = NoVisit /\ visit' = [visit EXCEPT ![w] = v] /\ RowFree(t)
      /\ UNCHANGED <<tour, stops, appt, news, depot, place, incident, deputy, away>>
      /\ tour[t].status \in {"draft", "ready"} /\ NoOtherActive(t, tour[t].driver, Effective(t))
  BY DEF StartTour, Begin
<1>2. v \in HeldVisit /\ v.tour = t /\ v.lock = Effective(t)
  BY <1>0, HeldRecord
<1>3. visit'[w] = v
  BY <1>0, <1>1 DEF TourTyped
<1>4. HolderKnows(w)'
  BY <1>0, <1>1, <1>3, NewHolderKnows DEF NoOtherActive
<1> HIDE DEF v
<1> QED BY <1>1, <1>2, <1>4, NewHolder DEF NoOtherActive

LEMMA TakeoverKeeps ==
    ASSUME TourInv, NEW w \in Clerk, NEW t \in Tour, NEW d \in Driver, Takeover(w, t, d) PROVE TourInv'
<1> DEFINE v == [op |-> "takeover", tour |-> t, lock |-> d, healed |-> Healed(t)]
<1>0. TourTyped
  BY DEF TourInv
<1>1. /\ visit[w] = NoVisit /\ visit' = [visit EXCEPT ![w] = v] /\ RowFree(t)
      /\ UNCHANGED <<tour, stops, appt, news, depot, place, incident, deputy, away>>
      /\ tour[t].status = "active" /\ NoOtherActive(t, d, d)
  BY DEF Takeover, Begin
<1>2. v \in HeldVisit /\ v.tour = t /\ v.lock = d
  BY <1>0, HeldRecord
<1>3. visit'[w] = v
  BY <1>0, <1>1 DEF TourTyped
<1>4. HolderKnows(w)'
  BY <1>0, <1>1, <1>3, NewHolderKnows DEF NoOtherActive
<1> HIDE DEF v
<1> QED BY <1>1, <1>2, <1>4, NewHolder DEF NoOtherActive

(* The commit of a start or a take-over: the tour is active with the driver  *)
(* whose lock was held.                                                      *)
LEMMA Committed ==
    ASSUME TourInv, NEW w \in Clerk, Holding(w), End(w), NEW row \in TourRow, NEW pl \in Driver \cup {None},
           row.status = "active", row.version = visit[w].healed.row.version + 1,
           row.plan = visit[w].healed.row.plan, row.route = visit[w].healed.row.route,
           row.base = visit[w].healed.row.base, row.calculated = visit[w].healed.row.calculated,
           visit[w].tour \notin away' =>
              (IF deputy[row.driver] # None THEN deputy[row.driver] ELSE row.driver) = visit[w].lock,
           \A o \in Tour \ {visit[w].tour} : o \in away' <=> o \in away,
           tour' = [tour EXCEPT ![visit[w].tour] = row],
           stops' = [stops EXCEPT ![visit[w].tour] = visit[w].healed.stops],
           incident' = [incident EXCEPT ![visit[w].tour] = visit[w].healed.incident],
           place' = [place EXCEPT ![visit[w].tour] = pl], UNCHANGED <<news, depot, deputy>>,
           appt' \in ApptRows,
           \A a \in Appointment : appt'[a].status = appt[a].status /\ appt'[a].when = appt[a].when
    PROVE  TourInv'
<1> DEFINE h == visit[w].healed.row  seq == visit[w].healed.stops  inc == visit[w].healed.incident
<1>0. TourTyped /\ EndedTourIsQuiet /\ OnlyHolders /\ HolderKnows(w)
  BY DEF TourInv, OnlyHolders
<1>t. PICK t \in Tour : t = visit[w].tour
  BY <1>0, HeldTyped
<1>1. visit[w].lock \in Driver /\ h \in TourRow /\ seq \in Seq(Stop) /\ inc \in Incidents
  BY <1>0, HeldTyped
<1>2. /\ h = tour[t] \/ (h.version = tour[t].version + 1 /\ ~InPlan(h))
      /\ HealedFrom(seq, t) /\ tour[t].status \in OpenStatus
      /\ \A o \in ActiveTours \ ({t} \cup away) : Effective(o) # visit[w].lock
  BY <1>0, <1>t DEF HolderKnows, OpenStatus
<1>3. /\ VisitsStay /\ visit' \in [Clerk -> TourVisit] /\ visit'[w] = NoVisit
      /\ \A u \in Clerk \ {w} : visit'[u] = visit[u]
  BY <1>0, VisitEnds DEF End, TourTyped
<1>d. Distinct(seq)
  <2>1. Distinct(stops[t])
    BY <1>0 DEF TourTyped
  <2> HIDE DEF seq
  <2> QED BY <1>2, <2>1 DEF Distinct, HealedFrom
<1>e. /\ tour' = [tour EXCEPT ![t] = row] /\ stops' = [stops EXCEPT ![t] = seq]
      /\ incident' = [incident EXCEPT ![t] = inc] /\ place' = [place EXCEPT ![t] = pl]
  BY <1>t
<1>f. /\ row.version = h.version + 1 /\ row.plan = h.plan /\ row.route = h.route
      /\ row.base = h.base /\ row.calculated = h.calculated
  OBVIOUS
<1> HIDE DEF h, seq, inc
<1>4. Becomes(t, row, seq, inc, pl)
  BY <1>1, <1>3, <1>d, <1>e DEF Becomes
<1>5. /\ TourTyped' /\ EndedTourIsQuiet' /\ (TourGoesOn(t) => PlansGoOn)
      /\ tour'[t] = row /\ stops'[t] = seq /\ ApptsGoOn(t)
      /\ \A o \in Tour \ {t} : tour'[o] = tour[o] /\ stops'[o] = stops[o]
  BY <1>0, <1>1, <1>4, OthersGoOn
<1>6. TourGoesOn(t)
  BY <1>0, <1>1, <1>2, <1>5, <1>f, HealedGoesOn
<1>7. t \notin away' => Effective(t)' = visit[w].lock
  BY <1>5, <1>t DEF Effective
<1>8. \A o \in Tour \ {t} : 
          /\ tour'[o].status = "active" => o \in ActiveTours /\ Effective(o)' = Effective(o)
          /\ o \in away' <=> o \in away
  BY <1>5, <1>t DEF ActiveTours, Effective
<1>9. OnlyHolders'
  <2>1. OneActiveTourPerDriver'
    <3>1. ASSUME NEW o \in ActiveTours' \ away', NEW q \in ActiveTours' \ away', o # q PROVE Effective(o)' # Effective(q)'
      <4>1. o \in Tour /\ q \in Tour /\ tour'[o].status = "active" /\ tour'[q].status = "active"
        BY <3>1 DEF ActiveTours
      <4>2. CASE o = t
        BY <1>2, <1>7, <1>8, <3>1, <4>1, <4>2
      <4>3. CASE q = t
        BY <1>2, <1>7, <1>8, <3>1, <4>1, <4>3
      <4>4. CASE o # t /\ q # t
        BY <1>0, <1>8, <3>1, <4>1, <4>4 DEF OnlyHolders, OneActiveTourPerDriver
      <4> QED BY <4>2, <4>3, <4>4
    <3> QED BY <3>1 DEF OneActiveTourPerDriver
  <2>2. \A u \in Clerk : Holding(u)' => u # w /\ Holding(u) /\ visit'[u] = visit[u]
    BY <1>3 DEF Holding, NoVisit
  <2>3. HoldersApart'
    BY <1>0, <2>2 DEF OnlyHolders, HoldersApart
  <2>4. ASSUME NEW u \in Clerk, Holding(u)' PROVE HolderKnows(u)'
    <3>1. u # w /\ Holding(u) /\ visit'[u] = visit[u] /\ HolderKnows(u)
      BY <1>0, <2>2, <2>4 DEF OnlyHolders
    <3>2. visit[u].tour # t /\ visit[u].lock # visit[w].lock
      BY <1>0, <3>1, <1>t DEF OnlyHolders, HoldersApart
    <3>3. visit[u].tour \in Tour
      BY <1>0, <3>1, HeldTyped
    <3>4. tour'[visit[u].tour] = tour[visit[u].tour] /\ stops'[visit[u].tour] = stops[visit[u].tour]
      BY <1>5, <3>2, <3>3
    <3>5. ASSUME NEW o \in Tour \ ({visit[u].tour} \cup away'), tour'[o].status = "active"
          PROVE  Effective(o)' # visit[u].lock
      <4>1. CASE o = t
        BY <1>7, <3>2, <4>1
      <4>2. CASE o # t
        BY <1>8, <3>1, <3>5, <4>2 DEF HolderKnows
      <4> QED BY <4>1, <4>2
    <3> QED BY <1>0, <3>1, <3>4, <3>5, HolderStill
  <2> QED BY <2>1, <2>3, <2>4 DEF OnlyHolders
<1>10. \A u \in Clerk : visit'[u].op \in {"load", "plan"} => PlannerKnows(u)'
  BY <1>3, <1>5, <1>6, PlansKept DEF VisitsStay
<1> QED BY <1>5, <1>6, <1>9, <1>10, PlansKept DEF TourInv, OnlyHolders

LEMMA CommitStartKeeps == ASSUME TourInv, NEW w \in Clerk, CommitStart(w) PROVE TourInv'
<1> DEFINE t == visit[w].tour  h == visit[w].healed.row
           row == [Bumped(h) EXCEPT !.status = "active"]
<1>0. TourTyped /\ visit[w].op = "start" /\ Holding(w) /\ HolderKnows(w)
  BY DEF TourInv, CommitStart, Holding
<1>1. t \in Tour /\ h \in TourRow /\ h.driver \in Driver
  BY <1>0, HeldTyped DEF TourRow
<1>2. row \in TourRow /\ row = [status |-> "active", version |-> h.version + 1, driver |-> h.driver,
                  plan |-> h.plan, route |-> h.route, base |-> h.base, calculated |-> h.calculated]
  BY <1>1, TourRowSet
<1>3. h.driver = tour[t].driver /\ visit[w].lock = Effective(t)
  BY <1>0 DEF HolderKnows
<1>4. /\ End(w) /\ tour' = [tour EXCEPT ![t] = row] /\ stops' = [stops EXCEPT ![t] = visit[w].healed.stops]
      /\ incident' = [incident EXCEPT ![t] = visit[w].healed.incident]
      /\ UNCHANGED <<appt, news, depot, place, deputy, away>>
  BY DEF CommitStart
<1>5. place[t] \in Driver \cup {None} /\ place' = [place EXCEPT ![t] = place[t]]
  BY <1>0, <1>1, <1>4 DEF TourTyped
<1> HIDE DEF h, row
<1>6. /\ row.status = "active" /\ row.version = h.version + 1 /\ row.plan = h.plan /\ row.route = h.route
      /\ row.base = h.base /\ row.calculated = h.calculated /\ row.driver = h.driver
  BY <1>2
<1>7. (IF deputy[row.driver] # None THEN deputy[row.driver] ELSE row.driver) = visit[w].lock
  BY <1>3, <1>6 DEF Effective
<1> QED BY <1>0, <1>2, <1>4, <1>5, <1>6, <1>7, ApptKept, Committed DEF h

LEMMA CommitTakeoverKeeps == ASSUME TourInv, NEW w \in Clerk, CommitTakeover(w) PROVE TourInv'
<1> DEFINE t == visit[w].tour  h == visit[w].healed.row  d == visit[w].lock
           row == [Bumped(h) EXCEPT !.driver = d]
<1>0. TourTyped /\ visit[w].op = "takeover" /\ Holding(w) /\ HolderKnows(w)
  BY DEF TourInv, CommitTakeover, Holding
<1>1. t \in Tour /\ h \in TourRow /\ d \in Driver
  BY <1>0, HeldTyped DEF TourRow
<1>2. row \in TourRow /\ row = [status |-> h.status, version |-> h.version + 1, driver |-> d,
                  plan |-> h.plan, route |-> h.route, base |-> h.base, calculated |-> h.calculated]
  BY <1>1, TourRowSet
<1>3. h.status = "active"
  BY <1>0 DEF HolderKnows
<1>4. /\ End(w) /\ tour' = [tour EXCEPT ![t] = row] /\ stops' = [stops EXCEPT ![t] = visit[w].healed.stops]
      /\ incident' = [incident EXCEPT ![t] = visit[w].healed.incident]
      /\ place' = [place EXCEPT ![t] = None]
      /\ appt' = [a \in Appointment |-> IF a \in Due(t) THEN [appt[a] EXCEPT !.assigned = d] ELSE appt[a]]
      /\ UNCHANGED <<news, depot, deputy>>
  BY DEF CommitTakeover
<1>5. /\ appt' \in ApptRows
      /\ \A a \in Appointment : appt'[a].status = appt[a].status /\ appt'[a].when = appt[a].when
  <2>1. appt \in ApptRows
    BY <1>0 DEF TourTyped
  <2> QED BY <1>1, <1>4, <2>1 DEF ApptRows
<1> HIDE DEF h, row
<1>6. /\ row.status = "active" /\ row.version = h.version + 1 /\ row.plan = h.plan /\ row.route = h.route
      /\ row.base = h.base /\ row.calculated = h.calculated /\ row.driver = d
  BY <1>2, <1>3
<1>7. /\ t \notin away' => (IF deputy[row.driver] # None THEN deputy[row.driver] ELSE row.driver) = d
      /\ \A o \in Tour \ {t} : o \in away' <=> o \in away
  BY <1>6 DEF CommitTakeover
<1> QED BY <1>0, <1>2, <1>4, <1>5, <1>6, <1>7, Committed DEF h

(* Planning.                                                                 *)
LEMMA NewPlanner ==
    ASSUME TourInv, NEW w \in Clerk, NEW v \in PlanVisit, ~Holding(w), visit' = [visit EXCEPT ![w] = v],
           UNCHANGED <<tour, stops, appt, news, depot, place, incident, deputy, away>>, PlannerKnows(w)'
    PROVE  TourInv'
<1>0. TourTyped /\ EndedTourIsQuiet /\ OnlyHolders
  BY DEF TourInv, OnlyHolders
<1>1. TourTyped'
  <2>1. visit' \in [Clerk -> TourVisit]
    BY <1>0 DEF TourTyped, TourVisit
  <2> QED BY <1>0, <2>1 DEF TourTyped, Distinct, ApptRows
<1>2. EndedTourIsQuiet'
  BY <1>0 DEF EndedTourIsQuiet, Quiet
<1>3. visit'[w] = v /\ v.op \in {"load", "plan"} /\ \A u \in Clerk \ {w} : visit'[u] = visit[u]
  BY <1>0 DEF TourTyped, PlanVisit
<1>4. PlansGoOn
  <2>1. ASSUME NEW t \in Tour PROVE TourGoesOn(t)
    <3>1. ApptsGoOn(t)
      BY DEF ApptsGoOn
    <3> QED BY <1>0, <1>1, <3>1, SameTour
  <2> QED BY <1>0, <2>1 DEF PlansGoOn, TourTyped
<1>5. ToursAreKept
  BY DEF ToursAreKept
<1>6. OnlyHolders'
  <2>1. HoldersStay
    BY <1>3 DEF HoldersStay, Holding
  <2> QED BY <1>0, <1>5, <2>1, LocksStay
<1>7. \A u \in Clerk : visit'[u].op \in {"load", "plan"} => PlannerKnows(u)'
  <2>1. ASSUME NEW u \in Clerk \ {w}, visit'[u].op \in {"load", "plan"} PROVE PlannerKnows(u)'
    BY <1>1, <1>3, <1>4, <2>1, PlansKept
  <2> QED BY <2>1
<1> QED BY <1>1, <1>2, <1>4, <1>6, <1>7, PlansKept DEF TourInv, OnlyHolders

LEMMA TimedFits ==
    ASSUME TourTyped, NEW t \in Tour PROVE Timed(t) \in SUBSET Leg /\ Fits(t, Timed(t))
<1>1. \A i \in Remaining(t) : i \in DOMAIN stops[t] /\ stops[t][i].appt \in Appointment
  BY Remains DEF StopFacts, Remaining
<1>i. \A i \in Remaining(t) : i \in Int
  <2>1. stops[t] \in Seq(Stop)
    BY DEF TourTyped
  <2> QED BY <1>1, <2>1, LenProperties
<1>2. ASSUME NEW r \in Timed(t)
      PROVE  \E i \in Remaining(t) :
                /\ r = [appt |-> stops[t][i].appt, place |-> i, when |-> appt[stops[t][i].appt].when]
                /\ r.appt = stops[t][i].appt /\ r.place = i /\ r.when = appt[stops[t][i].appt].when
  BY <1>2 DEF Timed
<1>3. Timed(t) \in SUBSET Leg
  <2>1. \A a \in Appointment : appt[a].when \in Int
    BY DEF TourTyped, ApptRows
  <2> SUFFICES ASSUME NEW r \in Timed(t) PROVE r \in Leg
    OBVIOUS
  <2>2. PICK i \in Remaining(t) :
           r = [appt |-> stops[t][i].appt, place |-> i, when |-> appt[stops[t][i].appt].when]
    BY <1>2
  <2> QED BY <1>1, <1>i, <2>1, <2>2 DEF Leg
<1>4. Due(t) \subseteq {r.appt : r \in Timed(t)}
  <2> SUFFICES ASSUME NEW i \in Remaining(t) PROVE \E r \in Timed(t) : r.appt = stops[t][i].appt
    BY DEF Due
  <2> DEFINE r == [appt |-> stops[t][i].appt, place |-> i, when |-> appt[stops[t][i].appt].when]
  <2>1. r \in Timed(t) /\ r.appt = stops[t][i].appt
    BY DEF Timed
  <2> HIDE DEF r
  <2> QED BY <2>1
<1>5. Distinct(stops[t])
  BY DEF TourTyped
<1>6. ASSUME NEW i \in Remaining(t), NEW r \in Timed(t), r.appt = stops[t][i].appt PROVE r.place = i
  <2>1. PICK k \in Remaining(t) : r.appt = stops[t][k].appt /\ r.place = k
    BY <1>2
  <2> QED BY <1>1, <1>5, <1>6, <2>1 DEF Distinct
<1>7. \A r \in Timed(t) : r.when = appt[r.appt].when
  BY <1>2
<1> QED BY <1>3, <1>4, <1>6, <1>7 DEF Fits

LEMMA PlanLoadKeeps == ASSUME TourInv, NEW w \in Clerk, NEW t \in Tour, PlanLoad(w, t) PROVE TourInv'
<1>0. TourTyped /\ tour[t].version \in Int /\ depot \in Int
  BY DEF TourInv, TourTyped, TourRow
<1>1. PICK legs : legs = Timed(t)
  OBVIOUS
<1>2. PICK now : now = depot
  OBVIOUS
<1>3. PICK version : version = tour[t].version
  OBVIOUS
<1> DEFINE v == [op |-> "load", tour |-> t, version |-> version, route |-> legs, now |-> now]
<1>4. /\ visit[w] = NoVisit /\ visit' = [visit EXCEPT ![w] = v] /\ Editable(t)
      /\ UNCHANGED <<tour, stops, appt, news, depot, place, incident, deputy, away>>
  BY <1>1, <1>2, <1>3 DEF PlanLoad, Begin
<1>5. legs \in SUBSET Leg /\ Fits(t, legs)
  BY <1>0, <1>1, TimedFits
<1>6. /\ v \in PlanVisit /\ v.op = "load" /\ v.tour = t /\ v.version = version /\ v.route = legs /\ v.now = now
      /\ visit'[w] = v /\ ~Holding(w)
  BY <1>0, <1>2, <1>3, <1>4, <1>5 DEF PlanVisit, TourTyped, Holding, NoVisit
<1> HIDE DEF v
<1>7. Fits(t, legs)'
  <2>1. StillFits(t)
    BY <1>4 DEF StillFits, Remaining, StopState
  <2> QED BY <1>5, <2>1, FitsStays
<1>8. PlannerKnows(w)'
  <2>1. version <= tour'[t].version /\ now <= depot' /\ Editable(t)'
    BY <1>0, <1>2, <1>3, <1>4 DEF Editable
  <2> QED BY <1>6, <1>7, <2>1 DEF PlannerKnows
<1> QED BY <1>4, <1>6, <1>8, NewPlanner

LEMMA PlanPrepareKeeps == ASSUME TourInv, NEW w \in Clerk, PlanPrepare(w) PROVE TourInv'
<1>0. TourTyped /\ visit[w].op = "load" /\ PlannerKnows(w) /\ depot \in Int
  BY DEF TourInv, TourTyped, PlanPrepare
<1>1. PICK old : old = visit[w]
  OBVIOUS
<1>2. PICK base : base = depot
  OBVIOUS
<1> DEFINE v == [op |-> "plan", tour |-> old.tour, version |-> old.version, route |-> old.route,
                 now |-> old.now, base |-> base]
<1>3. /\ visit' = [visit EXCEPT ![w] = v]
      /\ UNCHANGED <<tour, stops, appt, news, depot, place, incident, deputy, away>>
  BY <1>1, <1>2 DEF PlanPrepare, Continue
<1>4. old.tour \in Tour /\ old.version \in Int /\ old.route \in SUBSET Leg /\ old.now \in Int /\ base \in Int
  BY <1>0, <1>1, <1>2, PlannerTyped
<1>5. /\ v \in PlanVisit /\ v.op = "plan" /\ v.tour = old.tour /\ v.version = old.version /\ v.route = old.route
      /\ v.now = old.now /\ v.base = base /\ visit'[w] = v /\ ~Holding(w)
  BY <1>0, <1>3, <1>4 DEF PlanVisit, TourTyped, Holding
<1> HIDE DEF v
<1>6. PICK t \in Tour : t = old.tour
  BY <1>4
<1>7. /\ old.version <= tour[t].version /\ old.now <= base
      /\ old.version = tour[t].version => Editable(t) /\ Fits(t, old.route)
  BY <1>0, <1>1, <1>2, <1>6 DEF PlannerKnows
<1>8. StillFits(t) /\ (Editable(t) => Editable(t)')
  BY <1>3 DEF StillFits, Remaining, StopState, Editable
<1>9. old.version = tour'[t].version => Editable(t)' /\ Fits(t, old.route)'
  BY <1>3, <1>7, <1>8, FitsStays
<1>10. PlannerKnows(w)'
  <2>1. old.version <= tour'[t].version /\ old.now <= depot' /\ base <= depot' /\ old.now <= base
    BY <1>0, <1>2, <1>3, <1>4, <1>7
  <2> QED BY <1>5, <1>6, <1>9, <2>1 DEF PlannerKnows
<1> QED BY <1>3, <1>5, <1>10, NewPlanner

(* A new plan for a tour nobody holds.                                       *)
LEMMA NewPlan ==
    ASSUME TourInv, NEW t \in Tour, NEW row, NEW seq, NEW inc, NEW pl, Becomes(t, row, seq, inc, pl), VisitsStay,
           RowFree(t), Editable(t), row.status = tour[t].status, row.driver = tour[t].driver,
           row.version = tour[t].version + 1, Fits(t, row.route)',
           row.calculated <= row.base, row.base <= depot, UNCHANGED <<appt, away>>
    PROVE  TourInv'
<1>0. TourTyped /\ EndedTourIsQuiet /\ OnlyHolders
  BY DEF TourInv, OnlyHolders
<1>1. /\ TourTyped' /\ EndedTourIsQuiet' /\ tour'[t] = row /\ stops'[t] = seq
      /\ \A o \in Tour \ {t} : tour'[o] = tour[o] /\ stops'[o] = stops[o] /\ TourGoesOn(o)
  BY <1>0, OthersGoOn
<1>2. ToursAreKept
  <2>1. deputy' = deputy /\ away' = away
    BY DEF Becomes
  <2>2. ASSUME NEW o \in Tour, tour'[o].status = "active"
        PROVE  tour[o].status = "active" /\ tour'[o].driver = tour[o].driver
    BY <1>1, <2>2
  <2>3. ASSUME NEW w \in Clerk, Holding(w)
        PROVE  tour'[visit[w].tour] = tour[visit[w].tour] /\ stops'[visit[w].tour] = stops[visit[w].tour]
    <3>1. visit[w].tour \in Tour /\ visit[w].tour # t
      BY <1>0, <2>3, HeldTyped DEF RowFree
    <3> QED BY <1>1, <3>1
  <2> QED BY <2>1, <2>2, <2>3 DEF ToursAreKept
<1>3. OnlyHolders'
  <2>1. HoldersStay
    BY DEF VisitsStay, HoldersStay, Holding
  <2> QED BY <1>0, <1>2, <2>1, LocksStay
<1>4. depot' = depot /\ depot \in Int /\ tour[t].version \in Int
  BY <1>0 DEF Becomes, TourTyped, TourRow
<1>5. ASSUME NEW o \in Tour PROVE PlanFits(o)'
  <2>1. CASE o = t
    <3>1. tour'[t].status # "absent" /\ tour'[t].calculated <= tour'[t].base /\ tour'[t].base <= depot'
      BY <1>1, <1>4 DEF Editable, OpenStatus
    <3>2. PICK legs : legs = row.route
      OBVIOUS
    <3>3. Fits(t, legs)' /\ tour'[t].route = legs
      BY <1>1, <3>2
    <3>4. Fits(t, tour[t].route)'
      BY <3>3
    <3> QED BY <2>1, <3>1, <3>4 DEF PlanFits
  <2>2. CASE o # t
    <3>1. TourGoesOn(o) /\ PlanFits(o) /\ depot <= depot'
      BY <1>1, <1>4, <2>2 DEF TourInv
    <3> QED BY <1>0, <1>1, <3>1, PlanStays
  <2> QED BY <2>1, <2>2
<1>6. ASSUME NEW w \in Clerk, visit'[w].op \in {"load", "plan"} PROVE PlannerKnows(w)'
  <2>1. visit'[w] = visit[w] /\ visit[w].op \in {"load", "plan"} /\ PlannerKnows(w) /\ visit[w].tour \in Tour
        /\ visit[w].version \in Int
    BY <1>0, <1>6, PlannerTyped DEF VisitsStay, TourInv
  <2>2. CASE visit[w].tour # t
    <3>1. TourGoesOn(visit[w].tour) /\ depot <= depot'
      BY <1>1, <1>4, <2>1, <2>2
    <3> QED BY <1>0, <1>1, <2>1, <3>1, PlannerStays
  <2>3. CASE visit[w].tour = t
    <3>1. visit[w].version <= tour[t].version /\ tour'[t].version = tour[t].version + 1
          /\ visit[w].now <= depot /\ (visit[w].op = "plan" => visit[w].now <= visit[w].base /\ visit[w].base <= depot)
      BY <1>1, <2>1, <2>3 DEF PlannerKnows
    <3>2. visit[w].version <= tour'[t].version /\ visit[w].version # tour'[t].version
      BY <1>4, <2>1, <3>1
    <3> QED BY <1>4, <2>1, <2>3, <3>1, <3>2 DEF PlannerKnows
  <2> QED BY <2>2, <2>3
<1> QED BY <1>1, <1>3, <1>5, <1>6 DEF TourInv, OnlyHolders

PlannedRow(h, result, legs, base, now) ==
    [Bumped(h) EXCEPT !.plan = result, !.route = legs, !.base = base, !.calculated = now]
LEMMA RowPlanned ==
    ASSUME NEW h \in TourRow, NEW result \in {"planned", "infeasible"}, NEW legs \in SUBSET Leg,
           NEW base \in Int, NEW now \in Int,
           NEW row, row = PlannedRow(h, result, legs, base, now)
    PROVE  /\ row \in TourRow /\ row.status = h.status /\ row.driver = h.driver /\ row.version = h.version + 1
           /\ row.route = legs /\ row.base = base /\ row.calculated = now
<1> DEFINE b == Bumped(h)
<1>1. b \in TourRow /\ b = [status |-> h.status, version |-> h.version + 1, driver |-> h.driver,
                  plan |-> h.plan, route |-> h.route, base |-> h.base, calculated |-> h.calculated]
  BY RowChanges
<1> HIDE DEF b
<1> DEFINE x == [b EXCEPT !.plan = result]  y == [x EXCEPT !.route = legs]
           z == [y EXCEPT !.base = base]
<1>2. row = [z EXCEPT !.calculated = now]
  BY DEF b, PlannedRow
<1>3. x = [status |-> h.status, version |-> h.version + 1, driver |-> h.driver,
           plan |-> result, route |-> h.route, base |-> h.base, calculated |-> h.calculated]
  BY <1>1
<1> HIDE DEF x
<1>4. y = [status |-> h.status, version |-> h.version + 1, driver |-> h.driver,
           plan |-> result, route |-> legs, base |-> h.base, calculated |-> h.calculated]
  BY <1>3
<1> HIDE DEF y
<1>5. z = [status |-> h.status, version |-> h.version + 1, driver |-> h.driver,
           plan |-> result, route |-> legs, base |-> base, calculated |-> h.calculated]
  BY <1>4
<1> HIDE DEF z
<1>6. row = [status |-> h.status, version |-> h.version + 1, driver |-> h.driver,
             plan |-> result, route |-> legs, base |-> base, calculated |-> now]
  BY <1>2, <1>5
<1>7. row \in TourRow
  <2>1. h.status \in {"absent", "draft", "ready", "active", "completed", "cancelled"}
        /\ h.version + 1 \in Int /\ h.driver \in Driver
    BY DEF TourRow
  <2>2. result \in {"none", "planned", "infeasible", "stale"}
    OBVIOUS
  <2> QED BY ONLY <1>6, <2>1, <2>2, legs \in SUBSET Leg, base \in Int, now \in Int, Zenon DEF TourRow
<1>8. /\ row.status = h.status /\ row.driver = h.driver /\ row.version = h.version + 1
      /\ row.route = legs /\ row.base = base /\ row.calculated = now
  BY ONLY <1>6
<1> QED BY <1>7, <1>8

LEMMA RecalculateKeeps ==
    ASSUME TourInv, NEW w \in Clerk, NEW result \in {"planned", "infeasible"}, Recalculate(w, result)
    PROVE  TourInv'
<1>0. TourTyped /\ EndedTourIsQuiet /\ visit[w].op = "plan" /\ PlannerKnows(w) /\ Writable(w) /\ End(w)
  BY DEF TourInv, Recalculate
<1>1. PICK t \in Tour : t = visit[w].tour
  BY <1>0, PlannerTyped
<1>2. PICK legs, base, now : legs = visit[w].route /\ base = visit[w].base /\ now = visit[w].now
  OBVIOUS
<1>3. /\ legs \in SUBSET Leg /\ base \in Int /\ now \in Int /\ tour[t] \in TourRow
      /\ incident[t] \in Incidents /\ place[t] \in Driver \cup {None}
      /\ stops[t] \in Seq(Stop) /\ Distinct(stops[t])
  BY <1>0, <1>2, PlannerTyped DEF TourTyped
<1>4. /\ Editable(t) /\ RowFree(t) /\ Fits(t, legs) /\ now <= base /\ base <= depot
  BY <1>0, <1>1, <1>2 DEF PlannerKnows, Writable
<1>5. PICK row : row = PlannedRow(tour[t], result, legs, base, now)
  OBVIOUS
<1>6. /\ row \in TourRow /\ row.status = tour[t].status /\ row.driver = tour[t].driver
      /\ row.version = tour[t].version + 1 /\ row.route = legs /\ row.base = base /\ row.calculated = now
  BY <1>3, <1>5, RowPlanned
<1>7. /\ tour' = [tour EXCEPT ![t] = row] /\ stops' = [stops EXCEPT ![t] = stops[t]]
      /\ incident' = [incident EXCEPT ![t] = incident[t]] /\ place' = [place EXCEPT ![t] = place[t]]
      /\ UNCHANGED <<stops, appt, news, depot, deputy, away>>
  BY <1>0, <1>1, <1>2, <1>5 DEF Recalculate, Stored, TourTyped, PlannedRow
<1>8. VisitsStay /\ visit' \in [Clerk -> TourVisit]
  BY <1>0, VisitEnds
<1>9. row.status # "active" => place[t] = None /\ incident[t] = Quiet
  BY <1>0, <1>6 DEF EndedTourIsQuiet
<1>10. Becomes(t, row, stops[t], incident[t], place[t])
  BY <1>0, <1>3, <1>6, <1>7, <1>8, <1>9, ApptKept DEF Becomes
<1>11. Fits(t, legs)'
  <2>1. StillFits(t)
    BY <1>7 DEF StillFits, Remaining, StopState
  <2> QED BY <1>4, <2>1, FitsStays
<1>12. Fits(t, row.route)'
  BY <1>6, <1>11
<1> QED BY <1>4, <1>6, <1>7, <1>8, <1>10, <1>12, NewPlan

LEMMA OrderCovers ==
    ASSUME TourTyped, NEW t \in Tour, NEW p \in Orders(t), NEW k \in DOMAIN stops[t]
    PROVE  \E i \in DOMAIN stops[t] : p[i] = k
<1> DEFINE D == DOMAIN stops[t]
<1>1. stops[t] \in Seq(Stop)
  BY DEF TourTyped
<1>2. D = 1..Len(stops[t]) /\ Len(stops[t]) \in Nat
  BY <1>1, LenProperties
<1>3. IsFiniteSet(D)
  BY <1>2, FS_Interval
<1>4. p \in Injection(D, D)
  BY DEF Orders, Injection
<1> HIDE DEF D
<1>5. p \in Surjection(D, D)
  BY <1>3, <1>4, FS_Injection
<1> QED BY <1>5 DEF Surjection, D

(* The legs of a plan in the order that is stored with it.                   *)
NewLegs(t, p, legs) == {[r EXCEPT !.place = PlaceOf(Ordered(t, p), r.appt)] : r \in legs}

LEMMA LegsMoved ==
    ASSUME TourTyped, NEW t \in Tour, NEW p \in Orders(t), NEW legs \in SUBSET Leg,
           {r.appt : r \in legs} = Due(t)
    PROVE  /\ NewLegs(t, p, legs) \in SUBSET Leg
           /\ \A i \in DOMAIN stops[t] : PlaceOf(Ordered(t, p), Ordered(t, p)[i].appt) = i
           /\ \A n \in NewLegs(t, p, legs) : \E r \in legs :
                 n.appt = r.appt /\ n.when = r.when /\ n.place = PlaceOf(Ordered(t, p), r.appt)
           /\ \A r \in legs : \E n \in NewLegs(t, p, legs) : n.appt = r.appt
<1> DEFINE seq == Ordered(t, p)  new == NewLegs(t, p, legs)
<1>1. /\ Distinct(seq) /\ p \in [DOMAIN stops[t] -> DOMAIN stops[t]]
      /\ DOMAIN seq = DOMAIN stops[t] /\ \A i \in DOMAIN stops[t] : seq[i] = stops[t][p[i]]
  BY OrderedTyped
<1>2. DOMAIN stops[t] = 1..Len(stops[t]) /\ Len(stops[t]) \in Nat
  <2>1. stops[t] \in Seq(Stop)
    BY DEF TourTyped
  <2> QED BY <2>1, LenProperties
<1>e. new = {[r EXCEPT !.place = PlaceOf(seq, r.appt)] : r \in legs}
  BY DEF NewLegs
<1> HIDE DEF seq, new
<1>3. \A i \in DOMAIN seq : PlaceOf(seq, seq[i].appt) = i
  BY <1>1 DEF PlaceOf, Distinct
<1>5. ASSUME NEW n \in new
      PROVE  /\ n \in Leg
             /\ \E r \in legs : n.appt = r.appt /\ n.when = r.when /\ n.place = PlaceOf(seq, r.appt)
  <2>1. PICK r \in legs : n = [r EXCEPT !.place = PlaceOf(seq, r.appt)]
    BY <1>5, <1>e
  <2>2. r \in Leg /\ r.appt \in Due(t)
    OBVIOUS
  <2>3. PICK k \in DOMAIN stops[t] : r.appt = stops[t][k].appt
    BY <2>2 DEF Due, Remaining
  <2>4. PICK i \in DOMAIN stops[t] : p[i] = k
    BY OrderCovers
  <2>5. PlaceOf(seq, r.appt) = i
    BY <1>1, <1>3, <2>3, <2>4
  <2> DEFINE spot == PlaceOf(seq, r.appt)
  <2>6. spot \in Int
    BY <1>2, <2>5
  <2>7. n = [r EXCEPT !.place = spot]
    BY <2>1
  <2> HIDE DEF spot
  <2>8. n = [appt |-> r.appt, place |-> spot, when |-> r.when]
    BY <2>2, <2>7 DEF Leg
  <2>9. n \in Leg /\ n.appt = r.appt /\ n.when = r.when /\ n.place = spot
    BY <2>2, <2>6, <2>8 DEF Leg
  <2> QED BY <2>9 DEF spot
<1>6. new \in SUBSET Leg
  BY <1>5
<1>7. ASSUME NEW r \in legs PROVE \E n \in new : n.appt = r.appt
  <2> DEFINE n == [r EXCEPT !.place = PlaceOf(seq, r.appt)]
  <2>2. n \in new /\ n.appt = r.appt
    BY <1>e DEF Leg
  <2> HIDE DEF n
  <2> QED BY <2>2
<1> QED BY <1>1, <1>3, <1>5, <1>6, <1>7 DEF seq, new

LEMMA NewOrder ==
    ASSUME TourTyped, TourTyped', NEW t \in Tour, NEW p \in Orders(t), NEW legs \in SUBSET Leg, Fits(t, legs),
           {r.appt : r \in legs} = Due(t), stops'[t] = Ordered(t, p), UNCHANGED <<appt, news>>,
           NEW new, new = NewLegs(t, p, legs)
    PROVE  Fits(t, new)'
<1> DEFINE seq == Ordered(t, p)
<1>1. p \in [DOMAIN stops[t] -> DOMAIN stops[t]]
      /\ DOMAIN seq = DOMAIN stops[t] /\ \A i \in DOMAIN stops[t] : seq[i] = stops[t][p[i]]
  BY OrderedTyped
<1>2. /\ \A i \in DOMAIN stops[t] : PlaceOf(seq, seq[i].appt) = i
      /\ \A n \in new : \E r \in legs :
                 n.appt = r.appt /\ n.when = r.when /\ n.place = PlaceOf(seq, r.appt)
      /\ \A r \in legs : \E n \in new : n.appt = r.appt
  BY LegsMoved
<1>e. stops'[t] = seq
  OBVIOUS
<1> HIDE DEF seq
<1>4. ASSUME NEW i \in Remaining(t)'
      PROVE  /\ i \in DOMAIN stops[t] /\ p[i] \in Remaining(t) /\ stops'[t][i] = seq[i]
             /\ stops'[t][i].appt = stops[t][p[i]].appt /\ stops'[t][i].appt \in Due(t)
  <2>1. i \in DOMAIN stops'[t]
    BY <1>4 DEF Remaining
  <2>2. i \in DOMAIN stops[t] /\ stops'[t][i] = stops[t][p[i]] /\ p[i] \in DOMAIN stops[t]
    BY <2>1, <1>1, <1>e
  <2>3. appt'[stops'[t][i].appt].status = "scheduled" /\ ~stops'[t][i].skipped
    BY <1>4, <2>1, RemainsNext DEF StopFacts
  <2>4. p[i] \in Remaining(t)
    BY <2>2, <2>3, Remains DEF StopFacts
  <2> QED BY <1>e, <2>2, <2>4 DEF Due
<1>7. Due(t)' \subseteq {n.appt : n \in new}
  <2> SUFFICES ASSUME NEW i \in Remaining(t)' PROVE \E n \in new : n.appt = stops'[t][i].appt
    BY DEF Due
  <2>1. PICK r \in legs : r.appt = stops'[t][i].appt
    BY <1>4 DEF Fits
  <2> QED BY <1>2, <2>1
<1>8. ASSUME NEW i \in Remaining(t)', NEW n \in new, n.appt = stops'[t][i].appt PROVE n.place = i
  BY <1>2, <1>4, <1>8
<1>9. ASSUME NEW n \in new, n.appt \in Due(t)', news'[n.appt] = "none" PROVE n.when = appt'[n.appt].when
  <2>1. PICK r \in legs : n.appt = r.appt /\ n.when = r.when
    BY <1>2
  <2>2. n.appt \in Due(t)
    BY <1>4, <1>9 DEF Due
  <2> QED BY <1>9, <2>1, <2>2 DEF Fits
<1>10. \A i, j \in Remaining(t)', n, m \in new :
          n.appt = stops'[t][i].appt /\ m.appt = stops'[t][j].appt => (i < j <=> n.place < m.place)
  BY <1>8
<1> QED BY <1>7, <1>9, <1>10 DEF Fits

LEMMA ApplyKeeps ==
    ASSUME TourInv, NEW w \in Clerk, NEW result \in {"planned", "infeasible"},
           NEW p \in Orders(visit[w].tour), Apply(w, p, result)
    PROVE  TourInv'
<1>0. TourTyped /\ EndedTourIsQuiet /\ visit[w].op = "plan" /\ PlannerKnows(w) /\ Writable(w) /\ End(w)
  BY DEF TourInv, Apply
<1>1. PICK t \in Tour : t = visit[w].tour
  BY <1>0, PlannerTyped
<1>2. PICK legs, base, now : legs = visit[w].route /\ base = visit[w].base /\ now = visit[w].now
  OBVIOUS
<1>3. PICK new : new = NewLegs(t, p, legs)
  OBVIOUS
<1>4. PICK seq : seq = Ordered(t, p)
  OBVIOUS
<1>o. p \in Orders(t)
  BY <1>1
<1>5. /\ legs \in SUBSET Leg /\ base \in Int /\ now \in Int /\ tour[t] \in TourRow
      /\ incident[t] \in Incidents /\ place[t] \in Driver \cup {None}
      /\ seq \in Seq(Stop) /\ Distinct(seq)
  BY <1>0, <1>2, <1>4, <1>o, PlannerTyped, OrderedTyped DEF TourTyped
<1>6. /\ Editable(t) /\ RowFree(t) /\ Fits(t, legs) /\ now <= base /\ base <= depot
      /\ {r.appt : r \in legs} = Due(t)
  BY <1>0, <1>1, <1>2 DEF PlannerKnows, Writable, InOrder
<1>7. PICK row : row = PlannedRow(tour[t], result, new, base, now)
  OBVIOUS
<1>8. /\ tour' = [tour EXCEPT ![t] = row] /\ stops' = [stops EXCEPT ![t] = seq]
      /\ incident' = [incident EXCEPT ![t] = incident[t]] /\ place' = [place EXCEPT ![t] = place[t]]
      /\ UNCHANGED <<appt, news, depot, deputy, away>>
  BY <1>0, <1>1, <1>2, <1>3, <1>4, <1>7 DEF Apply, Stored, TourTyped, PlannedRow, NewLegs
<1>9. VisitsStay /\ visit' \in [Clerk -> TourVisit]
  BY <1>0, VisitEnds
<1>10. new \in SUBSET Leg
  BY <1>0, <1>3, <1>5, <1>6, <1>o, LegsMoved
<1>11. /\ row \in TourRow /\ row.status = tour[t].status /\ row.driver = tour[t].driver
       /\ row.version = tour[t].version + 1 /\ row.route = new /\ row.base = base /\ row.calculated = now
  BY <1>5, <1>7, <1>10, RowPlanned
<1>12. row.status # "active" => place[t] = None /\ incident[t] = Quiet
  BY <1>0, <1>11 DEF EndedTourIsQuiet
<1>13. Becomes(t, row, seq, incident[t], place[t])
  BY <1>0, <1>5, <1>8, <1>9, <1>11, <1>12, ApptKept DEF Becomes
<1>14. TourTyped' /\ stops'[t] = seq
  BY <1>0, <1>13, OthersGoOn
<1>15. Fits(t, new)'
  BY <1>0, <1>3, <1>4, <1>5, <1>6, <1>8, <1>14, <1>o, NewOrder
<1>16. Fits(t, row.route)'
  BY <1>11, <1>15
<1> QED BY <1>6, <1>8, <1>9, <1>11, <1>13, <1>16, NewPlan

(* The beginning.                                                            *)
LEMMA TourBegins == TourInit => TourInv
<1> SUFFICES ASSUME TourInit PROVE TourInv
  OBVIOUS
<1>1. PICK drv \in [Tour -> Driver], st \in [Tour -> {"absent", "draft"}] : tour = [t \in Tour |-> NewTour(st[t], drv[t])]
  BY DEF TourInit
<1>2. PICK order \in [Tour -> SetToAllKPermutations(Appointment)] :
          stops = [t \in Tour |-> [i \in DOMAIN order[t] |-> NewStop(order[t][i])]]
  BY DEF TourInit
<1>3. /\ appt = [a \in Appointment |-> [status |-> "scheduled", when |-> 0, assigned |-> None]]
      /\ news = [a \in Appointment |-> "none"] /\ depot = 0
      /\ place = [t \in Tour |-> None] /\ incident = [t \in Tour |-> Quiet]
      /\ deputy \in [Driver -> Driver \cup {None}] /\ visit = [w \in Clerk |-> NoVisit]
  BY DEF TourInit, ActorsInit
<1>4. ASSUME NEW t \in Tour
      PROVE  /\ tour[t] \in TourRow /\ tour[t].plan = "none" /\ tour[t].status \in {"absent", "draft"}
  <2>1. tour[t] = NewTour(st[t], drv[t]) /\ st[t] \in {"absent", "draft"} /\ drv[t] \in Driver
    BY <1>1
  <2> QED BY <2>1 DEF NewTour, TourRow
<1>5. ASSUME NEW t \in Tour PROVE stops[t] \in Seq(Stop) /\ Distinct(stops[t])
  <2>1. PICK S \in SUBSET Appointment : order[t] \in SetToSeqs(S)
    BY DEF SetToAllKPermutations
  <2>2. Cardinality(S) \in Nat
    BY TourAssumption, FS_Subset, FS_CardinalityType
  <2>3. order[t] \in [1..Cardinality(S) -> S]
        /\ \A i, j \in 1..Cardinality(S) : i # j => order[t][i] # order[t][j]
    BY <2>1 DEF SetToSeqs
  <2>4. stops[t] = [i \in 1..Cardinality(S) |-> NewStop(order[t][i])]
    BY <1>2, <2>3
  <2>5. \A i \in 1..Cardinality(S) : NewStop(order[t][i]) \in Stop /\ NewStop(order[t][i]).appt = order[t][i]
    BY <2>3 DEF NewStop, Stop
  <2>6. stops[t] \in [1..Cardinality(S) -> Stop]
    BY <2>4, <2>5
  <2>7. DOMAIN stops[t] = 1..Cardinality(S) /\ \A i \in 1..Cardinality(S) : stops[t][i].appt = order[t][i]
    BY <2>4, <2>5
  <2>8. Distinct(stops[t])
    BY <2>3, <2>7 DEF Distinct
  <2> QED BY <2>2, <2>6, <2>8
<1>6. TourTyped
  <2>1. tour \in [Tour -> TourRow]
    BY <1>1, <1>4
  <2>2. stops \in [Tour -> Seq(Stop)] /\ \A t \in Tour : Distinct(stops[t])
    BY <1>2, <1>5
  <2>3. appt \in ApptRows /\ news \in [Appointment -> {"none", "times", "cancelled", "lost"}]
        /\ \A a \in Appointment : news[a] # "cancelled"
    BY <1>3 DEF ApptRows
  <2>4. depot \in Int /\ place \in [Tour -> Driver \cup {None}] /\ incident \in [Tour -> Incidents]
        /\ visit \in [Clerk -> TourVisit]
    BY <1>3, QuietTyped DEF TourVisit
  <2> QED BY <1>3, <2>1, <2>2, <2>3, <2>4 DEF TourTyped
<1>7. \A w \in Clerk : visit[w].op = "none"
  BY <1>3 DEF NoVisit
<1>8. EndedTourIsQuiet
  BY <1>3 DEF EndedTourIsQuiet
<1>9. OneActiveTourPerDriver /\ HoldersApart
  BY <1>4, <1>7 DEF OneActiveTourPerDriver, ActiveTours, HoldersApart, Holding
<1>10. \A t \in Tour : PlanFits(t)
  BY <1>4 DEF PlanFits, InPlan
<1>11. \A w \in Clerk : ~Holding(w) /\ visit[w].op \notin {"load", "plan"}
  BY <1>7 DEF Holding
<1> QED BY <1>6, <1>8, <1>9, <1>10, <1>11 DEF TourInv

LEMMA TourStep == TourInv /\ [TourNext]_tourVars => TourInv'
<1> SUFFICES ASSUME TourInv, [TourNext]_tourVars PROVE TourInv'
  OBVIOUS
<1>1. ASSUME NEW t \in Tour,
             \/ HealOnRead(t) \/ UpdateStop(t) \/ MarkReady(t) \/ Cancel(t)
             \/ \E d \in Driver : Create(t, d)
             \/ \E a \in Appointment, reassign \in BOOLEAN : AddStop(t, a, reassign)
             \/ \E i \in DOMAIN stops[t] : RemoveStop(t, i) \/ MarkArrived(t, i)
             \/ \E p \in Orders(t) : Reorder(t, p)
             \/ \E force \in BOOLEAN : EndTour(t, force)
      PROVE  TourInv'
  BY <1>1, HealOnReadKeeps, UpdateStopKeeps, MarkReadyKeeps, CancelKeeps, CreateKeeps, AddStopKeeps,
     RemoveStopKeeps, MarkArrivedKeeps, ReorderKeeps, EndTourKeeps
<1>2. ASSUME NEW t \in Tour, NEW w \in Clerk,
             \/ StartTour(w, t) \/ PlanLoad(w, t) \/ LocationAuthorized(w, t)
             \/ \E d \in Driver : Takeover(w, t, d)
             \/ \E late \in SUBSET Appointment : Evaluate(w, t, late)
      PROVE  TourInv'
  BY <1>2, StartTourKeeps, PlanLoadKeeps, LocationAuthorizedKeeps, TakeoverKeeps, EvaluateKeeps
<1>3. ASSUME NEW w \in Clerk,
             \/ CommitStart(w) \/ CommitTakeover(w) \/ RollBack(w) \/ PlanPrepare(w) \/ PlanRefused(w)
             \/ \E result \in {"planned", "infeasible"} :
                    Recalculate(w, result) \/ \E p \in Orders(visit[w].tour) : Apply(w, p, result)
             \/ LocationUpdate(w) \/ ResolveAll(w) \/ ApplyIncidents(w) \/ NotifyPending(w)
             \/ EvaluationDropped(w)
      PROVE  TourInv'
  BY <1>3, CommitStartKeeps, CommitTakeoverKeeps, EndKeeps, PlanPrepareKeeps, RecalculateKeeps, ApplyKeeps,
     LocationUpdateKeeps, ResolveAllKeeps, ApplyIncidentsKeeps, NotifyPendingKeeps
<1>4. ASSUME NEW a \in Appointment,
             \/ MarkStaleForAppointment(a) \/ MarkCancelledStops(a) \/ ListenerFails(a)
             \/ AppointmentMoves(a) \/ AppointmentDone(a) \/ ProcessCancelled(a)
      PROVE  TourInv'
  BY <1>4, MarkStaleKeeps, MarkCancelledKeeps, AppointmentKeeps
<1>5. CASE UNCHANGED tourVars
  <2>1. TourTyped /\ UNCHANGED <<tour, stops, appt, news, depot, place, incident, deputy, away, visit>>
    BY <1>5 DEF TourInv, tourVars
  <2>2. VisitsStay /\ visit' \in [Clerk -> TourVisit]
    BY <2>1, VisitKept
  <2>3. place' \in [Tour -> Driver \cup {None}] /\ incident' \in [Tour -> Incidents]
    BY <2>1 DEF TourTyped
  <2> QED BY <2>1, <2>2, <2>3, OnlyVisits
<1> QED BY <1>1, <1>2, <1>3, <1>4, <1>5, DepotMovesKeeps DEF TourNext

LEMMA RouteStillFits ==
    ASSUME TourTyped, NEW t \in Tour, PlanFits(t), InPlan(tour[t]), Editable(t), ~HealingNeeded(t),
           \A s \in Range(stops[t]) : news[s.appt] = "none"
    PROVE  RouteFits(t)
<1> DEFINE legs == {r \in tour[t].route : r.appt \in Due(t)}
<1>1. Fits(t, tour[t].route) /\ tour[t].calculated <= tour[t].base /\ tour[t].base <= depot
  BY DEF PlanFits
<1>2. {r.appt : r \in legs} = Due(t)
  BY <1>1 DEF Fits
<1>3. InOrder(t, legs)
  BY <1>1, <1>2 DEF InOrder, Fits
<1>4. \A a \in Due(t) : news[a] = "none"
  BY DEF Due, Remaining, Range
<1>5. \A r \in legs : r.when = appt[r.appt].when
  BY <1>1, <1>4 DEF Fits
<1>6. tour[t].base = depot
  <2>1. ~DepotMoved(t)
    BY DEF HealingNeeded
  <2>2. depot \in Int /\ tour[t].calculated \in Int /\ tour[t].base \in Int
    BY DEF TourTyped, TourRow
  <2> QED BY <1>1, <2>1, <2>2 DEF DepotMoved
<1> QED BY <1>3, <1>5, <1>6 DEF RouteFits

LEMMA TourInvSafe == TourInv => TourSafety
<1> SUFFICES ASSUME TourInv PROVE PlanMatchesStops
  BY DEF TourSafety, TourInv
<1> SUFFICES ASSUME NEW t \in Tour, InPlan(tour[t]), Editable(t), ~HealingNeeded(t),
                    \A s \in Range(stops[t]) : news[s.appt] = "none"
             PROVE  RouteFits(t)
  BY DEF PlanMatchesStops
<1> QED BY RouteStillFits DEF TourInv

(* Planning, driving, reports of the location and of delays, changes of the  *)
(* appointments and news that come late or not at all, in any order: a tour  *)
(* shown as planned has the route of what it still has to drive, a tour that *)
(* has ended is quiet, and nobody drives two active tours - but for a tour   *)
(* taken over by somebody for whom another drives.                           *)
THEOREM TourIsSafe == TourSpec => []TourSafety
<1>1. TourInit => TourInv
  BY TourBegins
<1>2. TourInv /\ [TourNext]_tourVars => TourInv'
  BY TourStep
<1>3. TourInv => TourSafety
  BY TourInvSafe
<1> QED BY <1>1, <1>2, <1>3, PTL DEF TourSpec

-----------------------------------------------------------------------------
(* A device and its encrypted workspace (OfflineDevice).                     *)

KeptLease == [id : Nat, until : Nat]
Wrapping == [id : Nat, secret : Nat]
Granted == [id : Nat, secret : Nat \ {0}, until : Nat]
GotCapture == [nr : Nat, base : Nat, stamp : Nat, at : Nat]
KeptCapture == [nr : Nat, dek : Nat \ {0}, stamp : Nat, base : Nat]
Held == [dek : Nat, dataset : Nat \ {0}]
Sessions == {"open", "locked", "gone"}
Callers == {"login", "lock", "guard", "provider"}
Screens == {"login", "loading", "page", "locked", "unavailable"}

CloudState == [time : Nat, session : Sessions, pass : Nat, nr : Nat, lease : Granted \cup {None},
               dataset : Nat \ {0}, got : SUBSET GotCapture]
DiskState == [dek : Nat, byPass : Nat, wrap : Wrapping \cup {None}, lease : KeptLease \cup {None},
              failures : Nat, seen : Nat, heard : Nat, epoch : Nat, changed : BOOLEAN,
              held : Held \cup {None}, caps : SUBSET KeptCapture]
AppState == [up : BOOLEAN, key : Nat, sw : Nat, screen : Screens, reach : BOOLEAN,
             era : Nat, online : Nat, seen : Nat, heard : Nat, skew : Int, refused : Nat]
FateState == [made : SUBSET Nat, given : SUBSET Nat, swept : SUBSET Nat, mixed : SUBSET Nat,
              spent : SUBSET Nat]

LeaseReply == [lease : Granted, issued : Nat]
LeaseVisit == [op : {"lease"}, from : Callers, pass : Nat, reply : LeaseReply \cup {None}]
SecretAnswer == [kind : {"denied", "none"}] \cup [kind : {"secret"}, wrap : Wrapping]
SecretVisit == [op : {"secret"}, from : Callers, pass : Nat, reply : SecretAnswer]
GrantVisit == [op : {"grant"}, from : Callers, pass : Nat, lease : Granted, may : BOOLEAN, saw : SUBSET Nat]
StoreVisit == [op : {"wipe", "store"}, from : Callers, lease : Granted, key : Nat \ {0}, byPass : Nat,
               saw : SUBSET Nat]
CaptureVisit == [op : {"capture"}, nr : Nat, base : Nat]
KeepVisit == [op : {"keep"}, cap : KeptCapture]
LeaveVisit == [op : {"leave"}, reply : {None}]
FetchVisit == [op : {"fetch"}, step : {"asked", "discard", "ingest", "mark"},
               reply : [dataset : Nat \ {0}, time : Nat]]
ProbeVisit == [op : {"probe"}, era : Nat, step : {"asked", "read"},
               reply : [session : Sessions, dataset : Nat \ {0}, time : Nat]]
DeviceVisit == {NoVisit} \cup LeaseVisit \cup SecretVisit \cup GrantVisit \cup StoreVisit \cup CaptureVisit
               \cup KeepVisit \cup LeaveVisit \cup FetchVisit \cup ProbeVisit

(* What must fit together, of calls v, cloud c, disk d, tab a and history f. *)
Types(v, c, d, a, f) ==
    v \in [Clerk -> DeviceVisit] /\ c \in CloudState /\ d \in DiskState /\ a \in AppState /\ f \in FateState

(* Who does something has a tab that is loaded.                              *)
UpFits(v, a) ==
    ~a.up => a.key = 0 /\ a.screen # "page" /\ a.refused = 0 /\ \A w \in Clerk : v[w] = NoVisit
OnlineFits(a) == a.online \in {0, a.era}

(* The key in memory is that of the disk, and so is that of the captures     *)
(* that nobody has missed.                                                   *)
KeyFits(d, a, f) ==
    /\ a.key # 0 => a.key = d.dek
    /\ \A e \in d.caps : e.dek = d.dek \/ e.nr \in f.swept
NothingLost(c, d, f) ==
    f.made \subseteq {e.nr : e \in d.caps} \cup f.given \cup f.swept \cup {g.nr : g \in c.got}

(* The mark is that of the dataset at hand; one fetch at a time may change   *)
(* the two, and it knows of what was marked when it was answered.            *)
FetchFits(r, d) ==
    /\ r.step = "ingest" => d.epoch \in {0, r.reply.dataset}
    /\ r.step = "mark" /\ d.held # None => d.held.dataset = r.reply.dataset
MarkFits(v, d) ==
    /\ d.held # None /\ d.epoch # 0 => d.held.dataset = d.epoch
    /\ \A w \in Clerk : v[w].op = "fetch" => FetchFits(v[w], d)
    /\ \A w, x \in Clerk : v[w].op = "fetch" /\ v[x].op = "fetch" => w = x
Marked(e, f) == e.stamp # 0 /\ e.nr \notin f.mixed => e.stamp = e.base
StampFits(v, c, d, f) ==
    /\ \A e \in d.caps : Marked(e, f)
    /\ \A w \in Clerk : v[w].op = "keep" => Marked(v[w].cap, f)
    /\ \A g \in c.got : g.stamp # 0 /\ g.nr \notin f.mixed => g.at = g.base

(* Each grant has a secret of its own, until it is stored.                   *)
Answered(r) == r.op = "lease" /\ r.reply # None
Taken(r) == r.op \in {"grant", "wipe", "store"}
Carries(r) == Answered(r) \/ Taken(r)
LeaseIn(r) == IF r.op = "lease" THEN r.reply.lease ELSE r.lease
SecretsFit(v, c, d, f) ==
    /\ d.lease = None <=> d.wrap = None
    /\ d.wrap # None => d.wrap.secret <= c.nr
    /\ \A s \in f.spent : s <= c.nr
    /\ \A w \in Clerk : Carries(v[w]) =>
        /\ LeaseIn(v[w]).secret <= c.nr /\ LeaseIn(v[w]).secret \notin f.spent
        /\ d.wrap # None => LeaseIn(v[w]).secret # d.wrap.secret
        /\ \A x \in Clerk : x # w /\ Carries(v[x]) => LeaseIn(v[x]).secret # LeaseIn(v[w]).secret

(* A new key leaves nothing that was pending behind but what was missed      *)
(* before, and the time of the grant is known to the tab.                    *)
GrantsFit(v, c, a, f) ==
    \A w \in Clerk :
        /\ Answered(v[w]) => /\ v[w].reply.lease.until <= v[w].reply.issued + Span
                             /\ v[w].reply.issued <= c.time
        /\ Taken(v[w]) => v[w].lease.until <= a.heard + Span /\ v[w].lease.until <= c.time + Span
        /\ v[w].op = "grant" /\ v[w].may => v[w].saw \subseteq f.swept
        /\ v[w].op \in {"wipe", "store"} => v[w].saw \subseteq f.swept

(* What the disk keeps of the clock, and the tab; what a lease can be past.  *)
Tells(r) == Answered(r) \/ (r.op \in {"fetch", "probe"} /\ r.step = "asked")
TimeOf(r) == IF r.op = "lease" THEN r.reply.issued ELSE r.reply.time
ClockFits(d, a) ==
    a.up => d.heard \in {0, a.heard} /\ d.seen \in {0, a.seen}
LeaseFits(v, c, d, a) ==
    d.lease # None => /\ d.lease.until <= c.time + Span
                      /\ d.heard # 0 => d.lease.until <= d.heard + Span
                      /\ a.up => \/ d.lease.until <= a.heard + Span
                                 \/ \A w \in Clerk : Tells(v[w]) => d.lease.until <= TimeOf(v[w]) + Span
SpentFits(d, a, f) ==
    d.wrap # None /\ d.wrap.secret \in f.spent => d.lease.until <= d.seen /\ a.key = 0

DeviceFits(v, c, d, a, f) ==
    /\ Types(v, c, d, a, f) /\ UpFits(v, a) /\ OnlineFits(a) /\ KeyFits(d, a, f) /\ NothingLost(c, d, f)
    /\ MarkFits(v, d) /\ StampFits(v, c, d, f) /\ SecretsFit(v, c, d, f) /\ GrantsFit(v, c, a, f)
    /\ ClockFits(d, a) /\ LeaseFits(v, c, d, a) /\ SpentFits(d, a, f)
DeviceInv == edits \in Nat /\ DeviceFits(visit, cloud, disk, app, fate)

-----------------------------------------------------------------------------
LEMMA VisitKinds ==
    ASSUME NEW r \in DeviceVisit
    PROVE  /\ r.op = "none" => r = NoVisit
           /\ r.op = "lease" => r \in LeaseVisit
           /\ r.op = "secret" => r \in SecretVisit
           /\ r.op = "grant" => r \in GrantVisit
           /\ r.op \in {"wipe", "store"} => r \in StoreVisit
           /\ r.op = "capture" => r \in CaptureVisit
           /\ r.op = "keep" => r \in KeepVisit
           /\ r.op = "leave" => r \in LeaveVisit
           /\ r.op = "fetch" => r \in FetchVisit
           /\ r.op = "probe" => r \in ProbeVisit
BY DEF DeviceVisit, NoVisit, LeaseVisit, SecretVisit, GrantVisit, StoreVisit, CaptureVisit, KeepVisit, LeaveVisit,
       FetchVisit, ProbeVisit

LEMMA LeasesTyped ==
    ASSUME NEW r \in DeviceVisit
    PROVE  /\ Carries(r) => LeaseIn(r) \in Granted
           /\ Taken(r) => r.lease \in Granted /\ LeaseIn(r) = r.lease
           /\ Answered(r) => r.reply.issued \in Nat /\ LeaseIn(r) = r.reply.lease
<1>1. CASE Answered(r)
  <2>1. r \in LeaseVisit BY <1>1, VisitKinds DEF Answered
  <2> QED BY <1>1, <2>1 DEF Answered, Carries, Taken, LeaseIn, LeaseVisit, LeaseReply
<1>2. CASE Taken(r)
  <2>1. r \in GrantVisit \/ r \in StoreVisit BY <1>2, VisitKinds DEF Taken
  <2> QED BY <1>2, <2>1 DEF Answered, Taken, LeaseIn, GrantVisit, StoreVisit
<1> QED BY <1>1, <1>2 DEF Carries

(* A call that brings no lease and no capture.                               *)
Silent(r) == ~Carries(r) /\ r.op # "keep"
LEMMA IdleSaysNothing ==
    /\ NoVisit.op = "none" /\ Silent(NoVisit) /\ ~Carries(NoVisit) /\ ~Answered(NoVisit) /\ ~Taken(NoVisit)
    /\ ~Tells(NoVisit) /\ NoVisit \in DeviceVisit
BY DEF NoVisit, Silent, Carries, Taken, Answered, Tells, DeviceVisit

LEMMA CallEnds ==
    ASSUME NEW v, NEW c, NEW d, NEW a, NEW f, DeviceFits(v, c, d, a, f), NEW w \in Clerk
    PROVE  DeviceFits([v EXCEPT ![w] = NoVisit], c, d, a, f)
<1> DEFINE u == [v EXCEPT ![w] = NoVisit]
<1>1. u \in [Clerk -> DeviceVisit] /\ \A x \in Clerk : u[x] = IF x = w THEN NoVisit ELSE v[x]
  BY IdleSaysNothing DEF DeviceFits, Types
<1> HIDE DEF u
<1>2. UpFits(u, a) BY <1>1 DEF DeviceFits, UpFits
<1>3. MarkFits(u, d) /\ StampFits(u, c, d, f) BY <1>1, IdleSaysNothing DEF DeviceFits, MarkFits, StampFits
<1>4. SecretsFit(u, c, d, f) BY <1>1, IdleSaysNothing DEF DeviceFits, SecretsFit
<1>5. GrantsFit(u, c, a, f) BY <1>1, IdleSaysNothing DEF DeviceFits, GrantsFit
<1>6. LeaseFits(u, c, d, a) BY <1>1, IdleSaysNothing DEF DeviceFits, LeaseFits
<1> QED BY <1>1, <1>2, <1>3, <1>4, <1>5, <1>6 DEF DeviceFits, Types, u

LEMMA VisitGoesOn ==
    ASSUME NEW v, NEW c, NEW d, NEW a, NEW f, DeviceFits(v, c, d, a, f), NEW w \in Clerk, NEW r \in DeviceVisit, a.up,
           r.op = "fetch" => FetchFits(r, d) /\ \A x \in Clerk \ {w} : v[x].op # "fetch",
           Silent(r) \/ (r.op = "keep" /\ Marked(r.cap, f)),
           Tells(r) /\ d.lease # None => d.lease.until <= TimeOf(r) + Span
    PROVE  DeviceFits([v EXCEPT ![w] = r], c, d, a, f)
<1> DEFINE u == [v EXCEPT ![w] = r]
<1>1. u \in [Clerk -> DeviceVisit] /\ \A x \in Clerk : u[x] = IF x = w THEN r ELSE v[x]
  BY DEF DeviceFits, Types
<1>a. ~Carries(r) BY DEF Silent, Carries, Answered, Taken
<1> HIDE DEF u
<1>2. UpFits(u, a) BY <1>1 DEF DeviceFits, UpFits
<1>3. MarkFits(u, d) BY <1>1 DEF DeviceFits, MarkFits
<1>4. StampFits(u, c, d, f) BY <1>1 DEF DeviceFits, StampFits, Silent
<1>5. SecretsFit(u, c, d, f) BY <1>1, <1>a DEF DeviceFits, SecretsFit
<1>6. GrantsFit(u, c, a, f) BY <1>1, <1>a DEF DeviceFits, GrantsFit, Carries, Taken
<1>7. LeaseFits(u, c, d, a) BY <1>1 DEF DeviceFits, LeaseFits
<1> QED BY <1>1, <1>2, <1>3, <1>4, <1>5, <1>6, <1>7 DEF DeviceFits, Types, u

(* A lease is handed on from one step of its call to the next.               *)
LEMMA LeaseGoesOn ==
    ASSUME NEW v, NEW c, NEW d, NEW a, NEW f, DeviceFits(v, c, d, a, f), NEW w \in Clerk, NEW r \in DeviceVisit, a.up,
           Carries(v[w]), Taken(r), r.lease = LeaseIn(v[w]),
           r.lease.until <= a.heard + Span, r.lease.until <= c.time + Span,
           r.saw \subseteq f.swept \/ (r.op = "grant" /\ ~r.may)
    PROVE  DeviceFits([v EXCEPT ![w] = r], c, d, a, f)
<1> DEFINE u == [v EXCEPT ![w] = r]
<1>1. u \in [Clerk -> DeviceVisit] /\ \A x \in Clerk : u[x] = IF x = w THEN r ELSE v[x]
  BY DEF DeviceFits, Types
<1> HIDE DEF u
<1>2. r.op \notin {"none", "keep", "fetch", "probe", "lease"} /\ ~Tells(r) /\ ~Answered(r) /\ LeaseIn(r) = r.lease
  BY DEF Taken, Tells, Answered, LeaseIn
<1>3. UpFits(u, a) BY <1>1 DEF DeviceFits, UpFits
<1>4. MarkFits(u, d) /\ StampFits(u, c, d, f) BY <1>1, <1>2 DEF DeviceFits, MarkFits, StampFits
<1>5. SecretsFit(u, c, d, f)
  <2>1. \A x \in Clerk : Carries(u[x]) => Carries(v[x]) /\ LeaseIn(u[x]) = LeaseIn(v[x]) BY <1>1, <1>2
  <2> QED BY <2>1 DEF DeviceFits, SecretsFit
<1>6. GrantsFit(u, c, a, f) BY <1>1, <1>2 DEF DeviceFits, GrantsFit
<1>7. LeaseFits(u, c, d, a) BY <1>1, <1>2 DEF DeviceFits, LeaseFits
<1> QED BY <1>1, <1>3, <1>4, <1>5, <1>6, <1>7 DEF DeviceFits, Types, u

(* What the tab shows, and the key it has.                                   *)
LEMMA TabChanges ==
    ASSUME NEW v, NEW c, NEW d, NEW a, NEW f, DeviceFits(v, c, d, a, f), NEW b \in AppState,
           b.up = a.up, b.seen = a.seen, b.heard = a.heard, b.online \in {0, b.era},
           ~b.up => b.screen # "page" /\ b.refused = 0,
           \/ b.key \in {0, a.key}
           \/ b.up /\ b.key = d.dek /\ (d.wrap # None => d.wrap.secret \notin f.spent)
    PROVE  DeviceFits(v, c, d, b, f)
<1>1. UpFits(v, b) /\ OnlineFits(b) BY DEF DeviceFits, UpFits, OnlineFits
<1>2. KeyFits(d, b, f) /\ SpentFits(d, b, f) BY DEF DeviceFits, KeyFits, SpentFits
<1>3. ClockFits(d, b) /\ LeaseFits(v, c, d, b) /\ GrantsFit(v, c, b, f)
  BY DEF DeviceFits, ClockFits, LeaseFits, GrantsFit
<1> QED BY <1>1, <1>2, <1>3 DEF DeviceFits, Types

LEMMA CloudChanges ==
    ASSUME NEW v, NEW c, NEW d, NEW a, NEW f, DeviceFits(v, c, d, a, f), NEW e \in CloudState,
           e.time >= c.time, e.nr >= c.nr, c.got \subseteq e.got,
           \A g \in e.got \ c.got : g.stamp # 0 /\ g.nr \notin f.mixed => g.at = g.base
    PROVE  DeviceFits(v, e, d, a, f)
<1>1. NothingLost(e, d, f) /\ StampFits(v, e, d, f) BY DEF DeviceFits, NothingLost, StampFits
<1>2. c.nr \in Nat /\ e.nr \in Nat /\ c.time \in Nat /\ e.time \in Nat /\ Span \in Nat
  BY DeviceAssumption DEF DeviceFits, Types, CloudState
<1>3. SecretsFit(v, e, d, f)
  <2>1. d.wrap # None => d.wrap.secret \in Nat BY DEF DeviceFits, Types, DiskState, Wrapping
  <2>2. \A s \in f.spent : s \in Nat BY DEF DeviceFits, Types, FateState
  <2>3. \A w \in Clerk : Carries(v[w]) => LeaseIn(v[w]).secret \in Nat
    BY LeasesTyped DEF DeviceFits, Types, Granted
  <2> QED BY <1>2, <2>1, <2>2, <2>3 DEF DeviceFits, SecretsFit
<1>4. LeaseFits(v, e, d, a)
  <2>1. d.lease # None => d.lease.until \in Nat BY DEF DeviceFits, Types, DiskState, KeptLease
  <2> QED BY <1>2, <2>1 DEF DeviceFits, LeaseFits
<1>5. GrantsFit(v, e, a, f)
  <2>1. \A w \in Clerk : /\ Answered(v[w]) => v[w].reply.issued \in Nat
                         /\ Taken(v[w]) => v[w].lease.until \in Nat
    BY LeasesTyped DEF DeviceFits, Types, Granted
  <2> QED BY <1>2, <2>1 DEF DeviceFits, GrantsFit
<1> QED BY <1>1, <1>3, <1>4, <1>5 DEF DeviceFits, Types

LEMMA DiskAside ==
    ASSUME NEW v, NEW c, NEW d, NEW a, NEW f, DeviceFits(v, c, d, a, f), NEW e \in DiskState,
           e.dek = d.dek, e.wrap = d.wrap, e.lease = d.lease, e.seen = d.seen, e.heard = d.heard,
           e.epoch = d.epoch, e.held = d.held, e.caps = d.caps
    PROVE  DeviceFits(v, c, e, a, f)
<1>1. KeyFits(e, a, f) /\ NothingLost(c, e, f) BY DEF DeviceFits, KeyFits, NothingLost
<1>2. MarkFits(v, e) /\ StampFits(v, c, e, f) BY DEF DeviceFits, MarkFits, StampFits, FetchFits
<1>3. SecretsFit(v, c, e, f) BY DEF DeviceFits, SecretsFit
<1>4. ClockFits(e, a) /\ LeaseFits(v, c, e, a) /\ SpentFits(e, a, f) BY DEF DeviceFits, ClockFits, LeaseFits, SpentFits
<1> QED BY <1>1, <1>2, <1>3, <1>4 DEF DeviceFits, Types

(* The lease is taken away.                                                  *)
LEMMA LeaseForgotten ==
    ASSUME NEW v, NEW c, NEW d, NEW a, NEW f, DeviceFits(v, c, d, a, f)
    PROVE  DeviceFits(v, c, [d EXCEPT !.wrap = None, !.lease = None], a, f)
<1> DEFINE e == [d EXCEPT !.wrap = None, !.lease = None]
<1>1. /\ e \in DiskState /\ e.dek = d.dek /\ e.wrap = None /\ e.lease = None /\ e.seen = d.seen
      /\ e.heard = d.heard /\ e.epoch = d.epoch /\ e.held = d.held /\ e.caps = d.caps
  BY DEF DeviceFits, Types, DiskState
<1> HIDE DEF e
<1>2. KeyFits(e, a, f) /\ NothingLost(c, e, f) BY <1>1 DEF DeviceFits, KeyFits, NothingLost
<1>3. MarkFits(v, e) /\ StampFits(v, c, e, f) BY <1>1 DEF DeviceFits, MarkFits, StampFits, FetchFits
<1>4. SecretsFit(v, c, e, f) BY <1>1 DEF DeviceFits, SecretsFit
<1>5. ClockFits(e, a) /\ LeaseFits(v, c, e, a) /\ SpentFits(e, a, f) BY <1>1 DEF DeviceFits, ClockFits, LeaseFits, SpentFits
<1> QED BY <1>1, <1>2, <1>3, <1>4, <1>5 DEF DeviceFits, Types, e

(* Captures leave the disk, accounted for, and the dataset with them or not. *)
LEMMA CapturesLeave ==
    ASSUME NEW v, NEW c, NEW d, NEW a, NEW f, DeviceFits(v, c, d, a, f), NEW e \in DiskState, NEW h \in FateState,
           e.dek = d.dek, e.wrap = d.wrap, e.lease = d.lease, e.seen = d.seen, e.heard = d.heard,
           (e.epoch = d.epoch /\ e.held = d.held) \/ (e.epoch = 0 /\ e.held = None),
           e.caps \subseteq d.caps, h.made = f.made, h.spent \subseteq f.spent, h.mixed = f.mixed,
           f.given \subseteq h.given, f.swept \subseteq h.swept,
           \A x \in d.caps \ e.caps : x.nr \in h.given \cup h.swept \cup {g.nr : g \in c.got}
    PROVE  DeviceFits(v, c, e, a, h)
<1>1. KeyFits(e, a, h) BY DEF DeviceFits, KeyFits
<1>2. NothingLost(c, e, h) BY DEF DeviceFits, NothingLost
<1>3. MarkFits(v, e) BY DEF DeviceFits, MarkFits, FetchFits
<1>4. StampFits(v, c, e, h) /\ GrantsFit(v, c, a, h) BY DEF DeviceFits, StampFits, GrantsFit, Marked
<1>5. SecretsFit(v, c, e, h) BY DEF DeviceFits, SecretsFit
<1>6. ClockFits(e, a) /\ LeaseFits(v, c, e, a) /\ SpentFits(e, a, h) BY DEF DeviceFits, ClockFits, LeaseFits, SpentFits
<1> QED BY <1>1, <1>2, <1>3, <1>4, <1>5, <1>6 DEF DeviceFits, Types

-----------------------------------------------------------------------------
(* The clock.                                                                *)
LEMMA LocalTimeIs ==
    ASSUME NEW a \in AppState, cloud.time \in Nat
    PROVE  /\ LocalTime(a) \in Nat /\ LocalTime(a) >= a.seen
           /\ a.heard # 0 => \/ LocalTime(a) >= DeviceTime(a)
                             \/ LocalTime(a) >= a.heard + Span
BY DeviceAssumption DEF LocalTime, Later, Earlier, DeviceTime, AppState

LEMMA ClockRead ==
    ASSUME NEW v, NEW c, NEW d, NEW a, NEW f, DeviceFits(v, c, d, a, f), a.up, cloud.time \in Nat
    PROVE  /\ DeviceFits(v, c, KeptLocal(d, a), NotedLocal(a), f)
           /\ NotedLocal(a) = [a EXCEPT !.seen = LocalTime(a)]
           /\ \E n \in Nat : KeptLocal(d, a) = [d EXCEPT !.seen = n]
<1> DEFINE e == KeptLocal(d, a)
           b == NotedLocal(a)
<1>1. a \in AppState /\ d \in DiskState BY DEF DeviceFits, Types
<1>2. PICK t \in Nat : t = LocalTime(a) /\ t >= a.seen BY <1>1, LocalTimeIs
<1>3. b = [a EXCEPT !.seen = t] BY <1>2 DEF NotedLocal
<1>4. PICK n \in Nat : e = [d EXCEPT !.seen = n] /\ n = IF t > a.seen THEN t ELSE d.seen
  BY <1>1, <1>2 DEF KeptLocal, DiskState
<1>5. /\ b \in AppState /\ b.up = a.up /\ b.key = a.key /\ b.seen = t /\ b.heard = a.heard /\ b.online = a.online
      /\ b.era = a.era /\ b.screen = a.screen /\ b.refused = a.refused
  BY <1>1, <1>3 DEF AppState
<1>6. /\ e \in DiskState /\ e.dek = d.dek /\ e.wrap = d.wrap /\ e.lease = d.lease /\ e.seen = n
      /\ e.heard = d.heard /\ e.epoch = d.epoch /\ e.held = d.held /\ e.caps = d.caps
  BY <1>1, <1>4 DEF DiskState
<1> HIDE DEF b, e
<1>7. UpFits(v, b) /\ OnlineFits(b) BY <1>5 DEF DeviceFits, UpFits, OnlineFits
<1>8. KeyFits(e, b, f) /\ NothingLost(c, e, f) BY <1>5, <1>6 DEF DeviceFits, KeyFits, NothingLost
<1>9. MarkFits(v, e) /\ StampFits(v, c, e, f) BY <1>6 DEF DeviceFits, MarkFits, StampFits, FetchFits
<1>10. SecretsFit(v, c, e, f) BY <1>6 DEF DeviceFits, SecretsFit
<1>11. a.seen \in Nat /\ d.seen \in Nat /\ (d.lease # None => d.lease.until \in Nat)
  BY <1>1 DEF AppState, DiskState, KeptLease
<1>12. ClockFits(e, b) BY <1>2, <1>4, <1>5, <1>6, <1>11 DEF DeviceFits, ClockFits
<1>13. LeaseFits(v, c, e, b) /\ GrantsFit(v, c, b, f) BY <1>5, <1>6 DEF DeviceFits, LeaseFits, GrantsFit
<1>14. SpentFits(e, b, f)
  <2>1. n >= d.seen BY <1>2, <1>4, <1>11 DEF DeviceFits, ClockFits
  <2>2. d.wrap # None => d.lease # None BY DEF DeviceFits, SecretsFit
  <2> QED BY <1>4, <1>5, <1>6, <1>11, <2>1, <2>2 DEF DeviceFits, SpentFits
<1>15. DeviceFits(v, c, e, b, f) BY <1>5, <1>6, <1>7, <1>8, <1>9, <1>10, <1>12, <1>13, <1>14 DEF DeviceFits, Types
<1> QED BY <1>2, <1>3, <1>4, <1>15 DEF b, e

LEMMA ServerHeard ==
    ASSUME NEW v, NEW c, NEW d, NEW a, NEW f, DeviceFits(v, c, d, a, f), a.up, NEW t \in Nat,
           d.lease # None => d.lease.until <= t + Span \/ d.lease.until <= a.heard + Span
    PROVE  /\ DeviceFits(v, c, KeptServer(d, a, t), NotedServer(a, t), f)
           /\ NotedServer(a, t).heard >= t /\ NotedServer(a, t).heard >= a.heard
           /\ \E m \in Nat, n \in Nat : NotedServer(a, t) = [a EXCEPT !.heard = m, !.seen = n]
           /\ \E m \in Nat, n \in Nat : KeptServer(d, a, t) = [d EXCEPT !.heard = m, !.seen = n]
<1> DEFINE e == KeptServer(d, a, t)
           b == NotedServer(a, t)
<1>1. a \in AppState /\ d \in DiskState BY DEF DeviceFits, Types
<1>2. /\ a.seen \in Nat /\ d.seen \in Nat /\ a.heard \in Nat /\ d.heard \in Nat /\ Span \in Nat
      /\ d.lease # None => d.lease.until \in Nat
  BY <1>1, DeviceAssumption DEF AppState, DiskState, KeptLease
<1>3. PICK i \in Nat, j \in Nat : /\ b = [a EXCEPT !.heard = i, !.seen = j]
                                  /\ i = Later(a.heard, t) /\ j = Later(a.seen, t)
  BY <1>2 DEF NotedServer, Later
<1>4. PICK m \in Nat, n \in Nat : /\ e = [d EXCEPT !.heard = m, !.seen = n]
                                  /\ m = IF t > a.heard THEN t ELSE d.heard
                                  /\ n = IF t > a.seen THEN t ELSE d.seen
  BY <1>2 DEF KeptServer
<1>5. /\ b \in AppState /\ b.up = a.up /\ b.key = a.key /\ b.seen = j /\ b.heard = i /\ b.online = a.online
      /\ b.era = a.era /\ b.screen = a.screen /\ b.refused = a.refused
  BY <1>1, <1>3 DEF AppState
<1>6. /\ e \in DiskState /\ e.dek = d.dek /\ e.wrap = d.wrap /\ e.lease = d.lease /\ e.seen = n
      /\ e.heard = m /\ e.epoch = d.epoch /\ e.held = d.held /\ e.caps = d.caps
  BY <1>1, <1>4 DEF DiskState
<1> HIDE DEF b, e
<1>7. UpFits(v, b) /\ OnlineFits(b) BY <1>5 DEF DeviceFits, UpFits, OnlineFits
<1>8. KeyFits(e, b, f) /\ NothingLost(c, e, f) BY <1>5, <1>6 DEF DeviceFits, KeyFits, NothingLost
<1>9. MarkFits(v, e) /\ StampFits(v, c, e, f) BY <1>6 DEF DeviceFits, MarkFits, StampFits, FetchFits
<1>10. SecretsFit(v, c, e, f) BY <1>6 DEF DeviceFits, SecretsFit
<1>11. i >= t /\ i >= a.heard /\ j >= a.seen /\ n >= d.seen
  BY <1>2, <1>3, <1>4 DEF Later, DeviceFits, ClockFits
<1>12. ClockFits(e, b) BY <1>2, <1>3, <1>4, <1>5, <1>6 DEF DeviceFits, ClockFits, Later
<1>a. GrantsFit(v, c, b, f)
  <2>1. \A w \in Clerk : Taken(v[w]) => v[w].lease.until \in Nat
    BY LeasesTyped DEF DeviceFits, Types, Granted
  <2> QED BY <1>2, <1>5, <1>11, <2>1 DEF DeviceFits, GrantsFit
<1>13. LeaseFits(v, c, e, b)
  <2>1. d.lease # None => d.lease.until <= i + Span BY <1>2, <1>11
  <2>2. d.lease # None /\ m # 0 => d.lease.until <= m + Span BY <1>2, <1>4 DEF DeviceFits, LeaseFits
  <2> QED BY <2>1, <2>2, <1>5, <1>6 DEF DeviceFits, LeaseFits
<1>14. SpentFits(e, b, f)
  <2>1. d.wrap # None => d.lease # None BY DEF DeviceFits, SecretsFit
  <2> QED BY <1>2, <1>5, <1>6, <1>11, <2>1 DEF DeviceFits, SpentFits
<1>15. DeviceFits(v, c, e, b, f) BY <1>5, <1>6, <1>7, <1>8, <1>9, <1>10, <1>12, <1>13, <1>14, <1>a DEF DeviceFits, Types
<1>16. \E m_ \in Nat, n_ \in Nat : b = [a EXCEPT !.heard = m_, !.seen = n_] BY <1>3
<1>17. \E m_ \in Nat, n_ \in Nat : e = [d EXCEPT !.heard = m_, !.seen = n_] BY <1>4
<1> QED BY <1>5, <1>11, <1>15, <1>16, <1>17 DEF b, e

LEMMA TabLoaded ==
    ASSUME NEW v, NEW c, NEW a, NEW f, DeviceFits(v, c, disk, a, f), ~a.up
    PROVE  DeviceFits(v, c, disk, Loaded(a), f)
<1> DEFINE b == Loaded(a)
<1>1. a \in AppState /\ disk \in DiskState BY DEF DeviceFits, Types
<1>2. /\ b \in AppState /\ b.up = TRUE /\ b.key = a.key /\ b.seen = disk.seen /\ b.heard = disk.heard
      /\ b.online = a.online /\ b.era = a.era
  BY <1>1 DEF Loaded, AppState, DiskState
<1> HIDE DEF b
<1>3. b.key = 0 /\ \A w \in Clerk : v[w] = NoVisit /\ ~Tells(v[w])
  BY <1>2, IdleSaysNothing DEF DeviceFits, UpFits
<1>4. UpFits(v, b) /\ OnlineFits(b) BY <1>2 DEF DeviceFits, UpFits, OnlineFits
<1>5. KeyFits(disk, b, f) /\ GrantsFit(v, c, b, f) BY <1>3, IdleSaysNothing DEF DeviceFits, KeyFits, GrantsFit
<1>6. disk.seen \in Nat BY <1>1 DEF DiskState
<1>7. ClockFits(disk, b) BY <1>2, <1>6 DEF ClockFits
<1>8. LeaseFits(v, c, disk, b) BY <1>3 DEF DeviceFits, LeaseFits
<1>9. SpentFits(disk, b, f) BY <1>3 DEF DeviceFits, SpentFits
<1> QED BY <1>2, <1>4, <1>5, <1>7, <1>8, <1>9 DEF DeviceFits, Types, b

(* What opens has not been refused as expired.                               *)
LEMMA OpensUnspent ==
    ASSUME NEW v, NEW c, NEW d, NEW a, NEW f, DeviceFits(v, c, d, a, f), a.up, NEW k, Opens(k, a),
           d.lease = disk.lease, d.dek = disk.dek, cloud.time \in Nat
    PROVE  k # 0 /\ k = d.dek /\ (d.wrap # None => d.wrap.secret \notin f.spent)
<1>1. a \in AppState /\ d \in DiskState BY DEF DeviceFits, Types
<1>2. k # 0 /\ k = d.dek /\ d.lease # None /\ d.lease.until > MonotoneNow(a) BY DEF Opens
<1>3. /\ a.seen \in Nat /\ d.seen \in Nat /\ d.lease.until \in Nat /\ DeviceTime(a) \in Int /\ d.seen <= a.seen
  BY <1>1, <1>2 DEF AppState, DiskState, KeptLease, DeviceTime, DeviceFits, ClockFits
<1>4. d.lease.until > d.seen BY <1>2, <1>3 DEF MonotoneNow, Later
<1> HIDE DEF MonotoneNow
<1> QED BY <1>2, <1>3, <1>4 DEF DeviceFits, SpentFits

LEMMA WorkspaceOpened ==
    ASSUME NEW v, NEW c, NEW f, DeviceFits(v, c, disk, app, f), cloud.time \in Nat
    PROVE  /\ DeviceFits(v, c, OpenedDisk, Opened(app), f) /\ Opened(app).up
           /\ Opened(app).reach = app.reach /\ Opened(app).era = app.era
           /\ Opened(app).online = app.online /\ Opened(app).refused = app.refused
           /\ OpenedDisk.lease = disk.lease
<1>1. app \in AppState /\ disk \in DiskState BY DEF DeviceFits, Types
<1>2. CASE app.up BY <1>1, <1>2 DEF Opened, OpenedDisk
<1>3. CASE ~app.up
  <2>0. PICK l : l = Loaded(app) OBVIOUS
  <2> DEFINE b == NotedLocal(l)
             e == KeptLocal(disk, l)
             o == IF Opens(app.sw, b) THEN Unlocked(b, app.sw) ELSE [b EXCEPT !.sw = 0]
  <2>1. Opened(app) = o /\ OpenedDisk = e BY <1>3, <2>0 DEF Opened, OpenedDisk
  <2>2. DeviceFits(v, c, disk, l, f) BY <1>3, <2>0, TabLoaded
  <2>3. l.up /\ l.reach = app.reach /\ l.era = app.era /\ l.online = app.online /\ l.refused = app.refused
    BY <1>1, <2>0 DEF Loaded, AppState
  <2>a. /\ DeviceFits(v, c, KeptLocal(disk, l), NotedLocal(l), f)
        /\ NotedLocal(l) = [l EXCEPT !.seen = LocalTime(l)]
        /\ \E n \in Nat : KeptLocal(disk, l) = [disk EXCEPT !.seen = n]
    <3>0. l.up BY <2>3
    <3>1. DeviceFits(v, c, KeptLocal(disk, l), NotedLocal(l), f) BY <2>2, <3>0, ClockRead
    <3>2. NotedLocal(l) = [l EXCEPT !.seen = LocalTime(l)] BY <2>2, <3>0, ClockRead
    <3>3. \E n \in Nat : KeptLocal(disk, l) = [disk EXCEPT !.seen = n] BY <2>2, <3>0, ClockRead
    <3> QED BY <3>1, <3>2, <3>3
  <2>4. DeviceFits(v, c, e, b, f) BY <2>a DEF b, e
  <2>b. b = [l EXCEPT !.seen = LocalTime(l)] BY <2>a DEF b
  <2>c. \E n \in Nat : e = [disk EXCEPT !.seen = n] BY <2>a DEF e
  <2>5. l \in AppState /\ b \in AppState BY <2>2, <2>4 DEF DeviceFits, Types
  <2>6. b.up /\ b.reach = app.reach /\ b.era = app.era /\ b.online = app.online /\ b.refused = app.refused
    BY <2>3, <2>b, <2>5 DEF AppState
  <2>7. e.lease = disk.lease /\ e.dek = disk.dek BY <2>c, <1>1 DEF DiskState
  <2> HIDE DEF b, e
  <2>8. /\ o \in AppState /\ o.up = b.up /\ o.seen = b.seen /\ o.heard = b.heard /\ o.online = b.online /\ o.era = b.era
        /\ o.reach = b.reach /\ o.refused = b.refused /\ (o.key = b.key \/ (Opens(app.sw, b) /\ o.key = app.sw))
    <3>1. app.sw \in Nat BY <1>1 DEF AppState
    <3>2. CASE Opens(app.sw, b) BY <2>5, <3>1, <3>2 DEF Unlocked, AppState
    <3>3. CASE ~Opens(app.sw, b) BY <2>5, <3>3 DEF AppState
    <3> QED BY <3>2, <3>3
  <2>9. Opens(app.sw, b) => app.sw = e.dek /\ (e.wrap # None => e.wrap.secret \notin f.spent)
    BY <2>4, <2>6, <2>7, OpensUnspent
  <2> HIDE DEF o
  <2>10. o.online \in {0, o.era} BY <2>4, <2>8 DEF DeviceFits, OnlineFits
  <2>11. DeviceFits(v, c, e, o, f) BY <2>4, <2>6, <2>8, <2>9, <2>10, TabChanges
  <2> QED BY <2>1, <2>6, <2>7, <2>8, <2>11
<1> QED BY <1>2, <1>3

-----------------------------------------------------------------------------
(* The workspace is emptied, what was in it being given up.                  *)
LEMMA WorkspaceBlank ==
    ASSUME NEW v, NEW c, NEW d, NEW a, NEW f, DeviceFits(v, c, d, a, f), NEW b \in AppState, NEW h \in FateState,
           b.up = a.up, b.key = 0, b.online \in {0, b.era}, ~b.up => b.screen # "page" /\ b.refused = 0,
           b.heard = a.heard, h.made = f.made, h.spent = f.spent, h.swept = f.swept, h.mixed = f.mixed,
           f.given \cup {e.nr : e \in d.caps} \subseteq h.given
    PROVE  DeviceFits(v, c, Blank, b, h)
<1>1. /\ Blank.dek = 0 /\ Blank.wrap = None /\ Blank.lease = None /\ Blank.seen = 0 /\ Blank.heard = 0
      /\ Blank.epoch = 0 /\ Blank.held = None /\ Blank.caps = {}
  BY DEF Blank
<1>2. Blank \in DiskState
  <2>1. {} \in SUBSET KeptCapture OBVIOUS
  <2> QED BY <2>1 DEF Blank, DiskState
<1>3. UpFits(v, b) /\ OnlineFits(b) BY DEF DeviceFits, UpFits, OnlineFits
<1>4. KeyFits(Blank, b, h) /\ GrantsFit(v, c, b, h) BY <1>1 DEF DeviceFits, KeyFits, GrantsFit
<1>5. NothingLost(c, Blank, h) BY <1>1 DEF DeviceFits, NothingLost
<1>6. MarkFits(v, Blank) /\ StampFits(v, c, Blank, h) BY <1>1 DEF DeviceFits, MarkFits, StampFits, FetchFits, Marked
<1>7. SecretsFit(v, c, Blank, h) BY <1>1 DEF DeviceFits, SecretsFit
<1>8. ClockFits(Blank, b) BY <1>1 DEF DeviceFits, Types, AppState, ClockFits
<1>9. LeaseFits(v, c, Blank, b) /\ SpentFits(Blank, b, h) BY <1>1 DEF LeaseFits, SpentFits
<1> QED BY <1>2, <1>3, <1>4, <1>5, <1>6, <1>7, <1>8, <1>9 DEF DeviceFits, Types

(* A grant is stored, with a key that opens what is pending, or what is      *)
(* pending is missed.                                                        *)
LEMMA GrantStored ==
    ASSUME NEW v, NEW c, NEW d, NEW a, NEW f, DeviceFits(v, c, d, a, f), NEW w \in Clerk, v[w].op = "store", a.up,
           NEW l, l = v[w].lease, NEW e \in DiskState, NEW b \in AppState, NEW h \in FateState,
           e.wrap = [id |-> l.id, secret |-> l.secret], e.lease = [id |-> l.id, until |-> l.until],
           e.caps = d.caps, e.epoch = d.epoch, e.held = d.held, e.seen = d.seen, e.heard = d.heard,
           b.up = a.up, b.seen = a.seen, b.heard = a.heard, b.key = e.dek, b.online = a.online, b.era = a.era,
           b.screen = a.screen, b.refused = a.refused,
           h.made = f.made, h.given = f.given, h.mixed = f.mixed, h.spent = f.spent, f.swept \subseteq h.swept,
           \A x \in d.caps : x.dek = e.dek \/ x.nr \in h.swept
    PROVE  DeviceFits([v EXCEPT ![w] = NoVisit], c, e, b, h)
<1> DEFINE u == [v EXCEPT ![w] = NoVisit]
<1>1. u \in [Clerk -> DeviceVisit] /\ \A x \in Clerk : u[x] = IF x = w THEN NoVisit ELSE v[x]
  BY IdleSaysNothing DEF DeviceFits, Types
<1> HIDE DEF u
<1>2. Carries(v[w]) /\ Taken(v[w]) /\ LeaseIn(v[w]) = l BY DEF Carries, Taken, LeaseIn
<1>3. l.id \in Nat /\ l.secret \in Nat /\ l.until \in Nat
  BY <1>2, LeasesTyped DEF DeviceFits, Types, Granted
<1>4. e.wrap # None /\ e.lease # None /\ e.wrap.secret = l.secret /\ e.lease.until = l.until
  <2>1. e.wrap \in Wrapping /\ e.lease \in KeptLease BY <1>3 DEF Wrapping, KeptLease
  <2> QED BY <2>1, DeviceAssumption DEF Wrapping, KeptLease
<1>5. UpFits(u, b) /\ OnlineFits(b) BY <1>1 DEF DeviceFits, UpFits, OnlineFits
<1>6. KeyFits(e, b, h) /\ NothingLost(c, e, h) BY DEF DeviceFits, KeyFits, NothingLost
<1>7. MarkFits(u, e) /\ StampFits(u, c, e, h)
  BY <1>1, IdleSaysNothing DEF DeviceFits, MarkFits, FetchFits, StampFits, Marked
<1>8. SecretsFit(u, c, e, h) BY <1>1, <1>2, <1>4, IdleSaysNothing DEF DeviceFits, SecretsFit
<1>9. GrantsFit(u, c, b, h) BY <1>1, IdleSaysNothing DEF DeviceFits, GrantsFit
<1>10. ClockFits(e, b) BY DEF DeviceFits, ClockFits
<1>11. SpentFits(e, b, h) BY <1>2, <1>4 DEF DeviceFits, SecretsFit, SpentFits
<1>12. LeaseFits(u, c, e, b)
  <2>1. l.until <= c.time + Span /\ l.until <= a.heard + Span BY <1>2 DEF DeviceFits, GrantsFit
  <2>2. d.heard \in {0, a.heard} BY DEF DeviceFits, ClockFits
  <2> QED BY <1>4, <2>1, <2>2 DEF LeaseFits
<1> QED BY <1>1, <1>5, <1>6, <1>7, <1>8, <1>9, <1>10, <1>11, <1>12 DEF DeviceFits, Types, u

(* The workspace is emptied for a new key, and the memory of the clock with  *)
(* it.                                                                       *)
LEMMA WorkspaceEmptied ==
    ASSUME NEW v, NEW c, NEW d, NEW a, NEW f, DeviceFits(v, c, d, a, f), NEW e \in DiskState, NEW h \in FateState,
           e.dek = d.dek, e.wrap = d.wrap, e.lease = d.lease, e.seen = 0, e.heard = 0, e.epoch = 0, e.held = None,
           e.caps = {}, h.made = f.made, h.given = f.given, h.mixed = f.mixed,
           f.swept \cup {x.nr : x \in d.caps} \subseteq h.swept,
           h.spent \subseteq f.spent, d.wrap # None => d.wrap.secret \notin h.spent
    PROVE  DeviceFits(v, c, e, a, h)
<1>1. KeyFits(e, a, h) /\ NothingLost(c, e, h) BY DEF DeviceFits, KeyFits, NothingLost
<1>2. MarkFits(v, e) BY DEF DeviceFits, MarkFits, FetchFits
<1>3. StampFits(v, c, e, h) BY DEF DeviceFits, StampFits, Marked
<1>4. SecretsFit(v, c, e, h) BY DEF DeviceFits, SecretsFit
<1>5. GrantsFit(v, c, a, h) BY DEF DeviceFits, GrantsFit
<1>6. ClockFits(e, a) /\ LeaseFits(v, c, e, a) /\ SpentFits(e, a, h) BY DEF DeviceFits, ClockFits, LeaseFits, SpentFits
<1> QED BY <1>1, <1>2, <1>3, <1>4, <1>5, <1>6 DEF DeviceFits, Types

-----------------------------------------------------------------------------
LEMMA DeviceTypes ==
    ASSUME DeviceInv
    PROVE  /\ DeviceFits(visit, cloud, disk, app, fate) /\ edits \in Nat
           /\ visit \in [Clerk -> DeviceVisit] /\ cloud \in CloudState /\ disk \in DiskState
           /\ app \in AppState /\ fate \in FateState /\ cloud.time \in Nat
           /\ (Edit => edits' \in Nat)
BY DEF DeviceInv, DeviceFits, Types, CloudState, Edit

(* The world around the tab.                                                 *)
LEMMA CloudMoves ==
    ASSUME DeviceInv, TimeGoesOn \/ DatasetReplaced \/ PasswordElsewhere \/ SessionEnds
    PROVE  DeviceInv'
<1>1. /\ cloud' \in CloudState /\ cloud'.time >= cloud.time /\ cloud'.nr >= cloud.nr /\ cloud'.got = cloud.got
  <2>1. CASE TimeGoesOn BY <2>1, DeviceTypes DEF TimeGoesOn, CloudState
  <2>2. CASE DatasetReplaced
    <3>1. cloud.dataset + 1 \in Nat \ {0} BY DeviceTypes DEF CloudState
    <3>2. PICK n \in Nat \ {0} : n = cloud.dataset + 1 BY <3>1
    <3>3. cloud' = [cloud EXCEPT !.dataset = n] BY <2>2, <3>2 DEF DatasetReplaced
    <3> QED BY <3>3, DeviceTypes DEF CloudState
  <2>3. CASE PasswordElsewhere
    <3>1. PICK n \in Nat : n = cloud.pass + 1 BY DeviceTypes DEF CloudState
    <3>2. PICK e : e = [cloud EXCEPT !.pass = n] OBVIOUS
    <3>3. e \in CloudState /\ e.time = cloud.time /\ e.nr = cloud.nr /\ e.got = cloud.got
      BY <3>2, DeviceTypes DEF CloudState
    <3>4. cloud' = [e EXCEPT !.session = "gone"] BY <2>3, <3>1, <3>2, DeviceTypes DEF PasswordElsewhere, CloudState
    <3> QED BY <3>3, <3>4, DeviceTypes DEF CloudState, Sessions
  <2>4. CASE SessionEnds BY <2>4, DeviceTypes DEF SessionEnds, CloudState, Sessions
  <2> QED BY <2>1, <2>2, <2>3, <2>4
<1>2. edits' \in Nat /\ UNCHANGED <<visit, disk, app, fate>>
  BY DeviceTypes DEF TimeGoesOn, DatasetReplaced, PasswordElsewhere, SessionEnds
<1>3. PICK e : e = cloud' OBVIOUS
<1>4. DeviceFits(visit, e, disk, app, fate) BY <1>1, <1>3, DeviceTypes, CloudChanges
<1> QED BY <1>2, <1>3, <1>4 DEF DeviceInv

LEMMA TabMoves ==
    ASSUME DeviceInv, ClockSet \/ NetworkGone \/ NetworkBack \/ Lock \/ StatusLost
    PROVE  DeviceInv'
<1>1. Skew \subseteq Int BY DeviceAssumption
<1>2. app.online \in {0, app.era} /\ (~app.up => app.screen # "page" /\ app.refused = 0)
  BY DeviceTypes DEF DeviceFits, OnlineFits, UpFits
<1>3. /\ app' \in AppState /\ app'.up = app.up /\ app'.seen = app.seen /\ app'.heard = app.heard
      /\ app'.online \in {0, app'.era} /\ app'.key \in {0, app.key}
      /\ (~app'.up => app'.screen # "page" /\ app'.refused = 0)
  <2>1. CASE ClockSet
    <3>1. PICK k \in Int : app' = [app EXCEPT !.skew = k] BY <2>1, <1>1 DEF ClockSet
    <3> QED BY <3>1, <1>2, DeviceTypes DEF AppState
  <2>2. CASE NetworkGone
    <3>1. PICK n \in Nat : n = app.era + 1 BY DeviceTypes DEF AppState
    <3>2. app' = [app EXCEPT !.reach = FALSE, !.era = n, !.online = 0] BY <2>2, <3>1, DeviceTypes DEF NetworkGone, AppState
    <3> QED BY <3>2, <1>2, DeviceTypes DEF AppState
  <2>3. CASE NetworkBack BY <2>3, <1>2, DeviceTypes DEF NetworkBack, AppState
  <2>4. CASE Lock BY <2>4, <1>2, DeviceTypes DEF Lock, Locked, AppState, Screens
  <2>5. CASE StatusLost BY <2>5, <1>2, DeviceTypes DEF StatusLost, AppState
  <2> QED BY <2>1, <2>2, <2>3, <2>4, <2>5
<1>4. edits' \in Nat /\ UNCHANGED <<visit, cloud, disk, fate>>
  BY DeviceTypes DEF ClockSet, NetworkGone, NetworkBack, Lock, StatusLost
<1>5. PICK b : b = app' OBVIOUS
<1>6. DeviceFits(visit, cloud, disk, b, fate) BY <1>3, <1>5, DeviceTypes, TabChanges
<1> QED BY <1>4, <1>5, <1>6 DEF DeviceInv

LEMMA NoteMoves ==
    ASSUME DeviceInv, ClockNoted
    PROVE  DeviceInv'
<1>1. /\ app.up /\ app' = NotedLocal(app) /\ disk' = KeptLocal(disk, app) /\ UNCHANGED <<visit, edits, cloud, fate>>
  BY DEF ClockNoted
<1>2. app.up BY <1>1
<1>3. DeviceFits(visit, cloud, KeptLocal(disk, app), NotedLocal(app), fate) BY <1>2, DeviceTypes, ClockRead
<1> QED BY <1>1, <1>3, DeviceTypes DEF DeviceInv

LEMMA TabGoes ==
    ASSUME NEW v, NEW c, NEW d, NEW a, NEW f, DeviceFits(v, c, d, a, f), NEW b \in AppState, b.up = FALSE, b.key = 0,
           b.screen # "page", b.refused = 0, b.online = 0
    PROVE  DeviceFits([w \in Clerk |-> NoVisit], c, d, b, f)
<1> DEFINE u == [w \in Clerk |-> NoVisit]
<1>1. u \in [Clerk -> DeviceVisit] /\ \A x \in Clerk : u[x] = NoVisit BY IdleSaysNothing
<1> HIDE DEF u
<1>2. UpFits(u, b) /\ OnlineFits(b) BY <1>1 DEF UpFits, OnlineFits
<1>3. KeyFits(d, b, f) /\ GrantsFit(u, c, b, f) BY <1>1, IdleSaysNothing DEF DeviceFits, KeyFits, GrantsFit
<1>4. MarkFits(u, d) /\ StampFits(u, c, d, f) BY <1>1, IdleSaysNothing DEF DeviceFits, MarkFits, StampFits
<1>5. SecretsFit(u, c, d, f) BY <1>1, IdleSaysNothing DEF DeviceFits, SecretsFit
<1>6. ClockFits(d, b) /\ LeaseFits(u, c, d, b) /\ SpentFits(d, b, f) BY DEF DeviceFits, ClockFits, LeaseFits, SpentFits
<1> QED BY <1>1, <1>2, <1>3, <1>4, <1>5, <1>6 DEF DeviceFits, Types, u

LEMMA ReloadMoves ==
    ASSUME DeviceInv, Reloaded
    PROVE  DeviceInv'
<1>1. /\ app' \in AppState /\ app'.up = FALSE /\ app'.key = 0 /\ app'.screen # "page" /\ app'.refused = 0
      /\ app'.online = 0
  <2>1. PICK near \in BOOLEAN : app' = [FreshTab("loading") EXCEPT !.sw = app.sw, !.reach = near, !.era = app.era,
                                                                !.skew = app.skew]
    BY DeviceTypes DEF Reloaded, AppState
  <2> QED BY <2>1, DeviceTypes DEF FreshTab, AppState, Screens
<1>2. edits' \in Nat /\ visit' = [w \in Clerk |-> NoVisit] /\ UNCHANGED <<cloud, disk, fate>>
  BY DeviceTypes DEF Reloaded
<1>3. PICK b : b = app' OBVIOUS
<1>4. DeviceFits([w \in Clerk |-> NoVisit], cloud, disk, b, fate) BY <1>1, <1>3, DeviceTypes, TabGoes
<1> QED BY <1>2, <1>3, <1>4 DEF DeviceInv

(* Another screen.                                                           *)
LEMMA ScreenChanges ==
    ASSUME NEW v, NEW c, NEW d, NEW a, NEW f, DeviceFits(v, c, d, a, f), NEW s \in Screens, a.up \/ s # "page"
    PROVE  DeviceFits(v, c, d, [a EXCEPT !.screen = s], f)
<1> DEFINE b == [a EXCEPT !.screen = s]
<1>1. /\ b \in AppState /\ b.up = a.up /\ b.key = a.key /\ b.seen = a.seen /\ b.heard = a.heard /\ b.screen = s
      /\ b.online = a.online /\ b.era = a.era /\ b.refused = a.refused
  BY DEF DeviceFits, Types, AppState
<1> HIDE DEF b
<1>2. b.online \in {0, b.era} /\ (~b.up => b.screen # "page" /\ b.refused = 0)
  BY <1>1 DEF DeviceFits, OnlineFits, UpFits
<1>3. DeviceFits(v, c, d, b, f) BY <1>1, <1>2, TabChanges
<1> QED BY <1>3 DEF b

LEMMA StartMoves ==
    ASSUME DeviceInv, StartOffline
    PROVE  DeviceInv'
<1>1. PICK s \in Screens : app' = [Opened(app) EXCEPT !.screen = s]
  BY DEF StartOffline, Screens
<1>2. disk' = OpenedDisk /\ UNCHANGED <<visit, edits, cloud, fate>> BY DEF StartOffline
<1>3. DeviceFits(visit, cloud, OpenedDisk, Opened(app), fate) /\ Opened(app).up BY DeviceTypes, WorkspaceOpened
<1>4. Opened(app).up BY <1>3
<1>5. DeviceFits(visit, cloud, OpenedDisk, [Opened(app) EXCEPT !.screen = s], fate) BY <1>3, <1>4, ScreenChanges
<1> QED BY <1>1, <1>2, <1>5, DeviceTypes DEF DeviceInv

LEMMA PasswordMoves ==
    ASSUME DeviceInv, PasswordHere
    PROVE  DeviceInv'
<1>1. /\ cloud' \in CloudState /\ cloud'.time >= cloud.time /\ cloud'.nr >= cloud.nr /\ cloud'.got = cloud.got
  BY DeviceTypes DEF PasswordHere, CloudState
<1>2. /\ disk' \in DiskState /\ disk'.dek = disk.dek /\ disk'.wrap = disk.wrap /\ disk'.lease = disk.lease
      /\ disk'.seen = disk.seen /\ disk'.heard = disk.heard /\ disk'.epoch = disk.epoch /\ disk'.held = disk.held
      /\ disk'.caps = disk.caps
  BY DeviceTypes DEF PasswordHere, DiskState, CloudState
<1>3. edits' \in Nat /\ UNCHANGED <<visit, app, fate>> BY DeviceTypes DEF PasswordHere
<1>4. PICK e, x : e = cloud' /\ x = disk' OBVIOUS
<1>5. DeviceFits(visit, e, disk, app, fate) BY <1>1, <1>4, DeviceTypes, CloudChanges
<1>6. DeviceFits(visit, e, x, app, fate) BY <1>2, <1>4, <1>5, DiskAside
<1> QED BY <1>3, <1>4, <1>6 DEF DeviceInv

-----------------------------------------------------------------------------
(* Captures.                                                                 *)
LEMMA BusyIsUp ==
    ASSUME DeviceInv, NEW w \in Clerk, visit[w].op # "none"
    PROVE  app.up
BY DeviceTypes, IdleSaysNothing DEF DeviceFits, UpFits

LEMMA CaptureMoves ==
    ASSUME DeviceInv, NEW w \in Clerk, Capture(w)
    PROVE  DeviceInv'
<1>1. /\ app.key # 0 /\ disk.held # None /\ edits \in Nat /\ UNCHANGED <<cloud, disk, app, fate>> /\ edits' \in Nat
      /\ Begin(w, [op |-> "capture", nr |-> edits, base |-> disk.held.dataset])
  BY DeviceTypes DEF Capture
<1>2. app.up BY <1>1, DeviceTypes DEF DeviceFits, UpFits
<1>3. PICK r : r = [op |-> "capture", nr |-> edits, base |-> disk.held.dataset] OBVIOUS
<1>4. r \in CaptureVisit /\ r.op = "capture" BY <1>1, <1>3, DeviceTypes DEF CaptureVisit, DiskState, Held
<1>5. r \in DeviceVisit /\ Silent(r) /\ ~Tells(r) /\ r.op # "fetch"
  BY <1>4 DEF DeviceVisit, Silent, Carries, Answered, Taken, Tells
<1>6. DeviceFits([visit EXCEPT ![w] = r], cloud, disk, app, fate) BY <1>2, <1>5, DeviceTypes, VisitGoesOn
<1> QED BY <1>1, <1>3, <1>6 DEF Begin, DeviceInv

LEMMA MixedGrows ==
    ASSUME NEW v, NEW c, NEW d, NEW a, NEW f, DeviceFits(v, c, d, a, f), NEW h \in FateState,
           h.made = f.made, h.given = f.given, h.swept = f.swept, h.spent = f.spent, f.mixed \subseteq h.mixed
    PROVE  DeviceFits(v, c, d, a, h)
<1>1. NothingLost(c, d, h) /\ KeyFits(d, a, h) /\ GrantsFit(v, c, a, h)
  BY DEF DeviceFits, NothingLost, KeyFits, GrantsFit
<1>2. StampFits(v, c, d, h) BY DEF DeviceFits, StampFits, Marked
<1>3. SecretsFit(v, c, d, h) /\ SpentFits(d, a, h) BY DEF DeviceFits, SecretsFit, SpentFits
<1> QED BY <1>1, <1>2, <1>3 DEF DeviceFits, Types

LEMMA SealMoves ==
    ASSUME DeviceInv, NEW w \in Clerk, SealCapture(w)
    PROVE  DeviceInv'
<1>1. visit[w].op = "capture" /\ UNCHANGED <<edits, cloud, disk, app>> BY DEF SealCapture
<1>2. app.up BY <1>1, BusyIsUp
<1>3. visit[w] \in CaptureVisit BY <1>1, DeviceTypes, VisitKinds
<1>4. PICK n \in Nat, base \in Nat : n = visit[w].nr /\ base = visit[w].base BY <1>3 DEF CaptureVisit
<1>5. CASE app.key = 0
  <2>1. visit' = [visit EXCEPT ![w] = NoVisit] /\ fate' = fate BY <1>5 DEF SealCapture, End
  <2>2. DeviceFits([visit EXCEPT ![w] = NoVisit], cloud, disk, app, fate) BY DeviceTypes, CallEnds
  <2> QED BY <1>1, <2>1, <2>2, DeviceTypes DEF DeviceInv
<1>6. CASE app.key # 0
  <2>1. PICK x : x = [nr |-> n, dek |-> app.key, stamp |-> disk.epoch, base |-> base] OBVIOUS
  <2>2. x \in KeptCapture /\ x.nr = n /\ x.stamp = disk.epoch /\ x.base = base
    BY <1>6, <2>1, DeviceTypes DEF KeptCapture, AppState, DiskState
  <2>3. PICK h : h = fate' OBVIOUS
  <2>4. /\ visit' = [visit EXCEPT ![w] = [op |-> "keep", cap |-> x]]
        /\ h = IF disk.held # None /\ disk.held.dataset = base THEN fate ELSE [fate EXCEPT !.mixed = @ \cup {n}]
    BY <1>4, <1>6, <2>1, <2>3 DEF SealCapture, Continue
  <2>5. /\ h \in FateState /\ h.made = fate.made /\ h.given = fate.given /\ h.swept = fate.swept
        /\ h.spent = fate.spent /\ fate.mixed \subseteq h.mixed
        /\ ~(disk.held # None /\ disk.held.dataset = base) => n \in h.mixed
    <3>1. CASE disk.held # None /\ disk.held.dataset = base BY <2>4, <3>1, DeviceTypes
    <3>2. CASE ~(disk.held # None /\ disk.held.dataset = base)
      <4>1. PICK m \in SUBSET Nat : m = fate.mixed \cup {n} BY DeviceTypes DEF FateState
      <4>2. h = [fate EXCEPT !.mixed = m] BY <2>4, <3>2, <4>1, DeviceTypes DEF FateState
      <4> QED BY <4>1, <4>2, DeviceTypes DEF FateState
    <3> QED BY <3>1, <3>2
  <2>6. Marked(x, h) BY <2>2, <2>5, DeviceTypes DEF Marked, DeviceFits, MarkFits
  <2>7. DeviceFits(visit, cloud, disk, app, h) BY <2>5, DeviceTypes, MixedGrows
  <2>8. PICK r : r = [op |-> "keep", cap |-> x] OBVIOUS
  <2>9. r \in KeepVisit /\ r.op = "keep" /\ r.cap = x BY <2>2, <2>8 DEF KeepVisit
  <2>10. r \in DeviceVisit /\ ~Tells(r) /\ r.op # "fetch" BY <2>9 DEF DeviceVisit, Tells, Answered
  <2>11. DeviceFits([visit EXCEPT ![w] = r], cloud, disk, app, h) BY <1>2, <2>6, <2>7, <2>9, <2>10, VisitGoesOn
  <2> QED BY <1>1, <2>3, <2>4, <2>8, <2>11, DeviceTypes DEF DeviceInv
<1> QED BY <1>5, <1>6

LEMMA KeepMoves ==
    ASSUME DeviceInv, NEW w \in Clerk, KeepCapture(w)
    PROVE  DeviceInv'
<1>1. PICK x : x = visit[w].cap OBVIOUS
<1>2. /\ visit[w].op = "keep" /\ UNCHANGED <<edits, cloud, app>> /\ visit' = [visit EXCEPT ![w] = NoVisit]
      /\ disk' = [disk EXCEPT !.caps = @ \cup {x}]
      /\ fate' = [fate EXCEPT !.made = @ \cup {x.nr}, !.swept = IF x.dek = disk.dek THEN @ ELSE @ \cup {x.nr}]
  BY <1>1 DEF KeepCapture, End
<1>3. x \in KeptCapture /\ x.nr \in Nat
  <2>1. visit[w] \in KeepVisit BY <1>2, DeviceTypes, VisitKinds
  <2> QED BY <1>1, <2>1 DEF KeepVisit, KeptCapture
<1>4. PICK m \in SUBSET KeptCapture : m = disk.caps \cup {x} BY <1>3, DeviceTypes DEF DiskState
<1>5. PICK e : e = disk' OBVIOUS
<1>6. /\ e \in DiskState /\ e.dek = disk.dek /\ e.wrap = disk.wrap /\ e.lease = disk.lease /\ e.seen = disk.seen
      /\ e.heard = disk.heard /\ e.epoch = disk.epoch /\ e.held = disk.held /\ e.caps = m
  BY <1>2, <1>4, <1>5, DeviceTypes DEF DiskState
<1>7. PICK h : h = fate' OBVIOUS
<1>8. /\ h \in FateState /\ h.made = fate.made \cup {x.nr} /\ h.given = fate.given /\ h.mixed = fate.mixed
      /\ h.spent = fate.spent /\ fate.swept \subseteq h.swept /\ (x.dek = disk.dek \/ x.nr \in h.swept)
  <2>1. PICK n \in SUBSET Nat, q \in SUBSET Nat :
          n = fate.made \cup {x.nr} /\ q = IF x.dek = disk.dek THEN fate.swept ELSE fate.swept \cup {x.nr}
    BY <1>3, DeviceTypes DEF FateState
  <2>2. h = [fate EXCEPT !.made = n, !.swept = q] BY <1>2, <1>7, <2>1, DeviceTypes DEF FateState
  <2> QED BY <2>1, <2>2, DeviceTypes DEF FateState
<1>9. KeyFits(e, app, h) BY <1>4, <1>6, <1>8, DeviceTypes DEF DeviceFits, KeyFits
<1>10. NothingLost(cloud, e, h) BY <1>4, <1>6, <1>8, DeviceTypes DEF DeviceFits, NothingLost
<1>11. MarkFits(visit, e) BY <1>6, DeviceTypes DEF DeviceFits, MarkFits, FetchFits
<1>12. StampFits(visit, cloud, e, h)
  BY <1>1, <1>2, <1>4, <1>6, <1>8, DeviceTypes DEF DeviceFits, StampFits, Marked
<1>13. SecretsFit(visit, cloud, e, h) /\ GrantsFit(visit, cloud, app, h)
  BY <1>6, <1>8, DeviceTypes DEF DeviceFits, SecretsFit, GrantsFit
<1>14. ClockFits(e, app) /\ LeaseFits(visit, cloud, e, app) /\ SpentFits(e, app, h)
  BY <1>6, <1>8, DeviceTypes DEF DeviceFits, ClockFits, LeaseFits, SpentFits
<1>15. DeviceFits(visit, cloud, e, app, h)
  BY <1>6, <1>8, <1>9, <1>10, <1>11, <1>12, <1>13, <1>14, DeviceTypes DEF DeviceFits, Types
<1>16. DeviceFits([visit EXCEPT ![w] = NoVisit], cloud, e, app, h) BY <1>15, CallEnds
<1> QED BY <1>2, <1>5, <1>7, <1>16, DeviceTypes DEF DeviceInv

LEMMA SyncMoves ==
    ASSUME DeviceInv, NEW x \in disk.caps, Sync(x)
    PROVE  DeviceInv'
<1>1. UNCHANGED <<visit, edits, fate>> BY DEF Sync
<1>2. CASE cloud.session # "open"
  <2>1. app' = [Locked(app) EXCEPT !.screen = "login"] /\ UNCHANGED <<cloud, disk>>
    BY <1>2 DEF Sync, ToLogin
  <2>2. PICK b : b = app' OBVIOUS
  <2>3. /\ b \in AppState /\ b.up = app.up /\ b.seen = app.seen /\ b.heard = app.heard /\ b.online = app.online
        /\ b.era = app.era /\ b.key = 0 /\ b.screen # "page" /\ b.refused = app.refused
    BY <2>1, <2>2, DeviceTypes DEF Locked, AppState, Screens
  <2>4. b.online \in {0, b.era} /\ (~b.up => b.refused = 0)
    BY <2>3, DeviceTypes DEF DeviceFits, OnlineFits, UpFits
  <2>5. DeviceFits(visit, cloud, disk, b, fate) BY <2>3, <2>4, DeviceTypes, TabChanges
  <2> QED BY <1>1, <2>1, <2>2, <2>5, DeviceTypes DEF DeviceInv
<1>3. CASE cloud.session = "open" /\ Stamp(x) # cloud.dataset
  <2>1. disk' = [disk EXCEPT !.changed = TRUE] /\ UNCHANGED <<cloud, app>> BY <1>3 DEF Sync
  <2>2. PICK e : e = disk' OBVIOUS
  <2>3. /\ e \in DiskState /\ e.dek = disk.dek /\ e.wrap = disk.wrap /\ e.lease = disk.lease /\ e.seen = disk.seen
        /\ e.heard = disk.heard /\ e.epoch = disk.epoch /\ e.held = disk.held /\ e.caps = disk.caps
    BY <2>1, <2>2, DeviceTypes DEF DiskState
  <2>4. DeviceFits(visit, cloud, e, app, fate) BY <2>3, DeviceTypes, DiskAside
  <2> QED BY <1>1, <2>1, <2>2, <2>4, DeviceTypes DEF DeviceInv
<1>4. CASE cloud.session = "open" /\ Stamp(x) = cloud.dataset
  <2> DEFINE y == [nr |-> x.nr, base |-> x.base, stamp |-> x.stamp, at |-> cloud.dataset]
  <2>1. /\ cloud' = [cloud EXCEPT !.got = @ \cup {y}] /\ disk' = [disk EXCEPT !.caps = @ \ {x}] /\ app' = app
    BY <1>4 DEF Sync
  <2>2. x \in KeptCapture BY DeviceTypes DEF DiskState
  <2>3. y \in GotCapture BY <2>2, DeviceTypes DEF KeptCapture, GotCapture, CloudState
  <2>4. Marked(x, fate) BY DeviceTypes DEF DeviceFits, StampFits
  <2>5. y.nr = x.nr /\ (y.stamp # 0 /\ y.nr \notin fate.mixed => y.at = y.base) BY <1>4, <2>4 DEF Stamp, Marked
  <2> HIDE DEF y
  <2>6. PICK q, m : q = cloud.got \cup {y} /\ m = disk.caps \ {x} OBVIOUS
  <2>7. q \in SUBSET GotCapture /\ m \in SUBSET KeptCapture
    BY <2>3, <2>6, DeviceTypes DEF CloudState, DiskState
  <2>8. PICK c, e : c = cloud' /\ e = disk' OBVIOUS
  <2>9. c \in CloudState /\ c.time = cloud.time /\ c.nr = cloud.nr /\ c.got = q /\ c.time \in Nat /\ c.nr \in Nat
    BY <2>1, <2>6, <2>7, <2>8, DeviceTypes DEF CloudState
  <2>10. /\ e \in DiskState /\ e.dek = disk.dek /\ e.wrap = disk.wrap /\ e.lease = disk.lease /\ e.seen = disk.seen
         /\ e.heard = disk.heard /\ e.epoch = disk.epoch /\ e.held = disk.held /\ e.caps = m
    BY <2>1, <2>6, <2>7, <2>8, DeviceTypes DEF DiskState
  <2>11. DeviceFits(visit, c, disk, app, fate)
    <3>1. \A g \in c.got \ cloud.got : g.stamp # 0 /\ g.nr \notin fate.mixed => g.at = g.base BY <2>5, <2>6, <2>9
    <3>2. cloud.got \subseteq c.got /\ c.time >= cloud.time /\ c.nr >= cloud.nr BY <2>6, <2>9
    <3> QED BY <2>9, <3>1, <3>2, DeviceTypes, CloudChanges
  <2>12. \A z \in disk.caps \ e.caps : z.nr \in {g.nr : g \in c.got} BY <2>5, <2>6, <2>9, <2>10
  <2>13. DeviceFits(visit, c, e, app, fate)
    <3>1. e.caps \subseteq disk.caps BY <2>6, <2>10
    <3> QED BY <2>10, <2>11, <2>12, <3>1, DeviceTypes, CapturesLeave
  <2> QED BY <1>1, <2>1, <2>8, <2>13, DeviceTypes DEF DeviceInv
<1> QED BY <1>2, <1>3, <1>4

-----------------------------------------------------------------------------
(* The lock.  A lease refused as expired is past what the disk has noted.    *)
LEMMA RefusedIsSpent ==
    ASSUME NEW v, NEW c, NEW d, NEW a, NEW f, DeviceFits(v, c, d, a, f), NEW h \in FateState,
           d.wrap # None, h.made = f.made, h.given = f.given, h.swept = f.swept, h.mixed = f.mixed,
           h.spent = f.spent \cup {d.wrap.secret}, d.lease.until <= d.seen, a.key = 0
    PROVE  DeviceFits(v, c, d, a, h)
<1>1. /\ NothingLost(c, d, h) /\ KeyFits(d, a, h) /\ StampFits(v, c, d, h) /\ GrantsFit(v, c, a, h)
  BY DEF DeviceFits, NothingLost, KeyFits, StampFits, GrantsFit, Marked
<1>2. SecretsFit(v, c, d, h) BY DEF DeviceFits, SecretsFit
<1>3. SpentFits(d, a, h) BY DEF DeviceFits, SpentFits
<1> QED BY <1>1, <1>2, <1>3 DEF DeviceFits, Types

LEMMA ExpiredIsPast ==
    ASSUME DeviceFits(visit, cloud, disk, app, fate), app.up, cloud.time \in Nat, disk.heard # 0, disk.lease # None, disk.dek # 0,
           ~Opens(disk.dek, NotedLocal(app)), KeptLocal(disk, app).seen # 0
    PROVE  disk.lease.until <= KeptLocal(disk, app).seen
<1>1. app \in AppState /\ disk \in DiskState BY DEF DeviceFits, Types
<1>2. PICK t \in Nat : t = LocalTime(app) /\ t >= app.seen BY <1>1, LocalTimeIs
<1>3. /\ app.seen \in Nat /\ disk.seen \in Nat /\ app.heard \in Nat /\ disk.lease.until \in Nat /\ app.skew \in Int
      /\ disk.heard \in Nat /\ Span \in Nat
  BY <1>1, DeviceAssumption DEF AppState, DiskState, KeptLease
<1>4. app.heard = disk.heard /\ disk.seen \in {0, app.seen}
  BY DEF DeviceFits, ClockFits
<1>5. disk.lease.until <= app.heard + Span BY <1>4 DEF DeviceFits, LeaseFits
<1>6. NotedLocal(app).seen = t /\ NotedLocal(app).skew = app.skew BY <1>1, <1>2 DEF NotedLocal, AppState
<1>7. disk.lease.until <= Later(cloud.time + app.skew, t)
  BY <1>3, <1>2, <1>6 DEF Opens, MonotoneNow, DeviceTime, Later
<1>8. disk.lease.until <= t
  BY <1>2, <1>3, <1>4, <1>5, <1>7 DEF LocalTime, Later, Earlier, DeviceTime
<1>9. KeptLocal(disk, app).seen = IF t > app.seen THEN t ELSE disk.seen
  BY <1>1, <1>2 DEF KeptLocal, DiskState
<1> QED BY <1>2, <1>3, <1>4, <1>8, <1>9

LEMMA UnlockOfflineMoves ==
    ASSUME DeviceInv, NEW p, UnlockOffline(p)
    PROVE  DeviceInv'
<1>1. app.up /\ app.screen = "locked" /\ disk.dek # 0 /\ UNCHANGED <<visit, edits, cloud>> BY DEF UnlockOffline
<1>2. app.up BY <1>1
<1>3. DeviceFits(visit, cloud, KeptLocal(disk, app), NotedLocal(app), fate) BY <1>2, DeviceTypes, ClockRead
<1>4. NotedLocal(app) = [app EXCEPT !.seen = LocalTime(app)] BY <1>2, DeviceTypes, ClockRead
<1>5. \E n \in Nat : KeptLocal(disk, app) = [disk EXCEPT !.seen = n]
  <2>1. LocalTime(app) \in Nat BY DeviceTypes, LocalTimeIs
  <2>2. disk.seen \in Nat BY DeviceTypes DEF DiskState
  <2> QED BY <2>1, <2>2 DEF KeptLocal
<1>6. PICK b, d : b = NotedLocal(app) /\ d = KeptLocal(disk, app) OBVIOUS
<1>7. DeviceFits(visit, cloud, d, b, fate) /\ b \in AppState /\ d \in DiskState BY <1>3, <1>6 DEF DeviceFits, Types
<1>8. /\ b.up = app.up /\ b.key = app.key /\ b.heard = app.heard /\ b.online = app.online /\ b.era = app.era
      /\ b.refused = app.refused /\ b.screen = app.screen
  BY <1>4, <1>6, DeviceTypes DEF AppState
<1>9. /\ d.dek = disk.dek /\ d.wrap = disk.wrap /\ d.lease = disk.lease /\ d.heard = disk.heard
  BY <1>5, <1>6, DeviceTypes DEF DiskState
<1>10. b.up BY <1>1, <1>8
<1>11. CASE p # disk.byPass
  <2>1. disk' = [d EXCEPT !.failures = disk.failures + 1] /\ app' = b /\ fate' = fate
    <3>1. d.failures = disk.failures BY <1>5, <1>6, DeviceTypes DEF DiskState
    <3> QED BY <1>6, <1>11, <3>1 DEF UnlockOffline
  <2>2. PICK n \in Nat : n = disk.failures + 1 BY DeviceTypes DEF DiskState
  <2>3. PICK e : e = disk' OBVIOUS
  <2>4. /\ e \in DiskState /\ e.dek = d.dek /\ e.wrap = d.wrap /\ e.lease = d.lease /\ e.seen = d.seen
        /\ e.heard = d.heard /\ e.epoch = d.epoch /\ e.held = d.held /\ e.caps = d.caps
    BY <1>7, <2>1, <2>2, <2>3 DEF DiskState
  <2>5. DeviceFits(visit, cloud, e, b, fate) BY <1>7, <2>4, DiskAside
  <2> QED BY <1>1, <2>1, <2>3, <2>5, DeviceTypes DEF DeviceInv
<1>12. CASE p = disk.byPass /\ Opens(disk.dek, b)
  <2>1. disk' = [d EXCEPT !.failures = 0] /\ app' = [Unlocked(b, disk.dek) EXCEPT !.screen = "page"] /\ fate' = fate
    BY <1>6, <1>12 DEF UnlockOffline
  <2>2. disk.dek = d.dek /\ (d.wrap # None => d.wrap.secret \notin fate.spent)
    BY <1>7, <1>9, <1>10, <1>12, DeviceTypes, OpensUnspent
  <2>3. PICK e, o : e = disk' /\ o = app' OBVIOUS
  <2>4. /\ e \in DiskState /\ e.dek = d.dek /\ e.wrap = d.wrap /\ e.lease = d.lease /\ e.seen = d.seen
        /\ e.heard = d.heard /\ e.epoch = d.epoch /\ e.held = d.held /\ e.caps = d.caps
    BY <1>7, <2>1, <2>3 DEF DiskState
  <2>5. DeviceFits(visit, cloud, e, b, fate) BY <1>7, <2>4, DiskAside
  <2>6. PICK k \in Nat : k = disk.dek BY DeviceTypes DEF DiskState
  <2>7. /\ o \in AppState /\ o.up = b.up /\ o.seen = b.seen /\ o.heard = b.heard /\ o.online = b.online
        /\ o.era = b.era /\ o.key = k
    BY <1>7, <2>1, <2>3, <2>6 DEF Unlocked, AppState, Screens
  <2>8. o.online \in {0, o.era} BY <1>7, <2>7 DEF DeviceFits, OnlineFits
  <2>9. o.up /\ o.key = e.dek BY <1>10, <2>2, <2>4, <2>6, <2>7
  <2>10. DeviceFits(visit, cloud, e, o, fate) BY <2>2, <2>4, <2>5, <2>7, <2>8, <2>9, TabChanges
  <2> QED BY <1>1, <2>1, <2>3, <2>10, DeviceTypes DEF DeviceInv
<1>13. CASE p = disk.byPass /\ ~Opens(disk.dek, b)
  <2>1. disk' = d /\ app' = b BY <1>6, <1>13 DEF UnlockOffline
  <2>2. CASE disk.lease = None \/ disk.heard = 0 \/ d.seen = 0 \/ app.key # 0
    <3>1. fate' = fate BY <1>6, <1>13, <2>2 DEF UnlockOffline
    <3> QED BY <1>1, <1>7, <2>1, <3>1, DeviceTypes DEF DeviceInv
  <2>3. CASE disk.lease # None /\ disk.heard # 0 /\ d.seen # 0 /\ app.key = 0
    <3>1. fate' = [fate EXCEPT !.spent = @ \cup {disk.wrap.secret}] BY <1>6, <1>13, <2>3 DEF UnlockOffline
    <3>2. disk.wrap # None BY <2>3, DeviceTypes DEF DeviceFits, SecretsFit
    <3>3. PICK s \in Nat : s = disk.wrap.secret BY <3>2, DeviceTypes DEF DiskState, Wrapping
    <3>4. PICK m \in SUBSET Nat : m = fate.spent \cup {s} BY DeviceTypes DEF FateState
    <3>5. PICK h : h = fate' OBVIOUS
    <3>6. h \in FateState /\ h.made = fate.made /\ h.given = fate.given /\ h.swept = fate.swept /\ h.spent = m /\ h.mixed = fate.mixed
      BY <3>1, <3>3, <3>4, <3>5, DeviceTypes DEF FateState
    <3>7. disk.lease.until <= d.seen
      BY <1>1, <1>2, <1>6, <1>13, <2>3, DeviceTypes, ExpiredIsPast
    <3>8. DeviceFits(visit, cloud, d, b, h)
      BY <1>7, <1>8, <1>9, <2>3, <3>2, <3>3, <3>4, <3>6, <3>7, RefusedIsSpent
    <3> QED BY <1>1, <2>1, <3>5, <3>8, DeviceTypes DEF DeviceInv
  <2> QED BY <2>2, <2>3
<1> QED BY <1>6, <1>11, <1>12, <1>13

-----------------------------------------------------------------------------
(* Calls for a lease.                                                        *)
LEMMA CallsTyped ==
    ASSUME NEW from \in Callers, NEW p \in Nat, NEW c \in CloudState, c.lease = cloud.lease
    PROVE  /\ LeaseCall(from, p) \in DeviceVisit /\ LeaseCall(from, p).op = "lease"
           /\ Silent(LeaseCall(from, p)) /\ ~Tells(LeaseCall(from, p))
           /\ SecretCall(from, p, c) \in DeviceVisit /\ SecretCall(from, p, c).op = "secret"
           /\ Silent(SecretCall(from, p, c)) /\ ~Tells(SecretCall(from, p, c))
<1>1. LeaseCall(from, p) \in LeaseVisit BY DEF LeaseCall, LeaseVisit
<1>2. SecretReply(c) \in SecretAnswer
  <2>1. CASE c.session # "open" BY <2>1 DEF SecretReply, SecretAnswer
  <2>2. CASE c.session = "open" /\ ~LeaseAlive BY <2>2 DEF SecretReply, SecretAnswer
  <2>3. CASE c.session = "open" /\ LeaseAlive
    <3>1. c.lease \in Granted BY <2>3 DEF LeaseAlive, CloudState
    <3>2. [id |-> c.lease.id, secret |-> c.lease.secret] \in Wrapping BY <3>1 DEF Granted, Wrapping
    <3> QED BY <2>3, <3>2 DEF SecretReply, SecretAnswer
  <2> QED BY <2>1, <2>2, <2>3
<1>3. SecretCall(from, p, c) \in SecretVisit BY <1>2 DEF SecretCall, SecretVisit
<1> QED BY <1>1, <1>3 DEF DeviceVisit, LeaseCall, SecretCall, Answered, Carries, Taken, Silent, Tells

LEMMA AuthorizeFits ==
    ASSUME NEW v, NEW c, NEW d, NEW a, NEW f, DeviceFits(v, c, d, a, f), a.up, v = visit, NEW w \in Clerk,
           NEW from \in Callers, NEW p \in Nat, NEW k \in CloudState, k.lease = cloud.lease,
           NEW u, u = visit', Begin(w, LeaseCall(from, p)) \/ Begin(w, SecretCall(from, p, k))
    PROVE  DeviceFits(u, c, d, a, f)
<1>1. PICK r \in DeviceVisit : /\ u = [v EXCEPT ![w] = r] /\ r.op \in {"lease", "secret"} /\ Silent(r) /\ ~Tells(r)
  BY CallsTyped DEF Begin
<1>2. DeviceFits([v EXCEPT ![w] = r], c, d, a, f) BY <1>1, VisitGoesOn
<1> QED BY <1>1, <1>2

LEMMA PrimeMoves ==
    ASSUME DeviceInv, NEW w \in Clerk, Prime(w, cloud.pass)
    PROVE  DeviceInv'
<1>1. PICK k : k = cloud' OBVIOUS
<1>2. PICK a, d : a = Opened(app) /\ d = OpenedDisk OBVIOUS
<1>3. /\ k = [cloud EXCEPT !.session = "open"] /\ app' = [a EXCEPT !.screen = "loading"] /\ disk' = d
      /\ UNCHANGED <<edits, fate>>
      /\ Begin(w, LeaseCall("login", cloud.pass)) \/ Begin(w, SecretCall("login", cloud.pass, k))
  BY <1>1, <1>2 DEF Prime, Authorize
<1>4. /\ k \in CloudState /\ k.time = cloud.time /\ k.nr = cloud.nr /\ k.got = cloud.got /\ k.lease = cloud.lease
      /\ k.time \in Nat /\ k.nr \in Nat
  BY <1>3, DeviceTypes DEF CloudState, Sessions
<1>5. DeviceFits(visit, k, disk, app, fate)
  <2>1. k.time >= cloud.time /\ k.nr >= cloud.nr BY <1>4
  <2> QED BY <1>4, <2>1, DeviceTypes, CloudChanges
<1>6. DeviceFits(visit, k, d, a, fate) BY <1>2, <1>5, DeviceTypes, WorkspaceOpened
<1>7. a.up BY <1>2, <1>5, DeviceTypes, WorkspaceOpened
<1>8. DeviceFits(visit, k, d, [a EXCEPT !.screen = "loading"], fate) BY <1>6, <1>7, ScreenChanges DEF Screens
<1>9. PICK b, v, u : b = app' /\ v = visit /\ u = visit' OBVIOUS
<1>10. b.up BY <1>3, <1>6, <1>7, <1>9 DEF DeviceFits, Types, AppState
<1>11. "login" \in Callers /\ cloud.pass \in Nat BY DeviceTypes DEF Callers, CloudState
<1>12. DeviceFits(v, k, d, b, fate) BY <1>3, <1>8, <1>9
<1>13. DeviceFits(u, k, d, b, fate) BY <1>3, <1>4, <1>9, <1>10, <1>11, <1>12, AuthorizeFits
<1> QED BY <1>1, <1>2, <1>3, <1>9, <1>13, DeviceTypes DEF DeviceInv

LEMMA UnlockOnlineMoves ==
    ASSUME DeviceInv, NEW w \in Clerk, UnlockOnline(w, cloud.pass)
    PROVE  DeviceInv'
<1>1. UNCHANGED <<edits, disk, fate>> BY DEF UnlockOnline
<1>2. CASE cloud.session = "gone"
  <2>1. app' = [app EXCEPT !.screen = "login"] /\ UNCHANGED <<visit, cloud>> BY <1>2 DEF UnlockOnline
  <2>2. DeviceFits(visit, cloud, disk, [app EXCEPT !.screen = "login"], fate)
    BY DeviceTypes, ScreenChanges DEF Screens
  <2> QED BY <1>1, <2>1, <2>2, DeviceTypes DEF DeviceInv
<1>3. CASE cloud.session # "gone"
  <2>1. PICK k, b, v, u : k = cloud' /\ b = app' /\ v = visit /\ u = visit' OBVIOUS
  <2>2. /\ k = [cloud EXCEPT !.session = "open"]
        /\ b = [app EXCEPT !.refused = 0, !.screen = IF app.up THEN @ ELSE "loading"]
    BY <1>3, <2>1 DEF UnlockOnline
  <2>3. /\ k \in CloudState /\ k.time = cloud.time /\ k.nr = cloud.nr /\ k.got = cloud.got /\ k.lease = cloud.lease
        /\ k.time \in Nat /\ k.nr \in Nat
    BY <2>2, DeviceTypes DEF CloudState, Sessions
  <2>4. DeviceFits(v, k, disk, app, fate)
    <3>1. k.time >= cloud.time /\ k.nr >= cloud.nr BY <2>3
    <3> QED BY <2>1, <2>3, <3>1, DeviceTypes, CloudChanges
  <2>5. PICK s \in Screens : s = IF app.up THEN app.screen ELSE "loading" BY DeviceTypes DEF AppState, Screens
  <2>6. b = [app EXCEPT !.refused = 0, !.screen = s] BY <2>2, <2>5, DeviceTypes DEF AppState
  <2>7. /\ b \in AppState /\ b.up = app.up /\ b.seen = app.seen /\ b.heard = app.heard /\ b.online = app.online
        /\ b.era = app.era /\ b.key = app.key /\ b.screen = s /\ b.refused = 0
    BY <2>6, DeviceTypes DEF AppState
  <2>8. b.online \in {0, b.era} /\ (~b.up => b.screen # "page")
    BY <2>5, <2>7, DeviceTypes DEF DeviceFits, OnlineFits
  <2>9. DeviceFits(v, k, disk, b, fate) BY <2>4, <2>7, <2>8, TabChanges
  <2>10. CASE ~app.up
    <3>1. visit' = visit BY <1>3, <2>10 DEF UnlockOnline
    <3> QED BY <1>1, <2>1, <2>9, <3>1, DeviceTypes DEF DeviceInv
  <2>11. CASE app.up
    <3>1. Begin(w, LeaseCall("lock", cloud.pass)) \/ Begin(w, SecretCall("lock", cloud.pass, k))
      BY <1>3, <2>2, <2>11 DEF UnlockOnline, Authorize
    <3>2. b.up BY <2>7, <2>11
    <3>3. "lock" \in Callers /\ cloud.pass \in Nat BY DeviceTypes DEF Callers, CloudState
    <3>4. DeviceFits(u, k, disk, b, fate) BY <2>1, <2>3, <2>9, <3>1, <3>2, <3>3, AuthorizeFits
    <3> QED BY <1>1, <2>1, <3>4, DeviceTypes DEF DeviceInv
  <2> QED BY <2>10, <2>11
<1> QED BY <1>2, <1>3

LEMMA GuardMoves ==
    ASSUME DeviceInv, NEW w \in Clerk, Guard(w)
    PROVE  DeviceInv'
<1>1. UNCHANGED <<edits, cloud, fate>> BY DEF Guard
<1>2. CASE app' \in {ToLogin(app), [Locked(app) EXCEPT !.screen = "locked"]} /\ UNCHANGED <<visit, disk>>
  <2>1. PICK b : b = app' OBVIOUS
  <2>2. /\ b \in AppState /\ b.up = app.up /\ b.seen = app.seen /\ b.heard = app.heard /\ b.online = app.online
        /\ b.era = app.era /\ b.key = 0 /\ b.screen # "page" /\ b.refused = app.refused
    <3>1. CASE b = ToLogin(app) BY <3>1, DeviceTypes DEF ToLogin, Locked, AppState, Screens
    <3>2. CASE b = [Locked(app) EXCEPT !.screen = "locked"] BY <3>2, DeviceTypes DEF Locked, AppState, Screens
    <3> QED BY <1>2, <2>1, <3>1, <3>2
  <2>3. b.online \in {0, b.era} /\ (~b.up => b.refused = 0) BY <2>2, DeviceTypes DEF DeviceFits, OnlineFits, UpFits
  <2>4. DeviceFits(visit, cloud, disk, b, fate) BY <2>2, <2>3, DeviceTypes, TabChanges
  <2> QED BY <1>1, <1>2, <2>1, <2>4, DeviceTypes DEF DeviceInv
<1>3. CASE app' = [Opened(app) EXCEPT !.screen = "page"] /\ disk' = OpenedDisk /\ cloud.session = "open"
  <2>1. PICK a, d, b, v, u : a = Opened(app) /\ d = OpenedDisk /\ b = app' /\ v = visit /\ u = visit' OBVIOUS
  <2>2. DeviceFits(v, cloud, d, a, fate) BY <2>1, DeviceTypes, WorkspaceOpened
  <2>3. a.up BY <2>1, DeviceTypes, WorkspaceOpened
  <2>4. DeviceFits(v, cloud, d, [a EXCEPT !.screen = "page"], fate) BY <2>2, <2>3, ScreenChanges DEF Screens
  <2>5. DeviceFits(v, cloud, d, b, fate) BY <1>3, <2>1, <2>4
  <2>6. b.up BY <1>3, <2>1, <2>2, <2>3 DEF DeviceFits, Types, AppState
  <2>7. CASE visit' = visit
    BY <1>1, <1>3, <2>1, <2>5, <2>7, DeviceTypes DEF DeviceInv
  <2>8. CASE Begin(w, SecretCall("guard", 0, cloud))
    <3>1. "guard" \in Callers /\ 0 \in Nat /\ cloud.lease = cloud.lease BY DEF Callers
    <3>2. DeviceFits(u, cloud, d, b, fate) BY <2>1, <2>5, <2>6, <2>8, <3>1, DeviceTypes, AuthorizeFits
    <3> QED BY <1>1, <1>3, <2>1, <3>2, DeviceTypes DEF DeviceInv
  <2>9. visit' = visit \/ Begin(w, SecretCall("guard", 0, cloud)) BY <1>3 DEF Guard
  <2> QED BY <2>7, <2>8, <2>9
<1> QED BY <1>2, <1>3 DEF Guard

LEMMA ProvideMoves ==
    ASSUME DeviceInv, NEW w \in Clerk, Provide(w)
    PROVE  DeviceInv'
<1>1. app.up /\ UNCHANGED <<edits, cloud, disk, app, fate>> BY DEF Provide
<1>2. app.up BY <1>1
<1>3. Begin(w, LeaseCall("provider", 0)) \/ Begin(w, SecretCall("provider", 0, cloud)) BY DEF Provide
<1>4. "provider" \in Callers /\ 0 \in Nat /\ cloud.lease = cloud.lease BY DEF Callers
<1>5. PICK v, u : v = visit /\ u = visit' OBVIOUS
<1>6. DeviceFits(u, cloud, disk, app, fate) BY <1>2, <1>3, <1>4, <1>5, DeviceTypes, AuthorizeFits
<1> QED BY <1>1, <1>5, <1>6, DeviceTypes DEF DeviceInv

LEMMA TakeSecretMoves ==
    ASSUME DeviceInv, NEW w \in Clerk, TakeSecret(w)
    PROVE  DeviceInv'
<1>1. visit[w].op = "secret" /\ UNCHANGED <<edits, cloud, fate>> BY DEF TakeSecret
<1>2. app.up BY <1>1, BusyIsUp
<1>3. visit[w] \in SecretVisit BY <1>1, DeviceTypes, VisitKinds
<1>4. Opens(disk.dek, app) => (disk.wrap # None => disk.wrap.secret \notin fate.spent)
  BY <1>2, DeviceTypes, OpensUnspent
<1>5. PICK b : b = app' OBVIOUS
<1>6. DeviceFits(visit, cloud, disk, b, fate)
  <2>1. b = app \/ (b = Unlocked(app, disk.dek) /\ Opens(disk.dek, app)) BY <1>5 DEF TakeSecret
  <2>2. CASE b = app BY <2>2, DeviceTypes
  <2>3. CASE b = Unlocked(app, disk.dek) /\ Opens(disk.dek, app)
    <3>1. PICK k \in Nat : k = disk.dek BY DeviceTypes DEF DiskState
    <3>2. /\ b \in AppState /\ b.up = app.up /\ b.seen = app.seen /\ b.heard = app.heard /\ b.online = app.online
          /\ b.era = app.era /\ b.key = k /\ b.screen = app.screen /\ b.refused = app.refused
      BY <2>3, <3>1, DeviceTypes DEF Unlocked, AppState
    <3>3. b.online \in {0, b.era} BY <3>2, DeviceTypes DEF DeviceFits, OnlineFits
    <3>4. b.up /\ b.key = disk.dek BY <1>2, <3>1, <3>2
    <3> QED BY <1>4, <2>3, <3>2, <3>3, <3>4, DeviceTypes, TabChanges
  <2> QED BY <2>1, <2>2, <2>3
<1>7. PICK d : d = disk' OBVIOUS
<1>8. DeviceFits(visit, cloud, d, b, fate)
  <2>1. d = disk \/ d = [disk EXCEPT !.wrap = None, !.lease = None] BY <1>7 DEF TakeSecret
  <2>2. DeviceFits(visit, cloud, [disk EXCEPT !.wrap = None, !.lease = None], b, fate) BY <1>6, LeaseForgotten
  <2> QED BY <1>6, <2>1, <2>2
<1>9. b.up
  <2>1. b = app \/ b = Unlocked(app, disk.dek) BY <1>5 DEF TakeSecret
  <2> QED BY <1>2, <2>1, DeviceTypes DEF Unlocked, AppState
<1>10. CASE End(w)
  <2>1. DeviceFits([visit EXCEPT ![w] = NoVisit], cloud, d, b, fate) BY <1>8, CallEnds
  <2> QED BY <1>1, <1>5, <1>7, <1>10, <2>1, DeviceTypes DEF DeviceInv, End
<1>11. CASE Continue(w, [visit[w] EXCEPT !.op = "lease", !.reply = None])
  <2>1. PICK r : r = [visit[w] EXCEPT !.op = "lease", !.reply = None] OBVIOUS
  <2>2. r \in LeaseVisit /\ r.op = "lease" /\ r.reply = None BY <1>3, <2>1 DEF SecretVisit, LeaseVisit
  <2>3. r \in DeviceVisit /\ Silent(r) /\ ~Tells(r) /\ r.op # "fetch" BY <2>2 DEF DeviceVisit, Answered, Carries, Taken, Silent, Tells
  <2>4. DeviceFits([visit EXCEPT ![w] = r], cloud, d, b, fate) BY <1>8, <1>9, <2>3, VisitGoesOn
  <2> QED BY <1>1, <1>5, <1>7, <1>11, <2>1, <2>4, DeviceTypes DEF DeviceInv, Continue
<1> QED BY <1>10, <1>11 DEF TakeSecret, AfterSecret

LEMMA VisitAnswered ==
    ASSUME NEW v, NEW c, NEW d, NEW a, NEW f, DeviceFits(v, c, d, a, f), NEW w \in Clerk, NEW r \in LeaseVisit,
           Answered(r), a.up, NEW n \in Nat, r.reply.lease.secret = n, n <= c.nr, \A s \in f.spent : s < n,
           d.wrap # None => d.wrap.secret < n,
           \A x \in Clerk \ {w} : Carries(v[x]) => LeaseIn(v[x]).secret < n,
           r.reply.lease.until <= r.reply.issued + Span, r.reply.issued <= c.time,
           d.lease # None => d.lease.until <= r.reply.issued + Span
    PROVE  DeviceFits([v EXCEPT ![w] = r], c, d, a, f)
<1> DEFINE u == [v EXCEPT ![w] = r]
<1>0. r \in DeviceVisit /\ r.op = "lease" /\ LeaseIn(r) = r.reply.lease /\ ~Taken(r)
  BY DEF DeviceVisit, LeaseVisit, LeaseIn, Taken
<1>1. u \in [Clerk -> DeviceVisit] /\ \A x \in Clerk : u[x] = IF x = w THEN r ELSE v[x]
  BY <1>0 DEF DeviceFits, Types
<1> HIDE DEF u
<1>2. UpFits(u, a) BY <1>1 DEF DeviceFits, UpFits
<1>3. MarkFits(u, d) /\ StampFits(u, c, d, f) BY <1>0, <1>1 DEF DeviceFits, MarkFits, StampFits
<1>4. SecretsFit(u, c, d, f)
  <2>1. d.wrap # None => d.wrap.secret \in Nat BY DEF DeviceFits, Types, DiskState, Wrapping
  <2>2. \A s \in f.spent : s \in Nat BY DEF DeviceFits, Types, FateState
  <2>3. \A x \in Clerk : Carries(v[x]) => LeaseIn(v[x]).secret \in Nat
    BY LeasesTyped DEF DeviceFits, Types, Granted
  <2>4. n \notin f.spent /\ (d.wrap # None => n # d.wrap.secret)
        /\ \A x \in Clerk \ {w} : Carries(v[x]) => LeaseIn(v[x]).secret # n
    BY <2>1, <2>2, <2>3
  <2> QED BY <1>0, <1>1, <2>4 DEF DeviceFits, SecretsFit
<1>5. GrantsFit(u, c, a, f) BY <1>0, <1>1 DEF DeviceFits, GrantsFit
<1>6. LeaseFits(u, c, d, a) BY <1>0, <1>1 DEF DeviceFits, LeaseFits, TimeOf
<1> QED BY <1>1, <1>2, <1>3, <1>4, <1>5, <1>6 DEF DeviceFits, Types, u

LEMMA LeaseServedMoves ==
    ASSUME DeviceInv, NEW w \in Clerk, LeaseServed(w)
    PROVE  DeviceInv'
<1>1. /\ visit[w].op = "lease" /\ UNCHANGED <<edits, disk, app, fate>> /\ Span \in Nat
      /\ cloud' = [cloud EXCEPT !.lease = NextLease, !.nr = @ + 1]
      /\ visit' = [visit EXCEPT ![w] = [visit[w] EXCEPT !.reply = [lease |-> NextLease, issued |-> cloud.time]]]
  BY DeviceAssumption DEF LeaseServed, Continue
<1>2. app.up BY <1>1, BusyIsUp
<1>3. visit[w] \in LeaseVisit BY <1>1, DeviceTypes, VisitKinds
<1>4. cloud.nr \in Nat /\ cloud.time \in Nat BY DeviceTypes DEF CloudState
<1>5. PICK l : l = NextLease OBVIOUS
<1>6. l \in Granted /\ l.secret = cloud.nr + 1 /\ l.until = cloud.time + Span
  <2>1. CASE cloud.lease = None BY <1>1, <1>4, <1>5, <2>1 DEF NextLease, Granted
  <2>2. CASE cloud.lease # None
    <3>1. cloud.lease.id \in Nat BY <2>2, DeviceTypes DEF CloudState, Granted
    <3> QED BY <1>1, <1>4, <1>5, <2>2, <3>1 DEF NextLease, Granted
  <2> QED BY <2>1, <2>2
<1>7. PICK n \in Nat : n = cloud.nr + 1 BY <1>4
<1>8. PICK k : k = cloud' OBVIOUS
<1>9. k = [cloud EXCEPT !.lease = l, !.nr = n] BY <1>1, <1>5, <1>7, <1>8, DeviceTypes DEF CloudState
<1>10. k \in CloudState /\ k.time = cloud.time /\ k.nr = n /\ k.got = cloud.got
  BY <1>6, <1>9, DeviceTypes DEF CloudState
<1>11. DeviceFits(visit, k, disk, app, fate)
  <2>1. k.time >= cloud.time /\ k.nr >= cloud.nr BY <1>4, <1>7, <1>10
  <2> QED BY <1>10, <2>1, DeviceTypes, CloudChanges
<1>12. PICK q : q = [lease |-> l, issued |-> cloud.time] OBVIOUS
<1>13. q \in LeaseReply /\ q.lease = l /\ q.issued = cloud.time
  BY <1>4, <1>6, <1>12 DEF LeaseReply
<1>14. PICK r : r = [visit[w] EXCEPT !.reply = q] OBVIOUS
<1>15. r \in LeaseVisit /\ r.op = "lease" /\ r.reply = q BY <1>3, <1>13, <1>14 DEF LeaseVisit
<1>16. r \in DeviceVisit /\ r.op # "fetch" /\ (Tells(r) => Answered(r)) /\ (~Answered(r) => Silent(r))
  BY <1>15 DEF DeviceVisit, Tells, Silent, Carries, Taken
<1>17. /\ \A s \in fate.spent : s < n
       /\ disk.wrap # None => disk.wrap.secret < n
       /\ \A x \in Clerk : Carries(visit[x]) => LeaseIn(visit[x]).secret < n
  <2>1. disk.wrap # None => disk.wrap.secret \in Nat BY DeviceTypes DEF DiskState, Wrapping
  <2>2. \A s \in fate.spent : s \in Nat BY DeviceTypes DEF FateState
  <2>3. \A x \in Clerk : Carries(visit[x]) => LeaseIn(visit[x]).secret \in Nat
    BY LeasesTyped, DeviceTypes DEF Granted
  <2> QED BY <1>4, <1>7, <2>1, <2>2, <2>3, DeviceTypes DEF DeviceFits, SecretsFit
<1>18. r.reply.lease.until <= r.reply.issued + Span /\ r.reply.issued <= k.time /\ r.reply.lease.secret = n /\ n <= k.nr
  BY <1>1, <1>4, <1>6, <1>7, <1>10, <1>13, <1>15
<1>19. disk.lease # None => disk.lease.until <= r.reply.issued + Span
  BY <1>13, <1>15, DeviceTypes DEF DeviceFits, LeaseFits
<1>20. DeviceFits([visit EXCEPT ![w] = r], k, disk, app, fate)
  <2>1. CASE Answered(r) BY <1>2, <1>11, <1>15, <1>17, <1>18, <1>19, <2>1, VisitAnswered
  <2>2. CASE ~Answered(r) BY <1>2, <1>11, <1>16, <2>2, VisitGoesOn
  <2> QED BY <2>1, <2>2
<1> QED BY <1>1, <1>5, <1>8, <1>12, <1>14, <1>20, DeviceTypes DEF DeviceInv

LEMMA AfterGrantFits ==
    ASSUME NEW v, NEW c, NEW d, NEW a, NEW f, DeviceFits(v, c, d, a, f), a.up, NEW from, NEW granted
    PROVE  DeviceFits(v, c, d, AfterGrant(from, granted, a), f)
<1>1. AfterGrant(from, granted, a) \in {a, [a EXCEPT !.screen = "loading"], [a EXCEPT !.screen = a.screen],
                                       [Locked(a) EXCEPT !.screen = "locked"]}
  BY DEF AfterGrant
<1>2. DeviceFits(v, c, d, [a EXCEPT !.screen = "loading"], f) BY ScreenChanges DEF Screens
<1>3. DeviceFits(v, c, d, [a EXCEPT !.screen = a.screen], f) 
  <2>1. a.screen \in Screens BY DEF DeviceFits, Types, AppState
  <2> QED BY <2>1, ScreenChanges
<1>4. DeviceFits(v, c, d, [Locked(a) EXCEPT !.screen = "locked"], f)
  <2>1. PICK b : b = [Locked(a) EXCEPT !.screen = "locked"] OBVIOUS
  <2>2. /\ b \in AppState /\ b.up = a.up /\ b.seen = a.seen /\ b.heard = a.heard /\ b.online = a.online
        /\ b.era = a.era /\ b.key = 0 /\ b.screen # "page"
    BY <2>1 DEF DeviceFits, Types, Locked, AppState, Screens
  <2>3. b.online \in {0, b.era} /\ b.up BY <2>2 DEF DeviceFits, OnlineFits
  <2>4. DeviceFits(v, c, d, b, f) BY <2>2, <2>3, TabChanges
  <2> QED BY <2>1, <2>4
<1> QED BY <1>1, <1>2, <1>3, <1>4

LEMMA LeaseLostMoves ==
    ASSUME DeviceInv, NEW w \in Clerk, LeaseLost(w)
    PROVE  DeviceInv'
<1>1. visit[w].op = "lease" /\ UNCHANGED <<edits, cloud, disk, fate>> BY DEF LeaseLost
<1>2. app.up BY <1>1, BusyIsUp
<1>3. PICK v, a : v = visit /\ a = app OBVIOUS
<1>4. DeviceFits(v, cloud, disk, a, fate) /\ a.up BY <1>2, <1>3, DeviceTypes
<1>5. DeviceFits(v, cloud, disk, AfterGrant(v[w].from, FALSE, a), fate) BY <1>2, <1>3, <1>4, AfterGrantFits
<1>6. DeviceFits([v EXCEPT ![w] = NoVisit], cloud, disk, AfterGrant(v[w].from, FALSE, a), fate) BY <1>5, CallEnds
<1> QED BY <1>1, <1>3, <1>6, DeviceTypes DEF LeaseLost, End, DeviceInv

LEMMA TakeGrantMoves ==
    ASSUME DeviceInv, NEW w \in Clerk, TakeGrant(w)
    PROVE  DeviceInv'
<1>1. visit[w].op = "lease" /\ visit[w].reply # None /\ UNCHANGED <<edits, cloud, fate>> BY DEF TakeGrant
<1>2. app.up BY <1>1, BusyIsUp
<1>3. visit[w] \in LeaseVisit /\ Answered(visit[w]) BY <1>1, DeviceTypes, VisitKinds DEF Answered
<1>4. PICK v, l, t : v = visit /\ l = visit[w].reply.lease /\ t = visit[w].reply.issued OBVIOUS
<1>5. l \in Granted /\ t \in Nat /\ v[w].pass \in Nat /\ v[w].from \in Callers
  BY <1>1, <1>3, <1>4 DEF LeaseVisit, LeaseReply
<1>6. l.until <= t + Span /\ t <= cloud.time BY <1>3, <1>4, DeviceTypes DEF DeviceFits, GrantsFit
<1>7. PICK h, d : h = NotedServer(app, t) /\ d = KeptServer(disk, app, t) OBVIOUS
<1>8. disk.lease # None => disk.lease.until <= t + Span \/ disk.lease.until <= app.heard + Span
  BY <1>2, <1>3, <1>4 , DeviceTypes DEF DeviceFits, LeaseFits, Tells, TimeOf, Answered
<1>9. DeviceFits(v, cloud, d, h, fate) /\ h \in AppState /\ d \in DiskState
  <2>1. DeviceFits(v, cloud, d, h, fate) BY <1>2, <1>4, <1>5, <1>7, <1>8, DeviceTypes, ServerHeard
  <2> QED BY <2>1 DEF DeviceFits, Types
<1>10. h.up = app.up /\ h.heard >= t BY <1>5, <1>7, DeviceTypes DEF NotedServer, Later, AppState
<1>11. h.up BY <1>2, <1>10
<1>12. disk' = d BY <1>4, <1>7 DEF TakeGrant
<1>13. CASE app.key = 0 /\ disk.dek # 0 /\ v[w].pass = 0
  <2>1. app' = AfterGrant(v[w].from, FALSE, h) /\ visit' = [v EXCEPT ![w] = NoVisit]
    BY <1>4, <1>7, <1>13 DEF TakeGrant, End
  <2>2. DeviceFits(v, cloud, d, AfterGrant(v[w].from, FALSE, h), fate) BY <1>9, <1>11, AfterGrantFits
  <2>3. DeviceFits([v EXCEPT ![w] = NoVisit], cloud, d, AfterGrant(v[w].from, FALSE, h), fate) BY <2>2, CallEnds
  <2> QED BY <1>1, <1>12, <2>1, <2>3, DeviceTypes DEF DeviceInv
<1>14. CASE ~(app.key = 0 /\ disk.dek # 0 /\ v[w].pass = 0)
  <2>1. PICK may \in BOOLEAN, saw \in SUBSET Nat : may = MayRekey /\ saw = Numbers(disk.caps)
    <3>1. MayRekey \in BOOLEAN BY DEF MayRekey, HasPendingWork
    <3>2. Numbers(disk.caps) \in SUBSET Nat BY DeviceTypes DEF Numbers, DiskState, KeptCapture
    <3> QED BY <3>1, <3>2
  <2>2. PICK r : r = [op |-> "grant", from |-> v[w].from, pass |-> v[w].pass, lease |-> l, may |-> may, saw |-> saw]
    OBVIOUS
  <2>3. app' = h /\ visit' = [v EXCEPT ![w] = r] BY <1>4, <1>7, <1>14, <2>1, <2>2 DEF TakeGrant, Continue
  <2>4. r \in GrantVisit /\ r.op = "grant" /\ r.lease = l /\ r.may = may /\ r.saw = saw
    BY <1>5, <2>1, <2>2 DEF GrantVisit
  <2>5. saw \subseteq fate.swept \/ ~may
    <3>1. SUFFICES ASSUME MayRekey, NEW n \in saw PROVE n \in fate.swept BY <2>1
    <3>2. PICK e \in disk.caps : n = e.nr BY <2>1 DEF Numbers
    <3>3. disk.dek = 0 BY <3>1, <3>2 DEF MayRekey, HasPendingWork
    <3>4. e.dek # 0 BY DeviceTypes DEF DiskState, KeptCapture
    <3> QED BY <3>2, <3>3, <3>4, DeviceTypes DEF DeviceFits, KeyFits
  <2>6. l.until <= h.heard + Span /\ l.until <= cloud.time + Span
    <3>1. h.heard \in Nat /\ l.until \in Nat /\ Span \in Nat BY <1>5, <1>9, DeviceAssumption DEF AppState, Granted
    <3> QED BY <1>5, <1>6, <1>10, <3>1, DeviceTypes
  <2>7. Carries(v[w]) /\ LeaseIn(v[w]) = l /\ Taken(r) /\ r \in DeviceVisit
    BY <1>1, <1>3, <1>4, <2>4 DEF Carries, LeaseIn, Taken, DeviceVisit
  <2>8. DeviceFits([v EXCEPT ![w] = r], cloud, d, h, fate)
    BY <1>9, <1>11, <2>4, <2>5, <2>6, <2>7, LeaseGoesOn
  <2> QED BY <1>1, <1>12, <2>3, <2>8, DeviceTypes DEF DeviceInv
<1> QED BY <1>13, <1>14

LEMMA FindKeyMoves ==
    ASSUME DeviceInv, NEW w \in Clerk, FindKey(w)
    PROVE  DeviceInv'
<1>1. visit[w].op = "grant" /\ UNCHANGED <<edits, cloud, disk, fate>> BY DEF FindKey
<1>2. app.up BY <1>1, BusyIsUp
<1>3. visit[w] \in GrantVisit BY <1>1, DeviceTypes, VisitKinds
<1>4. PICK v, l : v = visit /\ l = visit[w].lease OBVIOUS
<1>5. /\ l \in Granted /\ v[w].pass \in Nat /\ v[w].from \in Callers /\ v[w].saw \in SUBSET Nat
      /\ DeviceFits(v, cloud, disk, app, fate)
  BY <1>3, <1>4, DeviceTypes DEF GrantVisit
<1>6. ASSUME NEW x, app' = x, x = AfterGrant(v[w].from, FALSE, app) \/ x = [app EXCEPT !.refused = v[w].pass],
             visit' = [v EXCEPT ![w] = NoVisit]
      PROVE  DeviceInv'
  <2>0. PICK a : a = app OBVIOUS
  <2>1. DeviceFits(v, cloud, disk, AfterGrant(v[w].from, FALSE, a), fate)
    <3>1. DeviceFits(v, cloud, disk, a, fate) /\ a.up BY <1>2, <1>5, <2>0
    <3>2. a.up BY <3>1
    <3> QED BY <3>1, <3>2, AfterGrantFits
  <2>2. ASSUME x = [app EXCEPT !.refused = v[w].pass]
        PROVE  DeviceFits(v, cloud, disk, x, fate)
    <3>1. /\ x \in AppState /\ x.up = app.up /\ x.seen = app.seen /\ x.heard = app.heard /\ x.online = app.online
          /\ x.era = app.era /\ x.key = app.key
      BY <1>5, <2>2, DeviceTypes DEF AppState
    <3>2. x.online \in {0, x.era} /\ x.up BY <1>2, <1>5, <3>1 DEF DeviceFits, OnlineFits
    <3> QED BY <1>5, <3>1, <3>2, TabChanges
  <2>3. DeviceFits(v, cloud, disk, x, fate) BY <1>6, <2>0, <2>1, <2>2
  <2>4. DeviceFits([v EXCEPT ![w] = NoVisit], cloud, disk, x, fate) BY <2>3, CallEnds
  <2> QED BY <1>1, <1>6, <2>4, DeviceTypes DEF DeviceInv
<1>7. PICK found : found = KeyFor(v[w].pass) OBVIOUS
<1>8. found \in Nat BY <1>7, DeviceTypes DEF KeyFor, AppState, DiskState
<1>9. CASE l.until <= MonotoneNow(app)
  <2>1. app' = AfterGrant(v[w].from, FALSE, app) /\ visit' = [v EXCEPT ![w] = NoVisit]
    BY <1>4, <1>9 DEF FindKey, End
  <2> QED BY <1>6, <2>1
<1>10. CASE ~(l.until <= MonotoneNow(app)) /\ found = 0 /\ ~v[w].may
  <2>1. /\ app' = IF v[w].from = "lock" /\ HasWorkspace THEN [app EXCEPT !.refused = v[w].pass]
                  ELSE AfterGrant(v[w].from, FALSE, app)
        /\ visit' = [v EXCEPT ![w] = NoVisit]
    BY <1>4, <1>7, <1>10 DEF FindKey, End
  <2> QED BY <1>6, <2>1
<1>11. CASE ~(l.until <= MonotoneNow(app)) /\ ~(found = 0 /\ ~v[w].may)
  <2>1. PICK op \in {"wipe", "store"}, key \in Nat \ {0}, pass \in Nat, saw \in SUBSET Nat :
           /\ op = IF found = 0 /\ disk.dek # 0 THEN "wipe" ELSE "store"
           /\ key = IF found # 0 THEN found ELSE l.secret
           /\ pass = IF v[w].pass # 0 THEN v[w].pass ELSE IF found = 0 /\ disk.dek # 0 THEN 0 ELSE disk.byPass
           /\ saw = IF found # 0 THEN {} ELSE v[w].saw
    BY <1>5, <1>8, DeviceTypes DEF Granted, DiskState
  <2>2. PICK r : r = [op |-> op, from |-> v[w].from, lease |-> l, key |-> key, byPass |-> pass, saw |-> saw] OBVIOUS
  <2>3. app' = app /\ visit' = [v EXCEPT ![w] = r]
    BY <1>4, <1>7, <1>11, <2>1, <2>2 DEF FindKey, Continue
  <2>4. r \in StoreVisit /\ r.op \in {"wipe", "store"} /\ r.lease = l /\ r.saw = saw
    BY <1>5, <2>1, <2>2 DEF StoreVisit
  <2>5. Carries(v[w]) /\ Taken(v[w]) /\ LeaseIn(v[w]) = l /\ Taken(r) /\ r \in DeviceVisit
    BY <1>1, <1>4, <2>4 DEF Carries, LeaseIn, Taken, DeviceVisit
  <2>6. saw \subseteq fate.swept BY <1>1, <1>4, <1>5, <1>11, <2>1 DEF DeviceFits, GrantsFit
  <2>7. l.until <= app.heard + Span /\ l.until <= cloud.time + Span BY <1>4, <1>5, <2>5 DEF DeviceFits, GrantsFit
  <2>8. DeviceFits([v EXCEPT ![w] = r], cloud, disk, app, fate)
    BY <1>2, <1>5, <2>4, <2>5, <2>6, <2>7, LeaseGoesOn
  <2> QED BY <1>1, <2>3, <2>8, DeviceTypes DEF DeviceInv
<1> QED BY <1>9, <1>10, <1>11

LEMMA SweptTyped ==
    ASSUME DeviceInv, NEW w \in Clerk, visit[w].op \in {"wipe", "store"}
    PROVE  /\ SweptBy(visit[w]) \in SUBSET Nat /\ fate.swept \subseteq SweptBy(visit[w])
           /\ \A e \in disk.caps : e.nr \in SweptBy(visit[w])
<1>1. Numbers(disk.caps) \in SUBSET Nat /\ \A e \in disk.caps : e.nr \in Numbers(disk.caps)
  BY DeviceTypes DEF Numbers, DiskState, KeptCapture
<1>2. visit[w].saw \subseteq fate.swept BY DeviceTypes DEF DeviceFits, GrantsFit
<1> QED BY <1>1, <1>2, DeviceTypes DEF SweptBy, FateState

LEMMA EmptyMoves ==
    ASSUME DeviceInv, NEW w \in Clerk, EmptyWorkspace(w)
    PROVE  DeviceInv'
<1>1. /\ visit[w].op = "wipe" /\ UNCHANGED <<edits, cloud, app>>
      /\ disk' = [disk EXCEPT !.failures = 0, !.seen = 0, !.heard = 0, !.epoch = 0, !.changed = FALSE,
                              !.held = None, !.caps = {}]
      /\ visit' = [visit EXCEPT ![w] = [visit[w] EXCEPT !.op = "store"]]
  BY DEF EmptyWorkspace, Continue
<1>2. app.up BY <1>1, BusyIsUp
<1>3. visit[w] \in StoreVisit BY <1>1, DeviceTypes, VisitKinds
<1>4. PICK e : e = disk' OBVIOUS
<1>5. /\ e \in DiskState /\ e.dek = disk.dek /\ e.wrap = disk.wrap /\ e.lease = disk.lease /\ e.seen = 0
      /\ e.heard = 0 /\ e.epoch = 0 /\ e.held = None /\ e.caps = {}
  <2>1. {} \in SUBSET KeptCapture OBVIOUS
  <2> QED BY <1>1, <1>4, <2>1, DeviceTypes DEF DiskState
<1>6. PICK q \in SUBSET Nat : q = SweptBy(visit[w]) BY <1>1, SweptTyped
<1>7. PICK m : m = IF disk.wrap = None THEN fate.spent ELSE fate.spent \ {disk.wrap.secret} OBVIOUS
<1>8. m \in SUBSET Nat /\ m \subseteq fate.spent /\ (disk.wrap # None => disk.wrap.secret \notin m)
  BY <1>7, DeviceTypes DEF FateState
<1>9. PICK h : h = fate' OBVIOUS
<1>10. h = [fate EXCEPT !.swept = q, !.spent = m] BY <1>6, <1>7, <1>9, DeviceTypes DEF EmptyWorkspace, FateState
<1>11. /\ h \in FateState /\ h.made = fate.made /\ h.given = fate.given /\ h.mixed = fate.mixed /\ h.swept = q
       /\ h.spent = m
  BY <1>8, <1>10, DeviceTypes DEF FateState
<1>12. fate.swept \cup {x.nr : x \in disk.caps} \subseteq h.swept BY <1>1, <1>6, <1>11, SweptTyped
<1>13. DeviceFits(visit, cloud, e, app, h) BY <1>5, <1>8, <1>11, <1>12, DeviceTypes, WorkspaceEmptied
<1>14. PICK v, r : v = visit /\ r = [visit[w] EXCEPT !.op = "store"] OBVIOUS
<1>15. r \in StoreVisit /\ r.op = "store" /\ r.lease = v[w].lease /\ r.saw = v[w].saw
  BY <1>3, <1>14 DEF StoreVisit
<1>16. Carries(v[w]) /\ Taken(v[w]) /\ LeaseIn(v[w]) = v[w].lease /\ Taken(r) /\ r \in DeviceVisit
  BY <1>1, <1>14, <1>15 DEF Carries, LeaseIn, Taken, DeviceVisit
<1>17. /\ r.saw \subseteq h.swept /\ r.lease.until <= app.heard + Span /\ r.lease.until <= cloud.time + Span
       /\ DeviceFits(v, cloud, e, app, h)
  BY <1>1, <1>13, <1>14, <1>15, <1>16 DEF DeviceFits, GrantsFit
<1>18. DeviceFits([v EXCEPT ![w] = r], cloud, e, app, h) BY <1>2, <1>15, <1>16, <1>17, LeaseGoesOn
<1> QED BY <1>1, <1>4, <1>9, <1>14, <1>18, DeviceTypes DEF DeviceInv

LEMMA StoreMoves ==
    ASSUME DeviceInv, NEW w \in Clerk, StoreGrant(w)
    PROVE  DeviceInv'
<1>1. visit[w].op = "store" /\ UNCHANGED <<edits, cloud>> /\ visit' = [visit EXCEPT ![w] = NoVisit]
  BY DEF StoreGrant, End
<1>2. app.up BY <1>1, BusyIsUp
<1>3. visit[w] \in StoreVisit BY <1>1, DeviceTypes, VisitKinds
<1>4. PICK v, l, key, pass : v = visit /\ l = visit[w].lease /\ key = visit[w].key /\ pass = visit[w].byPass OBVIOUS
<1>5. l \in Granted /\ key \in Nat \ {0} /\ pass \in Nat BY <1>3, <1>4 DEF StoreVisit
<1>6. PICK wrap, lease : wrap = [id |-> l.id, secret |-> l.secret] /\ lease = [id |-> l.id, until |-> l.until] OBVIOUS
<1>7. wrap \in Wrapping /\ lease \in KeptLease BY <1>5, <1>6 DEF Granted, Wrapping, KeptLease
<1>8. PICK e, h, a : e = disk' /\ h = fate' /\ a = app OBVIOUS
<1>9. e = [disk EXCEPT !.dek = key, !.byPass = pass, !.failures = 0, !.wrap = wrap, !.lease = lease]
  BY <1>4, <1>6, <1>8 DEF StoreGrant
<1>10. /\ e \in DiskState /\ e.dek = key /\ e.wrap = wrap /\ e.lease = lease /\ e.seen = disk.seen
       /\ e.heard = disk.heard /\ e.epoch = disk.epoch /\ e.held = disk.held /\ e.caps = disk.caps
  BY <1>5, <1>7, <1>9, DeviceTypes DEF DiskState
<1>11. PICK b : b = Unlocked(app, key) OBVIOUS
<1>12. /\ b \in AppState /\ b.up = a.up /\ b.seen = a.seen /\ b.heard = a.heard /\ b.key = e.dek
       /\ b.online = a.online /\ b.era = a.era /\ b.screen = a.screen /\ b.refused = a.refused
  BY <1>5, <1>8, <1>10, <1>11, DeviceTypes DEF Unlocked, AppState
<1>13. /\ h \in FateState /\ h.made = fate.made /\ h.given = fate.given /\ h.mixed = fate.mixed
       /\ h.spent = fate.spent /\ fate.swept \subseteq h.swept
       /\ \A x \in disk.caps : x.dek = e.dek \/ x.nr \in h.swept
  <2>1. CASE key = disk.dek
    <3>1. h = fate BY <1>4, <1>8, <2>1 DEF StoreGrant
    <3> QED BY <1>10, <2>1, <3>1, DeviceTypes DEF DeviceFits, KeyFits
  <2>2. CASE key # disk.dek
    <3>1. PICK q \in SUBSET Nat : q = SweptBy(visit[w]) BY <1>1, SweptTyped
    <3>2. h = [fate EXCEPT !.swept = q] BY <1>4, <1>8, <2>2, <3>1 DEF StoreGrant
    <3>3. /\ h \in FateState /\ h.made = fate.made /\ h.given = fate.given /\ h.mixed = fate.mixed
          /\ h.spent = fate.spent /\ h.swept = q
      BY <3>2, DeviceTypes DEF FateState
    <3>4. fate.swept \subseteq q /\ \A x \in disk.caps : x.nr \in q BY <1>1, <3>1, SweptTyped
    <3> QED BY <3>3, <3>4
  <2> QED BY <2>1, <2>2
<1>14. DeviceFits([v EXCEPT ![w] = NoVisit], cloud, e, b, h)
  <2>1. /\ DeviceFits(v, cloud, disk, a, fate) /\ v[w].op = "store" /\ l = v[w].lease
        /\ e.wrap = [id |-> l.id, secret |-> l.secret] /\ e.lease = [id |-> l.id, until |-> l.until]
    BY <1>1, <1>4, <1>6, <1>8, <1>10, DeviceTypes
  <2>2. a.up BY <1>2, <1>8
  <2> QED BY <1>10, <1>12, <1>13, <2>1, <2>2, GrantStored
<1>15. b.up BY <1>2, <1>8, <1>12
<1>16. DeviceFits([v EXCEPT ![w] = NoVisit], cloud, e, AfterGrant(v[w].from, TRUE, b), h)
  BY <1>14, <1>15, AfterGrantFits
<1>17. app' = AfterGrant(v[w].from, TRUE, b) BY <1>4, <1>11 DEF StoreGrant
<1> QED BY <1>1, <1>4, <1>8, <1>16, <1>17, DeviceTypes DEF DeviceInv

-----------------------------------------------------------------------------
(* Giving up, and the work package.                                          *)
LEMMA GivenUp ==
    ASSUME DeviceInv, GiveUpCaptures
    PROVE  \E h \in FateState : /\ h = fate' /\ h.made = fate.made /\ h.spent = fate.spent /\ h.swept = fate.swept /\ h.mixed = fate.mixed
                                /\ fate.given \cup {e.nr : e \in disk.caps} = h.given
<1>1. {e.nr : e \in disk.caps} \in SUBSET Nat BY DeviceTypes DEF DiskState, KeptCapture
<1>2. PICK m \in SUBSET Nat : m = fate.given \cup {e.nr : e \in disk.caps} BY <1>1, DeviceTypes DEF FateState
<1>3. fate' = [fate EXCEPT !.given = m]
  <2>1. {e.nr : e \in disk.caps} = {c.nr : c \in disk.caps} OBVIOUS
  <2> QED BY <1>2, <2>1, DeviceTypes DEF GiveUpCaptures, FateState
<1> QED BY <1>2, <1>3, DeviceTypes DEF FateState

LEMMA RevokeFits ==
    ASSUME NEW v, NEW d, NEW a, NEW f, DeviceFits(v, cloud, d, a, f)
    PROVE  /\ DeviceFits(v, RevokedIfHeard, d, a, f) /\ RevokedIfHeard \in CloudState
<1>1. PICK k : k = RevokedIfHeard OBVIOUS
<1>2. cloud \in CloudState BY DEF DeviceFits, Types
<1>3. /\ k \in CloudState /\ k.time = cloud.time /\ k.nr = cloud.nr /\ k.got = cloud.got /\ k.time \in Nat /\ k.nr \in Nat
  BY <1>1, <1>2 DEF RevokedIfHeard, CloudState
<1>4. k.time >= cloud.time /\ k.nr >= cloud.nr BY <1>3
<1>5. DeviceFits(v, k, d, a, f) BY <1>3, <1>4, CloudChanges
<1> QED BY <1>1, <1>3, <1>5

LEMMA DiscardWorkspaceMoves ==
    ASSUME DeviceInv, NEW w \in Clerk, DiscardWorkspace(w)
    PROVE  DeviceInv'
<1>1. /\ app.refused # 0 /\ app.screen = "locked" /\ cloud' = RevokedIfHeard /\ GiveUpCaptures /\ disk' = Blank
      /\ app' = [Locked(app) EXCEPT !.refused = 0] /\ UNCHANGED edits
      /\ Begin(w, [op |-> "lease", from |-> "lock", pass |-> app.refused, reply |-> None])
  BY DEF DiscardWorkspace
<1>2. app.up BY <1>1, DeviceTypes DEF DeviceFits, UpFits
<1>3. PICK h \in FateState : /\ h = fate' /\ h.made = fate.made /\ h.spent = fate.spent /\ h.swept = fate.swept /\ h.mixed = fate.mixed
                             /\ fate.given \cup {e.nr : e \in disk.caps} = h.given
  BY <1>1, GivenUp
<1>4. PICK k, b : k = cloud' /\ b = app' OBVIOUS
<1>5. DeviceFits(visit, k, disk, app, fate) BY <1>1, <1>4, DeviceTypes, RevokeFits
<1>6. /\ b \in AppState /\ b.up = app.up /\ b.key = 0 /\ b.online = app.online /\ b.era = app.era /\ b.heard = app.heard
  BY <1>1, <1>4, DeviceTypes DEF Locked, AppState
<1>7. b.online \in {0, b.era} BY <1>6, DeviceTypes DEF DeviceFits, OnlineFits
<1>8. b.up BY <1>2, <1>6
<1>9. DeviceFits(visit, k, Blank, b, h) BY <1>3, <1>5, <1>6, <1>7, <1>8, WorkspaceBlank
<1>10. PICK r : r = [op |-> "lease", from |-> "lock", pass |-> app.refused, reply |-> None] OBVIOUS
<1>11. r \in LeaseVisit /\ r.op = "lease" /\ r.reply = None
  BY <1>10, DeviceTypes DEF LeaseVisit, Callers, AppState
<1>12. r \in DeviceVisit /\ Silent(r) /\ ~Tells(r) /\ r.op # "fetch" BY <1>11 DEF DeviceVisit, Answered, Carries, Taken, Silent, Tells
<1>13. DeviceFits([visit EXCEPT ![w] = r], k, Blank, b, h) BY <1>8, <1>9, <1>12, VisitGoesOn
<1> QED BY <1>1, <1>3, <1>4, <1>10, <1>13, DeviceTypes DEF Begin, DeviceInv

LEMMA AskLogoutMoves ==
    ASSUME DeviceInv, NEW w \in Clerk, AskLogout(w)
    PROVE  DeviceInv'
<1>1. /\ app.screen = "page" /\ cloud' = RevokedIfHeard /\ UNCHANGED <<disk, app, fate>> /\ edits' \in Nat
      /\ Begin(w, [op |-> "leave", reply |-> None])
  BY DeviceTypes DEF AskLogout
<1>2. app.up BY <1>1, DeviceTypes DEF DeviceFits, UpFits
<1>3. PICK k : k = cloud' OBVIOUS
<1>4. DeviceFits(visit, k, disk, app, fate) BY <1>1, <1>3, DeviceTypes, RevokeFits
<1>5. PICK r : r = [op |-> "leave", reply |-> None] OBVIOUS
<1>6. r \in LeaveVisit /\ r.op = "leave" BY <1>5 DEF LeaveVisit
<1>7. r \in DeviceVisit /\ Silent(r) /\ ~Tells(r) /\ r.op # "fetch" BY <1>6 DEF DeviceVisit, Answered, Carries, Taken, Silent, Tells
<1>8. DeviceFits([visit EXCEPT ![w] = r], k, disk, app, fate) BY <1>2, <1>4, <1>7, VisitGoesOn
<1> QED BY <1>1, <1>3, <1>5, <1>8, DeviceTypes DEF Begin, DeviceInv

LEMMA WipeMoves ==
    ASSUME DeviceInv, NEW w \in Clerk, Wipe(w)
    PROVE  DeviceInv'
<1>1. /\ visit[w].op = "leave" /\ GiveUpCaptures /\ disk' = Blank /\ app' = ToLogin(app) /\ End(w) /\ UNCHANGED edits
      /\ cloud' = IF app.reach THEN [cloud EXCEPT !.session = "gone"] ELSE cloud
  BY DEF Wipe
<1>2. app.up BY <1>1, BusyIsUp
<1>3. PICK h \in FateState : /\ h = fate' /\ h.made = fate.made /\ h.spent = fate.spent /\ h.swept = fate.swept /\ h.mixed = fate.mixed
                             /\ fate.given \cup {e.nr : e \in disk.caps} = h.given
  BY <1>1, GivenUp
<1>4. PICK k, b : k = cloud' /\ b = app' OBVIOUS
<1>5. /\ k \in CloudState /\ k.time = cloud.time /\ k.nr = cloud.nr /\ k.got = cloud.got /\ k.time \in Nat /\ k.nr \in Nat
  BY <1>1, <1>4, DeviceTypes DEF CloudState, Sessions
<1>6. k.time >= cloud.time /\ k.nr >= cloud.nr BY <1>5
<1>7. DeviceFits(visit, k, disk, app, fate) BY <1>5, <1>6, DeviceTypes, CloudChanges
<1>8. /\ b \in AppState /\ b.up = app.up /\ b.key = 0 /\ b.online = app.online /\ b.era = app.era /\ b.heard = app.heard
  BY <1>1, <1>4, DeviceTypes DEF ToLogin, Locked, AppState, Screens
<1>9. b.online \in {0, b.era} BY <1>8, DeviceTypes DEF DeviceFits, OnlineFits
<1>10. b.up BY <1>2, <1>8
<1>11. DeviceFits(visit, k, Blank, b, h) BY <1>3, <1>7, <1>8, <1>9, <1>10, WorkspaceBlank
<1>12. DeviceFits([visit EXCEPT ![w] = NoVisit], k, Blank, b, h) BY <1>11, CallEnds
<1> QED BY <1>1, <1>3, <1>4, <1>12, DeviceTypes DEF End, DeviceInv

LEMMA FetchBegins ==
    ASSUME NEW v, NEW d, NEW a, NEW f, DeviceFits(v, cloud, d, a, f), a.up, NEW w \in Clerk,
           \A x \in Clerk : v[x].op # "fetch"
    PROVE  DeviceFits([v EXCEPT ![w] = [op |-> "fetch", step |-> "asked",
                                  reply |-> [dataset |-> cloud.dataset, time |-> cloud.time]]], cloud, d, a, f)
<1>1. PICK r : r = [op |-> "fetch", step |-> "asked", reply |-> [dataset |-> cloud.dataset, time |-> cloud.time]] OBVIOUS
<1>2. [dataset |-> cloud.dataset, time |-> cloud.time] \in [dataset : Nat \ {0}, time : Nat]
  BY DEF DeviceFits, Types, CloudState
<1>3. r \in FetchVisit /\ r.op = "fetch" /\ r.step = "asked" /\ TimeOf(r) = cloud.time
  BY <1>1, <1>2 DEF FetchVisit, TimeOf
<1>4. r \in DeviceVisit /\ Silent(r) /\ FetchFits(r, d) BY <1>3 DEF DeviceVisit, Answered, Carries, Taken, Silent, FetchFits
<1>5. d.lease # None => d.lease.until <= TimeOf(r) + Span BY <1>3 DEF DeviceFits, LeaseFits
<1>6. DeviceFits([v EXCEPT ![w] = r], cloud, d, a, f) BY <1>4, <1>5, VisitGoesOn
<1> QED BY <1>1, <1>6

LEMMA RefreshMoves ==
    ASSUME DeviceInv, NEW w \in Clerk, RefreshPackage(w)
    PROVE  DeviceInv'
<1>1. app.key # 0 /\ UNCHANGED <<edits, cloud, disk, app, fate>> BY DEF RefreshPackage
<1>2. app.up BY <1>1, DeviceTypes DEF DeviceFits, UpFits
<1>3. \A x \in Clerk : visit[x].op # "fetch" BY DEF RefreshPackage, Fetching
<1>4. visit' = [visit EXCEPT ![w] = [op |-> "fetch", step |-> "asked",
                                     reply |-> [dataset |-> cloud.dataset, time |-> cloud.time]]]
  BY DEF RefreshPackage, FetchPackage, Begin
<1> QED BY <1>1, <1>2, <1>3, <1>4, DeviceTypes, FetchBegins DEF DeviceInv

LEMMA DiscardedFits ==
    ASSUME DeviceInv, NEW h \in FateState, h.made = fate.made, h.spent = fate.spent, h.mixed = fate.mixed,
           fate.given \subseteq h.given, fate.swept \subseteq h.swept,
           \A e \in disk.caps : e.nr \in h.given \cup h.swept
    PROVE  DeviceFits(visit, cloud, Discarded(disk), app, h) /\ Discarded(disk).epoch = 0
<1>1. PICK e : e = Discarded(disk) OBVIOUS
<1>2. {} \in SUBSET KeptCapture OBVIOUS
<1>3. /\ e \in DiskState /\ e.dek = disk.dek /\ e.wrap = disk.wrap /\ e.lease = disk.lease /\ e.seen = disk.seen
      /\ e.heard = disk.heard /\ e.epoch = 0 /\ e.held = None /\ e.caps = {}
  BY <1>1, <1>2, DeviceTypes DEF Discarded, DiskState
<1>4. DeviceFits(visit, cloud, e, app, h) BY <1>3, DeviceTypes, CapturesLeave
<1> QED BY <1>1, <1>3, <1>4

LEMMA DiscardDatasetMoves ==
    ASSUME DeviceInv, NEW w \in Clerk, DiscardDataset(w)
    PROVE  DeviceInv'
<1>1. /\ app.key # 0 /\ disk' = Discarded(disk) /\ GiveUpCaptures /\ UNCHANGED <<edits, cloud, app>>
  BY DEF DiscardDataset
<1>2. app.up BY <1>1, DeviceTypes DEF DeviceFits, UpFits
<1>3. PICK h \in FateState : /\ h = fate' /\ h.made = fate.made /\ h.spent = fate.spent /\ h.swept = fate.swept /\ h.mixed = fate.mixed
                             /\ fate.given \cup {e.nr : e \in disk.caps} = h.given
  BY <1>1, GivenUp
<1>4. DeviceFits(visit, cloud, Discarded(disk), app, h) BY <1>3, DiscardedFits
<1>5. PICK d : d = disk' OBVIOUS
<1>6. DeviceFits(visit, cloud, d, app, h) BY <1>1, <1>4, <1>5
<1>7. CASE UNCHANGED visit BY <1>1, <1>3, <1>5, <1>6, <1>7, DeviceTypes DEF DeviceInv
<1>8. CASE ~Fetching /\ FetchPackage(w)
  <2>1. \A x \in Clerk : visit[x].op # "fetch" BY <1>8 DEF Fetching
  <2>2. PICK u : u = visit' OBVIOUS
  <2>3. u = [visit EXCEPT ![w] = [op |-> "fetch", step |-> "asked",
                                  reply |-> [dataset |-> cloud.dataset, time |-> cloud.time]]]
    BY <1>8, <2>2 DEF FetchPackage, Begin
  <2>4. DeviceFits(u, cloud, d, app, h) BY <1>2, <1>6, <2>1, <2>3, FetchBegins
  <2> QED BY <1>1, <1>3, <1>5, <2>2, <2>4, DeviceTypes DEF DeviceInv
<1> QED BY <1>7, <1>8 DEF DiscardDataset

LEMMA FetchGoesOn ==
    ASSUME NEW v, NEW c, NEW d, NEW a, NEW f, DeviceFits(v, c, d, a, f), a.up, NEW w \in Clerk, v[w].op = "fetch",
           NEW s \in {"discard", "ingest", "mark"},
           s = "ingest" => d.epoch \in {0, v[w].reply.dataset},
           s = "mark" /\ d.held # None => d.held.dataset = v[w].reply.dataset
    PROVE  DeviceFits([v EXCEPT ![w] = [v[w] EXCEPT !.step = s]], c, d, a, f)
<1>1. PICK r : r = [v[w] EXCEPT !.step = s] OBVIOUS
<1>2. /\ r \in DeviceVisit /\ r.step = s /\ r.reply = v[w].reply /\ Silent(r) /\ ~Tells(r)
      /\ \A x \in Clerk \ {w} : v[x].op # "fetch"
  <2>1. v[w] \in FetchVisit BY VisitKinds DEF DeviceFits, Types
  <2>2. r \in FetchVisit /\ r.op = "fetch" /\ r.step = s /\ r.reply = v[w].reply BY <1>1, <2>1 DEF FetchVisit
  <2>3. \A x \in Clerk \ {w} : v[x].op # "fetch" BY DEF DeviceFits, MarkFits
  <2> QED BY <2>2, <2>3 DEF DeviceVisit, Answered, Carries, Taken, Silent, Tells
<1>3. FetchFits(r, d) BY <1>2 DEF FetchFits
<1>4. DeviceFits([v EXCEPT ![w] = r], c, d, a, f) BY <1>2, <1>3, VisitGoesOn
<1> QED BY <1>1, <1>4

LEMMA TakePackageMoves ==
    ASSUME DeviceInv, NEW w \in Clerk, TakePackage(w)
    PROVE  DeviceInv'
<1>1. visit[w].op = "fetch" /\ visit[w].step = "asked" /\ UNCHANGED <<edits, cloud, fate>> BY DEF TakePackage
<1>2. app.up BY <1>1, BusyIsUp
<1>3. visit[w] \in FetchVisit BY <1>1, DeviceTypes, VisitKinds
<1>4. PICK v, q : v = visit /\ q = visit[w].reply OBVIOUS
<1>5. q.time \in Nat /\ q.dataset \in Nat \ {0} BY <1>3, <1>4 DEF FetchVisit
<1>6. disk.lease # None => disk.lease.until <= q.time + Span \/ disk.lease.until <= app.heard + Span
  <2>1. Tells(visit[w]) /\ TimeOf(visit[w]) = q.time BY <1>1, <1>4 DEF Tells, TimeOf
  <2> QED BY <1>2, <2>1, DeviceTypes DEF DeviceFits, LeaseFits
<1>7. PICK b, d : b = NotedServer(app, q.time) /\ d = KeptServer(disk, app, q.time) OBVIOUS
<1>8. DeviceFits(v, cloud, d, b, fate) BY <1>2, <1>4, <1>5, <1>6, <1>7, DeviceTypes, ServerHeard
<1>9. b \in AppState /\ d \in DiskState BY <1>8 DEF DeviceFits, Types
<1>10. d.epoch = disk.epoch /\ d.held = disk.held BY <1>7, DeviceTypes DEF KeptServer, DiskState
<1>11. b.up BY <1>2, <1>7, DeviceTypes DEF NotedServer, AppState
<1>12. app' = b BY <1>4, <1>7 DEF TakePackage
<1>13. CASE ~DatasetChanged(disk.epoch, q.dataset)
  <2>1. disk' = d /\ visit' = [v EXCEPT ![w] = [v[w] EXCEPT !.step = "ingest"]]
    BY <1>4, <1>7, <1>13 DEF TakePackage, Continue
  <2>2. d.epoch \in {0, v[w].reply.dataset} BY <1>4, <1>5, <1>10, <1>13 DEF DatasetChanged
  <2>3. v[w].op = "fetch" BY <1>1, <1>4
  <2>4. DeviceFits([v EXCEPT ![w] = [v[w] EXCEPT !.step = "ingest"]], cloud, d, b, fate)
    BY <1>8, <1>11, <2>2, <2>3, FetchGoesOn
  <2> QED BY <1>1, <1>12, <2>1, <2>4, DeviceTypes DEF DeviceInv
<1>14. CASE DatasetChanged(disk.epoch, q.dataset) /\ HasPendingWork
  <2>1. disk' = [d EXCEPT !.changed = TRUE] /\ visit' = [v EXCEPT ![w] = NoVisit]
    BY <1>4, <1>7, <1>14 DEF TakePackage, End
  <2>2. PICK e : e = disk' OBVIOUS
  <2>3. /\ e \in DiskState /\ e.dek = d.dek /\ e.wrap = d.wrap /\ e.lease = d.lease /\ e.seen = d.seen
        /\ e.heard = d.heard /\ e.epoch = d.epoch /\ e.held = d.held /\ e.caps = d.caps
    BY <1>9, <2>1, <2>2 DEF DiskState
  <2>4. DeviceFits(v, cloud, e, b, fate) BY <1>8, <2>3, DiskAside
  <2>5. DeviceFits([v EXCEPT ![w] = NoVisit], cloud, e, b, fate) BY <2>4, CallEnds
  <2> QED BY <1>1, <1>12, <2>1, <2>2, <2>5, DeviceTypes DEF DeviceInv
<1>15. CASE DatasetChanged(disk.epoch, q.dataset) /\ ~HasPendingWork
  <2>1. disk' = d /\ visit' = [v EXCEPT ![w] = [v[w] EXCEPT !.step = "discard"]]
    BY <1>4, <1>7, <1>15 DEF TakePackage, Continue
  <2>2. v[w].op = "fetch" BY <1>1, <1>4
  <2>3. DeviceFits([v EXCEPT ![w] = [v[w] EXCEPT !.step = "discard"]], cloud, d, b, fate)
    BY <1>8, <1>11, <2>2, FetchGoesOn
  <2> QED BY <1>1, <1>12, <2>1, <2>3, DeviceTypes DEF DeviceInv
<1> QED BY <1>13, <1>14, <1>15

LEMMA SweepMoves ==
    ASSUME DeviceInv, NEW w \in Clerk, SweepOld(w)
    PROVE  DeviceInv'
<1>1. /\ visit[w].op = "fetch" /\ disk' = Discarded(disk) /\ UNCHANGED <<edits, cloud, app>>
      /\ fate' = [fate EXCEPT !.swept = @ \cup {c.nr : c \in disk.caps}]
      /\ visit' = [visit EXCEPT ![w] = [visit[w] EXCEPT !.step = "ingest"]]
  BY DEF SweepOld, Continue
<1>2. app.up BY <1>1, BusyIsUp
<1>3. PICK m : m = fate.swept \cup {c.nr : c \in disk.caps} OBVIOUS
<1>4. m \in SUBSET Nat BY <1>3, DeviceTypes DEF FateState, DiskState, KeptCapture
<1>5. PICK h : h = fate' OBVIOUS
<1>6. h \in FateState /\ h.made = fate.made /\ h.spent = fate.spent /\ h.given = fate.given /\ h.swept = m
       /\ h.mixed = fate.mixed
  BY <1>1, <1>3, <1>4, <1>5, DeviceTypes DEF FateState
<1>7. \A e \in disk.caps : e.nr \in m BY <1>3
<1>8. DeviceFits(visit, cloud, Discarded(disk), app, h) /\ Discarded(disk).epoch = 0
  BY <1>3, <1>6, <1>7, DiscardedFits
<1>9. PICK v, d : v = visit /\ d = disk' OBVIOUS
<1>10. DeviceFits(v, cloud, d, app, h) /\ d.epoch = 0 /\ v[w].op = "fetch" BY <1>1, <1>8, <1>9
<1>11. DeviceFits([v EXCEPT ![w] = [v[w] EXCEPT !.step = "ingest"]], cloud, d, app, h) BY <1>2, <1>10, FetchGoesOn
<1> QED BY <1>1, <1>5, <1>9, <1>11, DeviceTypes DEF DeviceInv

LEMMA IngestMoves ==
    ASSUME DeviceInv, NEW w \in Clerk, Ingest(w)
    PROVE  DeviceInv'
<1>1. visit[w].op = "fetch" /\ visit[w].step = "ingest" /\ UNCHANGED <<edits, cloud, app, fate>> BY DEF Ingest
<1>2. app.up BY <1>1, BusyIsUp
<1>3. visit[w] \in FetchVisit BY <1>1, DeviceTypes, VisitKinds
<1>4. CASE app.key = 0
  <2>1. disk' = disk /\ visit' = [visit EXCEPT ![w] = NoVisit] BY <1>4 DEF Ingest, End
  <2>2. DeviceFits([visit EXCEPT ![w] = NoVisit], cloud, disk, app, fate) BY DeviceTypes, CallEnds
  <2> QED BY <1>1, <2>1, <2>2, DeviceTypes DEF DeviceInv
<1>5. CASE app.key # 0
  <2>1. PICK q : q = visit[w].reply.dataset OBVIOUS
  <2>2. PICK g : g = [dek |-> app.key, dataset |-> q] OBVIOUS
  <2>3. q \in Nat \ {0} BY <1>3, <2>1 DEF FetchVisit
  <2>4. g \in Held /\ g.dataset = q BY <2>2, <2>3, DeviceTypes DEF Held, AppState
  <2>5. disk' = [disk EXCEPT !.held = g] /\ visit' = [visit EXCEPT ![w] = [visit[w] EXCEPT !.step = "mark"]]
    BY <1>5, <2>1, <2>2 DEF Ingest, Continue
  <2>6. PICK e : e = disk' OBVIOUS
  <2>7. /\ e \in DiskState /\ e.dek = disk.dek /\ e.wrap = disk.wrap /\ e.lease = disk.lease /\ e.seen = disk.seen
        /\ e.heard = disk.heard /\ e.epoch = disk.epoch /\ e.held = g /\ e.caps = disk.caps
    BY <2>4, <2>5, <2>6, DeviceTypes DEF DiskState
  <2>8. disk.epoch \in {0, q} /\ \A x \in Clerk : visit[x].op = "fetch" => x = w
    BY <1>1, <2>1, DeviceTypes DEF DeviceFits, MarkFits, FetchFits
  <2>9. KeyFits(e, app, fate) /\ NothingLost(cloud, e, fate) /\ StampFits(visit, cloud, e, fate)
    BY <2>7, DeviceTypes DEF DeviceFits, KeyFits, NothingLost, StampFits
  <2>10. MarkFits(visit, e) BY <1>1, <2>1, <2>4, <2>7, <2>8 DEF MarkFits, FetchFits
  <2>11. SecretsFit(visit, cloud, e, fate) BY <2>7, DeviceTypes DEF DeviceFits, SecretsFit
  <2>12. ClockFits(e, app) /\ LeaseFits(visit, cloud, e, app) /\ SpentFits(e, app, fate)
    BY <2>7, DeviceTypes DEF DeviceFits, ClockFits, LeaseFits, SpentFits
  <2>13. DeviceFits(visit, cloud, e, app, fate) BY <2>7, <2>9, <2>10, <2>11, <2>12, DeviceTypes DEF DeviceFits, Types
  <2>14. PICK v : v = visit OBVIOUS
  <2>15. DeviceFits(v, cloud, e, app, fate) /\ v[w].op = "fetch" /\ e.held.dataset = v[w].reply.dataset
    BY <1>1, <2>1, <2>4, <2>7, <2>13, <2>14
  <2>16. DeviceFits([v EXCEPT ![w] = [v[w] EXCEPT !.step = "mark"]], cloud, e, app, fate) BY <1>2, <2>15, FetchGoesOn
  <2> QED BY <1>1, <2>5, <2>6, <2>14, <2>16, DeviceTypes DEF DeviceInv
<1> QED BY <1>4, <1>5

LEMMA MarkMoves ==
    ASSUME DeviceInv, NEW w \in Clerk, MarkEpoch(w)
    PROVE  DeviceInv'
<1>1. /\ visit[w].op = "fetch" /\ visit[w].step = "mark" /\ UNCHANGED <<edits, cloud, app, fate>>
      /\ disk' = [disk EXCEPT !.epoch = visit[w].reply.dataset, !.changed = FALSE]
      /\ visit' = [visit EXCEPT ![w] = NoVisit]
  BY DEF MarkEpoch, End
<1>2. visit[w] \in FetchVisit BY <1>1, DeviceTypes, VisitKinds
<1>3. PICK q \in Nat : q = visit[w].reply.dataset BY <1>2 DEF FetchVisit
<1>4. PICK e : e = disk' OBVIOUS
<1>5. /\ e \in DiskState /\ e.dek = disk.dek /\ e.wrap = disk.wrap /\ e.lease = disk.lease /\ e.seen = disk.seen
      /\ e.heard = disk.heard /\ e.epoch = q /\ e.held = disk.held /\ e.caps = disk.caps
  BY <1>1, <1>3, <1>4, DeviceTypes DEF DiskState
<1>6. PICK u : u = visit' OBVIOUS
<1>7. u = [visit EXCEPT ![w] = NoVisit] BY <1>1, <1>6
<1>8. DeviceFits(u, cloud, disk, app, fate) BY <1>7, DeviceTypes, CallEnds
<1>9. \A x \in Clerk : u[x].op # "fetch"
  <2>1. \A x \in Clerk : u[x] = IF x = w THEN NoVisit ELSE visit[x] BY <1>7, DeviceTypes
  <2>2. \A x \in Clerk : visit[x].op = "fetch" => x = w BY <1>1, DeviceTypes DEF DeviceFits, MarkFits
  <2> QED BY <2>1, <2>2, IdleSaysNothing
<1>10. KeyFits(e, app, fate) /\ NothingLost(cloud, e, fate) /\ StampFits(u, cloud, e, fate)
  BY <1>5, <1>8 DEF DeviceFits, KeyFits, NothingLost, StampFits
<1>11. MarkFits(u, e)
  <2>1. disk.held # None => disk.held.dataset = q BY <1>1, <1>3, DeviceTypes DEF DeviceFits, MarkFits, FetchFits
  <2> QED BY <1>5, <1>9, <2>1 DEF MarkFits
<1>12. SecretsFit(u, cloud, e, fate) BY <1>5, <1>8 DEF DeviceFits, SecretsFit
<1>13. ClockFits(e, app) /\ LeaseFits(u, cloud, e, app) /\ SpentFits(e, app, fate)
  BY <1>5, <1>8 DEF DeviceFits, ClockFits, LeaseFits, SpentFits
<1>14. DeviceFits(u, cloud, e, app, fate) BY <1>5, <1>8, <1>10, <1>11, <1>12, <1>13 DEF DeviceFits, Types
<1> QED BY <1>1, <1>4, <1>6, <1>14, DeviceTypes DEF DeviceInv

-----------------------------------------------------------------------------
(* The status.                                                               *)
LEMMA CheckMoves ==
    ASSUME DeviceInv, NEW w \in Clerk, CheckStatus(w)
    PROVE  DeviceInv'
<1>1. app.up /\ UNCHANGED <<edits, cloud, disk, app, fate>> BY DEF CheckStatus
<1>2. app.up BY <1>1
<1>3. PICK q : q = [session |-> cloud.session, dataset |-> cloud.dataset, time |-> cloud.time] OBVIOUS
<1>4. q \in [session : Sessions, dataset : Nat \ {0}, time : Nat] /\ q.time = cloud.time
  BY <1>3, DeviceTypes DEF CloudState
<1>5. PICK r : r = [op |-> "probe", era |-> app.era, step |-> "asked", reply |-> q] OBVIOUS
<1>6. r \in ProbeVisit /\ r.op = "probe" /\ TimeOf(r) = cloud.time
  BY <1>4, <1>5, DeviceTypes DEF ProbeVisit, AppState, TimeOf
<1>7. r \in DeviceVisit /\ Silent(r) /\ r.op # "fetch" BY <1>6 DEF DeviceVisit, Answered, Carries, Taken, Silent
<1>8. disk.lease # None => disk.lease.until <= TimeOf(r) + Span BY <1>6, DeviceTypes DEF DeviceFits, LeaseFits
<1>9. DeviceFits([visit EXCEPT ![w] = r], cloud, disk, app, fate) BY <1>2, <1>7, <1>8, DeviceTypes, VisitGoesOn
<1>10. visit' = [visit EXCEPT ![w] = r] BY <1>3, <1>5 DEF CheckStatus, Begin
<1> QED BY <1>1, <1>9, <1>10, DeviceTypes DEF DeviceInv

LEMMA ReadMoves ==
    ASSUME DeviceInv, NEW w \in Clerk, ReadStatus(w)
    PROVE  DeviceInv'
<1>1. visit[w].op = "probe" /\ visit[w].step = "asked" /\ UNCHANGED <<edits, cloud, fate>> BY DEF ReadStatus
<1>2. app.up BY <1>1, BusyIsUp
<1>3. visit[w] \in ProbeVisit BY <1>1, DeviceTypes, VisitKinds
<1>4. CASE Stale(w)
  <2>1. visit' = [visit EXCEPT ![w] = NoVisit] /\ UNCHANGED <<app, disk>> BY <1>4 DEF ReadStatus, End
  <2>2. DeviceFits([visit EXCEPT ![w] = NoVisit], cloud, disk, app, fate) BY DeviceTypes, CallEnds
  <2> QED BY <1>1, <2>1, <2>2, DeviceTypes DEF DeviceInv
<1>5. CASE ~Stale(w)
  <2>1. PICK v, t : v = visit /\ t = visit[w].reply.time OBVIOUS
  <2>2. t \in Nat BY <1>3, <2>1 DEF ProbeVisit
  <2>3. disk.lease # None => disk.lease.until <= t + Span \/ disk.lease.until <= app.heard + Span
    <3>1. Tells(visit[w]) /\ TimeOf(visit[w]) = t BY <1>1, <2>1 DEF Tells, TimeOf
    <3> QED BY <1>2, <3>1, DeviceTypes DEF DeviceFits, LeaseFits
  <2>4. PICK b, d : b = app' /\ d = disk' OBVIOUS
  <2>5. DeviceFits(v, cloud, d, b, fate)
    <3>1. DeviceFits(v, cloud, KeptServer(disk, app, t), NotedServer(app, t), fate)
      BY <1>2, <2>1, <2>2, <2>3, DeviceTypes, ServerHeard
    <3>2. CASE visit[w].reply.session = "gone"
      <4>1. b = app /\ d = disk BY <1>5, <2>4, <3>2 DEF ReadStatus
      <4> QED BY <2>1, <4>1, DeviceTypes
    <3>3. CASE visit[w].reply.session # "gone"
      <4>1. b = NotedServer(app, t) /\ d = KeptServer(disk, app, t) BY <1>5, <2>1, <2>4, <3>3 DEF ReadStatus
      <4> QED BY <3>1, <4>1
    <3> QED BY <3>2, <3>3
  <2>6. b.up
    <3>1. b = app \/ b = NotedServer(app, t) BY <1>5, <2>1, <2>4 DEF ReadStatus
    <3> QED BY <1>2, <3>1, DeviceTypes DEF NotedServer, AppState
  <2>7. PICK r : r = [visit[w] EXCEPT !.step = "read"] OBVIOUS
  <2>8. r \in ProbeVisit /\ r.op = "probe" /\ r.step = "read" BY <1>3, <2>7 DEF ProbeVisit
  <2>9. r \in DeviceVisit /\ Silent(r) /\ ~Tells(r) /\ r.op # "fetch" BY <2>8 DEF DeviceVisit, Answered, Carries, Taken, Silent, Tells
  <2>10. DeviceFits([v EXCEPT ![w] = r], cloud, d, b, fate) BY <2>5, <2>6, <2>9, VisitGoesOn
  <2>11. visit' = [v EXCEPT ![w] = r] BY <1>5, <2>1, <2>7 DEF ReadStatus, Continue
  <2> QED BY <1>1, <2>4, <2>10, <2>11, DeviceTypes DEF DeviceInv
<1> QED BY <1>4, <1>5

LEMMA TakeStatusMoves ==
    ASSUME DeviceInv, NEW w \in Clerk, TakeStatus(w)
    PROVE  DeviceInv'
<1>1. visit[w].op = "probe" /\ UNCHANGED <<edits, cloud, fate>> /\ visit' = [visit EXCEPT ![w] = NoVisit]
  BY DEF TakeStatus, End
<1>2. app.up BY <1>1, BusyIsUp
<1>3. visit[w] \in ProbeVisit BY <1>1, DeviceTypes, VisitKinds
<1>4. PICK b, e : b = app' /\ e = disk' OBVIOUS
<1>5. DeviceFits(visit, cloud, e, app, fate)
  <2>1. e = disk \/ e = [disk EXCEPT !.changed = TRUE] BY <1>4 DEF TakeStatus
  <2>2. /\ e \in DiskState /\ e.dek = disk.dek /\ e.wrap = disk.wrap /\ e.lease = disk.lease /\ e.seen = disk.seen
        /\ e.heard = disk.heard /\ e.epoch = disk.epoch /\ e.held = disk.held /\ e.caps = disk.caps
    BY <2>1, DeviceTypes DEF DiskState
  <2> QED BY <2>2, DeviceTypes, DiskAside
<1>6. DeviceFits(visit, cloud, e, b, fate)
  <2>1. CASE ~StillHolds(w)
    <3>1. b = app BY <1>4, <2>1 DEF TakeStatus
    <3> QED BY <1>5, <3>1
  <2>2. CASE StillHolds(w)
    <3>1. PICK n \in Nat : n = visit[w].era BY <1>3 DEF ProbeVisit
    <3>2. n = app.era BY <2>2, <3>1 DEF StillHolds, Stale
    <3>3. PICK a : a = [app EXCEPT !.online = n] OBVIOUS
    <3>4. a \in AppState /\ a.up = app.up /\ a.key = app.key /\ a.sw = app.sw /\ a.seen = app.seen
          /\ a.heard = app.heard /\ a.online = n /\ a.era = app.era
      BY <3>3, DeviceTypes DEF AppState
    <3>5. b \in {a, ToLogin(a)} BY <1>4, <2>2, <3>1, <3>3 DEF TakeStatus
    <3>6. /\ b \in AppState /\ b.up = a.up /\ b.key \in {0, a.key} /\ b.seen = a.seen /\ b.heard = a.heard
          /\ b.online = n /\ b.era = a.era
      <4>1. CASE b = a BY <3>4, <4>1
      <4>2. CASE b = ToLogin(a) BY <3>4, <4>2 DEF ToLogin, Locked, AppState, Screens
      <4> QED BY <3>5, <4>1, <4>2
    <3>7. b.up BY <1>2, <3>4, <3>6
    <3>8. b.online \in {0, b.era} /\ b.key \in {0, app.key} /\ b.up = app.up /\ b.seen = app.seen /\ b.heard = app.heard
      BY <3>2, <3>4, <3>6
    <3> QED BY <1>5, <3>6, <3>7, <3>8, TabChanges
  <2> QED BY <2>1, <2>2
<1>7. DeviceFits([visit EXCEPT ![w] = NoVisit], cloud, e, b, fate) BY <1>6, CallEnds
<1> QED BY <1>1, <1>4, <1>7, DeviceTypes DEF DeviceInv

-----------------------------------------------------------------------------
LEMMA NothingToldYet ==
    Untold \in FateState /\ Untold.made = {} /\ Untold.mixed = {} /\ Untold.spent = {}
<1>1. {} \in SUBSET Nat OBVIOUS
<1> QED BY <1>1 DEF Untold, FateState

LEMMA SetUpFits ==
    ASSUME visit = [w \in Clerk |-> NoVisit], edits \in Nat,
           NEW t \in Nat, t >= 1, NEW s \in Sessions, NEW p \in Nat, cloud = World(t, s, p, Grant1),
           fate \in FateState, fate.mixed = {}, fate.spent \subseteq {1},
           disk \in DiskState, disk.dek = 1, disk.wrap = [id |-> 1, secret |-> 1],
           disk.lease = [id |-> 1, until |-> 1 + Span], disk.heard = 1, disk.seen = app.seen,
           disk.epoch = 1, disk.held = [dek |-> 1, dataset |-> 1],
           \A c \in disk.caps : c.dek = 1 /\ c.stamp = c.base, fate.made \subseteq {c.nr : c \in disk.caps},
           app \in AppState, app.up, app.heard = 1, app.online \in {0, app.era}, app.key \in {0, 1},
           fate.spent # {} => app.seen = 1 + Span /\ app.key = 0
    PROVE  DeviceInv
<1>1. visit \in [Clerk -> DeviceVisit] /\ \A w \in Clerk : visit[w] = NoVisit BY IdleSaysNothing
<1>2. Span \in Nat /\ 1 + Span \in Nat BY DeviceAssumption
<1>3. Grant1 \in Granted /\ Grant1.until = 1 + Span BY <1>2 DEF Grant1, Granted
<1>5. cloud \in CloudState /\ cloud.time = t /\ cloud.got = {} /\ cloud.nr = 1
  BY <1>3 DEF World, CloudState
<1>11. /\ disk.wrap.secret = 1 /\ disk.lease.until = 1 + Span /\ disk.held.dataset = 1 /\ disk.held.dek = 1
       /\ disk.wrap # None /\ disk.lease # None
  <2>1. [id |-> 1, secret |-> 1] \in Wrapping /\ [id |-> 1, until |-> 1 + Span] \in KeptLease
    BY <1>2 DEF Wrapping, KeptLease
  <2>2. disk.wrap # None /\ disk.lease # None BY <2>1, DeviceAssumption DEF Wrapping, KeptLease
  <2> QED BY <2>2
<1>12. Types(visit, cloud, disk, app, fate) /\ UpFits(visit, app) /\ OnlineFits(app)
  BY <1>1, <1>5 DEF Types, UpFits, OnlineFits
<1>13. KeyFits(disk, app, fate) /\ NothingLost(cloud, disk, fate)
  BY <1>11 DEF KeyFits, NothingLost
<1>14. StampFits(visit, cloud, disk, fate) /\ GrantsFit(visit, cloud, app, fate)
  BY <1>1, <1>5, IdleSaysNothing DEF StampFits, GrantsFit, Marked
<1>15. MarkFits(visit, disk) /\ SecretsFit(visit, cloud, disk, fate)
  BY <1>1, <1>5, <1>11, IdleSaysNothing DEF MarkFits, SecretsFit
<1>16. ClockFits(disk, app) /\ SpentFits(disk, app, fate)
  BY <1>2, <1>11 DEF ClockFits, SpentFits
<1>17. LeaseFits(visit, cloud, disk, app) BY <1>2, <1>5, <1>11 DEF LeaseFits
<1> QED BY <1>12, <1>13, <1>14, <1>15, <1>16, <1>17 DEF DeviceInv, DeviceFits

(* A device that was set up, with the captures it holds.                     *)
LEMMA SetUpDisk ==
    ASSUME NEW seen \in Nat, NEW caps \in SUBSET KeptCapture, NEW d, NEW p, NEW l, NEW g,
           p = [id |-> 1, secret |-> 1], l = [id |-> 1, until |-> 1 + Span], g = [dek |-> 1, dataset |-> 1],
           d = [dek |-> 1, byPass |-> 1, wrap |-> p, lease |-> l, failures |-> 0, seen |-> seen, heard |-> 1,
                epoch |-> 1, changed |-> FALSE, held |-> g, caps |-> caps]
    PROVE  /\ d \in DiskState /\ d.dek = 1 /\ d.wrap = [id |-> 1, secret |-> 1]
           /\ d.lease = [id |-> 1, until |-> 1 + Span] /\ d.heard = 1 /\ d.seen = seen
           /\ d.epoch = 1 /\ d.held = [dek |-> 1, dataset |-> 1] /\ d.caps = caps
<1>1. 1 + Span \in Nat BY DeviceAssumption
<1>2. p \in Wrapping \cup {None} /\ l \in KeptLease \cup {None} /\ g \in Held \cup {None}
  BY <1>1 DEF Wrapping, KeptLease, Held
<1>3. d \in DiskState BY <1>2 DEF DiskState
<1>4. /\ d.dek = 1 /\ d.wrap = p /\ d.lease = l /\ d.heard = 1 /\ d.seen = seen /\ d.epoch = 1 /\ d.held = g
      /\ d.caps = caps
  OBVIOUS
<1> QED BY <1>3, <1>4

LEMMA FreshFits ==
    ASSUME visit = [w \in Clerk |-> NoVisit], edits \in Nat, app = FreshTab("login"), disk = Blank, fate = Untold,
           cloud = World(1, "gone", 1, None)
    PROVE  DeviceInv
<1>1. visit \in [Clerk -> DeviceVisit] /\ \A w \in Clerk : visit[w] = NoVisit BY IdleSaysNothing
<1>2. app \in AppState /\ ~app.up /\ app.key = 0 /\ app.screen = "login" /\ app.refused = 0 /\ app.online = 0
  BY DEF FreshTab, AppState, Screens
<1>3. cloud \in CloudState /\ cloud.got = {} BY DEF World, CloudState, Sessions
<1>4. fate \in FateState /\ fate.made = {} /\ fate.spent = {} BY NothingToldYet
<1>5. /\ disk.dek = 0 /\ disk.wrap = None /\ disk.lease = None /\ disk.epoch = 0 /\ disk.held = None
      /\ disk.caps = {} /\ disk.seen = 0 /\ disk.heard = 0 /\ disk \in DiskState
  <2>1. {} \in SUBSET KeptCapture OBVIOUS
  <2> QED BY <2>1 DEF Blank, DiskState
<1>6. Types(visit, cloud, disk, app, fate) /\ UpFits(visit, app) /\ OnlineFits(app) /\ KeyFits(disk, app, fate)
  BY <1>1, <1>2, <1>3, <1>4, <1>5 DEF Types, UpFits, OnlineFits, KeyFits
<1>7. NothingLost(cloud, disk, fate) /\ StampFits(visit, cloud, disk, fate)
  BY <1>1, <1>3, <1>4, <1>5, IdleSaysNothing DEF NothingLost, StampFits
<1>8. MarkFits(visit, disk) /\ SecretsFit(visit, cloud, disk, fate) /\ GrantsFit(visit, cloud, app, fate)
  BY <1>1, <1>4, <1>5, IdleSaysNothing DEF MarkFits, SecretsFit, GrantsFit
<1>9. ClockFits(disk, app) /\ LeaseFits(visit, cloud, disk, app) /\ SpentFits(disk, app, fate)
  BY <1>2, <1>5 DEF ClockFits, LeaseFits, SpentFits
<1> QED BY <1>6, <1>7, <1>8, <1>9 DEF DeviceInv, DeviceFits

LEMMA DeviceStarts == DeviceInit => DeviceInv
<1> SUFFICES ASSUME DeviceInit PROVE DeviceInv OBVIOUS
<1>1. visit = [w \in Clerk |-> NoVisit] /\ edits \in Nat
  <2>1. edits \in 0 .. MaxEdits /\ MaxEdits \in Nat BY ActorsAssumption DEF DeviceInit
  <2>2. edits \in Nat BY <2>1
  <2>3. visit = [w \in Clerk |-> NoVisit] BY DEF DeviceInit
  <2> QED BY <2>2, <2>3
<1>2. Span \in Nat /\ MaxDay \in Nat /\ Skew \subseteq Int /\ 1 + Span \in Nat BY DeviceAssumption
<1>0. PICK p0, l0, g0 : /\ p0 = [id |-> 1, secret |-> 1] /\ l0 = [id |-> 1, until |-> 1 + Span]
                        /\ g0 = [dek |-> 1, dataset |-> 1]
  OBVIOUS
<1>3. ASSUME NEW seen \in Nat, NEW k \in Int,
             app = [up |-> TRUE, key |-> 0, sw |-> 0, screen |-> "locked", reach |-> FALSE, era |-> 1,
                    online |-> 0, seen |-> seen, heard |-> 1, skew |-> k, refused |-> 0]
      PROVE  /\ app \in AppState /\ app.up /\ app.seen = seen /\ app.heard = 1 /\ app.online \in {0, app.era}
             /\ app.key \in {0, 1} /\ app.key = 0
  <2>1. app \in AppState BY <1>3 DEF AppState, Screens
  <2> QED BY <1>3, <2>1
<1>4. CASE app = FreshTab("login") /\ disk = Blank /\ fate = Untold /\ cloud = World(1, "gone", 1, None)
  BY <1>1, <1>4, FreshFits
<1>5. CASE app = OpenTab /\ disk = SetUp /\ fate = Untold /\ cloud = World(1, "open", 1, Grant1)
  <2>1. app = [up |-> TRUE, key |-> 1, sw |-> 1, screen |-> "page", reach |-> TRUE, era |-> 1,
               online |-> 1, seen |-> 1, heard |-> 1, skew |-> 0, refused |-> 0]
    BY <1>5 DEF OpenTab, FreshTab
  <2>2. app \in AppState BY <2>1 DEF AppState, Screens
  <2>3. app.seen = 1 /\ app.heard = 1 /\ app.online \in {0, app.era} /\ app.key \in {0, 1} BY <2>1
  <2>4. app.up BY <2>1
  <2>5. {} \in SUBSET KeptCapture /\ {} \in SUBSET Nat OBVIOUS
  <2>6. fate \in FateState /\ fate.made = {} /\ fate.mixed = {} /\ fate.spent = {} BY <1>5, NothingToldYet
  <2>7. disk = [dek |-> 1, byPass |-> 1, wrap |-> p0, lease |-> l0, failures |-> 0, seen |-> 1, heard |-> 1,
              epoch |-> 1, changed |-> FALSE, held |-> g0, caps |-> {}]
    BY <1>0, <1>5 DEF SetUp, Blank
  <2>8. /\ disk \in DiskState /\ disk.dek = 1 /\ disk.wrap = [id |-> 1, secret |-> 1]
        /\ disk.lease = [id |-> 1, until |-> 1 + Span] /\ disk.heard = 1 /\ disk.seen = 1
        /\ disk.epoch = 1 /\ disk.held = [dek |-> 1, dataset |-> 1] /\ disk.caps = {}
    BY <1>0, <2>5, <2>7, SetUpDisk
  <2>9. "open" \in Sessions /\ 1 \in Nat /\ 1 >= 1 BY DEF Sessions
  <2> QED BY <1>1, <1>5, <2>2, <2>3, <2>4, <2>6, <2>8, <2>9, SetUpFits
<1>6. CASE /\ app = LockedTab /\ \E t \in 1..MaxDay : cloud = World(t, "open", 1, Grant1)
           /\ \E made \in {{}, {0}} :
                /\ fate = [Untold EXCEPT !.made = made]
                /\ disk = [SetUp EXCEPT !.caps = {[nr |-> n, dek |-> 1, stamp |-> 1, base |-> 1] : n \in made}]
  <2>1. PICK t \in Nat : t >= 1 /\ cloud = World(t, "open", 1, Grant1) BY <1>2, <1>6
  <2>2. PICK made \in {{}, {0}} :
          /\ fate = [Untold EXCEPT !.made = made]
          /\ disk = [SetUp EXCEPT !.caps = {[nr |-> n, dek |-> 1, stamp |-> 1, base |-> 1] : n \in made}]
    BY <1>6
  <2>3. made \in SUBSET Nat
    <3>1. made = {} \/ made = {0} BY <2>2
    <3> QED BY <3>1
  <2>4. PICK caps : caps = {[nr |-> n, dek |-> 1, stamp |-> 1, base |-> 1] : n \in made} OBVIOUS
  <2>5. caps \in SUBSET KeptCapture /\ made \subseteq {c.nr : c \in caps} /\ \A c \in caps : c.dek = 1 /\ c.stamp = c.base
    <3>1. \A n \in made : LET e == [nr |-> n, dek |-> 1, stamp |-> 1, base |-> 1] IN
                            e \in KeptCapture /\ e \in caps /\ e.nr = n
      BY <2>3, <2>4 DEF KeptCapture
    <3>2. \A c \in caps : c.dek = 1 /\ c.stamp = c.base /\ c \in KeptCapture BY <2>3, <2>4 DEF KeptCapture
    <3>3. made \subseteq {c.nr : c \in caps} BY <3>1
    <3> QED BY <3>2, <3>3
  <2>6. fate \in FateState /\ fate.made = made /\ fate.mixed = {} /\ fate.spent = {}
    BY <2>2, <2>3, NothingToldYet DEF FateState
  <2>7. disk = [dek |-> 1, byPass |-> 1, wrap |-> p0, lease |-> l0, failures |-> 0, seen |-> 1, heard |-> 1,
              epoch |-> 1, changed |-> FALSE, held |-> g0, caps |-> caps]
    BY <1>0, <2>2, <2>4 DEF SetUp, Blank
  <2>8. /\ disk \in DiskState /\ disk.dek = 1 /\ disk.wrap = [id |-> 1, secret |-> 1]
        /\ disk.lease = [id |-> 1, until |-> 1 + Span] /\ disk.heard = 1 /\ disk.seen = 1
        /\ disk.epoch = 1 /\ disk.held = [dek |-> 1, dataset |-> 1] /\ disk.caps = caps
    BY <1>0, <2>5, <2>7, SetUpDisk
  <2>9. app = [up |-> TRUE, key |-> 0, sw |-> 0, screen |-> "locked", reach |-> FALSE, era |-> 1,
               online |-> 0, seen |-> 1, heard |-> 1, skew |-> 0, refused |-> 0]
    BY <1>6 DEF LockedTab, FreshTab
  <2>10. /\ 1 \in Nat /\ 0 \in Int /\ app \in AppState /\ app.seen = 1 /\ app.heard = 1 /\ app.online \in {0, app.era} /\ app.key \in {0, 1}
    BY <1>3, <2>9
  <2>11. app.up BY <1>3, <2>9
  <2>12. "open" \in Sessions /\ 1 \in Nat BY DEF Sessions
  <2> QED BY <1>1, <2>1, <2>5, <2>6, <2>8, <2>10, <2>11, <2>12, SetUpFits
<1>7. CASE /\ \E k \in Skew : app = [LockedTab EXCEPT !.seen = 1 + Span, !.skew = k]
           /\ disk = [SetUp EXCEPT !.seen = 1 + Span] /\ fate = [Untold EXCEPT !.spent = {1}]
           /\ \E t \in 1 + Span .. MaxDay : cloud = World(t, "gone", 2, Grant1)
  <2>1. PICK t \in Nat : t >= 1 /\ cloud = World(t, "gone", 2, Grant1) BY <1>2, <1>7
  <2>2. PICK seen \in Nat : seen = 1 + Span BY <1>2
  <2>3. PICK k \in Int : app = [up |-> TRUE, key |-> 0, sw |-> 0, screen |-> "locked", reach |-> FALSE, era |-> 1,
               online |-> 0, seen |-> seen, heard |-> 1, skew |-> k, refused |-> 0]
    BY <1>2, <1>7, <2>2 DEF LockedTab, FreshTab
  <2>4. {} \in SUBSET KeptCapture /\ {} \in SUBSET Nat /\ {1} \in SUBSET Nat OBVIOUS
  <2>5. fate \in FateState /\ fate.made = {} /\ fate.mixed = {} /\ fate.spent = {1}
    BY <1>7, <2>4, NothingToldYet DEF FateState
  <2>6. disk = [dek |-> 1, byPass |-> 1, wrap |-> p0, lease |-> l0, failures |-> 0, seen |-> seen, heard |-> 1,
              epoch |-> 1, changed |-> FALSE, held |-> g0, caps |-> {}]
    BY <1>0, <1>7, <2>2 DEF SetUp, Blank
  <2>7. /\ disk \in DiskState /\ disk.dek = 1 /\ disk.wrap = [id |-> 1, secret |-> 1]
        /\ disk.lease = [id |-> 1, until |-> 1 + Span] /\ disk.heard = 1 /\ disk.seen = seen
        /\ disk.epoch = 1 /\ disk.held = [dek |-> 1, dataset |-> 1] /\ disk.caps = {}
    BY <1>0, <2>4, <2>6, SetUpDisk
  <2>8. /\ app \in AppState /\ app.seen = seen /\ app.heard = 1 /\ app.online \in {0, app.era} /\ app.key \in {0, 1}
        /\ app.key = 0
    BY <1>3, <2>3
  <2>9. app.up BY <1>3, <2>3
  <2>10. "gone" \in Sessions /\ 2 \in Nat BY DEF Sessions
  <2> QED BY <1>1, <2>1, <2>2, <2>5, <2>7, <2>8, <2>9, <2>10, SetUpFits
<1> QED BY <1>4, <1>5, <1>6, <1>7 DEF DeviceInit

LEMMA DeviceSteps ==
    ASSUME DeviceInv, DeviceStep
    PROVE  DeviceInv'
<1>1. CASE \E p \in 0 .. cloud.pass : UnlockOffline(p) BY <1>1, UnlockOfflineMoves
<1>2. CASE \E c \in disk.caps : Sync(c) BY <1>2, SyncMoves
<1>3. ASSUME NEW w \in Clerk,
             \/ Prime(w, cloud.pass) \/ UnlockOnline(w, cloud.pass)
             \/ Guard(w) \/ Provide(w) \/ TakeSecret(w) \/ LeaseServed(w) \/ LeaseLost(w)
             \/ TakeGrant(w) \/ FindKey(w) \/ EmptyWorkspace(w) \/ StoreGrant(w)
             \/ Capture(w) \/ SealCapture(w) \/ KeepCapture(w)
             \/ DiscardWorkspace(w) \/ AskLogout(w) \/ Wipe(w)
             \/ RefreshPackage(w) \/ TakePackage(w) \/ SweepOld(w) \/ Ingest(w) \/ MarkEpoch(w)
             \/ DiscardDataset(w) \/ CheckStatus(w) \/ ReadStatus(w) \/ TakeStatus(w)
      PROVE  DeviceInv'
  BY <1>3, PrimeMoves, UnlockOnlineMoves, GuardMoves, ProvideMoves, TakeSecretMoves, LeaseServedMoves,
     LeaseLostMoves, TakeGrantMoves, FindKeyMoves, EmptyMoves, StoreMoves, CaptureMoves, SealMoves, KeepMoves,
     DiscardWorkspaceMoves, AskLogoutMoves, WipeMoves, RefreshMoves,
     TakePackageMoves, SweepMoves, IngestMoves, MarkMoves, DiscardDatasetMoves, CheckMoves, ReadMoves,
     TakeStatusMoves
<1> QED BY <1>1, <1>2, <1>3, CloudMoves, TabMoves, NoteMoves, ReloadMoves, StartMoves, PasswordMoves
        DEF DeviceStep

LEMMA DeviceHolds == DeviceInv => DeviceSafety
<1> SUFFICES ASSUME DeviceInv PROVE DeviceSafety OBVIOUS
<1>1. NoSilentRekey BY DeviceTypes DEF NoSilentRekey, Numbers, DeviceFits, KeyFits, NothingLost
<1>2. StampIsTrue /\ OnlineIsFresh BY DeviceTypes DEF StampIsTrue, OnlineIsFresh, DeviceFits, StampFits, Marked, OnlineFits
<1>3. ExpiredStaysShut BY DeviceTypes DEF ExpiredStaysShut, DeviceFits, SpentFits
<1> QED BY <1>1, <1>2, <1>3 DEF DeviceSafety

(* Whatever the order in which the network comes and goes, the clock is set, *)
(* the tab is reloaded, passwords change, leases are granted, lost and       *)
(* refused, packages arrive in pieces and the user locks, logs out or        *)
(* discards the workspace: no capture is lost unless the user gave it up, or *)
(* a refresh or a new key, which had found nothing pending, swept it away;   *)
(* the stamp of a capture that has one is that of the dataset it was made    *)
(* from, unless a package came in while it was made; the tab says it is on   *)
(* line only after the server answered through the present network; and a    *)
(* lease once refused as expired does not open the workspace again until it  *)
(* is renewed, unless a setting-up took the memory of the clock away.        *)
THEOREM DeviceIsSafe == DeviceSpec => []DeviceSafety
<1>1. DeviceInv /\ [DeviceStep]_deviceVars => DeviceInv'
  <2>1. ASSUME DeviceInv, UNCHANGED deviceVars PROVE DeviceInv' BY <2>1 DEF DeviceInv, deviceVars
  <2> QED BY <2>1, DeviceSteps
<1> QED BY <1>1, DeviceStarts, DeviceHolds, PTL DEF DeviceSpec
=============================================================================
