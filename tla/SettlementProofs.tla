--------------------------- MODULE SettlementProofs ---------------------------
(***************************************************************************)
(* What holds of the settlement and of its transfer to Lexware, for any    *)
(* number of executions, contacts and attempts and for any charges.        *)
(*                                                                         *)
(* First InvoiceTransfer alone.  Its inductive invariant has four parts:   *)
(* the types (with what every invoice id in the state refers to), what is  *)
(* true of an execution by where it is, that only the owner of the claim   *)
(* is in phase 2, and what that owner may rely on.                         *)
(*                                                                         *)
(* Then Settlement, whose transfer behaves as InvoiceTransfer says, so     *)
(* that what is proved there carries over.  The invariant about the        *)
(* settlement relates its charges to what the notice mail says, as long as *)
(* they can still be changed, and holds them fixed as soon as a transfer   *)
(* is prepared.                                                            *)
(***************************************************************************)
EXTENDS Settlement, TLAPS

CallRecord ==
    [at : Points, duty : BOOLEAN, known : Nat, contact : Contacts \cup {None}, id : Nat,
     searched : BOOLEAN, result : Results]

RowRecord ==
    [status : Statuses, owner : Calls \cup {None}, live : BOOLEAN, known : Nat,
     attempts : 0..MaxAttempts]

InvoiceRecord == [contact : Contacts, fits : BOOLEAN]

(* the invoices there are stay as they are *)
Grows == Ids \subseteq Ids' /\ \A i \in Ids : invoices'[i] = invoices[i]

(* What is true of an execution by the point it has reached. *)
CallReal(c) ==
    /\ call[c].known = 0 \/ call[c].known \in Ids
    /\ call[c].at \in {"search", "sent"} => call[c].contact \in Contacts
    /\ call[c].at \in {"arrived", "created"} => call[c].id \in Ids
    /\ call[c].at = "result" => call[c].id = 0 \/ call[c].id \in Ids
    /\ call[c].at = "result" /\ call[c].result = "success" =>
          call[c].id \in Ids /\ invoices[call[c].id].fits
    /\ call[c].at \in {"idle", "called", "claimed", "search"} => ~call[c].searched

RowReal ==
    /\ row.known = 0 \/ row.known \in Ids
    /\ row.live => row.status = "in_progress"
    /\ row.status = "succeeded" => row.known \in Ids /\ invoices[row.known].fits

Real == RowReal /\ \A c \in Calls : CallReal(c)

(* Only the owner of the claim is in phase 2, unless it was overtaken. *)
OwnerActs ==
    "overtaken" \notin hazards =>
        \A c \in Calls : InPhase2(c) => row.status = "in_progress" /\ row.owner = c

AllRecorded == \A i \in Ids : i = row.known

(* What the owner relies on: the row has not changed since, what is not      *)
(* recorded can be found under its contact, and what it sends is the first.  *)
CallSafe(c) ==
    /\ call[c].at \in {"search", "sent"} => call[c].contact = contact
    /\ call[c].at \in {"claimed", "search"} =>
          call[c].known = row.known /\ (call[c].duty \/ AllRecorded)
    /\ call[c].at = "sent" => invoices = <<>>
    /\ call[c].at = "result" /\ call[c].result \in {"none", "failed"} =>
          (call[c].duty /\ ~call[c].searched) \/ AllRecorded

RowSafe ==
    /\ Len(invoices) <= 1
    /\ AllRecorded \/ row.status \in {"in_progress", "outcome_unknown", "attention"}
    /\ \A i \in Ids : i = row.known \/ invoices[i].contact = contact

Safe == hazards = {} => RowSafe /\ \A c \in Calls : CallSafe(c)

IInv == TransferTypeOK /\ Real /\ OwnerActs /\ Safe

-----------------------------------------------------------------------------
(* Types. *)

LEMMA CallType ==
    ASSUME TransferTypeOK
    PROVE  /\ row \in RowRecord /\ call \in [Calls -> CallRecord]
           /\ \A c \in Calls : call[c] \in CallRecord
           /\ Len(invoices) \in Nat
BY DEF TransferTypeOK, RowRecord, CallRecord

LEMMA RowType ==
    ASSUME NEW s \in Statuses, NEW o \in Calls \cup {None}, NEW l \in BOOLEAN, NEW i \in Nat,
           NEW n \in 0..MaxAttempts
    PROVE  Row(s, o, l, i, n) \in RowRecord
BY DEF Row, RowRecord

LEMMA NoCallType == NoCall \in CallRecord
BY DEF NoCall, CallRecord, Points, Results

(* An execution that ends leaves nothing behind. *)
LEMMA EndReal ==
    ASSUME TransferTypeOK, NEW c \in Calls, End(c)
    PROVE  /\ call' \in [Calls -> CallRecord]
           /\ \A d \in Calls \ {c} : call'[d] = call[d]
           /\ call'[c] = NoCall
           /\ CallReal(c)' /\ CallSafe(c)' /\ ~InPhase2(c)'
<1>1. call' \in [Calls -> CallRecord] /\ call'[c] = NoCall
         /\ \A d \in Calls \ {c} : call'[d] = call[d]
  BY CallType, NoCallType DEF End
<1> QED
  BY <1>1 DEF NoCall, CallReal, CallSafe, InPhase2

(* A step of phase 2 changes one execution, and adds at most one invoice. *)
LEMMA CallLexwareReal ==
    ASSUME TransferTypeOK, Real, NEW c \in Calls, CallLexware(c)
    PROVE  /\ row' = row /\ contact' = contact
           /\ call' \in [Calls -> CallRecord]
           /\ \A d \in Calls \ {c} : call'[d] = call[d]
           /\ InPhase2(c)
           /\ invoices' \in Seq(InvoiceRecord)
           /\ Grows
           /\ CallReal(c)'
<1> USE TransferAssumption
<1>1. call \in [Calls -> CallRecord] /\ call[c] \in CallRecord /\ Len(invoices) \in Nat
      /\ invoices \in Seq(InvoiceRecord) /\ contact \in Contacts
  BY CallType DEF TransferTypeOK, InvoiceRecord
<1>2. CallReal(c)
  BY DEF Real
<1>3. ASSUME NEW r \in Results, NEW i \in Nat, Result(c, r, i), InPhase2(c),
             invoices' = invoices, i = 0 \/ i \in Ids, r = "success" => i \in Ids /\ invoices[i].fits
      PROVE  /\ call' \in [Calls -> CallRecord]
             /\ \A d \in Calls \ {c} : call'[d] = call[d]
             /\ CallReal(c)'
  <2>1. call'[c] = [call[c] EXCEPT !.at = "result", !.result = r, !.id = i, !.known = 0,
                                   !.contact = None]
        /\ \A d \in Calls \ {c} : call'[d] = call[d]
    BY <1>1, <1>3 DEF Result
  <2>2. call'[c] \in CallRecord
    <3>1. [call[c] EXCEPT !.at = "result", !.result = r, !.id = i, !.known = 0,
                          !.contact = None] \in CallRecord
      BY <1>1, <1>3 DEF CallRecord, Points
    <3> QED
      BY <2>1, <3>1
  <2>3. call' \in [Calls -> CallRecord]
    BY <1>1, <1>3, <2>2 DEF Result
  <2>4. CallReal(c)'
    BY <1>1, <1>3, <2>1 DEF CallReal, Ids, CallRecord
  <2> QED
    BY <2>1, <2>3, <2>4
<1>4. row' = row /\ contact' = contact /\ InPhase2(c)
  BY DEF CallLexware, Resolve, ReadKnown, SearchList, Arrive, Answer, Refuse, Silence, Garble,
         ReadBack, Phase2, InPhase2
<1>5. ASSUME Arrive(c)
      PROVE  /\ call' \in [Calls -> CallRecord]
             /\ \A d \in Calls \ {c} : call'[d] = call[d]
             /\ invoices' \in Seq(InvoiceRecord) /\ Grows
             /\ CallReal(c)'
  <2>1. call'[c] = [call[c] EXCEPT !.at = "arrived", !.id = Len(invoices) + 1, !.contact = None]
        /\ \A d \in Calls \ {c} : call'[d] = call[d]
    BY <1>1, <1>5 DEF Arrive
  <2>2. call'[c] \in CallRecord
    <3>1. Len(invoices) + 1 \in Nat
      BY <1>1
    <3>2. [call[c] EXCEPT !.at = "arrived", !.id = Len(invoices) + 1, !.contact = None]
             \in CallRecord
      BY <1>1, <3>1 DEF CallRecord, Points
    <3> QED
      BY <2>1, <3>2
  <2>3. call' \in [Calls -> CallRecord]
    BY <1>1, <1>5, <2>2 DEF Arrive
  <2>4. /\ invoices' \in Seq(InvoiceRecord) /\ Len(invoices') = Len(invoices) + 1
        /\ \A i \in 1..Len(invoices) : invoices'[i] = invoices[i]
    <3>1. PICK fits \in BOOLEAN : invoices' = Append(invoices, [contact |-> call[c].contact, fits |-> fits])
      BY <1>5 DEF Arrive
    <3>2. [contact |-> call[c].contact, fits |-> fits] \in InvoiceRecord
      BY <1>2, <1>5 DEF Arrive, CallReal, InvoiceRecord
    <3> QED
      BY <1>1, <3>1, <3>2
  <2>5. Grows /\ call'[c].id \in Ids'
    BY <1>1, <2>1, <2>4 DEF Ids, CallRecord, Grows
  <2>6. CallReal(c)'
    <3>1. call'[c].at = "arrived" /\ call'[c].known = call[c].known
      BY <1>1, <2>1 DEF CallRecord
    <3> QED
      BY <1>2, <2>5, <3>1 DEF CallReal, Grows
  <2> QED
    BY <2>1, <2>3, <2>4, <2>5, <2>6
<1>6. ASSUME invoices' = invoices,
             NEW r \in CallRecord, call' = [call EXCEPT ![c] = r],
             r.known = 0 \/ r.known \in Ids,
             r.at \in {"search", "sent"} => r.contact \in Contacts,
             r.at = "created" => r.id \in Ids,
             r.at \in {"search", "sent", "created"},
             r.at = "search" => ~r.searched
      PROVE  /\ call' \in [Calls -> CallRecord]
             /\ \A d \in Calls \ {c} : call'[d] = call[d]
             /\ CallReal(c)'
  BY <1>1, <1>6 DEF CallReal, Ids
<1>7. CASE Arrive(c)
  BY <1>4, <1>5, <1>7
<1>8. CASE ~Arrive(c)
  <2>1. invoices' = invoices /\ Ids' = Ids /\ Grows
    BY <1>8 DEF CallLexware, Resolve, ReadKnown, SearchList, Arrive, Answer, Refuse, Silence,
         Garble, ReadBack, Ids, Grows
  <2>2. CASE \E r \in Results, i \in Nat :
                /\ Result(c, r, i) /\ (i = 0 \/ i \in Ids)
                /\ r = "success" => i \in Ids /\ invoices[i].fits
    BY <1>1, <1>3, <1>4, <2>1, <2>2
  <2>3. CASE Resolve(c)
    <3>1. CASE Result(c, "failed", 0)
      BY <2>2, <3>1 DEF Results
    <3>2. CASE ~Result(c, "failed", 0)
      <4> DEFINE p == IF call[c].duty \/ call[c].known # 0 THEN "search" ELSE "sent"
                 r == [call[c] EXCEPT !.contact = contact, !.at = p]
      <4>1. r \in CallRecord
        BY <1>1 DEF CallRecord, Points
      <4>2. call' = [call EXCEPT ![c] = r]
        BY <1>1, <2>3, <3>2 DEF Resolve
      <4>3. r.known = call[c].known /\ r.contact = contact /\ r.at = p
            /\ r.searched = call[c].searched
        BY <1>1 DEF CallRecord
      <4> QED
        BY <1>1, <1>2, <1>4, <1>6, <2>1, <2>3, <4>1, <4>2, <4>3 DEF CallReal, Resolve
    <3> QED
      BY <3>1, <3>2
  <2>4. CASE ReadKnown(c)
    <3>1. CASE Result(c, "failed", 0) \/ Result(c, "attention", 0)
      BY <2>2, <3>1 DEF Results
    <3>2. CASE ~(Result(c, "failed", 0) \/ Result(c, "attention", 0))
      <4> DEFINE r == [call[c] EXCEPT !.at = "created", !.id = call[c].known, !.known = 0,
                                      !.contact = None, !.searched = TRUE]
      <4>1. r \in CallRecord
        BY <1>1 DEF CallRecord, Points
      <4>2. call' = [call EXCEPT ![c] = r]
        BY <1>1, <2>4, <3>2 DEF ReadKnown
      <4>3. r.known = 0 /\ r.at = "created" /\ r.id = call[c].known /\ r.id # 0
        BY <1>1, <2>4 DEF CallRecord, ReadKnown
      <4> QED
        BY <1>1, <1>2, <1>4, <1>6, <2>1, <4>1, <4>2, <4>3 DEF CallReal
    <3> QED
      BY <3>1, <3>2
  <2>5. CASE SearchList(c)
    <3>1. CASE Result(c, "failed", 0) \/ Result(c, "attention", 0)
      BY <2>2, <3>1 DEF Results
    <3>2. CASE call' = [call EXCEPT ![c].at = "sent", ![c].searched = TRUE]
      <4> DEFINE r == [call[c] EXCEPT !.at = "sent", !.searched = TRUE]
      <4>1. r \in CallRecord
        BY <1>1 DEF CallRecord, Points
      <4>2. call' = [call EXCEPT ![c] = r]
        BY <1>1, <3>2
      <4>3. r.known = call[c].known /\ r.at = "sent" /\ r.contact = call[c].contact
        BY <1>1 DEF CallRecord
      <4> QED
        BY <1>1, <1>2, <1>4, <1>6, <2>1, <2>5, <4>1, <4>2, <4>3 DEF CallReal, SearchList
    <3>3. CASE \E i \in Ids : call' = [call EXCEPT ![c].at = "created", ![c].id = i,
                                          ![c].contact = None, ![c].searched = TRUE]
      <4>1. PICK i \in Ids : call' = [call EXCEPT ![c].at = "created", ![c].id = i,
                                          ![c].contact = None, ![c].searched = TRUE]
        BY <3>3
      <4> DEFINE r == [call[c] EXCEPT !.at = "created", !.id = i, !.contact = None,
                                      !.searched = TRUE]
      <4>2. r \in CallRecord
        <5>1. i \in Nat
          BY <1>1 DEF Ids
        <5> QED
          BY <1>1, <5>1 DEF CallRecord, Points
      <4>3. call' = [call EXCEPT ![c] = r]
        BY <1>1, <4>1
      <4>4. r.known = call[c].known /\ r.at = "created" /\ r.id = i
        BY <1>1 DEF CallRecord
      <4> QED
        BY <1>1, <1>2, <1>4, <1>6, <2>1, <4>2, <4>3, <4>4 DEF CallReal
    <3> QED
      BY <2>5, <3>1, <3>2, <3>3 DEF SearchList
  <2>6. CASE Answer(c)
    <3> DEFINE r == [call[c] EXCEPT !.at = "created"]
    <3>1. r \in CallRecord
      BY <1>1 DEF CallRecord, Points
    <3>2. call' = [call EXCEPT ![c] = r]
      BY <1>1, <2>6 DEF Answer
    <3>3. r.known = call[c].known /\ r.at = "created" /\ r.id = call[c].id
      BY <1>1 DEF CallRecord
    <3> QED
      BY <1>1, <1>2, <1>4, <1>6, <2>1, <2>6, <3>1, <3>2, <3>3 DEF CallReal, Answer
  <2>7. CASE Refuse(c) \/ Silence(c) \/ Garble(c)
    BY <2>2, <2>7 DEF Refuse, Silence, Garble, Results
  <2>8. CASE ReadBack(c)
    BY <1>1, <1>2, <2>2, <2>8 DEF ReadBack, Results, CallReal, CallRecord
  <2> QED
    BY <1>8, <2>3, <2>4, <2>5, <2>6, <2>7, <2>8 DEF CallLexware
<1> QED
  BY <1>7, <1>8

-----------------------------------------------------------------------------
(* Executions that a step leaves alone. *)

LEMMA OtherReal ==
    ASSUME NEW d \in Calls, CallReal(d), call'[d] = call[d], Grows
    PROVE  CallReal(d)'
BY DEF CallReal, Grows

LEMMA IdleSafe ==
    ASSUME NEW d \in Calls, ~InPhase2(d)'
    PROVE  CallSafe(d)'
BY DEF InPhase2, CallSafe

LEMMA Alone ==
    ASSUME OwnerActs, "overtaken" \notin hazards, NEW c \in Calls, InPhase2(c)
    PROVE  row.status = "in_progress" /\ row.owner = c /\ \A d \in Calls \ {c} : ~InPhase2(d)
BY DEF OwnerActs

(* What the owner relies on survives every step of its own in phase 2. *)
LEMMA CallLexwareSafe ==
    ASSUME IInv, NEW c \in Calls, CallLexware(c), hazards' = {}
    PROVE  RowSafe' /\ CallSafe(c)'
<1> USE TransferAssumption
<1>1. /\ row' = row /\ contact' = contact /\ InPhase2(c)
      /\ call' \in [Calls -> CallRecord] /\ CallReal(c)'
  BY CallLexwareReal DEF IInv
<1>2. call \in [Calls -> CallRecord] /\ call[c] \in CallRecord /\ Len(invoices) \in Nat
      /\ invoices \in Seq(InvoiceRecord) /\ contact \in Contacts
  BY CallType DEF TransferTypeOK, IInv, InvoiceRecord
<1>3. hazards = {} /\ ~Garble(c)
  BY DEF CallLexware, Resolve, ReadKnown, SearchList, Arrive, Answer, Refuse, Silence, Garble,
         ReadBack, Noting
<1>4. RowSafe /\ CallSafe(c) /\ CallReal(c) /\ row.status = "in_progress"
  BY <1>1, <1>3, Alone DEF IInv, Safe, Real
<1>5. CASE Arrive(c)
  <2>1. invoices = <<>> /\ call[c].contact = contact
    BY <1>4, <1>5 DEF Arrive, CallSafe
  <2>2. PICK fits \in BOOLEAN : invoices' = <<[contact |-> contact, fits |-> fits]>>
    BY <1>2, <1>5, <2>1 DEF Arrive
  <2>3. call'[c].at = "arrived"
    BY <1>2, <1>5 DEF Arrive, CallRecord
  <2> QED
    BY <1>1, <1>4, <2>2, <2>3 DEF RowSafe, CallSafe, Ids
<1>6. CASE ~Arrive(c)
  <2>1. invoices' = invoices /\ Ids' = Ids
    BY <1>6 DEF CallLexware, Resolve, ReadKnown, SearchList, Arrive, Answer, Refuse, Silence,
         Garble, ReadBack, Ids
  <2>2. RowSafe' /\ (AllRecorded' <=> AllRecorded)
    BY <1>1, <1>4, <2>1 DEF RowSafe, AllRecorded, Ids
  <2> SUFFICES CallSafe(c)'
    BY <2>2
  <2>3. ASSUME NEW r \in Results, NEW i \in Nat, Result(c, r, i),
               r \in {"none", "failed"} => (call[c].duty /\ ~call[c].searched) \/ AllRecorded
        PROVE  CallSafe(c)'
    <3>1. call'[c] = [call[c] EXCEPT !.at = "result", !.result = r, !.id = i, !.known = 0,
                                     !.contact = None]
      BY <1>2, <2>3 DEF Result
    <3>2. call'[c].at = "result" /\ call'[c].result = r /\ call'[c].duty = call[c].duty
          /\ call'[c].searched = call[c].searched
      BY <1>2, <3>1 DEF CallRecord
    <3> QED
      BY <2>2, <2>3, <3>2 DEF CallSafe
  <2>4. CASE Resolve(c)
    <3>1. call[c].at = "claimed" /\ (call[c].duty \/ AllRecorded) /\ ~call[c].searched
          /\ call[c].known = row.known
      BY <1>4, <2>4 DEF Resolve, CallSafe, CallReal
    <3>2. CASE Result(c, "failed", 0)
      BY <2>3, <3>1, <3>2 DEF Results
    <3>3. CASE ~Result(c, "failed", 0)
      <4>1. /\ call'[c].at = IF call[c].duty \/ call[c].known # 0 THEN "search" ELSE "sent"
            /\ call'[c].contact = contact /\ call'[c].known = call[c].known
            /\ call'[c].duty = call[c].duty
        BY <1>2, <2>4, <3>3 DEF Resolve, CallRecord
      <4>2. call'[c].at = "sent" => invoices = <<>>
        BY <1>2, <3>1, <4>1 DEF AllRecorded, Ids
      <4> QED
        BY <1>1, <2>1, <2>2, <3>1, <4>1, <4>2 DEF CallSafe
    <3> QED
      BY <3>2, <3>3
  <2>5. CASE ReadKnown(c)
    <3>1. (call[c].duty \/ AllRecorded) /\ ~call[c].searched
      BY <1>4, <2>5 DEF ReadKnown, CallSafe, CallReal
    <3>2. CASE Result(c, "failed", 0) \/ Result(c, "attention", 0)
      BY <2>3, <3>1, <3>2 DEF Results
    <3>3. CASE ~(Result(c, "failed", 0) \/ Result(c, "attention", 0))
      <4>1. call'[c].at = "created"
        BY <1>2, <2>5, <3>3 DEF ReadKnown, CallRecord
      <4> QED
        BY <4>1 DEF CallSafe
    <3> QED
      BY <3>2, <3>3
  <2>6. CASE SearchList(c)
    <3>1. (call[c].duty \/ AllRecorded) /\ ~call[c].searched /\ call[c].contact = contact
          /\ call[c].known = row.known /\ call[c].known = 0
      BY <1>4, <2>6 DEF SearchList, CallSafe, CallReal
    <3>2. CASE Result(c, "failed", 0) \/ Result(c, "attention", 0)
      BY <2>3, <3>1, <3>2 DEF Results
    <3>3. CASE /\ ~\E i \in Ids : invoices[i].contact = call[c].contact
               /\ call' = [call EXCEPT ![c].at = "sent", ![c].searched = TRUE]
      <4>1. Ids = {}
        BY <1>4, <3>1, <3>3 DEF RowSafe, Ids
      <4>2. invoices = <<>>
        <5>1. 1 \notin 1..Len(invoices)
          BY <4>1 DEF Ids
        <5>2. Len(invoices) = 0
          BY <1>2, <5>1
        <5> QED
          BY <1>2, <5>2
      <4>3. call'[c].at = "sent" /\ call'[c].contact = contact
        BY <1>2, <3>1, <3>3 DEF CallRecord
      <4> QED
        BY <1>1, <2>1, <4>2, <4>3 DEF CallSafe
    <3>4. CASE \E i \in Ids : call' = [call EXCEPT ![c].at = "created", ![c].id = i,
                                          ![c].contact = None, ![c].searched = TRUE]
      <4>1. call'[c].at = "created"
        BY <1>2, <3>4 DEF CallRecord
      <4> QED
        BY <4>1 DEF CallSafe
    <3>5. CASE /\ {i \in Ids : invoices[i].contact = call[c].contact} # {}
               /\ Noting("overlooked", {i \in Ids : invoices[i].contact = call[c].contact} # {})
      BY <3>5 DEF Noting
    <3> QED
      BY <2>6, <3>2, <3>3, <3>4, <3>5 DEF SearchList
  <2>7. CASE Answer(c)
    <3>1. call'[c].at = "created"
      BY <1>2, <2>7 DEF Answer, CallRecord
    <3> QED
      BY <3>1 DEF CallSafe
  <2>8. CASE Refuse(c)
    <3>1. AllRecorded
      BY <1>4, <2>8 DEF Refuse, CallSafe, AllRecorded, Ids
    <3> QED
      BY <2>3, <2>8, <3>1 DEF Refuse, Results
  <2>9. CASE Silence(c)
    BY <2>3, <2>9 DEF Silence, Results
  <2>10. CASE ReadBack(c)
    BY <1>2, <2>3, <2>10 DEF ReadBack, Results, CallRecord
  <2> QED
    BY <1>3, <1>6, <2>4, <2>5, <2>6, <2>7, <2>8, <2>9, <2>10 DEF CallLexware
<1> QED
  BY <1>5, <1>6

LEMMA CallLexwareStep ==
    ASSUME IInv, NEW c \in Calls, CallLexware(c)
    PROVE  IInv'
<1>1. /\ row' = row /\ contact' = contact /\ InPhase2(c)
      /\ call' \in [Calls -> CallRecord] /\ CallReal(c)'
      /\ \A d \in Calls \ {c} : call'[d] = call[d]
      /\ invoices' \in Seq(InvoiceRecord) /\ Grows
  BY CallLexwareReal DEF IInv
<1>2. hazards \subseteq hazards' /\ hazards' \subseteq {"overtaken", "relinked", "garbled", "overlooked"}
  BY DEF CallLexware, Resolve, ReadKnown, SearchList, Arrive, Answer, Refuse, Silence, Garble,
         ReadBack, Noting, IInv, TransferTypeOK
<1>3. TransferTypeOK'
  BY <1>1, <1>2 DEF TransferTypeOK, IInv, CallRecord, InvoiceRecord
<1>4. Real'
  <2>1. RowReal'
    BY <1>1 DEF IInv, Real, RowReal, Grows
  <2>2. ASSUME NEW d \in Calls
        PROVE  CallReal(d)'
    BY <1>1, OtherReal DEF IInv, Real, Grows
  <2> QED
    BY <2>1, <2>2 DEF Real
<1>5. OwnerActs'
  BY <1>1, <1>2 DEF IInv, OwnerActs, InPhase2
<1>6. Safe'
  <2>1. SUFFICES ASSUME hazards' = {}
                 PROVE  RowSafe' /\ \A d \in Calls : CallSafe(d)'
    BY DEF Safe
  <2>2. RowSafe' /\ CallSafe(c)'
    BY <2>1, CallLexwareSafe
  <2>3. ASSUME NEW d \in Calls \ {c}
        PROVE  CallSafe(d)'
    <3>1. ~InPhase2(d)
      BY <1>1, <1>2, <2>1, Alone DEF IInv
    <3> QED
      BY <1>1, <3>1, IdleSafe DEF InPhase2
  <2> QED
    BY <2>2, <2>3
<1> QED
  BY <1>3, <1>4, <1>5, <1>6 DEF IInv

-----------------------------------------------------------------------------
(* The other steps. *)

(* Phase 1 and the steps before it give the row no new invoice id.           *)
LEMMA StartStep ==
    ASSUME IInv, NEW c \in Calls, Start(c)
    PROVE  IInv'
<1>1. call \in [Calls -> CallRecord] /\ call[c] \in CallRecord /\ row \in RowRecord
  BY CallType DEF IInv
<1>2. /\ contact' = contact /\ invoices' = invoices /\ hazards' = hazards
      /\ Ids' = Ids
  BY DEF Start, Ids
<1>3. row' \in RowRecord /\ row'.known = row.known /\ row'.live = row.live
      /\ row'.owner = row.owner
      /\ \/ row'.status = row.status
         \/ row.status = "none" /\ row'.status = "pending"
  BY <1>1 DEF Start, Prepare, RowRecord, Statuses
<1>4. /\ call'[c] = [call[c] EXCEPT !.at = "called"]
      /\ \A d \in Calls \ {c} : call'[d] = call[d]
  BY <1>1 DEF Start
<1>5. call' \in [Calls -> CallRecord]
  <2>1. [call[c] EXCEPT !.at = "called"] \in CallRecord
    BY <1>1 DEF CallRecord, Points
  <2> QED
    BY <1>1, <2>1 DEF Start
<1>6. TransferTypeOK'
  BY <1>2, <1>3, <1>5 DEF IInv, TransferTypeOK, RowRecord, CallRecord
<1>7. Real'
  <2>1. RowReal'
    BY <1>2, <1>3 DEF IInv, Real, RowReal
  <2>2. CallReal(c)'
    BY <1>1, <1>2, <1>4 DEF IInv, Real, CallReal, CallRecord, Start
  <2>3. ASSUME NEW d \in Calls \ {c}
        PROVE  CallReal(d)'
    BY <1>2, <1>4, OtherReal DEF IInv, Real, Grows
  <2> QED
    BY <2>1, <2>2, <2>3 DEF Real
<1>8. ~InPhase2(c)'
  BY <1>1, <1>4 DEF InPhase2, CallRecord
<1>9. OwnerActs'
  BY <1>2, <1>3, <1>4, <1>8 DEF IInv, OwnerActs, InPhase2
<1>10. Safe'
  <2>1. SUFFICES ASSUME hazards = {}
                 PROVE  RowSafe' /\ \A d \in Calls : CallSafe(d)'
    BY <1>2 DEF Safe
  <2>2. RowSafe'
    BY <1>2, <1>3, <2>1 DEF IInv, Safe, RowSafe, AllRecorded
  <2>3. ASSUME NEW d \in Calls \ {c}
        PROVE  CallSafe(d)'
    BY <1>2, <1>3, <1>4, <2>1 DEF IInv, Safe, CallSafe, AllRecorded
  <2> QED
    BY <1>8, <2>2, <2>3, IdleSafe
<1> QED
  BY <1>6, <1>7, <1>9, <1>10 DEF IInv

(* An execution ends, and nothing else changes. *)
LEMMA EndStep ==
    ASSUME IInv, NEW c \in Calls, End(c), UNCHANGED <<row, contact, invoices, hazards>>
    PROVE  IInv'
<1>1. /\ call' \in [Calls -> CallRecord] /\ CallReal(c)' /\ CallSafe(c)' /\ ~InPhase2(c)'
      /\ \A d \in Calls \ {c} : call'[d] = call[d]
  BY EndReal DEF IInv
<1>2. TransferTypeOK'
  BY <1>1 DEF IInv, TransferTypeOK, CallRecord
<1>3. Real'
  BY <1>1 DEF IInv, Real, RowReal, CallReal, Ids
<1>4. OwnerActs'
  BY <1>1 DEF IInv, OwnerActs, InPhase2
<1>5. Safe'
  BY <1>1 DEF IInv, Safe, RowSafe, CallSafe, AllRecorded, Ids
<1> QED
  BY <1>2, <1>3, <1>4, <1>5 DEF IInv

LEMMA ExpireStep ==
    ASSUME IInv, Expire
    PROVE  IInv'
<1>1. row \in RowRecord
  BY CallType DEF IInv
<1>2. row' \in RowRecord /\ row'.known = row.known /\ row'.status = row.status
      /\ row'.owner = row.owner /\ ~row'.live
  BY <1>1 DEF Expire, RowRecord
<1>3. call' = call /\ contact' = contact /\ invoices' = invoices /\ hazards' = hazards
  BY DEF Expire
<1>4. TransferTypeOK'
  BY <1>2, <1>3 DEF IInv, TransferTypeOK, RowRecord
<1>5. Real'
  BY <1>2, <1>3 DEF IInv, Real, RowReal, CallReal, Ids
<1>6. OwnerActs'
  BY <1>2, <1>3 DEF IInv, OwnerActs, InPhase2
<1>7. Safe'
  BY <1>2, <1>3 DEF IInv, Safe, RowSafe, CallSafe, AllRecorded, Ids
<1> QED
  BY <1>4, <1>5, <1>6, <1>7 DEF IInv

(* The contact changes only when nothing depends on it, or it is noted. *)
LEMMA LinkStep ==
    ASSUME IInv, NEW k \in Contacts, Link(k)
    PROVE  IInv'
<1> USE TransferAssumption
<1>1. row' = row /\ call' = call /\ invoices' = invoices /\ contact' = k
      /\ hazards \subseteq hazards' /\ hazards' \subseteq {"overtaken", "relinked", "garbled", "overlooked"}
  BY DEF Link, Noting, IInv, TransferTypeOK
<1>2. TransferTypeOK'
  BY <1>1 DEF IInv, TransferTypeOK
<1>3. Real'
  BY <1>1 DEF IInv, Real, RowReal, CallReal, Ids
<1>4. OwnerActs'
  BY <1>1 DEF IInv, OwnerActs, InPhase2
<1>5. Safe'
  <2>1. SUFFICES ASSUME hazards' = {}
                 PROVE  RowSafe' /\ \A c \in Calls : CallSafe(c)'
    BY DEF Safe
  <2>2. hazards = {} /\ ~Unrecorded /\ \A c \in Calls : call[c].contact = None
    BY <2>1 DEF Link, Noting
  <2>3. AllRecorded
    BY <2>2 DEF Unrecorded, AllRecorded
  <2>4. RowSafe'
    BY <1>1, <2>2, <2>3 DEF IInv, Safe, RowSafe, AllRecorded, Ids
  <2>5. ASSUME NEW c \in Calls
        PROVE  CallSafe(c)'
    <3>1. CallSafe(c) /\ CallReal(c) /\ call[c].contact = None
      BY <2>2 DEF IInv, Safe, Real
    <3>2. call[c].at \notin {"search", "sent"}
      BY <3>1 DEF CallReal
    <3> QED
      BY <1>1, <3>1, <3>2 DEF CallSafe, AllRecorded, Ids
  <2> QED
    BY <2>4, <2>5
<1> QED
  BY <1>2, <1>3, <1>4, <1>5 DEF IInv

(* A claim, and a claim that is refused: the duty to look for an invoice is   *)
(* passed on.                                                                *)
LEMMA ClaimStep ==
    ASSUME IInv, NEW c \in Calls, Claim(c)
    PROVE  IInv'
<1> USE TransferAssumption
<1>1. call \in [Calls -> CallRecord] /\ call[c] \in CallRecord /\ row \in RowRecord
      /\ Len(invoices) \in Nat
  BY CallType DEF IInv
<1>2. /\ contact' = contact /\ invoices' = invoices /\ Ids' = Ids
      /\ hazards \subseteq hazards' /\ hazards' \subseteq {"overtaken", "relinked", "garbled", "overlooked"}
      /\ "overtaken" \notin hazards' => ~Overtakes(c)
  BY DEF Claim, Block, Take, Noting, Ids, IInv, TransferTypeOK
<1>3. CallReal(c) /\ call[c].at = "called" /\ Claimable
  BY DEF IInv, Real, Claim, Block, Take
<1>4. row.attempts + 1 \in 0..MaxAttempts /\ row.owner \in Calls \cup {None} /\ row.known \in Nat
  <2>1. row.attempts < MaxAttempts
    BY DEF Claim, Block, Take
  <2>2. row.attempts \in 0..MaxAttempts /\ row.owner \in Calls \cup {None} /\ row.known \in Nat
    BY <1>1 DEF RowRecord
  <2> QED
    BY <2>1, <2>2
<1>5. PICK s \in Statuses, o \in Calls \cup {None}, l \in BOOLEAN :
         /\ row' = Row(s, o, l, row.known, row.attempts + 1)
         /\ l => s = "in_progress"
         /\ s # "succeeded"
         /\ s \in {"in_progress", "outcome_unknown", "attention"}
              \/ row.status \in {"pending", "failed"}
         /\ Take(c) => s = "in_progress" /\ o = c
  <2>1. CASE Take(c)
    BY <2>1 DEF Take, Statuses
  <2>2. CASE ~Take(c)
    <3>1. PICK s \in {IF NeedsRecovery THEN "outcome_unknown" ELSE "failed", "attention"} :
             row' = Row(s, row.owner, FALSE, row.known, row.attempts + 1)
      BY <2>2 DEF Claim, Block
    <3>2. s \in Statuses /\ s # "succeeded"
      BY <3>1 DEF Statuses
    <3>3. s \in {"in_progress", "outcome_unknown", "attention"}
            \/ row.status \in {"pending", "failed"}
      BY <1>3, <3>1 DEF NeedsRecovery, Claimable
    <3> QED
      BY <1>4, <2>2, <3>1, <3>2, <3>3
  <2> QED
    BY <2>1, <2>2
<1>6. /\ row' \in RowRecord /\ row'.known = row.known /\ row'.status = s /\ row'.owner = o
      /\ row'.live = l
  BY <1>4, <1>5, RowType DEF Row
<1>7. /\ call' \in [Calls -> CallRecord] /\ CallReal(c)'
      /\ \A d \in Calls \ {c} : call'[d] = call[d]
      /\ ~Take(c) => ~InPhase2(c)'
      /\ Take(c) => /\ call'[c].at = "claimed" /\ call'[c].known = row.known
                    /\ call'[c].duty = NeedsRecovery
  <2>1. CASE Take(c)
    <3> DEFINE r == [call[c] EXCEPT !.at = "claimed", !.known = row.known, !.duty = NeedsRecovery]
    <3>1. r \in CallRecord
      <4>1. NeedsRecovery \in BOOLEAN
        BY DEF NeedsRecovery
      <4> QED
        BY <1>1, <1>4, <4>1 DEF CallRecord, Points
    <3>2. call' = [call EXCEPT ![c] = r]
      BY <1>1, <2>1 DEF Take
    <3>3. call' \in [Calls -> CallRecord] /\ call'[c] = r
          /\ \A d \in Calls \ {c} : call'[d] = call[d]
      BY <1>1, <3>1, <3>2
    <3>4. r.at = "claimed" /\ r.known = row.known /\ r.duty = NeedsRecovery
          /\ r.searched = call[c].searched
      BY <1>1 DEF CallRecord
    <3>5. row.known = 0 \/ row.known \in Ids
      BY DEF IInv, Real, RowReal
    <3>6. CallReal(c)'
      BY <1>2, <1>3, <3>3, <3>4, <3>5 DEF CallReal
    <3> HIDE DEF r
    <3> QED
      BY <2>1, <3>3, <3>4, <3>6
  <2>2. CASE ~Take(c)
    <3>1. End(c)
      BY <2>2 DEF Claim, Block
    <3> QED
      BY <2>2, <3>1, EndReal DEF IInv
  <2> QED
    BY <2>1, <2>2
<1>8. TransferTypeOK'
  BY <1>2, <1>6, <1>7 DEF IInv, TransferTypeOK, RowRecord, CallRecord
<1>9. Real'
  <2>1. RowReal'
    BY <1>2, <1>5, <1>6 DEF IInv, Real, RowReal
  <2>2. ASSUME NEW d \in Calls \ {c}
        PROVE  CallReal(d)'
    BY <1>2, <1>7, OtherReal DEF IInv, Real, Grows
  <2> QED
    BY <1>7, <2>1, <2>2 DEF Real
<1>10. "overtaken" \notin hazards' => \A d \in Calls \ {c} : ~InPhase2(d)'
  BY <1>2, <1>7 DEF Overtakes, InPhase2
<1>11. OwnerActs'
  <2>1. InPhase2(c)' => row'.status = "in_progress" /\ row'.owner = c
    BY <1>5, <1>6, <1>7
  <2> QED
    BY <1>10, <2>1 DEF OwnerActs
<1>12. Safe'
  <2>1. SUFFICES ASSUME hazards' = {}
                 PROVE  RowSafe' /\ \A d \in Calls : CallSafe(d)'
    BY DEF Safe
  <2>2. RowSafe /\ AllRecorded' = AllRecorded
    BY <1>2, <1>6, <2>1 DEF IInv, Safe, AllRecorded
  <2>3. row.status \in {"pending", "failed"} => AllRecorded
    BY <2>2 DEF RowSafe
  <2>4. RowSafe'
    BY <1>2, <1>5, <1>6, <2>2, <2>3 DEF RowSafe
  <2>5. CallSafe(c)'
    <3>1. CASE Take(c)
      <4>1. NeedsRecovery \/ AllRecorded
        BY <1>3, <2>3 DEF NeedsRecovery, Claimable
      <4> QED
        BY <1>6, <1>7, <2>2, <3>1, <4>1 DEF CallSafe
    <3>2. CASE ~Take(c)
      BY <1>7, <3>2, IdleSafe
    <3> QED
      BY <3>1, <3>2
  <2>6. ASSUME NEW d \in Calls \ {c}
        PROVE  CallSafe(d)'
    BY <1>10, <2>1, IdleSafe
  <2> QED
    BY <2>4, <2>5, <2>6
<1> QED
  BY <1>8, <1>9, <1>11, <1>12 DEF IInv

(* The result is recorded: what succeeds names the invoice, what fails has    *)
(* none.                                                                     *)
LEMMA CommitStep ==
    ASSUME IInv, NEW c \in Calls, Commit(c)
    PROVE  IInv'
<1> USE TransferAssumption
<1>1. call[c] \in CallRecord /\ row \in RowRecord /\ Len(invoices) \in Nat
  BY CallType DEF IInv
<1>2. /\ contact' = contact /\ invoices' = invoices /\ hazards' = hazards /\ Ids' = Ids
      /\ call[c].at = "result" /\ InPhase2(c) /\ row' = Committed(c) /\ End(c)
  BY DEF Commit, Ids, InPhase2
<1>3. /\ call' \in [Calls -> CallRecord] /\ CallReal(c)' /\ CallSafe(c)' /\ ~InPhase2(c)'
      /\ \A d \in Calls \ {c} : call'[d] = call[d]
  BY <1>2, EndReal DEF IInv
<1>4. CallReal(c) /\ RowReal
  BY DEF IInv, Real
<1>5. CASE row.status = "succeeded"
  <2>1. row' = row
    BY <1>2, <1>5 DEF Committed
  <2> QED
    BY <1>2, <2>1, EndStep
<1>6. CASE row.status # "succeeded"
  <2>1. PICK s \in Statuses, i \in {0, call[c].id} :
           /\ row' = Row(s, None, FALSE, IF i = 0 THEN row.known ELSE i, row.attempts)
           /\ s = "succeeded" => /\ call[c].result = "success" /\ i = call[c].id
           /\ s \in {"succeeded", "outcome_unknown", "attention"}
                \/ (call[c].result \in {"none", "failed"} /\ i = 0 /\ ~(call[c].duty /\ ~call[c].searched))
    <3>1. CASE call[c].result = "success"
      BY <1>2, <1>6, <3>1 DEF Committed, Statuses
    <3>2. CASE call[c].result = "attention"
      BY <1>2, <1>6, <3>2 DEF Committed, Statuses
    <3>3. CASE call[c].result = "unknown"
      BY <1>2, <1>6, <3>3 DEF Committed, Statuses
    <3>4. CASE call[c].result \notin {"success", "attention", "unknown"}
      <4>1. row' = Row(IF call[c].duty /\ ~call[c].searched THEN "outcome_unknown" ELSE "failed",
                       None, FALSE, row.known, row.attempts)
        BY <1>2, <1>6, <3>4 DEF Committed
      <4>2. call[c].result = "failed" \/ call[c].result = "none"
        BY <1>1, <3>4 DEF CallRecord, Results
      <4> QED
        BY <1>6, <3>4, <4>1, <4>2 DEF Statuses
    <3> QED
      BY <3>1, <3>2, <3>3, <3>4
  <2> DEFINE n == IF i = 0 THEN row.known ELSE i
  <2>2. n \in Nat /\ row.attempts \in 0..MaxAttempts
    BY <1>1, <2>1 DEF CallRecord, RowRecord
  <2>3. row' \in RowRecord /\ row'.known = n /\ row'.status = s /\ ~row'.live
    BY <2>1, <2>2, RowType DEF Row
  <2>4. (n = 0 \/ n \in Ids) /\ (s = "succeeded" => n \in Ids /\ invoices[n].fits)
    <3>1. call[c].id = 0 \/ call[c].id \in Ids
      BY <1>2, <1>4 DEF CallReal
    <3>2. s = "succeeded" => i \in Ids /\ i # 0 /\ invoices[i].fits
      BY <1>2, <1>4, <2>1 DEF CallReal, Ids
    <3> QED
      BY <1>4, <2>1, <3>1, <3>2 DEF RowReal
  <2>5. TransferTypeOK'
    BY <1>2, <1>3, <2>3 DEF IInv, TransferTypeOK, RowRecord, CallRecord
  <2>6. Real'
    <3>1. RowReal'
      BY <1>2, <2>3, <2>4 DEF RowReal
    <3>2. ASSUME NEW d \in Calls \ {c}
          PROVE  CallReal(d)'
      BY <1>2, <1>3, OtherReal DEF IInv, Real, Grows
    <3> QED
      BY <1>3, <3>1, <3>2 DEF Real
  <2>7. "overtaken" \notin hazards => \A d \in Calls : ~InPhase2(d)'
    <3>1. "overtaken" \notin hazards => \A d \in Calls \ {c} : ~InPhase2(d)
      BY <1>2, Alone DEF IInv
    <3> QED
      BY <1>3, <3>1 DEF InPhase2
  <2>8. OwnerActs'
    BY <1>2, <2>7 DEF OwnerActs
  <2>9. Safe'
    <3>1. SUFFICES ASSUME hazards = {}
                   PROVE  RowSafe'
      BY <1>2, <2>7, IdleSafe DEF Safe
    <3>2. RowSafe /\ CallSafe(c)
      BY <3>1 DEF IInv, Safe
    <3>3. i # 0 => \A j \in Ids : j = n
      BY <1>1, <1>2, <1>4, <2>1, <3>2 DEF CallReal, RowSafe, Ids
    <3>4. i = 0 => n = row.known
      OBVIOUS
    <3>5. AllRecorded' \/ s \in {"in_progress", "outcome_unknown", "attention"}
      <4>1. CASE i # 0
        BY <1>2, <2>3, <3>3, <4>1 DEF AllRecorded
      <4>2. CASE i = 0 /\ s \notin {"in_progress", "outcome_unknown", "attention"}
        <5>1. s # "succeeded"
          BY <1>2, <1>4, <2>1, <4>2 DEF CallReal, Ids
        <5>2. AllRecorded
          BY <1>2, <2>1, <3>2, <4>2, <5>1 DEF CallSafe
        <5> QED
          BY <1>2, <2>3, <3>4, <4>2, <5>2 DEF AllRecorded
      <4> QED
        BY <4>1, <4>2
    <3>6. \A j \in Ids : j = n \/ invoices[j].contact = contact
      BY <3>2, <3>3, <3>4 DEF RowSafe
    <3> HIDE DEF n
    <3> QED
      BY <1>2, <2>3, <3>2, <3>5, <3>6 DEF RowSafe
  <2> QED
    BY <2>5, <2>6, <2>8, <2>9 DEF IInv
<1> QED
  BY <1>5, <1>6

-----------------------------------------------------------------------------
(* The invariant is inductive. *)

LEMMA InitIInv == TransferInit => IInv
<1> SUFFICES ASSUME TransferInit
             PROVE  IInv
  OBVIOUS
<1> USE TransferAssumption
<1>1. row \in RowRecord /\ NoCall \in CallRecord
  BY NoCallType DEF TransferInit, Row, RowRecord, Statuses
<1>2. call = [c \in Calls |-> NoCall] /\ invoices = <<>> /\ hazards = {} /\ contact \in Contacts
      /\ row = Row("none", None, FALSE, 0, 0)
  BY DEF TransferInit
<1>3. \A c \in Calls : call[c].at = "idle" /\ call[c].known = 0 /\ ~call[c].searched
  BY <1>2 DEF NoCall
<1>4. row.status = "none" /\ ~row.live /\ row.known = 0
  BY <1>2 DEF Row
<1>5. TransferTypeOK
  <2>1. call \in [Calls -> CallRecord]
    BY <1>1, <1>2
  <2>2. invoices \in Seq(InvoiceRecord)
    BY <1>2
  <2> QED
    BY <1>1, <1>2, <2>1, <2>2 DEF TransferTypeOK, RowRecord, CallRecord, InvoiceRecord
<1>6. Real
  BY <1>3, <1>4 DEF Real, RowReal, CallReal
<1>7. OwnerActs
  BY <1>3 DEF OwnerActs, InPhase2
<1>8. Len(invoices) = 0 /\ Ids = {}
  <2>1. Len(invoices) = 0
    BY <1>2
  <2>2. Ids = 1..0
    BY <2>1 DEF Ids
  <2>3. 1..0 = {}
    OBVIOUS
  <2> QED
    BY <2>1, <2>2, <2>3
<1>9. Safe
  <2>1. RowSafe
    BY <1>8 DEF RowSafe, AllRecorded
  <2>2. \A c \in Calls : CallSafe(c)
    BY <1>3 DEF CallSafe
  <2> QED
    BY <2>1, <2>2 DEF Safe
<1> QED
  BY <1>5, <1>6, <1>7, <1>9 DEF IInv

LEMMA NextIInv == IInv /\ [TransferNext]_transferVars => IInv'
<1> SUFFICES ASSUME IInv, [TransferNext]_transferVars
             PROVE  IInv'
  OBVIOUS
<1>1. CASE \E c \in Calls : Start(c)
  BY <1>1, StartStep
<1>2. CASE \E c \in Calls : TurnAway(c) \/ Crash(c)
  BY <1>2, EndStep DEF TurnAway, Crash
<1>3. CASE \E c \in Calls : Claim(c)
  BY <1>3, ClaimStep
<1>4. CASE \E c \in Calls : CallLexware(c)
  BY <1>4, CallLexwareStep
<1>5. CASE \E c \in Calls : Commit(c)
  BY <1>5, CommitStep
<1>6. CASE Expire
  BY <1>6, ExpireStep
<1>7. CASE \E k \in Contacts : Link(k)
  BY <1>7, LinkStep
<1>8. CASE UNCHANGED transferVars
  BY <1>8 DEF transferVars, IInv, TransferTypeOK, Real, RowReal, CallReal, OwnerActs, Safe, RowSafe,
              CallSafe, AllRecorded, InPhase2, Ids
<1> QED
  BY <1>1, <1>2, <1>3, <1>4, <1>5, <1>6, <1>7, <1>8 DEF TransferNext

(* The inductive invariant holds. *)
THEOREM TransferInvariant == TransferSpec => []IInv
BY InitIInv, NextIInv, PTL DEF TransferSpec

(* The state has its type. *)
THEOREM TransferTypeCorrect == TransferSpec => []TransferTypeOK
<1>1. IInv => TransferTypeOK
  BY DEF IInv
<1> QED
  BY <1>1, TransferInvariant, PTL

LEMMA IInvOneInvoice == IInv => OneInvoice
BY DEF IInv, Safe, RowSafe, OneInvoice

(* Executions that crash, time out and retry give one invoice, but for the   *)
(* four hazards OneInvoice names.                                            *)
THEOREM TransferOneInvoice == TransferSpec => []OneInvoice
BY IInvOneInvoice, TransferInvariant, PTL

LEMMA IInvDutyKept == IInv => DutyKept
<1> SUFFICES ASSUME IInv, hazards = {}, Unrecorded
             PROVE  row.status \in {"in_progress", "outcome_unknown", "attention"}
  BY DEF DutyKept
<1>1. CASE \E i \in Ids : i # row.known
  BY <1>1 DEF IInv, Safe, RowSafe, AllRecorded
<1>2. CASE \E c \in Calls : call[c].at = "sent"
  BY <1>2, Alone DEF IInv, InPhase2
<1> QED
  BY <1>1, <1>2 DEF Unrecorded

(* An invoice that may exist and is not recorded is looked for first, but    *)
(* for the same four hazards.                                                *)
THEOREM TransferDutyKept == TransferSpec => []DutyKept
BY IInvDutyKept, TransferInvariant, PTL

(* A transfer that succeeded names an invoice that exists.                   *)
THEOREM TransferSucceededIsReal == TransferSpec => []SucceededIsReal
<1>1. IInv => SucceededIsReal
  BY DEF IInv, Real, RowReal, SucceededIsReal
<1> QED
  BY <1>1, TransferInvariant, PTL

LEMMA StepVerdict ==
    ASSUME IInv, [TransferNext]_transferVars
    PROVE  /\ row.status = "succeeded" => row' = row
           /\ row.status = "attention" /\ "overtaken" \notin hazards => row' = row
<1>1. CASE \E c \in Calls : Start(c)
  BY <1>1 DEF Start, Prepare
<1>2. CASE \E c \in Calls : TurnAway(c) \/ CallLexware(c) \/ Crash(c)
  BY <1>2 DEF TurnAway, Crash, CallLexware, Resolve, ReadKnown, SearchList, Arrive, Answer, Refuse,
              Silence, Garble, ReadBack, Phase2
<1>3. CASE \E c \in Calls : Claim(c)
  BY <1>3 DEF Claim, Block, Take, Claimable
<1>4. CASE \E c \in Calls : Commit(c)
  <2>1. PICK c \in Calls : Commit(c)
    BY <1>4
  <2>2. row.status = "succeeded" => row' = row
    BY <2>1 DEF Commit, Committed
  <2>3. "overtaken" \notin hazards => row.status = "in_progress"
    BY <2>1, Alone DEF Commit, InPhase2, IInv
  <2> QED
    BY <2>2, <2>3
<1>5. CASE Expire
  BY <1>5 DEF Expire, IInv, Real, RowReal
<1>6. CASE (\E k \in Contacts : Link(k)) \/ UNCHANGED transferVars
  BY <1>6 DEF Link, transferVars
<1> QED
  BY <1>1, <1>2, <1>3, <1>4, <1>5, <1>6 DEF TransferNext

(* Verdicts are final. *)
THEOREM TransferVerdictsAreFinal == TransferSpec => VerdictsAreFinal
BY StepVerdict, TransferInvariant, PTL DEF TransferSpec, VerdictsAreFinal
-----------------------------------------------------------------------------
SettleRecord ==
    [amount : 0..MaxAmount, open : BOOLEAN, manual : BOOLEAN, changed : BOOLEAN,
     wait : {"none", "running", "over", "freed"},
     response : {"none", "open", "done"}, edited : BOOLEAN,
     payload : 0..MaxAmount, by : {"nobody", "auto", "manual"}]

NoticeRecord ==
    [status : {"none", "prepared", "queued", "failed", "sent"}, told : 0..MaxAmount]

(* Charges that are not marked as changed are those of the mail, be it under  *)
(* way or sent.                                                              *)
AsTold(s, n) ==
    ~s.edited /\ (\/ Told(s) /\ ~s.changed
                  \/ ~Told(s) /\ n.status \in {"queued", "failed"})
        => s.amount <= n.told

(* The settlement itself, as it may still be changed. *)
Consistent(s, n) ==
    /\ s.wait = "freed" => s.manual
    /\ Told(s) => n.status = "sent"
    /\ s.response = "open" => Told(s)
    /\ AsTold(s, n)

NothingPrepared ==
    row.status = "none" => settle.by = "nobody" /\ \A c \in Calls : call[c].at = "idle"

AutoCharge ==
    settle.by = "auto" =>
        /\ ~settle.manual
        /\ settle.amount > 0 => settle.wait = "over" /\ ~settle.changed

SInv ==
    /\ IInv
    /\ settle \in SettleRecord /\ notice \in NoticeRecord
    /\ job \in {"none", "later", "due", "running"}
    /\ mode \in [Calls -> {"none", "auto", "manual"}]
    /\ Consistent(settle, notice)
    /\ NothingPrepared
    /\ PreparedIsClear
    /\ AutoCharge

-----------------------------------------------------------------------------
(* Every step is a step of InvoiceTransfer, or none of its. *)

LEMMA StepsTransfer == [Next]_vars => [TransferNext]_transferVars
<1> SUFFICES ASSUME [Next]_vars
             PROVE  [TransferNext]_transferVars
  OBVIOUS
<1>1. CASE Staff \/ NoticeSent
  BY <1>1 DEF Staff, Discover, Waive, Approve, Respond, Release, EndWait, View, Charge, Update,
              Remove, NoticeSent, Mutate, transferVars
<1>2. CASE NoticeFailed \/ WindowEnds \/ SkipAuto
  BY <1>2 DEF NoticeFailed, WindowEnds, SkipAuto, transferVars
<1>3. CASE Environment
  BY <1>3 DEF Environment, TransferNext
<1>4. CASE \E c \in Calls : StartAuto(c) \/ StartManual(c) \/ Step(c)
  BY <1>4 DEF StartAuto, StartManual, Started, Step, TransferNext
<1>5. CASE UNCHANGED vars
  BY <1>5 DEF vars, transferVars
<1> QED
  BY <1>1, <1>2, <1>3, <1>4, <1>5 DEF Next

(* The transfer of a settlement is a transfer. *)
THEOREM ImplementsTransfer == Spec => TransferSpec
<1>1. Init => TransferInit
  BY DEF Init
<1> QED
  BY <1>1, StepsTransfer, PTL DEF Spec, TransferSpec

(* One settlement gives one invoice, but for the four hazards of the transfer. *)
THEOREM SettlementOneInvoice == Spec => []OneInvoice
BY ImplementsTransfer, TransferOneInvoice, PTL

(* What may exist at Lexware and is not recorded is looked for first, but for those. *)
THEOREM SettlementDutyKept == Spec => []DutyKept
BY ImplementsTransfer, TransferDutyKept, PTL

(* The verdicts on the transfer of a settlement are final. *)
THEOREM SettlementVerdicts == Spec => VerdictsAreFinal
BY ImplementsTransfer, TransferVerdictsAreFinal, PTL

-----------------------------------------------------------------------------
(* Steps that change the settlement before a transfer is prepared. *)

LEMMA RebuiltType ==
    ASSUME NEW s \in SettleRecord, NEW n \in NoticeRecord, AsTold(s, n)
    PROVE  Rebuilt(s, n) \in NoticeRecord /\ AsTold(s, Rebuilt(s, n))
<1> USE SettlementAssumption
<1>1. NoNotice \in NoticeRecord /\ NoNotice.status = "none"
  BY DEF NoNotice, NoticeRecord
<1>2. [n EXCEPT !.status = "prepared"] \in NoticeRecord
      /\ [n EXCEPT !.status = "prepared"].status = "prepared"
  BY DEF NoticeRecord
<1>3. CASE Told(s)
  BY <1>3 DEF Rebuilt
<1>4. CASE ~Told(s)
  <2>1. Rebuilt(s, n) \in {n, NoNotice, [n EXCEPT !.status = "prepared"]}
    BY <1>4 DEF Rebuilt
  <2> QED
    BY <1>1, <1>2, <1>4, <2>1 DEF AsTold
<1> QED
  BY <1>3, <1>4

LEMMA MutateStep ==
    ASSUME SInv, IInv', NEW s \in SettleRecord, NEW n \in NoticeRecord, Mutate(s, n),
           s.by = settle.by, Consistent(s, n)
    PROVE  SInv'
<1>1. row' = row /\ call' = call /\ row.status = "none" /\ mode' = mode
      /\ settle' = s /\ notice' = Rebuilt(s, n)
  BY DEF Mutate, Mutable
<1>2. notice' \in NoticeRecord /\ Consistent(settle', notice')
  <2>1. Rebuilt(s, n) \in NoticeRecord /\ AsTold(s, Rebuilt(s, n))
    BY RebuiltType DEF Consistent
  <2>2. Told(s) => Rebuilt(s, n) = n
    BY DEF Rebuilt
  <2> QED
    BY <1>1, <2>1, <2>2 DEF Consistent
<1>3. job' \in {"none", "later", "due", "running"}
  BY DEF Mutate, Ensured, SInv
<1>4. NothingPrepared' /\ PreparedIsClear' /\ AutoCharge'
  BY <1>1 DEF SInv, NothingPrepared, PreparedIsClear, AutoCharge
<1> QED
  BY <1>1, <1>2, <1>3, <1>4 DEF SInv, Consistent, AsTold, Told

LEMMA SettleType ==
    ASSUME SInv
    PROVE  /\ settle \in SettleRecord /\ notice \in NoticeRecord
           /\ Consistent(settle, notice)
           /\ settle.wait = "freed" => settle.manual
           /\ Told(settle) => notice.status = "sent"
           /\ settle.response = "open" => Told(settle)
           /\ AsTold(settle, notice)
BY DEF SInv, Consistent

(* An amount that changes is marked: after the mail as changed, while it is  *)
(* under way in the history.                                                 *)
LEMMA ChargedType ==
    ASSUME SInv, NEW s \in SettleRecord, NEW a \in 0..MaxAmount
    PROVE  Charged(s, a) \in SettleRecord
BY DEF Charged, SettleRecord

LEMMA MarkedStep ==
    ASSUME SInv, NEW s \in SettleRecord, NEW a \in 0..MaxAmount,
           s.by = settle.by, s.wait = settle.wait, s.manual = settle.manual,
           s.response = settle.response
    PROVE  LET t == Marked(Charged(s, a))
           IN t \in SettleRecord /\ t.by = settle.by /\ Consistent(t, notice)
<1> DEFINE u == Charged(s, a)
<1>1. u \in SettleRecord /\ u.by = settle.by /\ u.wait = settle.wait /\ u.manual = settle.manual
      /\ u.response = settle.response
  BY ChargedType DEF Charged, SettleRecord
<1>2. u.edited = (s.edited \/ (~Told(s) /\ notice.status \in {"queued", "failed"}))
  BY DEF Charged, SettleRecord
<1>3. CASE Told(u)
  <2> DEFINE v == [u EXCEPT !.changed = TRUE, !.manual = TRUE]
  <2> HIDE DEF u
  <2>1. v \in SettleRecord /\ v.by = u.by /\ v.wait = u.wait /\ v.changed = TRUE /\ v.manual = TRUE
    BY <1>1 DEF SettleRecord
  <2> HIDE DEF v
  <2>2. /\ Answered(v) \in SettleRecord /\ Answered(v).by = v.by /\ Answered(v).wait = v.wait
        /\ Answered(v).changed = TRUE /\ Answered(v).manual = TRUE
    BY <2>1 DEF Answered, SettleRecord
  <2>3. Marked(u) = Answered(v)
    BY <1>3 DEF Marked, v
  <2>4. Told(Answered(v))
    BY <2>1, <2>2, <1>3 DEF Told
  <2>5. Told(settle)
    BY <1>1, <1>3 DEF Told
  <2>6. Consistent(Answered(v), notice)
    BY <2>2, <2>4, <2>5, SettleType DEF Consistent, AsTold
  <2> QED
    BY <1>1, <2>1, <2>2, <2>3, <2>6 DEF u
<1>4. CASE ~Told(u)
  <2>1. Marked(u) = u
    BY <1>4 DEF Marked
  <2>2. ~Told(s) /\ ~Told(settle)
    BY <1>1, <1>4 DEF Told
  <2>3. Consistent(u, notice)
    BY <1>1, <1>2, <1>4, <2>2, SettleType DEF Consistent, AsTold
  <2> QED
    BY <1>1, <2>1, <2>3
<1> QED
  BY <1>3, <1>4

-----------------------------------------------------------------------------
(* What staff do. *)

LEMMA DiscoverStep == ASSUME SInv, IInv', Discover PROVE SInv'
<1> DEFINE s == [settle EXCEPT !.open = TRUE]
<1>1. s \in SettleRecord /\ s.by = settle.by /\ Consistent(s, notice)
  BY SettleType DEF SettleRecord, Consistent, AsTold, Told
<1> QED
  BY <1>1, SettleType, MutateStep DEF Discover

LEMMA WaiveStep == ASSUME SInv, IInv', Waive PROVE SInv'
<1> DEFINE s == [settle EXCEPT !.open = FALSE]
<1>1. s \in SettleRecord /\ s.by = settle.by /\ Consistent(s, notice)
  BY SettleType DEF SettleRecord, Consistent, AsTold, Told
<1> QED
  BY <1>1, SettleType, MutateStep DEF Waive

LEMMA ChargeStep == ASSUME SInv, IInv', NEW x \in 1..MaxAmount, Charge(x) PROVE SInv'
<1> DEFINE s == [settle EXCEPT !.open = FALSE]
           t == Marked(Charged(s, settle.amount + x))
<1>1. s \in SettleRecord /\ s.by = settle.by /\ s.wait = settle.wait /\ s.manual = settle.manual
      /\ s.response = settle.response
  BY SettleType DEF SettleRecord
<1>2. settle.amount \in 0..MaxAmount
  BY SettleType DEF SettleRecord
<1>3. settle.amount + x \in 0..MaxAmount
  BY <1>2, SettlementAssumption DEF Charge
<1>4. t \in SettleRecord /\ t.by = settle.by /\ Consistent(t, notice)
  BY <1>1, <1>3, MarkedStep
<1>5. Mutate(t, notice)
  BY DEF Charge
<1> HIDE DEF t
<1> QED
  BY <1>4, <1>5, SettleType, MutateStep

LEMMA UpdateStep == ASSUME SInv, IInv', NEW a \in 1..MaxAmount, Update(a) PROVE SInv'
<1> DEFINE t == Marked(Charged(settle, a))
<1>1. a \in 0..MaxAmount
  BY SettlementAssumption
<1>2. t \in SettleRecord /\ t.by = settle.by /\ Consistent(t, notice)
  BY <1>1, SettleType, MarkedStep
<1>3. Mutate(t, notice)
  BY DEF Update
<1> HIDE DEF t
<1> QED
  BY <1>2, <1>3, SettleType, MutateStep

LEMMA RemoveStep == ASSUME SInv, IInv', NEW a \in 0..(MaxAmount - 1), Remove(a) PROVE SInv'
<1> DEFINE u == Charged(settle, a)
           v == Answered(u)
           t == [v EXCEPT !.manual = @ /\ settle.wait = "freed"]
<1>1. a \in 0..MaxAmount /\ a < settle.amount /\ settle.amount \in 0..MaxAmount
  BY SettlementAssumption, SettleType DEF Remove, SettleRecord
<1>2. /\ u \in SettleRecord /\ u.by = settle.by /\ u.wait = settle.wait /\ u.manual = settle.manual
      /\ u.amount = a /\ u.changed = settle.changed /\ u.response = settle.response
      /\ u.edited = (settle.edited \/ (~Told(settle) /\ notice.status \in {"queued", "failed"}))
  BY <1>1, SettleType, ChargedType DEF Charged, SettleRecord
<1>3. Mutate(t, notice)
  BY DEF Remove
<1> HIDE DEF u
<1>4. /\ v \in SettleRecord /\ v.by = u.by /\ v.wait = u.wait /\ v.manual = u.manual
      /\ v.amount = a /\ v.changed = u.changed /\ v.edited = u.edited /\ v.response # "open"
  BY <1>2 DEF Answered, SettleRecord
<1> HIDE DEF v
<1>5. /\ t \in SettleRecord /\ t.by = v.by /\ t.wait = v.wait
      /\ t.manual = (v.manual /\ settle.wait = "freed")
      /\ t.amount = a /\ t.changed = v.changed /\ t.edited = v.edited /\ t.response # "open"
  BY <1>4 DEF SettleRecord
<1> HIDE DEF t
<1>6. t.wait = "freed" => t.manual
  BY <1>2, <1>4, <1>5, SettleType
<1>7. notice.told \in 0..MaxAmount
  BY SettleType DEF NoticeRecord
<1>8. AsTold(t, notice)
  <2>1. Told(t) = Told(settle) /\ t.changed = settle.changed
    BY <1>2, <1>4, <1>5 DEF Told
  <2>2. t.edited = (settle.edited \/ (~Told(settle) /\ notice.status \in {"queued", "failed"}))
    BY <1>2, <1>4, <1>5
  <2>3. ASSUME ~t.edited, Told(t), ~t.changed PROVE t.amount <= notice.told
    <3>1. settle.amount <= notice.told
      BY <2>1, <2>2, <2>3, SettleType DEF AsTold
    <3> QED
      BY <3>1, <1>1, <1>5, <1>7, SettlementAssumption
  <2>4. ASSUME ~t.edited, ~Told(t) PROVE notice.status \notin {"queued", "failed"}
    BY <2>1, <2>2, <2>4
  <2> QED
    BY <2>3, <2>4 DEF AsTold
<1>9. Told(t) => notice.status = "sent"
  BY <1>2, <1>4, <1>5, SettleType DEF Told
<1> QED
  BY <1>2, <1>3, <1>4, <1>5, <1>6, <1>8, <1>9, SettleType, MutateStep DEF Consistent

LEMMA ApproveStep == ASSUME SInv, IInv', Approve PROVE SInv'
<1> DEFINE s == [settle EXCEPT !.edited = FALSE]
           n == [status |-> "queued", told |-> settle.amount]
<1>1. s \in SettleRecord /\ s.by = settle.by /\ s.amount = settle.amount
      /\ s.wait = settle.wait /\ s.manual = settle.manual /\ s.response = settle.response
  BY SettleType DEF SettleRecord
<1>2. n \in NoticeRecord
  BY SettleType DEF SettleRecord, NoticeRecord
<1>3. settle.amount \in 0..MaxAmount
  BY SettleType DEF SettleRecord
<1>4. s.amount <= n.told /\ ~Told(s)
  BY <1>1, <1>3, SettlementAssumption DEF Approve, NoticeMissing, Told
<1>5. Consistent(s, n)
  BY <1>1, <1>4, SettleType DEF Consistent, AsTold, Told
<1> QED
  BY <1>1, <1>2, <1>5, MutateStep DEF Approve

LEMMA NoticeSentStep == ASSUME SInv, IInv', NoticeSent PROVE SInv'
<1> DEFINE s == [settle EXCEPT !.wait = "running"]
           n == [notice EXCEPT !.status = "sent"]
<1>1. s \in SettleRecord /\ s.by = settle.by /\ n \in NoticeRecord
  BY SettleType DEF SettleRecord, NoticeRecord
<1>2. s.wait = "running" /\ s.amount = settle.amount /\ s.edited = settle.edited
      /\ s.changed = settle.changed /\ n.told = notice.told
  BY SettleType DEF SettleRecord, NoticeRecord
<1>3. ~Told(settle)
  BY SettleType DEF NoticeSent
<1>4. n.status = "sent"
  BY SettleType DEF NoticeRecord
<1>5. Consistent(s, n)
  BY <1>2, <1>3, <1>4, SettleType DEF NoticeSent, Consistent, AsTold, Told
<1> QED
  BY <1>1, <1>5, MutateStep DEF NoticeSent

LEMMA RespondStep == ASSUME SInv, IInv', Respond PROVE SInv'
<1> DEFINE s == [settle EXCEPT !.response = "open", !.manual = TRUE]
<1>1. s \in SettleRecord /\ s.by = settle.by /\ Consistent(s, notice)
  BY SettleType DEF Respond, SettleRecord, Consistent, AsTold, Told
<1> QED
  BY <1>1, SettleType, MutateStep DEF Respond

LEMMA ReleaseStep == ASSUME SInv, IInv', Release PROVE SInv'
<1> DEFINE s == [settle EXCEPT !.response = "done", !.wait = "freed", !.manual = TRUE]
<1>1. Told(settle)
  BY SettleType DEF Release
<1>2. s \in SettleRecord /\ s.by = settle.by /\ Consistent(s, notice)
  BY <1>1, SettleType DEF SettleRecord, Consistent, AsTold, Told
<1> QED
  BY <1>2, SettleType, MutateStep DEF Release

LEMMA EndWaitStep == ASSUME SInv, IInv', EndWait PROVE SInv'
<1> DEFINE s == [settle EXCEPT !.wait = "freed", !.manual = TRUE]
<1>1. Told(settle)
  BY DEF EndWait, Told
<1>2. s \in SettleRecord /\ s.by = settle.by /\ Consistent(s, notice)
  BY <1>1, SettleType DEF SettleRecord, Consistent, AsTold, Told
<1> QED
  BY <1>2, SettleType, MutateStep DEF EndWait

LEMMA ViewStep == ASSUME SInv, IInv', View PROVE SInv'
BY SettleType, MutateStep DEF View

LEMMA StaffStep == ASSUME SInv, IInv', Staff PROVE SInv'
BY DiscoverStep, WaiveStep, ChargeStep, UpdateStep, RemoveStep, ApproveStep, RespondStep,
   ReleaseStep, EndWaitStep, ViewStep DEF Staff

-----------------------------------------------------------------------------
(* What the mail, the clock and the job do. *)

LEMMA NoticeFailedStep == ASSUME SInv, IInv', NoticeFailed PROVE SInv'
<1>1. row' = row /\ call' = call /\ settle' = settle /\ job' = job /\ mode' = mode
      /\ notice.status = "queued" /\ notice' = [notice EXCEPT !.status = "failed"]
  BY DEF NoticeFailed
<1>2. notice' \in NoticeRecord /\ notice'.status = "failed" /\ notice'.told = notice.told
  BY <1>1, SettleType DEF NoticeRecord
<1>3. Consistent(settle', notice')
  BY <1>1, <1>2, SettleType DEF Consistent, AsTold
<1> QED
  BY <1>1, <1>2, <1>3 DEF SInv, NothingPrepared, PreparedIsClear, AutoCharge

LEMMA WindowEndsStep == ASSUME SInv, IInv', WindowEnds PROVE SInv'
<1> DEFINE s == [settle EXCEPT !.wait = "over"]
<1>1. row' = row /\ call' = call /\ settle' = s /\ job' = job /\ mode' = mode
      /\ notice' = notice /\ settle.wait = "running"
  BY DEF WindowEnds
<1>2. /\ s \in SettleRecord /\ s.wait = "over" /\ s.amount = settle.amount /\ s.open = settle.open
      /\ s.manual = settle.manual /\ s.changed = settle.changed /\ s.response = settle.response
      /\ s.edited = settle.edited /\ s.payload = settle.payload /\ s.by = settle.by
  BY SettleType DEF SettleRecord
<1> HIDE DEF s
<1>3. Consistent(s, notice)
  BY <1>1, <1>2, SettleType DEF Consistent, AsTold, Told
<1>4. PreparedIsClear'
  BY <1>1, <1>2 DEF SInv, PreparedIsClear, Clear, Blocking, NoticeMissing, Waiting, Told
<1>5. AutoCharge'
  BY <1>1, <1>2 DEF SInv, AutoCharge
<1>6. NothingPrepared'
  BY <1>1, <1>2 DEF SInv, NothingPrepared
<1> QED
  BY <1>1, <1>2, <1>3, <1>4, <1>5, <1>6 DEF SInv

LEMMA SkipAutoStep == ASSUME SInv, IInv', SkipAuto PROVE SInv'
BY DEF SkipAuto, SInv, Consistent, AsTold, Told, NothingPrepared, PreparedIsClear, AutoCharge,
       Clear, Blocking, NoticeMissing, Waiting

LEMMA EnvironmentStep == ASSUME SInv, IInv', Environment PROVE SInv'
<1>1. UNCHANGED settlementVars /\ call' = call
  BY DEF Environment, Expire, Link
<1>2. row.status = "none" <=> row'.status = "none"
  <2>1. row \in RowRecord
    BY CallType DEF SInv, IInv
  <2> QED
    BY <2>1 DEF Environment, Expire, Link, RowRecord
<1> QED
  BY <1>1, <1>2 DEF settlementVars, SInv, Consistent, AsTold, Told, NothingPrepared,
     PreparedIsClear, AutoCharge, Clear, Blocking, NoticeMissing, Waiting

(* The transfer is prepared by the first start, over what is then charged.   *)
LEMMA StartedStep ==
    ASSUME SInv, IInv', NEW c \in Calls, NEW m \in {"auto", "manual"}, Started(c, m),
           row.status # "none" \/ Allowed(settle, m), job' \in {"none", "later", "due", "running"}
    PROVE  SInv'
<1>1. row'.status # "none"
  <2>1. row \in RowRecord
    BY CallType DEF SInv, IInv
  <2> QED
    BY <2>1 DEF Started, Start, Prepare, RowRecord
<1>2. notice' = notice
  BY DEF Started
<1>3. mode' \in [Calls -> {"none", "auto", "manual"}]
  BY DEF Started, SInv
<1>4. CASE row.status # "none"
  <2>1. settle' = settle
    BY <1>4 DEF Started
  <2> QED
    BY <1>1, <1>2, <1>3, <1>4, <2>1 DEF SInv, Consistent, AsTold, Told, NothingPrepared,
       PreparedIsClear, AutoCharge, Clear, Blocking, NoticeMissing, Waiting
<1>5. CASE row.status = "none"
  <2> DEFINE s == [settle EXCEPT !.payload = settle.amount, !.by = m]
  <2>1. settle' = s
    BY <1>5 DEF Started
  <2>2. settle.amount \in 0..MaxAmount /\ settle.wait \in {"none", "running", "over", "freed"}
    BY SettleType DEF SettleRecord
  <2>3. /\ s \in SettleRecord /\ s.wait = settle.wait /\ s.amount = settle.amount
        /\ s.open = settle.open /\ s.manual = settle.manual /\ s.changed = settle.changed
        /\ s.response = settle.response /\ s.edited = settle.edited
        /\ s.payload = settle.amount /\ s.by = m
    BY SettleType DEF SettleRecord
  <2> HIDE DEF s
  <2>4. Consistent(s, notice)
    BY <2>3, SettleType DEF Consistent, AsTold, Told
  <2>5. Clear(s)
    BY <1>5, <2>3 DEF Allowed, Clear, Blocking, NoticeMissing, Waiting, Told
  <2>6. m = "auto" => ~s.manual /\ (s.amount = 0 \/ (s.wait = "over" /\ ~s.changed))
    BY <1>5, <2>3 DEF Allowed, Automatic
  <2>7. PreparedIsClear'
    BY <2>1, <2>3, <2>5 DEF PreparedIsClear, Clear, Blocking, NoticeMissing, Waiting, Told
  <2>8. AutoCharge'
    BY <2>1, <2>2, <2>3, <2>6, SettlementAssumption DEF AutoCharge
  <2>9. NothingPrepared'
    BY <1>1 DEF NothingPrepared
  <2> QED
    BY <1>2, <1>3, <2>1, <2>3, <2>4, <2>7, <2>8, <2>9, SettleType DEF SInv
<1> QED
  BY <1>4, <1>5

LEMMA StartAutoStep == ASSUME SInv, IInv', NEW c \in Calls, StartAuto(c) PROVE SInv'
<1>1. Started(c, "auto") /\ (row.status # "none" \/ Allowed(settle, "auto")) /\ job' = "running"
  BY DEF StartAuto
<1> QED
  BY <1>1, StartedStep

LEMMA StartManualStep == ASSUME SInv, IInv', NEW c \in Calls, StartManual(c) PROVE SInv'
<1>1. /\ Started(c, "manual")
      /\ row.status # "none" \/ Allowed(settle, "manual")
      /\ job' \in {"none", "later", "due", "running"}
  BY DEF StartManual, SInv
<1> QED
  BY <1>1, StartedStep

(* An execution can only be under way, and a verdict only fall, when a        *)
(* transfer is prepared; and it stays prepared.                              *)
LEMMA StaysPrepared ==
    ASSUME SInv, NEW c \in Calls, Step(c)
    PROVE  row.status # "none" /\ row'.status # "none"
<1>1. row \in RowRecord
  BY CallType DEF SInv, IInv
<1>2. row.status # "none"
  <2>1. call[c].at # "idle"
    BY DEF Step, Claim, Block, Take, TurnAway, CallLexware, Resolve, ReadKnown, SearchList, Arrive,
           Answer, Refuse, Silence, Garble, ReadBack, Commit, Crash
  <2> QED
    BY <2>1 DEF SInv, NothingPrepared
<1>3. CASE Claim(c)
  <2>1. CASE Take(c)
    BY <1>2, <2>1 DEF Take, Row
  <2>2. CASE Block(c)
    <3>1. PICK v \in {IF NeedsRecovery THEN "outcome_unknown" ELSE "failed", "attention"} :
             row' = Row(v, row.owner, FALSE, row.known, row.attempts + 1)
      BY <2>2 DEF Block
    <3>2. row'.status = v /\ v # "none"
      BY <3>1 DEF Row
    <3> QED
      BY <1>2, <3>2
  <2> QED
    BY <1>2, <1>3, <2>1, <2>2 DEF Claim
<1>4. CASE TurnAway(c) \/ CallLexware(c) \/ Crash(c)
  <2>1. row' = row
    BY <1>4 DEF TurnAway, CallLexware, Crash, Phase2, Resolve, ReadKnown, SearchList, Arrive, Answer,
                Refuse, Silence, Garble, ReadBack
  <2> QED
    BY <1>2, <2>1
<1>5. CASE Commit(c)
  <2>1. row' = Committed(c)
    BY <1>5 DEF Commit
  <2>2. Committed(c) = row \/ Committed(c).status # "none"
    BY DEF Committed, Row
  <2> QED
    BY <1>2, <2>1, <2>2
<1> QED
  BY <1>2, <1>3, <1>4, <1>5 DEF Step

LEMMA StepStep == ASSUME SInv, IInv', NEW c \in Calls, Step(c) PROVE SInv'
<1>1. row.status # "none" /\ row'.status # "none"
  BY StaysPrepared
<1>2. settle' = settle /\ notice' = notice
  BY DEF Step
<1>3. mode' \in [Calls -> {"none", "auto", "manual"}]
  BY DEF Step, Finish, SInv
<1>4. job' \in {"none", "later", "due", "running"}
  BY DEF Step, Finish, SInv
<1> QED
  BY <1>1, <1>2, <1>3, <1>4 DEF SInv, Consistent, AsTold, Told, NothingPrepared, PreparedIsClear,
     AutoCharge, Clear, Blocking, NoticeMissing, Waiting

-----------------------------------------------------------------------------
(* The invariant is inductive. *)

LEMMA InitSInv == Init => SInv
<1> SUFFICES ASSUME Init
             PROVE  SInv
  OBVIOUS
<1> USE SettlementAssumption
<1>1. IInv
  BY InitIInv DEF Init
<1>2. PICK open \in BOOLEAN : settle = [Fresh EXCEPT !.open = open]
  BY DEF Init
<1>3. settle \in SettleRecord /\ settle.wait = "none" /\ settle.response = "none"
      /\ settle.amount = 0 /\ settle.by = "nobody"
  <2>1. 0 \in 0..MaxAmount
    OBVIOUS
  <2>2. Fresh \in SettleRecord
    BY <2>1 DEF Fresh, SettleRecord
  <2>3. [Fresh EXCEPT !.open = open] \in SettleRecord
    BY <2>2 DEF SettleRecord
  <2> QED
    BY <1>2, <2>3 DEF Fresh
<1>4. notice \in NoticeRecord /\ notice.status = "none"
  BY DEF Init, NoNotice, NoticeRecord
<1>5. Consistent(settle, notice)
  BY <1>3, <1>4 DEF Consistent, AsTold, Told
<1>6. job \in {"none", "later", "due", "running"} /\ mode \in [Calls -> {"none", "auto", "manual"}]
  BY DEF Init
<1>7. row.status = "none" /\ \A c \in Calls : call[c].at = "idle"
  BY DEF Init, TransferInit, Row, NoCall
<1>8. NothingPrepared /\ PreparedIsClear /\ AutoCharge
  BY <1>3, <1>7 DEF NothingPrepared, PreparedIsClear, AutoCharge
<1> QED
  BY <1>1, <1>3, <1>4, <1>5, <1>6, <1>8 DEF SInv

LEMMA NextSInv == SInv /\ [Next]_vars => SInv'
<1> SUFFICES ASSUME SInv, [Next]_vars
             PROVE  SInv'
  OBVIOUS
<1>1. IInv'
  BY StepsTransfer, NextIInv DEF SInv
<1>2. CASE Staff
  BY <1>1, <1>2, StaffStep
<1>3. CASE NoticeSent \/ NoticeFailed
  BY <1>1, <1>3, NoticeSentStep, NoticeFailedStep
<1>4. CASE WindowEnds \/ SkipAuto \/ Environment
  BY <1>1, <1>4, WindowEndsStep, SkipAutoStep, EnvironmentStep
<1>5. CASE \E c \in Calls : StartAuto(c) \/ StartManual(c) \/ Step(c)
  BY <1>1, <1>5, StartAutoStep, StartManualStep, StepStep
<1>6. CASE UNCHANGED vars
  BY <1>1, <1>6 DEF vars, SInv, Consistent, AsTold, Told, NothingPrepared, PreparedIsClear,
     AutoCharge, Clear, Blocking, NoticeMissing, Waiting
<1> QED
  BY <1>2, <1>3, <1>4, <1>5, <1>6 DEF Next

(* The inductive invariant holds. *)
THEOREM SettlementInvariant == Spec => []SInv
BY InitSInv, NextSInv, PTL DEF Spec

(* The state has its type. *)
THEOREM SettlementTypeCorrect == Spec => []TypeOK
<1>1. SInv => TypeOK
  BY DEF SInv, IInv, TypeOK, SettleRecord, NoticeRecord
<1> QED
  BY <1>1, SettlementInvariant, PTL

(* From the moment a transfer is prepared the invoice is over what the        *)
(* settlement says, nothing is open, and the customer was told.              *)
THEOREM SettlementPrepared == Spec => []PreparedIsClear
<1>1. SInv => PreparedIsClear
  BY DEF SInv
<1> QED
  BY <1>1, SettlementInvariant, PTL

(* The job charges only what the customer was told and could object to.      *)
THEOREM SettlementToldBeforeCharged == Spec => []ToldBeforeCharged
<1>1. SInv => ToldBeforeCharged
  <2> SUFFICES ASSUME SInv, settle.by = "auto", settle.payload > 0, ~settle.edited
               PROVE  settle.wait = "over" /\ settle.payload <= notice.told
    BY DEF ToldBeforeCharged
  <2>1. settle.payload = settle.amount
    BY DEF SInv, NothingPrepared, PreparedIsClear
  <2>2. settle.wait = "over" /\ ~settle.changed
    BY <2>1 DEF SInv, AutoCharge
  <2>3. settle.amount <= notice.told
    BY <2>2, SettleType DEF AsTold, Told
  <2> QED
    BY <2>1, <2>2, <2>3
<1> QED
  BY <1>1, SettlementInvariant, PTL

(* What a human has released never goes to accounting by itself. *)
THEOREM SettlementReleasedIsManual == Spec => []ReleasedIsManual
<1>1. SInv => ReleasedIsManual
  BY DEF SInv, Consistent, AutoCharge, ReleasedIsManual
<1> QED
  BY <1>1, SettlementInvariant, PTL
=============================================================================
