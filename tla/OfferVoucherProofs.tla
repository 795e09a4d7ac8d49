------------------------- MODULE OfferVoucherProofs -------------------------
(***************************************************************************)
(* For any number of offers and concurrent requests, any validity and any  *)
(* bound: the voucher is used once, a live offer is covered by it, and a   *)
(* link only ever accepts the version it was sent with.                    *)
(***************************************************************************)
EXTENDS OfferVoucher, TLAPS

SentWith(o) == offer[o].status = "sent" /\ offer[o].carries

(* A call past its first step holds the lock of its draft; what it decides   *)
(* about the voucher it decides under the voucher's lock, and an answer      *)
(* "stale", which rests on two unlocked reads, is right about live offers.   *)
CallOK(c) ==
    /\ call[c].pc \in {"voucher", "current", "version", "decide", "attach"} =>
          lock[call[c].offer] = c /\ offer[call[c].offer].status = "draft"
    /\ call[c].pc \in {"current", "version"} =>
          lock["voucher"] = c /\ voucher.status = "reserved"
    /\ call[c].pc = "decide" /\ (call[c].kind = "apply" \/ offer[call[c].offer].carries) =>
          lock["voucher"] = c
    /\ call[c].pc = "version" /\ call[c].cur # offer[voucher.offer].n => ~SentWith(voucher.offer)
    /\ call[c].stale => call[c].pc \in {"decide", "attach"}
    /\ call[c].stale /\ call[c].pc = "decide" =>
          /\ lock["voucher"] = c /\ voucher.status = "reserved"
          /\ ~(SentWith(voucher.offer) /\ Live(voucher.offer))

LinkOfSent == \A o \in Offers : offer[o].status = "sent" => offer[o].link = offer[o].n

IInv ==
    /\ TypeOK /\ UsedOnce /\ LiveOfferCovered /\ BookedAsSeen
    /\ LinkOfSent
    /\ \A c \in Calls : CallOK(c)

-----------------------------------------------------------------------------
(* Types. *)

CallsTyped ==
    /\ call \in [Calls -> CallRows]
    /\ \A c \in Calls : call[c].at <= now /\ (call[c].pc # "idle" => call[c].offer # None)

(* A call whose record stays well formed. *)
LEMMA CallSet ==
    ASSUME TypeOK, NEW c \in Calls, NEW r \in CallRows, now' = now,
           call' = [call EXCEPT ![c] = r],
           r.at <= now, r.pc # "idle" => r.offer # None
    PROVE  CallsTyped'
<1>1. call' \in [Calls -> CallRows]
  BY DEF TypeOK
<1>2. \A d \in Calls : call'[d] = IF d = c THEN r ELSE call[d]
  BY DEF TypeOK
<1>3. QED
  BY <1>1, <1>2 DEF TypeOK, CallsTyped

LEMMA GoTyped ==
    ASSUME TypeOK, NEW c \in Calls, now' = now, NEW label, Go(c, label), call[c].pc # "idle",
           label \in {"idle", "called", "voucher", "current", "version", "decide", "attach"}
    PROVE  CallsTyped'
<1>1. PICK r \in CallRows : r = [call[c] EXCEPT !.pc = label]
  BY DEF TypeOK, CallRows
<1>2. call' = [call EXCEPT ![c] = r]
  BY <1>1 DEF Go, TypeOK
<1>3. r.at <= now /\ r.offer # None
  BY <1>1 DEF TypeOK, CallRows
<1>4. QED
  BY <1>2, <1>3, CallSet

LEMMA EndTyped ==
    ASSUME TypeOK, NEW c \in Calls, now' = now, End(c)
    PROVE  CallsTyped'
<1>1. PICK r \in CallRows : r = NoCall
  BY DEF NoCall, CallRows
<1>2. r.at = 0 /\ r.pc = "idle"
  BY <1>1 DEF NoCall
<1>3. call' = [call EXCEPT ![c] = r]
  BY <1>1 DEF End
<1>4. r.at <= now /\ (r.pc # "idle" => r.offer # None)
  BY <1>2 DEF TypeOK
<1>5. QED
  BY <1>3, <1>4, CallSet

LEMMA UnlockedTyped ==
    ASSUME TypeOK, NEW c \in Calls
    PROVE  Unlocked(c) \in [Offers \cup {"voucher"} -> Calls \cup {None}]
BY DEF TypeOK, Unlocked

LEMMA VoucherTyped ==
    ASSUME TypeOK, NEW o \in Offers
    PROVE  /\ Released(o) \in VoucherRows
           /\ Released(o).status = "reserved" <=> Released(o).offer # None
           /\ Voucher("reserved", o, voucher.expires) \in VoucherRows
           /\ Voucher("active", None, voucher.expires) \in VoucherRows
           /\ Voucher("redeemed", None, voucher.expires) \in VoucherRows
           /\ o # None
BY OfferAssumption DEF TypeOK, Released, Voucher, VoucherRows, Reserved

(* One offer's row is replaced by a well-formed one. *)
LEMMA OfferSet ==
    ASSUME TypeOK, NEW o \in Offers, NEW r \in OfferRows, offer' = [offer EXCEPT ![o] = r]
    PROVE  offer' \in [Offers -> OfferRows]
BY DEF TypeOK

LEMMA CarriesTyped ==
    ASSUME TypeOK, NEW o \in Offers, NEW b \in BOOLEAN
    PROVE  [offer[o] EXCEPT !.carries = b] \in OfferRows
<1>1. offer[o] \in OfferRows
  BY DEF TypeOK
<1>2. QED
  BY <1>1 DEF OfferRows

LEMMA RequestTyped ==
    ASSUME TypeOK, NEW c \in Calls, NEW o \in Offers, NEW kind \in {"apply", "send", "accept"},
           Request(c, kind, o)
    PROVE  TypeOK'
<1>1. offer[o] \in OfferRows /\ now \in Nat /\ o # None
  BY OfferAssumption DEF TypeOK
<1>2. PICK r \in CallRows :
         /\ r = [kind |-> kind, offer |-> o, at |-> now, pc |-> "called", cur |-> 0,
                 stale |-> FALSE,
                 ref |-> IF kind = "accept" THEN offer[o].link ELSE offer[o].n]
         /\ r.at = now /\ r.offer = o
  <2>1. PICK k \in Nat : k = IF kind = "accept" THEN offer[o].link ELSE offer[o].n
    BY <1>1 DEF OfferRows
  <2>2. [kind |-> kind, offer |-> o, at |-> now, pc |-> "called", cur |-> 0,
         stale |-> FALSE, ref |-> k] \in CallRows
    BY <1>1 DEF CallRows
  <2>3. QED
    BY <2>1, <2>2
<1>3. /\ call' = [call EXCEPT ![c] = r]
      /\ UNCHANGED <<now, voucher, offer, booking, redemption, lock>>
  BY <1>2 DEF Request
<1>4. r.at <= now
  BY <1>1, <1>2
<1>5. CallsTyped'
  BY <1>1, <1>2, <1>3, <1>4, CallSet
<1>6. QED
  BY <1>3, <1>5 DEF TypeOK, CallsTyped

LEMMA AbortTyped ==
    ASSUME TypeOK, NEW c \in Calls, Abort(c)
    PROVE  TypeOK'
<1>1. CallsTyped'
  BY EndTyped DEF Abort
<1>2. lock' \in [Offers \cup {"voucher"} -> Calls \cup {None}]
  BY UnlockedTyped DEF Abort
<1>3. QED
  BY <1>1, <1>2 DEF Abort, TypeOK, CallsTyped

LEMMA ApplyTyped ==
    ASSUME TypeOK, NEW c \in Calls, Apply(c)
    PROVE  TypeOK'
<1> DEFINE o == call[c].offer
           label == IF voucher.status = "active" \/ Reserved(o) THEN "attach" ELSE "voucher"
<1>1. call[c] \in CallRows /\ now \in Nat /\ o # None
  BY DEF TypeOK, Apply
<1>2. PICK r \in CallRows : r = [call[c] EXCEPT !.at = now, !.pc = label]
  <2>1. label \in {"attach", "voucher"}
    OBVIOUS
  <2>2. QED
    BY <1>1, <2>1 DEF CallRows
<1>3. call' = [call EXCEPT ![c] = r] /\ UNCHANGED <<now, voucher, offer, booking, redemption>>
  BY <1>2 DEF Apply
<1>4. r.at = now /\ r.offer = o /\ o \in Offers
  BY <1>1, <1>2 DEF CallRows
<1>5. CallsTyped'
  <2>1. r.at <= now /\ r.offer # None /\ now' = now
    BY <1>1, <1>3, <1>4
  <2>2. QED
    BY <1>3, <2>1, CallSet
<1>6. lock' \in [Offers \cup {"voucher"} -> Calls \cup {None}]
  BY <1>4 DEF Apply, TypeOK
<1>7. QED
  BY <1>3, <1>5, <1>6 DEF TypeOK, CallsTyped

LEMMA ValidatedTyped ==
    ASSUME TypeOK, NEW c \in Calls, Validated(c)
    PROVE  TypeOK'
<1>1. CallsTyped'
  BY GoTyped DEF Validated
<1>2. /\ voucher' \in VoucherRows
      /\ voucher'.status = "reserved" <=> voucher'.offer # None
  BY DEF Validated, TypeOK, Voucher, VoucherRows
<1>3. lock' \in [Offers \cup {"voucher"} -> Calls \cup {None}]
  BY DEF Validated, TypeOK
<1>4. QED
  BY <1>1, <1>2, <1>3 DEF Validated, TypeOK, CallsTyped

LEMMA AttachTyped ==
    ASSUME TypeOK, NEW c \in Calls, Attach(c)
    PROVE  TypeOK'
<1>1. CallsTyped'
  BY EndTyped DEF Attach
<1>2. lock' \in [Offers \cup {"voucher"} -> Calls \cup {None}]
  BY UnlockedTyped DEF Attach
<1>3. call[c].offer \in Offers
  BY DEF Attach, TypeOK, CallRows
<1>4. PICK r \in OfferRows : r = [offer[call[c].offer] EXCEPT !.carries = TRUE]
  BY <1>3, CarriesTyped
<1>5. offer' \in [Offers -> OfferRows]
  BY <1>3, <1>4, OfferSet DEF Attach
<1>6. QED
  BY <1>1, <1>2, <1>5 DEF Attach, TypeOK, CallsTyped

LEMMA RemoveTyped ==
    ASSUME TypeOK, NEW o \in Offers, Remove(o)
    PROVE  TypeOK'
<1>1. PICK r \in OfferRows : r = [offer[o] EXCEPT !.carries = FALSE]
  BY CarriesTyped
<1>2. offer' \in [Offers -> OfferRows]
  BY <1>1, OfferSet DEF Remove
<1>3. QED
  BY <1>2, VoucherTyped DEF Remove, TypeOK

LEMMA SendTyped ==
    ASSUME TypeOK, NEW c \in Calls, Send(c)
    PROVE  TypeOK'
<1>1. CallsTyped'
  <2>1. PICK label \in {"voucher", "decide"} : Go(c, label)
    BY DEF Send
  <2>2. QED
    BY <2>1, GoTyped DEF Send
<1>2. lock' \in [Offers \cup {"voucher"} -> Calls \cup {None}]
  BY DEF Send, TypeOK
<1>3. QED
  BY <1>1, <1>2 DEF Send, TypeOK, CallsTyped

LEMMA LockVoucherTyped ==
    ASSUME TypeOK, NEW c \in Calls, LockVoucher(c)
    PROVE  TypeOK'
<1>1. CallsTyped'
  <2>1. PICK label \in {"current", "decide"} : Go(c, label)
    BY DEF LockVoucher
  <2>2. QED
    BY <2>1, GoTyped DEF LockVoucher
<1>2. lock' \in [Offers \cup {"voucher"} -> Calls \cup {None}]
  BY DEF LockVoucher, TypeOK
<1>3. QED
  BY <1>1, <1>2 DEF LockVoucher, TypeOK, CallsTyped

LEMMA ReadCurrentTyped ==
    ASSUME TypeOK, NEW c \in Calls, ReadCurrent(c), voucher.status = "reserved"
    PROVE  TypeOK'
<1>1. voucher.offer \in Offers
  BY DEF TypeOK, VoucherRows
<1>2. PICK r \in CallRows : r = [call[c] EXCEPT !.cur = offer[voucher.offer].n, !.pc = "version"]
  BY <1>1 DEF TypeOK, CallRows, OfferRows
<1>3. call' = [call EXCEPT ![c] = r]
  BY <1>2 DEF ReadCurrent
<1>4. r.at <= now /\ r.offer # None /\ now' = now
  BY <1>2 DEF TypeOK, CallRows, ReadCurrent
<1>5. CallsTyped'
  BY <1>3, <1>4, CallSet
<1>6. QED
  BY <1>5 DEF ReadCurrent, TypeOK, CallsTyped

LEMMA ReadVersionTyped ==
    ASSUME TypeOK, NEW c \in Calls, ReadVersion(c)
    PROVE  TypeOK'
<1>1. PICK b \in BOOLEAN : b = ~StillHeld(voucher.offer, call[c].cur, call[c].at)
  BY DEF StillHeld
<1>2. PICK r \in CallRows : r = [call[c] EXCEPT !.stale = b, !.pc = "decide"]
  BY DEF TypeOK, CallRows
<1>3. call' = [call EXCEPT ![c] = r]
  BY <1>1, <1>2 DEF ReadVersion
<1>4. r.at <= now /\ r.offer # None /\ now' = now
  BY <1>2 DEF TypeOK, CallRows, ReadVersion
<1>5. CallsTyped'
  BY <1>3, <1>4, CallSet
<1>6. QED
  BY <1>5 DEF ReadVersion, TypeOK, CallsTyped

LEMMA CommitSendTyped ==
    ASSUME TypeOK, NEW c \in Calls, CommitSend(c)
    PROVE  TypeOK'
<1> DEFINE o == call[c].offer
<1>1. CallsTyped'
  BY EndTyped DEF CommitSend
<1>2. lock' \in [Offers \cup {"voucher"} -> Calls \cup {None}]
  BY UnlockedTyped DEF CommitSend
<1>3. o \in Offers /\ offer[o] \in OfferRows /\ call[c].at \in Nat
  BY DEF CommitSend, TypeOK, CallRows
<1>4. Expiry(c) \in Nat
  BY <1>3, OfferAssumption DEF Expiry, TypeOK, VoucherRows
<1>5. Sent(c) \in OfferRows
  BY <1>3, <1>4 DEF Sent, Version, OfferRows
<1>6. offer' \in [Offers -> OfferRows]
  BY <1>3, <1>5, OfferSet DEF CommitSend
<1>7. /\ voucher' \in VoucherRows
      /\ voucher'.status = "reserved" <=> voucher'.offer # None
  <2>1. CASE offer[o].carries
    BY <1>3, <2>1, VoucherTyped DEF CommitSend, Voucher
  <2>2. CASE ~offer[o].carries
    BY <1>3, <2>2 DEF CommitSend, TypeOK
  <2>3. QED
    BY <2>1, <2>2
<1>8. QED
  BY <1>1, <1>2, <1>6, <1>7 DEF CommitSend, TypeOK, CallsTyped

LEMMA NewVersionTyped ==
    ASSUME TypeOK, NEW o \in Offers, NewVersion(o)
    PROVE  TypeOK'
<1>1. PICK v \in {voucher, Released(o)} :
         v = IF Live(o) THEN voucher ELSE Released(o)
  OBVIOUS
<1>2. PICK keep \in BOOLEAN : keep = (offer[o].carries /\ UsableFor(v, o))
  BY DEF UsableFor
<1>3. /\ voucher' \in {voucher, Released(o)}
      /\ offer' = [offer EXCEPT ![o] = Version(offer[o].n + 1, "draft", keep, 0, offer[o].link)]
      /\ UNCHANGED <<now, booking, redemption, lock, call>>
  BY <1>1, <1>2 DEF NewVersion
<1>4. Version(offer[o].n + 1, "draft", keep, 0, offer[o].link) \in OfferRows
  <2>1. offer[o].n + 1 \in Nat \ {0} /\ offer[o].link \in Nat
    BY DEF TypeOK, OfferRows
  <2>2. QED
    BY <2>1 DEF Version, OfferRows
<1>5. offer' \in [Offers -> OfferRows]
  BY <1>3, <1>4, OfferSet
<1>6. /\ voucher' \in VoucherRows
      /\ voucher'.status = "reserved" <=> voucher'.offer # None
  BY <1>3, VoucherTyped DEF TypeOK
<1>7. QED
  BY <1>3, <1>5, <1>6 DEF TypeOK

LEMMA StatusTyped ==
    ASSUME TypeOK, NEW o \in Offers, NEW s \in {"declined", "recheck_requested", "accepted"},
           offer' = [offer EXCEPT ![o].status = s]
    PROVE  offer' \in [Offers -> OfferRows]
<1>1. PICK r \in OfferRows : r = [offer[o] EXCEPT !.status = s]
  BY DEF TypeOK, OfferRows
<1>2. QED
  BY <1>1, OfferSet

LEMMA AcceptTyped ==
    ASSUME TypeOK, NEW c \in Calls, Accept(c)
    PROVE  TypeOK'
<1> DEFINE o == call[c].offer
<1>1. CallsTyped'
  BY EndTyped DEF Accept
<1>2. /\ o \in Offers /\ offer[o] \in OfferRows
      /\ call[c] \in CallRows /\ call[c].at \in Nat /\ call[c].ref \in Nat
  BY DEF Accept, TypeOK, CallRows
<1>3. offer' \in [Offers -> OfferRows]
  BY <1>2, StatusTyped DEF Accept
<1>4. booking' \in [Offers -> [version : Nat, link : Nat]]
  BY <1>2 DEF Accept, TypeOK, OfferRows
<1>5. /\ voucher' \in VoucherRows
      /\ voucher'.status = "reserved" <=> voucher'.offer # None
      /\ redemption' \in [Offers -> RedemptionRows]
  <2>1. CASE offer[o].carries
    <3>1. voucher' = Voucher("redeemed", None, voucher.expires)
      BY <2>1 DEF Accept
    <3>2. PICK r \in RedemptionRows :
             r = [state |-> "open", remaining |-> voucher.expires - call[c].at]
      <4>1. voucher.expires - call[c].at \in Nat
        BY <1>2, <2>1 DEF Accept, Redeemable, Expired, TypeOK, VoucherRows
      <4>2. QED
        BY <4>1 DEF RedemptionRows
    <3>3. redemption' = [redemption EXCEPT ![o] = r]
      BY <2>1, <3>2 DEF Accept
    <3>4. QED
      BY <1>2, <3>1, <3>3, VoucherTyped DEF TypeOK, Voucher
  <2>2. CASE ~offer[o].carries
    BY <2>2 DEF Accept, TypeOK
  <2>3. QED
    BY <2>1, <2>2
<1>6. QED
  BY <1>1, <1>3, <1>4, <1>5 DEF Accept, TypeOK, CallsTyped

LEMMA RedemptionTyped ==
    ASSUME TypeOK, NEW o \in Offers, NEW s \in {"reactivated", "consumed"},
           redemption' = [redemption EXCEPT ![o].state = s]
    PROVE  redemption' \in [Offers -> RedemptionRows]
<1>1. PICK r \in RedemptionRows : r = [redemption[o] EXCEPT !.state = s]
  BY DEF TypeOK, RedemptionRows
<1>2. QED
  BY <1>1 DEF TypeOK

LEMMA ReactivateTyped ==
    ASSUME TypeOK, NEW o \in Offers, Reactivate(o)
    PROVE  TypeOK'
<1>1. redemption' \in [Offers -> RedemptionRows]
  BY RedemptionTyped DEF Reactivate
<1>2. now + redemption[o].remaining \in Nat
  BY DEF TypeOK, RedemptionRows
<1>3. /\ voucher' \in VoucherRows
      /\ voucher'.status = "reserved" <=> voucher'.offer # None
  BY <1>2 DEF Reactivate, TypeOK, Voucher, VoucherRows
<1>4. QED
  BY <1>1, <1>3 DEF Reactivate, TypeOK

(* Every step keeps rows, locks and calls well formed.                       *)
LEMMA StepTyped ==
    ASSUME TypeOK, [Next]_vars, \A c \in Calls : CallOK(c)
    PROVE  TypeOK'
<1>1. CASE Tick
  <2>1. now' \in Nat /\ \A c \in Calls : call[c].at <= now'
    BY <1>1 DEF Tick, TypeOK, CallRows
  <2>2. QED
    BY <1>1, <2>1 DEF Tick, TypeOK
<1>2. ASSUME NEW c \in Calls, ReadCurrent(c) PROVE TypeOK'
  BY <1>2, ReadCurrentTyped DEF ReadCurrent, CallOK
<1>3. ASSUME NEW o \in Offers, Decline(o) PROVE TypeOK'
  <2>1. offer' \in [Offers -> OfferRows]
    BY <1>3, StatusTyped DEF Decline
  <2>2. QED
    BY <1>3, <2>1, VoucherTyped DEF Decline, TypeOK
<1>4. ASSUME NEW o \in Offers, Recheck(o) PROVE TypeOK'
  <2>1. offer' \in [Offers -> OfferRows]
    BY <1>4, StatusTyped DEF Recheck
  <2>2. QED
    BY <1>4, <2>1 DEF Recheck, TypeOK
<1>5. ASSUME NEW o \in Offers, Consume(o) PROVE TypeOK'
  <2>1. redemption' \in [Offers -> RedemptionRows]
    BY <1>5, RedemptionTyped DEF Consume
  <2>2. QED
    BY <1>5, <2>1 DEF Consume, TypeOK
<1>6. CASE UNCHANGED vars
  BY <1>6 DEF vars, TypeOK
<1>7. QED
  BY <1>1, <1>2, <1>3, <1>4, <1>5, <1>6, RequestTyped, AbortTyped, ApplyTyped, ValidatedTyped,
     AttachTyped, RemoveTyped, SendTyped, LockVoucherTyped, ReadVersionTyped, CommitSendTyped,
     NewVersionTyped, AcceptTyped, ReactivateTyped DEF Next

-----------------------------------------------------------------------------
(* Calls and locks. *)

(* A step that respects the locks of a call does not disturb it.             *)
LEMMA OtherCall ==
    ASSUME TypeOK, TypeOK', NEW c \in Calls, CallOK(c), call'[c] = call[c], now <= now',
           \A x \in Offers \cup {"voucher"} : lock[x] = c => lock'[x] = c,
           \A o \in Offers : lock[o] = c => offer'[o] = offer[o],
           lock["voucher"] = c =>
              /\ voucher' = voucher
              /\ \A o \in Offers : SentWith(o)' => offer'[o] = offer[o]
    PROVE  CallOK(c)'
<1>1. call[c].pc # "idle" => call[c].offer \in Offers
  BY DEF TypeOK, CallRows
<1>2. voucher.status = "reserved" => voucher.offer \in Offers
  BY DEF TypeOK, VoucherRows
<1>3. call[c].pc \in {"voucher", "current", "version", "decide", "attach"} =>
         /\ lock'[call[c].offer] = c
         /\ offer'[call[c].offer] = offer[call[c].offer]
         /\ offer'[call[c].offer].status = "draft"
  BY <1>1 DEF CallOK
<1>4. call[c].pc \in {"current", "version"} => lock'["voucher"] = c /\ voucher'.status = "reserved"
  BY DEF CallOK
<1>5. call[c].pc = "decide" /\ (call[c].kind = "apply" \/ offer'[call[c].offer].carries) =>
         lock'["voucher"] = c
  BY <1>3 DEF CallOK
<1>6. call[c].pc = "version" /\ call[c].cur # offer'[voucher'.offer].n => ~SentWith(voucher.offer)'
  BY <1>2 DEF CallOK, SentWith
<1>7. call[c].stale /\ call[c].pc = "decide" =>
         /\ lock'["voucher"] = c /\ voucher' = voucher /\ voucher.status = "reserved"
         /\ ~(SentWith(voucher.offer)' /\ Live(voucher.offer)')
  <2>1. SUFFICES ASSUME call[c].stale, call[c].pc = "decide",
                        SentWith(voucher.offer)', Live(voucher.offer)'
                 PROVE  FALSE
    BY DEF CallOK
  <2>2. /\ voucher.offer \in Offers /\ voucher' = voucher
        /\ offer'[voucher.offer] = offer[voucher.offer]
    BY <1>2, <2>1 DEF CallOK
  <2>3. now < offer[voucher.offer].expires
    <3>1. now \in Nat /\ now' \in Nat /\ offer[voucher.offer].expires \in Nat
      BY <2>2 DEF TypeOK, OfferRows
    <3>2. now' < offer[voucher.offer].expires
      BY <2>1, <2>2 DEF Live
    <3>3. QED
      BY <3>1, <3>2
  <2>4. QED
    BY <2>1, <2>2, <2>3 DEF CallOK, SentWith, Live
<1>8. QED
  BY <1>3, <1>4, <1>5, <1>6, <1>7 DEF CallOK, SentWith, Live

-----------------------------------------------------------------------------
(* Steps. *)

DataInv == UsedOnce /\ LiveOfferCovered /\ BookedAsSeen /\ LinkOfSent

(* What does not touch the rows keeps what is said of them.                  *)
LEMMA DataKept ==
    ASSUME DataInv, UNCHANGED <<now, voucher, offer, booking, redemption>>
    PROVE  DataInv'
BY DEF DataInv, UsedOnce, Holding, LiveOfferCovered, Live, Reserved, BookedAsSeen, LinkOfSent

(* A transaction of one step that leaves its offer not sent, and at most     *)
(* gives up the offer's own reservation.                                     *)
LEMMA OwnStep ==
    ASSUME IInv, TypeOK', NEW o \in Offers, NEW r \in OfferRows, r.status # "sent",
           Free(o), offer' = [offer EXCEPT ![o] = r],
           voucher' \in {voucher, Released(o)}, voucher' # voucher => Free("voucher"),
           UNCHANGED <<now, booking, redemption, lock, call>>
    PROVE  IInv'
<1>1. /\ offer'[o] = r
      /\ \A p \in Offers : p # o => offer'[p] = offer[p]
  BY DEF IInv, TypeOK
<1>2. \A c \in Calls : c # None
  BY OfferAssumption
<1>3. ASSUME NEW c \in Calls PROVE CallOK(c)'
  <2>1. \A p \in Offers : lock[p] = c => offer'[p] = offer[p]
    BY <1>1, <1>2 DEF Free
  <2>2. lock["voucher"] = c =>
           voucher' = voucher /\ \A p \in Offers : SentWith(p)' => offer'[p] = offer[p]
    BY <1>1, <1>2 DEF Free, SentWith
  <2>3. call'[c] = call[c] /\ now <= now' /\ lock' = lock /\ TypeOK /\ CallOK(c)
    BY DEF IInv, TypeOK
  <2>4. QED
    BY <2>1, <2>2, <2>3, OtherCall
<1>4. UsedOnce'
  BY DEF IInv, UsedOnce, Holding, Released, Reserved, Voucher
<1>5. LiveOfferCovered'
  <2>1. SUFFICES ASSUME NEW p \in Offers, Live(p)', offer'[p].carries
                 PROVE  (Reserved(p) /\ offer[p].expires <= voucher.expires)'
    BY DEF LiveOfferCovered
  <2>2. p # o /\ offer'[p] = offer[p] /\ Live(p)
    BY <1>1, <2>1 DEF Live
  <2>3. Reserved(p) /\ offer[p].expires <= voucher.expires
    BY <2>1, <2>2 DEF IInv, LiveOfferCovered
  <2>4. voucher' = voucher
    BY <2>2, <2>3 DEF Released, Reserved
  <2>5. QED
    BY <2>2, <2>3, <2>4 DEF Reserved
<1>6. BookedAsSeen' /\ LinkOfSent'
  BY <1>1 DEF IInv, BookedAsSeen, LinkOfSent
<1>7. QED
  BY <1>3, <1>4, <1>5, <1>6 DEF IInv

LEMMA RemoveStep ==
    ASSUME IInv, TypeOK', NEW o \in Offers, Remove(o)
    PROVE  IInv'
<1>1. PICK r \in OfferRows : r = [offer[o] EXCEPT !.carries = FALSE]
  BY CarriesTyped DEF IInv
<1>2. r.status = "draft"
  BY <1>1 DEF Remove, IInv, TypeOK, OfferRows
<1>3. voucher' # voucher => Free("voucher")
  BY DEF Remove, Released
<1>4. /\ Free(o) /\ offer' = [offer EXCEPT ![o] = r] /\ voucher' = Released(o)
      /\ UNCHANGED <<now, booking, redemption, lock, call>>
  BY <1>1 DEF Remove
<1>5. QED
  BY <1>2, <1>3, <1>4, OwnStep

LEMMA StatusStep ==
    ASSUME IInv, TypeOK', NEW o \in Offers, NEW s \in {"declined", "recheck_requested"},
           Free(o), offer' = [offer EXCEPT ![o].status = s],
           voucher' \in {voucher, Released(o)}, voucher' # voucher => Free("voucher"),
           UNCHANGED <<now, booking, redemption, lock, call>>
    PROVE  IInv'
<1>1. PICK r \in OfferRows : r = [offer[o] EXCEPT !.status = s]
  BY DEF IInv, TypeOK, OfferRows
<1>2. r.status # "sent"
  BY <1>1 DEF IInv, TypeOK, OfferRows
<1>3. QED
  BY <1>1, <1>2, OwnStep

LEMMA DeclineStep ==
    ASSUME IInv, TypeOK', NEW o \in Offers, Decline(o)
    PROVE  IInv'
<1>1. voucher' # voucher => Free("voucher")
  BY DEF Decline, Released
<1>2. QED
  BY <1>1, StatusStep DEF Decline

LEMMA NewVersionStep ==
    ASSUME IInv, TypeOK', NEW o \in Offers, NewVersion(o)
    PROVE  IInv'
<1>1. PICK r \in OfferRows : r = offer'[o]
  BY DEF TypeOK
<1>2. offer' = [offer EXCEPT ![o] = r] /\ r.status = "draft"
  BY <1>1 DEF NewVersion, IInv, TypeOK, Version
<1>3. voucher' \in {voucher, Released(o)}
  BY DEF NewVersion
<1>4. QED
  BY <1>2, <1>3, OwnStep DEF NewVersion

(* A step of a call that touches no row is judged by that call alone.        *)
LEMMA CallStep ==
    ASSUME IInv, TypeOK', NEW c \in Calls, CallOK(c)',
           UNCHANGED <<now, voucher, offer, booking, redemption>>,
           \A d \in Calls : d # c => call'[d] = call[d],
           \A d \in Calls, x \in Offers \cup {"voucher"} :
              d # c /\ lock[x] = d => lock'[x] = d
    PROVE  IInv'
<1>1. ASSUME NEW d \in Calls, d # c PROVE CallOK(d)'
  <2>1. /\ TypeOK /\ CallOK(d) /\ call'[d] = call[d] /\ now <= now'
        /\ \A x \in Offers \cup {"voucher"} : lock[x] = d => lock'[x] = d
    BY <1>1 DEF IInv, TypeOK
  <2>2. QED
    BY <2>1, OtherCall
<1>2. DataInv'
  BY DataKept DEF IInv, DataInv
<1>3. QED
  BY <1>1, <1>2 DEF IInv, DataInv

LEMMA Unlock ==
    ASSUME TypeOK, NEW c \in Calls, NEW d \in Calls, d # c,
           NEW x \in Offers \cup {"voucher"}, lock[x] = d
    PROVE  Unlocked(c)[x] = d
BY DEF TypeOK, Unlocked

LEMMA RequestStep ==
    ASSUME IInv, TypeOK', NEW c \in Calls, NEW o \in Offers,
           NEW kind \in {"apply", "send", "accept"}, Request(c, kind, o)
    PROVE  IInv'
<1>1. call'[c].pc = "called" /\ call'[c].stale = FALSE
  BY DEF Request, IInv, TypeOK
<1>2. CallOK(c)'
  BY <1>1 DEF CallOK
<1>3. \A d \in Calls : d # c => call'[d] = call[d]
  BY DEF Request, IInv, TypeOK
<1>4. QED
  BY <1>2, <1>3, CallStep DEF Request

LEMMA EndOK ==
    ASSUME TypeOK, NEW c \in Calls, End(c)
    PROVE  CallOK(c)' /\ \A d \in Calls : d # c => call'[d] = call[d]
<1>1. call'[c] = NoCall /\ \A d \in Calls : d # c => call'[d] = call[d]
  BY DEF End, TypeOK
<1>2. QED
  BY <1>1 DEF NoCall, CallOK

LEMMA AbortStep ==
    ASSUME IInv, TypeOK', NEW c \in Calls, Abort(c)
    PROVE  IInv'
<1>1. CallOK(c)' /\ \A d \in Calls : d # c => call'[d] = call[d]
  BY EndOK DEF Abort, IInv
<1>2. \A d \in Calls, x \in Offers \cup {"voucher"} : d # c /\ lock[x] = d => lock'[x] = d
  BY Unlock DEF Abort, IInv
<1>3. QED
  BY <1>1, <1>2, CallStep DEF Abort

(* A call that takes a free lock disturbs no other.                          *)
LEMMA Lock ==
    ASSUME TypeOK, NEW c \in Calls, NEW y \in Offers \cup {"voucher"}, Free(y),
           lock' = [lock EXCEPT ![y] = c]
    PROVE  /\ lock'[y] = c
           /\ \A d \in Calls, x \in Offers \cup {"voucher"} : lock[x] = d => lock'[x] = d
BY OfferAssumption DEF TypeOK, Free

LEMMA GoOK ==
    ASSUME TypeOK, NEW c \in Calls, NEW label, Go(c, label)
    PROVE  /\ call'[c] = [call[c] EXCEPT !.pc = label]
           /\ call'[c].pc = label /\ call'[c].stale = call[c].stale
           /\ call'[c].offer = call[c].offer /\ call'[c].kind = call[c].kind
           /\ call'[c].cur = call[c].cur /\ call'[c].at = call[c].at
           /\ \A d \in Calls : d # c => call'[d] = call[d]
<1>1. /\ call'[c] = [call[c] EXCEPT !.pc = label]
      /\ \A d \in Calls : d # c => call'[d] = call[d]
  BY DEF Go, TypeOK
<1>2. call[c] \in CallRows
  BY DEF TypeOK
<1>3. QED
  BY <1>1, <1>2 DEF CallRows

LEMMA ApplyStep ==
    ASSUME IInv, TypeOK', NEW c \in Calls, Apply(c)
    PROVE  IInv'
<1> DEFINE o == call[c].offer
<1>1. o \in Offers /\ Free(o) /\ lock' = [lock EXCEPT ![o] = c]
  BY DEF Apply, IInv, TypeOK, CallRows
<1>2. /\ lock'[o] = c
      /\ \A d \in Calls, x \in Offers \cup {"voucher"} : lock[x] = d => lock'[x] = d
  BY <1>1, Lock DEF IInv
<1>3. /\ call'[c].pc \in {"attach", "voucher"} /\ call'[c].offer = o
      /\ call'[c].stale = call[c].stale
      /\ \A d \in Calls : d # c => call'[d] = call[d]
  BY DEF Apply, IInv, TypeOK, CallRows
<1>4. ~call[c].stale /\ offer[o].status = "draft" /\ offer' = offer
  BY DEF Apply, IInv, CallOK
<1>5. CallOK(c)'
  BY <1>2, <1>3, <1>4 DEF CallOK
<1>6. QED
  BY <1>2, <1>3, <1>5, CallStep DEF Apply

LEMMA SendStep ==
    ASSUME IInv, TypeOK', NEW c \in Calls, Send(c)
    PROVE  IInv'
<1> DEFINE o == call[c].offer
<1>1. o \in Offers /\ Free(o) /\ lock' = [lock EXCEPT ![o] = c]
  BY DEF Send, IInv, TypeOK, CallRows
<1>2. /\ lock'[o] = c
      /\ \A d \in Calls, x \in Offers \cup {"voucher"} : lock[x] = d => lock'[x] = d
  BY <1>1, Lock DEF IInv
<1>3. PICK label : Go(c, label) /\ label = IF offer[o].carries THEN "voucher" ELSE "decide"
  BY DEF Send
<1>4. ~call[c].stale /\ offer[o].status = "draft" /\ offer' = offer /\ call[c].kind = "send"
  BY DEF Send, IInv, CallOK
<1>5. /\ call'[c].pc = label /\ call'[c].stale = call[c].stale /\ call'[c].offer = o
      /\ call'[c].kind = "send"
      /\ \A d \in Calls : d # c => call'[d] = call[d]
  BY <1>3, <1>4, GoOK DEF IInv
<1>6. CallOK(c)'
  BY <1>2, <1>3, <1>4, <1>5 DEF CallOK
<1>7. QED
  BY <1>2, <1>5, <1>6, CallStep DEF Send

LEMMA LockVoucherStep ==
    ASSUME IInv, TypeOK', NEW c \in Calls, LockVoucher(c)
    PROVE  IInv'
<1> DEFINE o == call[c].offer
<1>1. /\ lock'["voucher"] = c
      /\ \A d \in Calls, x \in Offers \cup {"voucher"} : lock[x] = d => lock'[x] = d
  BY Lock DEF LockVoucher, IInv
<1>2. PICK label : /\ Go(c, label)
                   /\ label = IF voucher.status = "reserved" THEN "current" ELSE "decide"
  BY DEF LockVoucher
<1>3. /\ ~call[c].stale /\ lock[o] = c /\ offer[o].status = "draft"
      /\ o \in Offers /\ UNCHANGED <<offer, voucher>>
  BY DEF LockVoucher, IInv, CallOK, TypeOK, CallRows
<1>4. /\ call'[c].pc = label /\ call'[c].stale = call[c].stale /\ call'[c].offer = o
      /\ \A d \in Calls : d # c => call'[d] = call[d]
  BY <1>2, GoOK DEF IInv
<1>5. CallOK(c)'
  BY <1>1, <1>2, <1>3, <1>4 DEF CallOK
<1>6. QED
  BY <1>1, <1>4, <1>5, CallStep DEF LockVoucher

LEMMA ReadCurrentStep ==
    ASSUME IInv, TypeOK', NEW c \in Calls, ReadCurrent(c)
    PROVE  IInv'
<1>1. /\ call'[c].pc = "version" /\ call'[c].cur = offer[voucher.offer].n
      /\ call'[c].offer = call[c].offer /\ call'[c].stale = call[c].stale
      /\ \A d \in Calls : d # c => call'[d] = call[d]
  BY DEF ReadCurrent, IInv, TypeOK, CallRows
<1>2. /\ ~call[c].stale /\ lock[call[c].offer] = c /\ offer[call[c].offer].status = "draft"
      /\ lock["voucher"] = c /\ voucher.status = "reserved"
      /\ UNCHANGED <<lock, offer, voucher>>
  BY DEF ReadCurrent, IInv, CallOK
<1>3. CallOK(c)'
  BY <1>1, <1>2 DEF CallOK
<1>4. QED
  BY <1>1, <1>2, <1>3, CallStep DEF ReadCurrent

(* The unlocked reads may miss that the reserving offer was sent anew - but  *)
(* not while the voucher is locked, and nothing else makes it live again.    *)
LEMMA ReadVersionStep ==
    ASSUME IInv, TypeOK', NEW c \in Calls, ReadVersion(c)
    PROVE  IInv'
<1>1. /\ call'[c].pc = "decide"
      /\ call'[c].stale = ~StillHeld(voucher.offer, call[c].cur, call[c].at)
      /\ call'[c].offer = call[c].offer
      /\ \A d \in Calls : d # c => call'[d] = call[d]
  BY DEF ReadVersion, IInv, TypeOK, CallRows
<1>2. /\ lock[call[c].offer] = c /\ offer[call[c].offer].status = "draft"
      /\ lock["voucher"] = c /\ voucher.status = "reserved" /\ voucher.offer \in Offers
      /\ UNCHANGED <<now, lock, offer, voucher>>
  BY DEF ReadVersion, IInv, CallOK, TypeOK, VoucherRows
<1>3. ASSUME SentWith(voucher.offer), Live(voucher.offer)
      PROVE  StillHeld(voucher.offer, call[c].cur, call[c].at)
  <2>1. call[c].cur = offer[voucher.offer].n
    BY <1>3 DEF ReadVersion, IInv, CallOK
  <2>2. call[c].at <= now /\ now < offer[voucher.offer].expires
    BY <1>3 DEF Live, IInv, TypeOK
  <2>3. call[c].at \in Nat /\ now \in Nat /\ offer[voucher.offer].expires \in Nat
    BY <1>2 DEF IInv, TypeOK, CallRows, OfferRows
  <2>4. call[c].at < offer[voucher.offer].expires
    BY <2>2, <2>3
  <2>5. QED
    BY <1>3, <2>1, <2>4 DEF StillHeld, SentWith
<1>4. CallOK(c)'
  <2>1. call'[c].stale => ~(SentWith(voucher.offer) /\ Live(voucher.offer))
    BY <1>1, <1>3
  <2>2. (~(SentWith(voucher.offer) /\ Live(voucher.offer)))
           => (~(SentWith(voucher.offer) /\ Live(voucher.offer)))'
    BY <1>2 DEF SentWith, Live
  <2>3. QED
    BY <1>1, <1>2, <2>1, <2>2 DEF CallOK
<1>5. QED
  BY <1>1, <1>2, <1>4, CallStep DEF ReadVersion

(* Nobody's offer is live while the voucher is up for grabs.                 *)
LEMMA NoneLive ==
    ASSUME IInv, NEW c \in Calls, call[c].pc = "decide",
           voucher.status # "reserved" \/ call[c].stale,
           NEW o \in Offers, offer[o].carries
    PROVE  ~Live(o)
BY DEF IInv, LiveOfferCovered, Reserved, CallOK, SentWith, Live

LEMMA ValidatedStep ==
    ASSUME IInv, TypeOK', NEW c \in Calls, Validated(c)
    PROVE  IInv'
<1> DEFINE o == call[c].offer
<1>1. /\ lock["voucher"] = c /\ lock[o] = c /\ offer[o].status = "draft" /\ o \in Offers
      /\ o # "voucher"
  BY OfferAssumption DEF Validated, IInv, CallOK, TypeOK, CallRows
<1>2. /\ lock'["voucher"] = None
      /\ \A x \in Offers : lock'[x] = lock[x]
  BY OfferAssumption DEF Validated, IInv, TypeOK
<1>3. /\ call'[c].pc = "attach" /\ call'[c].offer = o
      /\ \A d \in Calls : d # c => call'[d] = call[d]
  BY GoOK DEF Validated, IInv
<1>4. CallOK(c)'
  BY <1>1, <1>2, <1>3 DEF CallOK, Validated
<1>5. ASSUME NEW d \in Calls, d # c PROVE CallOK(d)'
  <2>1. /\ TypeOK /\ CallOK(d) /\ call'[d] = call[d] /\ now <= now' /\ offer' = offer
        /\ \A x \in Offers \cup {"voucher"} : lock[x] = d => lock'[x] = d
        /\ lock["voucher"] # d
    BY <1>1, <1>2, <1>3, <1>5 DEF IInv, TypeOK, Validated
  <2>2. QED
    BY <2>1, OtherCall
<1>6. voucher'.status = "active" /\ voucher.status # "redeemed"
  BY DEF Validated, Voucher, IInv, CallOK
<1>7. UsedOnce'
  BY <1>6 DEF Validated, IInv, UsedOnce, Holding
<1>8. LiveOfferCovered'
  <2>1. ASSUME NEW p \in Offers, offer[p].carries PROVE ~Live(p)
    BY <2>1, NoneLive DEF Validated
  <2>2. QED
    BY <2>1 DEF LiveOfferCovered, Live, Validated
<1>9. BookedAsSeen' /\ LinkOfSent'
  BY DEF Validated, IInv, BookedAsSeen, LinkOfSent
<1>10. QED
  BY <1>4, <1>5, <1>7, <1>8, <1>9 DEF IInv

LEMMA AttachStep ==
    ASSUME IInv, TypeOK', NEW c \in Calls, Attach(c)
    PROVE  IInv'
<1> DEFINE o == call[c].offer
<1>1. lock[o] = c /\ offer[o].status = "draft" /\ o \in Offers
  BY DEF Attach, IInv, CallOK, TypeOK, CallRows
<1>2. offer'[o].status = "draft" /\ \A p \in Offers : p # o => offer'[p] = offer[p]
  BY <1>1 DEF Attach, IInv, TypeOK, OfferRows
<1>3. CallOK(c)' /\ \A d \in Calls : d # c => call'[d] = call[d]
  BY EndOK DEF Attach, IInv
<1>4. ASSUME NEW d \in Calls, d # c PROVE CallOK(d)'
  <2>1. \A x \in Offers \cup {"voucher"} : lock[x] = d => lock'[x] = d
    BY <1>4, Unlock DEF Attach, IInv
  <2>2. \A p \in Offers : lock[p] = d => offer'[p] = offer[p]
    BY <1>1, <1>2, <1>4
  <2>3. \A p \in Offers : SentWith(p)' => offer'[p] = offer[p]
    BY <1>2 DEF SentWith
  <2>4. TypeOK /\ CallOK(d) /\ call'[d] = call[d] /\ now <= now' /\ voucher' = voucher
    BY <1>3, <1>4 DEF IInv, TypeOK, Attach
  <2>5. QED
    BY <2>1, <2>2, <2>3, <2>4, OtherCall
<1>5. LiveOfferCovered'
  BY <1>2 DEF IInv, LiveOfferCovered, Live, Reserved, Attach
<1>6. UsedOnce' /\ BookedAsSeen' /\ LinkOfSent'
  BY <1>2 DEF IInv, UsedOnce, Holding, BookedAsSeen, LinkOfSent, Attach
<1>7. QED
  BY <1>3, <1>4, <1>5, <1>6 DEF IInv

(* Sending takes the voucher from an offer that is not live, and the version *)
(* expires no later than the voucher.                                        *)
LEMMA CommitSendStep ==
    ASSUME IInv, TypeOK', NEW c \in Calls, CommitSend(c)
    PROVE  IInv'
<1> DEFINE o == call[c].offer
<1>1. /\ lock[o] = c /\ offer[o].status = "draft" /\ o \in Offers
      /\ offer[o].carries => lock["voucher"] = c
  BY DEF CommitSend, IInv, CallOK, TypeOK, CallRows
<1>2. /\ offer'[o] = Sent(c)
      /\ \A p \in Offers : p # o => offer'[p] = offer[p]
  BY <1>1 DEF CommitSend, IInv, TypeOK
<1>3. /\ offer'[o].status = "sent" /\ offer'[o].carries = offer[o].carries
      /\ offer'[o].link = offer'[o].n /\ offer'[o].expires = Expiry(c)
  BY <1>2 DEF Sent, Version
<1>4. CallOK(c)' /\ \A d \in Calls : d # c => call'[d] = call[d]
  BY EndOK DEF CommitSend, IInv
<1>5. ASSUME NEW d \in Calls, d # c PROVE CallOK(d)'
  <2>1. \A x \in Offers \cup {"voucher"} : lock[x] = d => lock'[x] = d
    BY <1>5, Unlock DEF CommitSend, IInv
  <2>2. \A p \in Offers : lock[p] = d => offer'[p] = offer[p]
    BY <1>1, <1>2, <1>5
  <2>3. lock["voucher"] = d =>
           voucher' = voucher /\ \A p \in Offers : SentWith(p)' => offer'[p] = offer[p]
    BY <1>1, <1>2, <1>3, <1>5 DEF SentWith, CommitSend
  <2>4. TypeOK /\ CallOK(d) /\ call'[d] = call[d] /\ now <= now'
    BY <1>4, <1>5 DEF IInv, TypeOK, CommitSend
  <2>5. QED
    BY <2>1, <2>2, <2>3, <2>4, OtherCall
<1>6. UsedOnce'
  <2>1. offer[o].carries => voucher.status # "redeemed" /\ voucher'.status = "reserved"
    BY DEF CommitSend, Reservable, Reserved, Voucher, IInv, CallOK
  <2>2. QED
    BY <2>1 DEF CommitSend, IInv, UsedOnce, Holding
<1>7. LiveOfferCovered'
  <2>1. SUFFICES ASSUME NEW p \in Offers, Live(p)', offer'[p].carries
                 PROVE  (Reserved(p) /\ offer[p].expires <= voucher.expires)'
    BY DEF LiveOfferCovered
  <2>2. CASE ~offer[o].carries
    <3>1. p # o /\ voucher' = voucher /\ now' = now
      BY <1>3, <2>1, <2>2 DEF CommitSend
    <3>2. QED
      BY <1>2, <2>1, <3>1 DEF IInv, LiveOfferCovered, Live, Reserved
  <2>3. CASE offer[o].carries /\ p = o
    <3>1. voucher' = Voucher("reserved", o, voucher.expires)
      BY <2>3 DEF CommitSend
    <3>2. Expiry(c) <= voucher.expires
      <4>1. voucher.expires \in Nat /\ call[c].at \in Nat
        BY DEF IInv, TypeOK, VoucherRows, CallRows
      <4>2. QED
        BY <2>3, <4>1, OfferAssumption DEF Expiry
    <3>3. QED
      BY <1>3, <2>3, <3>1, <3>2 DEF Reserved, Voucher
  <2>4. CASE offer[o].carries /\ p # o
    <3>1. Live(p) /\ offer[p].carries
      BY <1>2, <2>1, <2>4 DEF Live, CommitSend
    <3>2. Reserved(p)
      BY <3>1 DEF IInv, LiveOfferCovered
    <3>3. voucher.status = "reserved" /\ ~Reserved(o)
      BY <2>4, <3>2 DEF Reserved
    <3>4. call[c].stale
      BY <2>4, <3>3 DEF CommitSend, Reservable
    <3>5. QED
      BY <3>1, <3>4, NoneLive DEF CommitSend
  <2>5. QED
    BY <2>2, <2>3, <2>4
<1>8. BookedAsSeen' /\ LinkOfSent'
  BY <1>2, <1>3 DEF IInv, BookedAsSeen, LinkOfSent, CommitSend
<1>9. QED
  BY <1>4, <1>5, <1>6, <1>7, <1>8 DEF IInv

(* The voucher an offer is accepted with was nobody else's.                  *)
LEMMA AcceptStep ==
    ASSUME IInv, TypeOK', NEW c \in Calls, Accept(c)
    PROVE  IInv'
<1> DEFINE o == call[c].offer
<1>1. o \in Offers /\ Free(o) /\ offer[o].status = "sent" /\ call[c].ref = offer[o].link
  BY DEF Accept, Acceptable, IInv, TypeOK, CallRows
<1>2. /\ offer'[o].status = "accepted" /\ offer'[o].n = offer[o].n
      /\ \A p \in Offers : p # o => offer'[p] = offer[p]
  BY <1>1 DEF Accept, IInv, TypeOK, OfferRows
<1>3. CallOK(c)' /\ \A d \in Calls : d # c => call'[d] = call[d]
  BY EndOK DEF Accept, IInv
<1>4. ASSUME NEW d \in Calls, d # c PROVE CallOK(d)'
  <2>1. \A p \in Offers : lock[p] = d => offer'[p] = offer[p]
    BY <1>1, <1>2, OfferAssumption DEF Free
  <2>2. lock["voucher"] = d =>
           voucher' = voucher /\ \A p \in Offers : SentWith(p)' => offer'[p] = offer[p]
    BY <1>2, OfferAssumption DEF SentWith, Accept, Free
  <2>3. TypeOK /\ CallOK(d) /\ call'[d] = call[d] /\ now <= now' /\ lock' = lock
    BY <1>3, <1>4 DEF IInv, TypeOK, Accept
  <2>4. QED
    BY <2>1, <2>2, <2>3, OtherCall
<1>5. UsedOnce'
  <2>1. CASE offer[o].carries
    <3>1. voucher'.status = "redeemed" /\ voucher.status # "redeemed"
      BY <2>1 DEF Accept, Redeemable, Voucher
    <3>2. \A p \in Offers : redemption[p].state \notin {"open", "consumed"}
      BY <3>1 DEF IInv, UsedOnce, Holding
    <3>3. /\ redemption'[o].state = "open"
          /\ \A p \in Offers : p # o => redemption'[p] = redemption[p]
      BY <1>1, <2>1 DEF Accept, IInv, TypeOK
    <3>4. QED
      BY <1>1, <3>1, <3>2, <3>3 DEF UsedOnce, Holding
  <2>2. CASE ~offer[o].carries
    BY <2>2 DEF Accept, IInv, UsedOnce, Holding
  <2>3. QED
    BY <2>1, <2>2
<1>6. LiveOfferCovered'
  <2>1. SUFFICES ASSUME NEW p \in Offers, Live(p)', offer'[p].carries
                 PROVE  (Reserved(p) /\ offer[p].expires <= voucher.expires)'
    BY DEF LiveOfferCovered
  <2>2. p # o /\ offer'[p] = offer[p] /\ Live(p) /\ offer[p].carries
    BY <1>2, <2>1 DEF Live, Accept
  <2>3. Reserved(p) /\ offer[p].expires <= voucher.expires
    BY <2>2 DEF IInv, LiveOfferCovered
  <2>4. voucher' = voucher
    BY <2>2, <2>3 DEF Accept, Redeemable, Reserved
  <2>5. QED
    BY <2>2, <2>3, <2>4 DEF Reserved
<1>7. BookedAsSeen'
  <2>1. booking'[o].version = offer[o].n /\ booking'[o].link = offer[o].link
    BY <1>1 DEF Accept, IInv, TypeOK
  <2>2. \A p \in Offers : p # o => booking'[p] = booking[p]
    BY <1>1 DEF Accept, IInv, TypeOK
  <2>3. QED
    BY <1>1, <2>1, <2>2 DEF IInv, LinkOfSent, BookedAsSeen
<1>8. LinkOfSent'
  BY <1>2 DEF IInv, LinkOfSent
<1>9. QED
  BY <1>3, <1>4, <1>5, <1>6, <1>7, <1>8 DEF IInv

LEMMA ReactivateStep ==
    ASSUME IInv, TypeOK', NEW o \in Offers, Reactivate(o)
    PROVE  IInv'
<1>1. voucher.status = "redeemed" /\ \A p \in Offers : p \in Holding <=> p = o
  BY DEF Reactivate, IInv, UsedOnce, Holding
<1>2. /\ redemption'[o].state = "reactivated"
      /\ \A p \in Offers : p # o => redemption'[p] = redemption[p]
      /\ voucher'.status = "active"
  BY <1>1 DEF Reactivate, IInv, TypeOK, RedemptionRows, Voucher
<1>3. UsedOnce'
  BY <1>1, <1>2 DEF UsedOnce, Holding
<1>4. LiveOfferCovered'
  BY <1>1 DEF IInv, LiveOfferCovered, Reserved, Live, Reactivate
<1>5. ASSUME NEW c \in Calls PROVE CallOK(c)'
  <2>1. lock["voucher"] # c
    BY OfferAssumption DEF Reactivate, Free
  <2>2. /\ TypeOK /\ CallOK(c) /\ now <= now'
        /\ UNCHANGED <<lock, offer, call>>
    BY DEF IInv, TypeOK, Reactivate
  <2>3. QED
    BY <2>1, <2>2, OtherCall
<1>6. BookedAsSeen' /\ LinkOfSent'
  BY DEF IInv, BookedAsSeen, LinkOfSent, Reactivate
<1>7. QED
  BY <1>3, <1>4, <1>5, <1>6 DEF IInv

LEMMA ConsumeStep ==
    ASSUME IInv, TypeOK', NEW o \in Offers, Consume(o)
    PROVE  IInv'
<1>1. /\ redemption'[o].state = "consumed"
      /\ \A p \in Offers : p # o => redemption'[p] = redemption[p]
  BY DEF Consume, IInv, TypeOK, RedemptionRows
<1>2. Holding' = Holding
  BY <1>1 DEF Consume, Holding
<1>3. UsedOnce'
  BY <1>2 DEF IInv, UsedOnce, Consume
<1>4. LiveOfferCovered' /\ BookedAsSeen' /\ LinkOfSent'
  BY DEF IInv, LiveOfferCovered, Reserved, Live, BookedAsSeen, LinkOfSent, Consume
<1>5. ASSUME NEW c \in Calls PROVE CallOK(c)'
  <2>1. /\ TypeOK /\ CallOK(c) /\ now <= now'
        /\ UNCHANGED <<lock, offer, call, voucher>>
    BY DEF IInv, TypeOK, Consume
  <2>2. QED
    BY <2>1, OtherCall
<1>6. QED
  BY <1>3, <1>4, <1>5 DEF IInv

LEMMA TickStep ==
    ASSUME IInv, TypeOK', Tick
    PROVE  IInv'
<1>1. ASSUME NEW c \in Calls PROVE CallOK(c)'
  <2>1. /\ TypeOK /\ CallOK(c) /\ now <= now'
        /\ UNCHANGED <<lock, offer, call, voucher>>
    BY DEF IInv, TypeOK, Tick
  <2>2. QED
    BY <2>1, OtherCall
<1>2. LiveOfferCovered'
  <2>1. ASSUME NEW o \in Offers, Live(o)' PROVE Live(o)
    <3>1. now \in Nat /\ offer[o].expires \in Nat /\ now' = now + 1 /\ offer' = offer
      BY DEF IInv, TypeOK, OfferRows, Tick
    <3>2. offer[o].status = "sent" /\ now + 1 < offer[o].expires
      BY <2>1, <3>1 DEF Live
    <3>3. QED
      BY <3>1, <3>2 DEF Live
  <2>2. QED
    BY <2>1 DEF IInv, LiveOfferCovered, Reserved, Tick
<1>3. UsedOnce' /\ BookedAsSeen' /\ LinkOfSent'
  BY DEF IInv, UsedOnce, Holding, BookedAsSeen, LinkOfSent, Tick
<1>4. QED
  BY <1>1, <1>2, <1>3 DEF IInv

-----------------------------------------------------------------------------
(* The theorems. *)

LEMMA InitIInv == Init => IInv
<1> SUFFICES ASSUME Init PROVE IInv
  OBVIOUS
<1>1. voucher.status = "active" /\ TypeOK
  <2>1. NoCall \in CallRows /\ NoCall.at = 0 /\ NoCall.pc = "idle"
    BY DEF NoCall, CallRows
  <2>2. Voucher("active", None, Validity) \in VoucherRows
    BY OfferAssumption DEF Voucher, VoucherRows
  <2>3. Version(1, "draft", FALSE, 0, 0) \in OfferRows
    BY DEF Version, OfferRows
  <2>4. [state |-> "none", remaining |-> 0] \in RedemptionRows
    BY DEF RedemptionRows
  <2>5. /\ voucher \in VoucherRows /\ voucher.status = "active" /\ voucher.offer = None
        /\ now = 0
    BY <2>2 DEF Init, Voucher
  <2>6. offer \in [Offers -> OfferRows] /\ redemption \in [Offers -> RedemptionRows]
    BY <2>3, <2>4 DEF Init
  <2>7. /\ booking \in [Offers -> [version : Nat, link : Nat]]
        /\ lock \in [Offers \cup {"voucher"} -> Calls \cup {None}]
    BY DEF Init
  <2>8. /\ call \in [Calls -> CallRows]
        /\ \A c \in Calls : call[c].at = 0 /\ call[c].pc = "idle"
    BY <2>1 DEF Init
  <2>9. QED
    BY <2>5, <2>6, <2>7, <2>8 DEF TypeOK
<1>2. UsedOnce
  BY <1>1 DEF Init, UsedOnce, Holding
<1>3. LiveOfferCovered /\ BookedAsSeen /\ LinkOfSent
  BY DEF Init, LiveOfferCovered, Live, BookedAsSeen, LinkOfSent, Version
<1>4. \A c \in Calls : CallOK(c)
  BY DEF Init, NoCall, CallOK
<1>5. QED
  BY <1>1, <1>2, <1>3, <1>4 DEF IInv

LEMMA StepIInv == IInv /\ [Next]_vars => IInv'
<1> SUFFICES ASSUME IInv, [Next]_vars PROVE IInv'
  OBVIOUS
<1>1. TypeOK'
  BY StepTyped DEF IInv
<1>2. ASSUME NEW o \in Offers, Recheck(o) PROVE IInv'
  BY <1>1, <1>2, StatusStep DEF Recheck
<1>3. CASE UNCHANGED vars
  <2>1. DataInv'
    BY <1>3, DataKept DEF vars, IInv, DataInv
  <2>2. \A c \in Calls : CallOK(c)'
    BY <1>3 DEF vars, IInv, CallOK, SentWith, Live
  <2>3. QED
    BY <1>1, <2>1, <2>2 DEF IInv, DataInv
<1>4. QED
  BY <1>1, <1>2, <1>3, TickStep, RequestStep, AbortStep, ApplyStep, ValidatedStep, AttachStep,
     SendStep, LockVoucherStep, ReadCurrentStep, ReadVersionStep, CommitSendStep, AcceptStep,
     RemoveStep, NewVersionStep, DeclineStep, ReactivateStep, ConsumeStep DEF Next

LEMMA Invariance == Spec => []IInv
<1>1. QED
  BY InitIInv, StepIInv, PTL DEF Spec

(* Rows, locks and calls stay well formed, however many requests overlap.    *)
THEOREM OfferTyped == Spec => []TypeOK
<1>1. IInv => TypeOK
  BY DEF IInv
<1>2. QED
  BY <1>1, Invariance, PTL

(* However offers, acceptances and cancellations overlap, one booking at     *)
(* most holds the voucher, and exactly then its row says so.                 *)
THEOREM VoucherUsedOnce == Spec => []UsedOnce
<1>1. IInv => UsedOnce
  BY DEF IInv
<1>2. QED
  BY <1>1, Invariance, PTL

(* A live offer always has its voucher reserved and expires no later - even  *)
(* though the decision to take a reservation away rests on unlocked reads.   *)
THEOREM LiveOffersCovered == Spec => []LiveOfferCovered
<1>1. IInv => LiveOfferCovered
  BY DEF IInv
<1>2. QED
  BY <1>1, Invariance, PTL

(* A link that was revoked while its request waited accepts nothing.         *)
THEOREM LinksBookTheirVersion == Spec => []BookedAsSeen
<1>1. IInv => BookedAsSeen
  BY DEF IInv
<1>2. QED
  BY <1>1, Invariance, PTL
=============================================================================
