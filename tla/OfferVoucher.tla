---------------------------- MODULE OfferVoucher ----------------------------
(***************************************************************************)
(* One voucher and the offers of its customer that want to use it:         *)
(*   apps/api/src/voucher/voucher-service.ts   validate, reserve, release, *)
(*                                             redeem, reactivate          *)
(*   apps/api/src/commerce/offer-service.ts    versions of an offer: apply,*)
(*                                             send, decline, accept, ...  *)
(*   apps/api/src/cancellation/cancellation-service.ts   step 7a           *)
(* Transactions run at READ COMMITTED.  lock stands for the row locks: the *)
(* lock of an offer is that of its current version, which every writer of  *)
(* it takes.  apply, send and accept are calls with steps of their own,    *)
(* because they take several locks, read without one, or use a clock read  *)
(* before they waited; the others are one step.  vouchers.version is left  *)
(* out: it is only ever compared under the lock of the row.                *)
(***************************************************************************)
EXTENDS Integers, FiniteSets

CONSTANTS
    Offers,      \* one offer per process; all of the voucher's customer
    Calls,       \* requests under way at the same time
    None,
    Validity,    \* VOUCHER_VALIDITY_MONTHS, in ticks
    OfferDays,   \* offerValidityDays, in ticks
    MaxVersions, \* bound on the versions of an offer
    Horizon      \* bound: the clock stops here

ASSUME OfferAssumption ==
    /\ Validity \in Nat \ {0} /\ OfferDays \in Nat \ {0}
    /\ MaxVersions \in Nat \ {0} /\ Horizon \in Nat
    /\ None \notin Offers /\ None \notin Calls /\ "voucher" \notin Offers

VARIABLES
    now,
    voucher,     \* the row of vouchers
    offer,       \* the current version of each offer, and the number of the
                 \* version whose link is not revoked (0: none)
    booking,     \* version booked, version the accepted link was sent with
    redemption,  \* the voucher_redemptions row of each offer's booking
    lock,        \* row locks: offer or "voucher" -> the call holding it
    call

vars == <<now, voucher, offer, booking, redemption, lock, call>>

Version(n, s, carries, exp, link) ==
    [n |-> n, status |-> s, carries |-> carries, expires |-> exp, link |-> link]

Voucher(s, o, exp) == [status |-> s, offer |-> o, expires |-> exp]

NoCall == [kind |-> "none", offer |-> None, at |-> 0, pc |-> "idle", cur |-> 0,
           stale |-> FALSE, ref |-> 0]

Init ==
    /\ now = 0
    /\ voucher = Voucher("active", None, Validity)
    /\ offer = [o \in Offers |-> Version(1, "draft", FALSE, 0, 0)]
    /\ booking = [o \in Offers |-> [version |-> 0, link |-> 0]]
    /\ redemption = [o \in Offers |-> [state |-> "none", remaining |-> 0]]
    /\ lock = [x \in Offers \cup {"voucher"} |-> None]
    /\ call = [c \in Calls |-> NoCall]

Tick ==
    /\ now < Horizon
    /\ now' = now + 1
    /\ UNCHANGED <<voucher, offer, booking, redemption, lock, call>>

-----------------------------------------------------------------------------
(* What every transaction uses. *)

Free(x) == lock[x] = None

Expired(t) == t >= voucher.expires

Reserved(o) == voucher.status = "reserved" /\ voucher.offer = o

(* releaseReservation: only the offer's own *)
Released(o) == IF Reserved(o) THEN Voucher("active", None, voucher.expires) ELSE voucher

(* voucherUsableFor, on a row v *)
UsableFor(v, o) ==
    /\ now < v.expires
    /\ v.status = "active" \/ (v.status = "reserved" /\ v.offer = o)

(* reservationStillHeld, with the current_version_id cur read before: a      *)
(* version that is no longer the current one is superseded                   *)
StillHeld(o, cur, t) ==
    /\ cur = offer[o].n
    /\ \/ offer[o].status = "accepted"
       \/ /\ offer[o].carries
          /\ offer[o].status = "draft" \/ (offer[o].status = "sent" /\ t < offer[o].expires)

Go(c, label) == call' = [call EXCEPT ![c].pc = label]
End(c) == call' = [call EXCEPT ![c] = NoCall]

Unlocked(c) == [x \in DOMAIN lock |-> IF lock[x] = c THEN None ELSE lock[x]]

(* an error: the transaction is rolled back and its locks are gone *)
Abort(c) ==
    /\ End(c)
    /\ lock' = Unlocked(c)
    /\ UNCHANGED <<now, voucher, offer, booking, redemption>>

(* a request comes in for a version, or with the link of one, and reads its  *)
(* clock; it is refused at once if that is no draft, or the link is revoked  *)
Request(c, kind, o) ==
    /\ call[c].pc = "idle"
    /\ IF kind = "accept" THEN offer[o].link # 0 ELSE offer[o].status = "draft"
    /\ call' = [call EXCEPT ![c] =
          [kind |-> kind, offer |-> o, at |-> now, pc |-> "called", cur |-> 0, stale |-> FALSE,
           ref |-> IF kind = "accept" THEN offer[o].link ELSE offer[o].n]]
    /\ UNCHANGED <<now, voucher, offer, booking, redemption, lock>>

-----------------------------------------------------------------------------
(* applyVoucher: the draft is locked, the code is validated in another       *)
(* transaction, then the draft carries the voucher.                          *)

Apply(c) ==
    LET o == call[c].offer IN
    /\ call[c].kind = "apply" /\ call[c].pc = "called" /\ Free(o)
    /\ offer[o].status = "draft" /\ offer[o].n = call[c].ref
    /\ voucher.status # "redeemed" /\ ~Expired(now)
    /\ lock' = [lock EXCEPT ![o] = c]
    /\ call' = [call EXCEPT ![c].at = now,
                            ![c].pc = IF voucher.status = "active" \/ Reserved(o) THEN "attach"
                                      ELSE "voucher"]
    /\ UNCHANGED <<now, voucher, offer, booking, redemption>>

(* the end of validateForOffer's own transaction *)
Validated(c) ==
    /\ call[c].kind = "apply" /\ call[c].pc = "decide"
    /\ call[c].stale \/ voucher.status = "active"
    /\ voucher' = IF call[c].stale THEN Voucher("active", None, voucher.expires) ELSE voucher
    /\ lock' = [lock EXCEPT !["voucher"] = None]
    /\ Go(c, "attach")
    /\ UNCHANGED <<now, offer, booking, redemption>>

Attach(c) ==
    /\ call[c].pc = "attach"
    /\ offer' = [offer EXCEPT ![call[c].offer].carries = TRUE]
    /\ lock' = Unlocked(c)
    /\ End(c)
    /\ UNCHANGED <<now, voucher, booking, redemption>>

(* removeVoucher, detachVoucher *)
Remove(o) ==
    /\ Free(o) /\ offer[o].status = "draft" /\ offer[o].carries
    /\ Reserved(o) => Free("voucher")
    /\ offer' = [offer EXCEPT ![o].carries = FALSE]
    /\ voucher' = Released(o)
    /\ UNCHANGED <<now, booking, redemption, lock, call>>

-----------------------------------------------------------------------------
(* send: offer and draft are locked, then the voucher. *)

Send(c) ==
    LET o == call[c].offer IN
    /\ call[c].kind = "send" /\ call[c].pc = "called" /\ Free(o)
    /\ offer[o].status = "draft" /\ offer[o].n = call[c].ref
    /\ lock' = [lock EXCEPT ![o] = c]
    /\ Go(c, IF offer[o].carries THEN "voucher" ELSE "decide")
    /\ UNCHANGED <<now, voucher, offer, booking, redemption>>

(* lockVoucher, and the first question of releaseStaleReservation *)
LockVoucher(c) ==
    /\ call[c].pc = "voucher" /\ Free("voucher")
    /\ lock' = [lock EXCEPT !["voucher"] = c]
    /\ Go(c, IF voucher.status = "reserved" THEN "current" ELSE "decide")
    /\ UNCHANGED <<now, voucher, offer, booking, redemption>>

(* reservationStillHeld: one query for the version's id, one for the version *)
ReadCurrent(c) ==
    /\ call[c].pc = "current"
    /\ call' = [call EXCEPT ![c].cur = offer[voucher.offer].n, ![c].pc = "version"]
    /\ UNCHANGED <<now, voucher, offer, booking, redemption, lock>>

ReadVersion(c) ==
    /\ call[c].pc = "version"
    /\ call' = [call EXCEPT ![c].stale = ~StillHeld(voucher.offer, call[c].cur, call[c].at),
                            ![c].pc = "decide"]
    /\ UNCHANGED <<now, voucher, offer, booking, redemption, lock>>

(* reserveForOffer: an error unless this holds *)
Reservable(c) ==
    /\ ~Expired(call[c].at)
    /\ voucher.status = "active" \/ Reserved(call[c].offer) \/ call[c].stale

(* mutant: the voucher does not cap the offer *)
ExpiryUncapped(c) == call[c].at + OfferDays

(* offerExpiresAt, capped by the voucher *)
Expiry(c) ==
    LET own == call[c].at + OfferDays IN
    IF offer[call[c].offer].carries /\ voucher.expires < own THEN voucher.expires ELSE own

(* older links are revoked, the version's own is created *)
Sent(c) ==
    LET v == offer[call[c].offer] IN Version(v.n, "sent", v.carries, Expiry(c), v.n)

CommitSend(c) ==
    LET o == call[c].offer IN
    /\ call[c].kind = "send" /\ call[c].pc = "decide"
    /\ offer[o].carries => Reservable(c)
    /\ offer' = [offer EXCEPT ![o] = Sent(c)]
    /\ voucher' = IF offer[o].carries THEN Voucher("reserved", o, voucher.expires) ELSE voucher
    /\ lock' = Unlocked(c)
    /\ End(c)
    /\ UNCHANGED <<now, booking, redemption>>

-----------------------------------------------------------------------------
(* The life of a sent version. *)

Live(o) == offer[o].status = "sent" /\ now < offer[o].expires

(* createNewVersion: the reservation only goes on from a live version *)
NewVersion(o) ==
    LET v    == IF Live(o) THEN voucher ELSE Released(o)
        keep == offer[o].carries /\ UsableFor(v, o)
    IN
    /\ Free(o) /\ offer[o].n < MaxVersions
    /\ offer[o].status \in {"sent", "declined", "recheck_requested"}
    /\ voucher' = IF offer[o].carries THEN (IF keep THEN v ELSE Released(o)) ELSE voucher
    /\ voucher' # voucher => Free("voucher")
    /\ offer' = [offer EXCEPT ![o] = Version(@.n + 1, "draft", keep, 0, @.link)]
    /\ UNCHANGED <<now, booking, redemption, lock, call>>

(* markDeclined: only the current, sent version *)
Decline(o) ==
    /\ Free(o) /\ offer[o].status = "sent"
    /\ offer[o].carries /\ Reserved(o) => Free("voucher")
    /\ offer' = [offer EXCEPT ![o].status = "declined"]
    /\ voucher' = IF offer[o].carries THEN Released(o) ELSE voucher
    /\ UNCHANGED <<now, booking, redemption, lock, call>>

(* requestRecheck *)
Recheck(o) ==
    /\ Free(o) /\ offer[o].status = "sent" /\ now >= offer[o].expires
    /\ offer' = [offer EXCEPT ![o].status = "recheck_requested"]
    /\ UNCHANGED <<now, voucher, booking, redemption, lock, call>>

Acceptable(c) ==
    LET v == offer[call[c].offer] IN
    /\ call[c].ref = v.link
    /\ v.status = "sent" /\ call[c].at < v.expires

(* mutant: an active voucher or any reservation will do *)
RedeemableByAny(c) == ~Expired(call[c].at)

Redeemable(c) ==
    /\ voucher.status # "redeemed"
    /\ voucher.status = "reserved" => voucher.offer = call[c].offer
    /\ ~Expired(call[c].at)

(* accept: booking, redemption and status in one transaction *)
Accept(c) ==
    LET o == call[c].offer IN
    /\ call[c].kind = "accept" /\ call[c].pc = "called" /\ Free(o)
    /\ Acceptable(c)
    /\ offer[o].carries => Redeemable(c) /\ Free("voucher")
    /\ booking' = [booking EXCEPT ![o] = [version |-> offer[o].n, link |-> call[c].ref]]
    /\ offer' = [offer EXCEPT ![o].status = "accepted"]
    /\ IF offer[o].carries
       THEN /\ voucher' = Voucher("redeemed", None, voucher.expires)
            /\ redemption' = [redemption EXCEPT ![o] =
                  [state |-> "open", remaining |-> voucher.expires - call[c].at]]
       ELSE UNCHANGED <<voucher, redemption>>
    /\ End(c)
    /\ UNCHANGED <<now, lock>>

(* a free cancellation gives the voucher back with the time it had left ...  *)
Reactivate(o) ==
    /\ redemption[o].state = "open" /\ Free("voucher")
    /\ redemption' = [redemption EXCEPT ![o].state = "reactivated"]
    /\ voucher' = IF voucher.status = "redeemed"
                  THEN Voucher("active", None, now + redemption[o].remaining)
                  ELSE voucher
    /\ UNCHANGED <<now, offer, booking, lock, call>>

(* ... a paid one never does *)
Consume(o) ==
    /\ redemption[o].state = "open"
    /\ redemption' = [redemption EXCEPT ![o].state = "consumed"]
    /\ UNCHANGED <<now, voucher, offer, booking, lock, call>>

Next ==
    \/ Tick
    \/ \E c \in Calls :
          \/ \E o \in Offers, kind \in {"apply", "send", "accept"} : Request(c, kind, o)
          \/ call[c].pc # "idle" /\ Abort(c)
          \/ Apply(c) \/ Validated(c) \/ Attach(c)
          \/ Send(c) \/ LockVoucher(c) \/ ReadCurrent(c) \/ ReadVersion(c) \/ CommitSend(c)
          \/ Accept(c)
    \/ \E o \in Offers : \/ Remove(o) \/ NewVersion(o) \/ Decline(o) \/ Recheck(o)
                         \/ Reactivate(o) \/ Consume(o)

Spec == Init /\ [][Next]_vars

-----------------------------------------------------------------------------
VoucherRows == [status : {"active", "reserved", "redeemed"},
                offer : Offers \cup {None}, expires : Nat]

OfferRows == [n : Nat \ {0}, carries : BOOLEAN, expires : Nat, link : Nat,
              status : {"draft", "sent", "declined", "recheck_requested", "accepted"}]

RedemptionRows == [state : {"none", "open", "reactivated", "consumed"}, remaining : Nat]

CallRows == [kind : {"none", "apply", "send", "accept"}, offer : Offers \cup {None},
             pc : {"idle", "called", "voucher", "current", "version", "decide", "attach"},
             at : Nat, cur : Nat, ref : Nat, stale : BOOLEAN]

(* Rows, locks and calls are well formed: a voucher names an offer exactly   *)
(* while it is reserved, and no call has a clock ahead of the database's.    *)
TypeOK ==
    /\ now \in Nat
    /\ voucher \in VoucherRows
    /\ voucher.status = "reserved" <=> voucher.offer # None
    /\ offer \in [Offers -> OfferRows]
    /\ booking \in [Offers -> [version : Nat, link : Nat]]
    /\ redemption \in [Offers -> RedemptionRows]
    /\ lock \in [Offers \cup {"voucher"} -> Calls \cup {None}]
    /\ call \in [Calls -> CallRows]
    /\ \A c \in Calls : call[c].at <= now /\ (call[c].pc # "idle" => call[c].offer # None)

(* The voucher is used once: its row says redeemed exactly if one booking    *)
(* holds it, and no two bookings ever do - over concurrent acceptances,      *)
(* cancellations and the bookings that follow them.                          *)
Holding == {o \in Offers : redemption[o].state \in {"open", "consumed"}}
UsedOnce ==
    /\ voucher.status = "redeemed" <=> Holding # {}
    /\ \A o, p \in Holding : o = p

(* An offer a customer can accept never fails for its voucher: as long as it *)
(* is live, the voucher is reserved for it and outlives it.                  *)
LiveOfferCovered ==
    \A o \in Offers :
        Live(o) /\ offer[o].carries => Reserved(o) /\ offer[o].expires <= voucher.expires

(* A customer books what the link showed: an old link never accepts a newer  *)
(* version.                                                                  *)
BookedAsSeen == \A o \in Offers : booking[o].version = booking[o].link
=============================================================================
