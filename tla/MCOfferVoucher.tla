--------------------------- MODULE MCOfferVoucher ---------------------------
(* Instances of OfferVoucher for TLC.                                       *)
EXTENDS OfferVoucher, TLC

OfferSymmetry == Permutations(Offers) \cup Permutations(Calls)
=============================================================================
