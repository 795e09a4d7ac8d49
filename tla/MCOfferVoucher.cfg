SPECIFICATION Spec
CONSTANTS
  Offers = {o1, o2}
  Calls = {c1, c2}
  None = None
  Validity = 3
  OfferDays = 2
  MaxVersions = 2
  Horizon = 3
SYMMETRY OfferSymmetry
INVARIANTS UsedOnce LiveOfferCovered
