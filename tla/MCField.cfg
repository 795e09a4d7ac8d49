SPECIFICATION Spec
CONSTANTS
    Clerk = {w1, w2}
    None = None
    Person = {p1, p2}
    MaxEdits = 7
    Quota = 1
    MaxLines = 2
    MaxQuantity = 1
    Issued = 1
    Accessories = 1
    Damage = {d1}
    Article = {a1, a2}
    Count = {c1, c2}
    MaxStock = 2
    Tour = {t1, t2}
    Appointment = {e1, e2}
    Driver = {r1, r2, r3}
    Booking = {b1}
    Slot = {s1, s2}
    Span = 1
    MaxDay = 2
    Skew <- MCSkew
    MaxGrants = 2
    Attempts = 1
INVARIANTS
    HandoverSafety
    ReturnSafety
    TourSafety
    BookSafety
    DeviceSafety
PROPERTIES
    CountedPlusSince
SYMMETRY Alike
CHECK_DEADLOCK FALSE
