SPECIFICATION FleetSpec
CONSTANTS
    m1 = m1
    m2 = m2
    b1 = b1
    b2 = b2
    s1 = s1
    s2 = s2
    w1 = w1
    w2 = w2
    None = None
    Machine = {m1, m2}
    Slot = {s1, s2}
    Booking = {b1, b2}
    Worker = {w1, w2}
    BookingOf <- MCBookingOf
    Overlap <- MCOverlap
    MaxGen = 3
    MaxCharged = 1
    MaxManual = 1
SYMMETRY Symmetry
INVARIANTS OneHolder NothingHeldInVain ChargedToLastHolder
CHECK_DEADLOCK FALSE
