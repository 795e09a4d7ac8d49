SPECIFICATION Spec
CONSTANTS
    c1 = c1
    c2 = c2
    k1 = k1
    k2 = k2
    None = None
    Calls = {c1, c2}
    Contacts = {k1, k2}
    MaxAttempts = 2
    MaxAmount = 2
SYMMETRY MCSymmetry
CONSTRAINT OneHazard
INVARIANTS
    FailedBeforeCreate
