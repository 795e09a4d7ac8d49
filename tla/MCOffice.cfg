SPECIFICATION Spec
CONSTANTS
    Clerk = {w1, w2}
    None = None
    Person = {p1, p2}
    MaxEdits = 5
    Notice = {n1, n2}
    NoticeRuns = 2
    MaxContacts = 2
    Organisation = {o1, o2}
    Url = {u1, u2}
    MaxSubs = 4
    Day = 4
    DailyLimit = 2
    Penalty = 2
    MaxTime = 5
    PortalCustomer = {c1, c2}
    PLink = {l1, l2}
    PSession = {s1, s2}
    LinkMax = 2
    User = {a1, a2}
    Challenge = {k1}
    Code = {rc}
    MaxStep = 1
    Device = {d1}
    PushAttempts = 2
    MaxNotices = 2
    Msg = {g1, g2}
    Letter = {q1}
    Wam = {x1}
    MaxUid = 2
    MaxMoment = 2
    MaxHeard = 2
    JobTries = 2
INVARIANTS
    StaleIsReconciled
    OneContact
    PinnedKnowingly
    BudgetSafety
    PortalSafety
    StaffSafety
    PushSafety
    ChatSafety
SYMMETRY Alike
CHECK_DEADLOCK FALSE
