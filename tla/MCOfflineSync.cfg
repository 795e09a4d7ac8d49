SPECIFICATION OfflineSpec
CONSTANTS
    t1 = t1
    t2 = t2
    ann = ann
    bob = bob
    Nil = Nil
    Tab <- MCTab
    Name <- MCName
    Plan <- MCPlan
    MaxTrouble = 1
    First = ann
INVARIANTS OfflineSafety
PROPERTIES EveryCaptureSettles
CHECK_DEADLOCK FALSE
