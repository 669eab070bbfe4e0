SPECIFICATION HistorySpec
CONSTANTS
    Id = {i1, i2}
    Ability = {a1, a2}
    Known = {a2}
    Thread = {t1, t2}
    UserGoals = {"proposed", "accepted", "deferred", "rejected", "failed"}
    Faults = {"crash", "empty_name", "queue_down"}
    MaxFaults = 2
    None = None
SYMMETRY Symmetry
CHECK_DEADLOCK FALSE
INVARIANT RowsBelongTogether
INVARIANT OneOpenWhenSerial
PROPERTY VerdictsHold
