SPECIFICATION Spec
CONSTANTS
    Types = {t1, t2}
    Seeded = {t1}
    Admins = {a1}
    Confidences = {89}
    DefaultMin = 90
    TTL = 2
    Timeout = 1
    None = None
    MaxClock = 4
    MaxSaves = 1
    MaxStops = 1
INVARIANT SavesAreTransactional
CHECK_DEADLOCK FALSE
