SPECIFICATION AnySpec
CONSTANTS
    t1 = t1
    t2 = t2
    Turns = {t1, t2}
    Texts <- Messages
    MaxRuns = 2
    MaxMissions = 1
    Letters = {m1, m2, m3}
    Few = {m1, m2}
    NoLetter = none
CONSTRAINT Followed
INVARIANTS MemoryNeedsConsent AuditAgrees ErasedForGood WordKept
CHECK_DEADLOCK FALSE
