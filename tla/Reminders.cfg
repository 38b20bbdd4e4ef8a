SPECIFICATION FairSpec
CONSTANTS
    Replicas = {r1,r2}
    Ids = {i1}
    Slots = {s1}
    None = none
    Lease = 1
    Limit = 2
    GiveUp = 2
    RetryDelay <- Doubling
    BlockDelay = 1
    Period = 1
    Recent = 1
    SnoozeMax = 1
    HasTemplate = FALSE
    MaxLate = 1
    MaxAge = 1
    MaxDue = 1
    MaxCount = 2
    MaxMoves = 2
    MaxTroubles = 1
INVARIANTS OneHolder RepeatsExplained SentWasDelivered
PROPERTIES IsLeasedWork DueIsHandled
