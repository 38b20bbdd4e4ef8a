SPECIFICATION DialogueSpec
CONSTANTS
    Replicas = {r1}
    Ids = {i1,i2}
    Slots = {s1,s2}
    None = none
    Lease = 1
    Limit = 2
    GiveUp = 2
    RetryDelay <- Doubling
    BlockDelay = 1
    Period = 1
    Recent = 1
    SnoozeMax = 1
    HasTemplate = TRUE
    MaxLate = 1
    MaxAge = 0
    MaxDue = 1
    MaxCount = 2
    MaxMoves = 4
    MaxTroubles = 0
    Handlers = {h1,h2}
    Texts <- Messages
    MaxTurns = 4
INVARIANTS CompleteOnly SaidTogether
PROPERTY NeverGuesses
SYMMETRY Symmetry
CONSTRAINT TwoAtATime
CHECK_DEADLOCK FALSE
VIEW View
