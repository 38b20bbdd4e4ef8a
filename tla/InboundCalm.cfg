SPECIFICATION Spec
CONSTANTS
    Replicas = {r1,r2}
    Messages = {m1}
    Loop = loop
    None = none
    Gone = gone
    MessageLease = 2
    MessageLife = 4
    QueueLease = 3
    EnvelopeLife = 5
    DoneRetention = 4
    MaxAttempts = 3
    BackoffUnit = 1
    BackoffCap = 2
    MaxDeliveries = 2
    MaxCrashes = 1
    MaxDrains = 1
    MaxFaults = 0
    MaxErasures = 1
    Punctual = TRUE
    Ages = TRUE
SYMMETRY Symmetry
VIEW Account
INVARIANTS OneRunPerMessage RepliesExplained LossNeedsFailure
PROPERTIES SentIsTerminal OwnedUntilDone IsLeasedWork
