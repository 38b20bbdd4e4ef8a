SPECIFICATION FairSpec
CONSTANTS
    Replicas = {r1,r2}
    Messages = {m1}
    Loop = loop
    None = none
    Gone = gone
    MessageLease = 1
    MessageLife = 1
    QueueLease = 1
    EnvelopeLife = 1
    DoneRetention = 1
    MaxAttempts = 2
    BackoffUnit = 1
    BackoffCap = 1
    MaxDeliveries = 1
    MaxCrashes = 1
    MaxDrains = 1
    MaxFaults = 0
    MaxErasures = 0
    Punctual = FALSE
    Ages = FALSE
PROPERTIES EverySettles AckedIsAnswered
