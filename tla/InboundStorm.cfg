SPECIFICATION Spec
CONSTANTS
    Replicas = {r1,r2}
    Messages = {m1}
    Loop = loop
    None = none
    Gone = gone
    MessageLease = 1
    MessageLife = 1
    QueueLease = 2
    EnvelopeLife = 1
    DoneRetention = 1
    MaxAttempts = 2
    BackoffUnit = 1
    BackoffCap = 1
    MaxDeliveries = 2
    MaxCrashes = 0
    MaxDrains = 1
    MaxFaults = 1
    MaxErasures = 1
    Punctual = FALSE
    Ages = FALSE
SYMMETRY Symmetry
VIEW System
INVARIANT ReleasedHoldsNothing
