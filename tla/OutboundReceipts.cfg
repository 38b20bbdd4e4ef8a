SPECIFICATION Spec
CONSTANTS
    Replicas = {r1,r2}
    m1 = m1
    Messages = {m1}
    Codes = {c1}
    NoCode = none
    Retention = 2
    Quarter = 1
    Hour = 2
    Window = 2
    FewPending = 2
    FewTerminal = 2
    Legacy <- OldFailure
    MaxTime = 3
    MaxReceipts = 2
    MaxBatch = 2
SYMMETRY Symmetry
INVARIANTS OrderFree ReadyMeansRecovered
