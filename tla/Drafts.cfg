SPECIFICATION Spec
CONSTANTS
    t1 = t1
    t2 = t2
    past = past
    Fact <- Facts
    Turns = {t1, t2}
    Past = past
    Bodies = {"refund", "both", "odd", "long"}
    Body <- Letters
    Pasted = "odd"
    Earlier = {"refund", "long"}
    Wants <- Requests
    Incoming <- Arriving
    MaxRuns = 2
    MaxFaults = 1
CONSTRAINT AgainAlone
INVARIANTS MarkersExplained AnsweredOnce KeptWasShown
PROPERTY HelpLeavesNoTrace
CHECK_DEADLOCK FALSE
