SPECIFICATION Spec
CONSTANTS
    c1 = c1
    c2 = c2
    Callers = {c1, c2}
    Letters <- TwoLetters
    Days = {4}
    Times = {"nine"}
    Deployments <- Stages
    LastDay = 1
    MaxPapers = 2
    MaxMoves = 2
CONSTRAINT Useful
SYMMETRY Symmetric
INVARIANTS OnlyAsApproved
PROPERTIES PairTogether AnswersTrue
CHECK_DEADLOCK FALSE
