SPECIFICATION Spec
CONSTANTS
    Requests = {r1}
    MaxTurn = 2
    Budget = 2
    MaxMade = 2
    MaxRounds = 2
    MaxEmpty = 2
    MaxTools = 1
    MaxLate = 1
    MaxCrash = 1
    MaxFault = 1
CHECK_DEADLOCK FALSE
INVARIANTS RoundsBounded MarkIsHonest CompletedByVerdict
