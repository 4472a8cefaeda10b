SPECIFICATION Spec
CONSTANTS
    Calls = {c1, c2}
    Turns = {t1}
    Posts = {q1, q2}
    MaxPass = 2
    MaxCrash = 1
    MaxFault = 0
    Overlap = FALSE
    NoCall = NoCall
SYMMETRY CallsAndPosts
INVARIANTS
    DecidedOnce
    ActsOnStored
    DeliveredIsKept
    OneBatchPending
CHECK_DEADLOCK FALSE
