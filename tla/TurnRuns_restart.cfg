SPECIFICATION Spec
CONSTANTS
    safe = safe
    risky = risky
    Calls <- MCCalls
    Rerunnable <- MCRerunnable
    MaxAttempts = 2
    MaxTurn = 2
    MaxPass = 2
    MaxCrash = 2
    MaxFault = 0
    MaxForeign = 0
CHECK_DEADLOCK FALSE
INVARIANTS RepeatNeedsYes MessageOnce NothingLost
PROPERTIES CheckpointKept
