SPECIFICATION FairSpec
CONSTANTS
    safe = safe
    risky = risky
    Calls <- MCCalls
    Rerunnable <- MCRerunnable
    MaxAttempts = 1
    MaxTurn = 2
    MaxPass = 1
    MaxCrash = 2
    MaxFault = 1
    MaxForeign = 1
CHECK_DEADLOCK FALSE
INVARIANT DrivesBounded 
PROPERTIES FinishedStands BootSettles
