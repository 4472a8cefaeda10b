SPECIFICATION FairSpec
CONSTANTS
    blocks = blocks
    card = card
    p1 = p1
    r1 = r1
    Asked = {blocks}
    Blocking = {blocks}
    Posts = {}
    Raises = {r1}
    MaxPause = 2
    MaxTurn = 1
    MaxCrash = 1
    MaxFault = 1
CHECK_DEADLOCK FALSE
INVARIANTS MarkIsTrue RaiseOnce WaitsForOpen
PROPERTIES PausesKeepPromise StopEnds
