SPECIFICATION FairSpec
CONSTANTS
    blocks = blocks
    card = card
    p1 = p1
    r1 = r1
    Asked = {blocks, card}
    Blocking = {blocks}
    Posts = {p1}
    Raises = {}
    MaxPause = 0
    MaxTurn = 1
    MaxCrash = 1
    MaxFault = 1
CHECK_DEADLOCK FALSE
INVARIANTS AnswerOnce AnswerKept
PROPERTIES AnsweredGoesOn
