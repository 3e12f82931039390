SPECIFICATION Spec
CONSTANTS
    p1 = p1
    p2 = p2
    Pages <- TwoPages
    MaxConnections <- OneReloads
    MaxChanges = 3
    Unanswered = Unanswered
INVARIANTS
    ToldOfEverything
    GhostsWereUnanswered
PROPERTY
    EveryPageReloads
CHECK_DEADLOCK FALSE
