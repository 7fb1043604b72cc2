CONSTANTS
    c = c
    d = d
    Main = Main
    Coroutines <- TwoCoroutines
    Period = 2
    Limit = 1
    MaxTime = 2
    MaxDepth = 3
    RuleSets <- SomeRules
SPECIFICATION FairSpec
CHECK_DEADLOCK FALSE
INVARIANTS CountsDown
PROPERTIES StrikesWhenDue NoWayBack TimeoutEnds
