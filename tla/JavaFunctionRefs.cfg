CONSTANTS
    f = f
    g = g
    A = A
    B = B
    Wrappers <- TwoWrappers
    Tables <- TwoTables
    RuleSets <- NoneOrSome
    MaxDepth = 3
    MaxRefs = 1
SPECIFICATION FairSpec
CHECK_DEADLOCK FALSE
INVARIANTS DueOnce CallableLive EveryRefOwned AllReleased
PROPERTY CloseEnds
