CONSTANTS
    t1 = t1
    t2 = t2
    A = A
    B = B
    C = C
    Null = Null
    Threads <- TwoThreads
    LuaStates <- ThreeStates
    Rules <- AllButStacked
    Home <- HomeOfStates
    MaxDepth = 2
SPECIFICATION Spec
CHECK_DEADLOCK FALSE
INVARIANT AllInstancesListed
