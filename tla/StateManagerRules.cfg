CONSTANTS
    t1 = t1
    t2 = t2
    A = A
    B = B
    C = C
    Null = Null
    Threads <- TwoThreads
    LuaStates <- ThreeStates
    Rules <- EveryRule
    Home <- HomeOfStates
    MaxDepth = 3
SPECIFICATION Spec
CHECK_DEADLOCK FALSE
INVARIANTS CallbackOwner UsedStatesOpen EnvIsCallersOwn
