CONSTANTS
    t1 = t1
    t2 = t2
    A = A
    B = B
    C = C
    Null = Null
    Threads <- TwoThreads
    LuaStates <- ThreeStates
    Rules <- ListRules
    Home <- HomeOfStates
    MaxDepth = 2
SPECIFICATION Spec
SYMMETRY Symmetric
CHECK_DEADLOCK FALSE
INVARIANTS TypeOK RegistryAgrees
PROPERTIES OnlyCloseUnlists RegistryImplemented
