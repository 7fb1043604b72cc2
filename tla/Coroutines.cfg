CONSTANTS
    c = c
    d = d
    Main = Main
    Coroutines <- TwoCoroutines
    MaxCcalls = 5
    Width = 16
    MaxDepth = 5
    MaxCallInfos = 4
    RuleSets <- EachRule
SPECIFICATION Spec
SYMMETRY Symmetric
CHECK_DEADLOCK FALSE
INVARIANTS NnyCounts YieldsFinishable RunningOnStack
