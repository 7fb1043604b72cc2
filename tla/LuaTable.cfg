CONSTANTS
    a = a
    o = o
    Nil = Nil
    Ints <- MCInts
    Strs <- MCStrs
    Objs <- MCObjs
    Hash <- MCHash
    MAXBITS = 3
    MAX_INT = 4
    Hints <- MCHints
SPECIFICATION Spec
VIEW View
INVARIANTS BorderFound RehashLeavesRoom
PROPERTIES MapImplemented ArraySizeOptimal
