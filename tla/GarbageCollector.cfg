CONSTANTS
    a = a
    b = b
    c = c
    Main = Main
    NoKey = NoKey
    Objects <- ThreeObjects
    Programs <- Careful
SPECIFICATION Spec
INVARIANTS TypeOK MainInvariant NoDangling
PROPERTIES EntriesKept FullGCCollects
