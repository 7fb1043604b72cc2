--------------------------- MODULE MCStateManager ---------------------------
(* Values for the constants of StateManager and the symmetry of its sets.  *)
EXTENDS StateManager

CONSTANTS t1, t2, A, B, C

TwoThreads  == {t1, t2}
ThreeStates == {A, B, C}
TwoStates   == {A, B}

\* t1 opens two of the states and t2 the third.
HomeOfStates == [L \in LuaStates |-> IF L = C THEN t2 ELSE t1]

\* Threads and states are interchangeable; only safety is checked
\* under it, and only where Home plays no part.
Symmetric == Permutations(Threads) \cup Permutations(LuaStates)

ListRules    == {"stacked", "onecloser"}
EveryRule    == AllRules
AllButStacked == AllRules \ {"stacked"}
=============================================================================
