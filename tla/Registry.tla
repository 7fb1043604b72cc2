------------------------------ MODULE Registry ------------------------------
(***************************************************************************)
(* What LuaStateManager promises the rest of the bridge: a partial map     *)
(* from ids to the LuaStates that are in use.  An id is stored once in the *)
(* registry of the native state (luajni.c, _open) and every callback finds *)
(* its LuaState by it, so a binding may never change while it exists.      *)
(***************************************************************************)
CONSTANT LuaStates

VARIABLE bound          \* the ids in use, each with its LuaState

\* No id and no LuaState is bound.
Init == bound = [i \in {} |-> i]

\* A LuaState that has no id gets one that nobody uses; which one is not said.
Bind(i, L) ==
    /\ i \notin DOMAIN bound
    /\ \A j \in DOMAIN bound : bound[j] # L
    /\ bound' = [j \in DOMAIN bound \cup {i} |-> IF j = i THEN L ELSE bound[j]]

\* The id of a LuaState that is being closed becomes free again.
Unbind(i) ==
    /\ i \in DOMAIN bound
    /\ bound' = [j \in DOMAIN bound \ {i} |-> bound[j]]

Next == \/ \E i \in DOMAIN bound', L \in LuaStates : Bind(i, L)
        \/ \E i \in DOMAIN bound : Unbind(i)

Spec == Init /\ [][Next]_bound
=============================================================================
