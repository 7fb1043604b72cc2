------------------------------ MODULE TableMap ------------------------------
(***************************************************************************)
(* What a Lua table promises: a map from keys to values in which each      *)
(* assignment changes one key, and a traversal with next that returns      *)
(* every field once, also when fields are changed or cleared meanwhile     *)
(* (manual, next: "You may however modify existing fields.  In particular, *)
(* you may clear existing fields.").  LuaTable implements it.              *)
(***************************************************************************)
EXTENDS FiniteSets

CONSTANTS Keys, Nil, Value(_)       \* Value(k): the value that programs store at k

VARIABLES map,      \* the value of every key, or Nil
          seen,     \* the keys that the traversal has returned
          must,     \* the fields that were there since the traversal began
          going,    \* a traversal is under way
          did       \* what happened last: step m, with the keys ks

vars == <<map, seen, must, going, did>>

Fields == {k \in Keys : map[k] # Nil}

Init == /\ map = [k \in Keys |-> Nil]
        /\ seen = {} /\ must = {} /\ going = FALSE
        /\ did = [m |-> "", ks |-> {}]

\* Assigning to a field that is not there ends every traversal.
Assign(ks, v(_)) ==
    LET absent == ks \ Fields # {} IN
    /\ map' = [k \in Keys |-> IF k \in ks THEN v(k) ELSE map[k]]
    /\ going' = (going /\ ~absent)
    /\ seen' = IF absent THEN {} ELSE seen
    /\ must' = IF absent THEN {} ELSE must \ {k \in ks : v(k) = Nil}

Set(c) == c.m = "Set" /\ Assign(c.ks, Value)
Clear(c) == c.m = "Clear" /\ Assign(c.ks, LAMBDA k : Nil)

Begin(c) == /\ c.m = "Begin" /\ ~going
            /\ going' = TRUE /\ must' = Fields /\ seen' = {} /\ UNCHANGED map

Visit(c) == /\ c.m = "Visit" /\ going /\ Cardinality(c.ks) = 1 /\ c.ks \subseteq Fields \ seen
            /\ seen' = seen \cup c.ks
            /\ UNCHANGED <<map, must, going>>

End(c) == /\ c.m = "End" /\ going /\ must \subseteq seen
          /\ going' = FALSE /\ seen' = {} /\ must' = {}
          /\ UNCHANGED map

\* What the implementation does on its own, as the collector does.
Inside(c) == c.m = "Inside" /\ UNCHANGED <<map, seen, must, going>>

Step(c) == Set(c) \/ Clear(c) \/ Begin(c) \/ Visit(c) \/ End(c) \/ Inside(c)

Next == Step(did')

Spec == Init /\ [][Next]_vars
=============================================================================
