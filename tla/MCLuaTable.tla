----------------------------- MODULE MCLuaTable -----------------------------
(***************************************************************************)
(* Instance of LuaTable: hashes that make keys of all kinds collide.       *)
(***************************************************************************)
EXTENDS LuaTable

CONSTANTS a, o

MCInts == 1 .. 3
MCStrs == {a}
MCObjs == {o}
MCHash == [k \in Keys |-> CASE k \in Ints -> k
                            [] k = a -> 1
                            [] k = o -> 1]

MCHints == {<<0, 0>>, <<1, 3>>}
=============================================================================
