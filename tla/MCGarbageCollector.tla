------------------------- MODULE MCGarbageCollector -------------------------
(* Programs for GarbageCollector.                                          *)
EXTENDS GarbageCollector

CONSTANTS a, b, c

ThreeObjects == {a, b, c}

AtAnyTime == AllRules \ {"atonce"}
AtOnce    == AllRules \ {"noescape"}

Program2(x, y, full, R) ==
    [kind |-> [o \in All |-> CASE o = a -> x [] o = b -> y [] o = c -> "table"
                               [] o = Main -> "thread"],
     room |-> [o \in Objects |-> 1],
     creates |-> {a, b}, finalizable |-> {a, b}, fullgcs |-> full, rules |-> R]

\* Two objects of various kinds that refer to each other.
Pairs == {Program2("table", "table", FALSE, AtAnyTime),
          Program2("allweak", "table", FALSE, AtAnyTime),
          Program2("ephemeron", "table", TRUE, AtAnyTime),
          Program2("weakvalue", "userdata", TRUE, AtAnyTime),
          Program2("weakvalue", "userdata", FALSE, AtAnyTime \ {"plain"}),
          Program2("table", "userdata", FALSE, AtOnce),
          Program2("table", "thread", TRUE, AtAnyTime),
          Program2("table", "function", TRUE, AtAnyTime)}

\* A weak table with an entry of a key and a value that refer to nothing.
WeakTable(x, F, R) ==
    [kind |-> [o \in All |-> CASE o = a -> x [] o = Main -> "thread" [] OTHER -> "table"],
     room |-> [o \in Objects |-> IF o = a THEN 1 ELSE 0],
     creates |-> Objects, finalizable |-> F, fullgcs |-> FALSE, rules |-> R]

\* Programs that follow the rules.
Careful == Pairs \cup {WeakTable("ephemeron", {b}, AtAnyTime)}
=============================================================================
