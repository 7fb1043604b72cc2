----------------------------- MODULE MCApiStack -----------------------------
(***************************************************************************)
(* Instance of ApiStack: what programs can do with a few values that the   *)
(* host has pushed, three of them with nested calls.                       *)
(***************************************************************************)
EXTENDS ApiStack

MCErrorHandlers == {"default", "custom"}
MCPushed == {Nil, Num, Java}

MCStarts == { [vals |-> <<>>, work |-> 2, calls |-> 1],
              [vals |-> <<Num, Java, Str>>, work |-> 2, calls |-> 1],
              [vals |-> <<Env, Str, Num>>, work |-> 2, calls |-> 0],
              [vals |-> <<Script, Java>>, work |-> 1, calls |-> 2],
              [vals |-> <<PCall, Script>>, work |-> 1, calls |-> 3],
              [vals |-> <<Num, Num, Java>>, work |-> 1, calls |-> 4] }
=============================================================================
