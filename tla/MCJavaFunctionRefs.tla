------------------------- MODULE MCJavaFunctionRefs -------------------------
(* Values for the constants of JavaFunctionRefs.                           *)
EXTENDS JavaFunctionRefs

CONSTANTS f, g, A, B

TwoWrappers == {f, g}
TwoTables   == {A, B}

\* Programs that obey no rule, and those that obey what a property needs.
NoneOrSome == {{}, {"orderly", "nosave", "nocollect", "noglobals"},
               {"noerrors", "noclosing"}}
=============================================================================
