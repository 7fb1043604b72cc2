--------------------------- MODULE MCExecTimeout ---------------------------
(* Values for the constants of ExecTimeout.                                *)
EXTENDS ExecTimeout

CONSTANTS c, d

TwoCoroutines == {c, d}

\* Scripts that keep coroutines and call no handlers, the other way round, and
\* scripts that obey every rule.
SomeRules == {AllRules \ {"fresh"}, {"fresh"}, AllRules}
=============================================================================
