---------------------------- MODULE MCCoroutines ----------------------------
(* Values for the constants of Coroutines and the symmetry of its sets.    *)
EXTENDS Coroutines

CONSTANTS c, d

TwoCoroutines == {c, d}

\* Coroutines are interchangeable; only safety is checked under it.
Symmetric == Permutations(Coroutines)

\* What each property needs, and both.
EachRule  == {{"nostray"}, {"protected"}, {"nostray", "protected"}}
=============================================================================
