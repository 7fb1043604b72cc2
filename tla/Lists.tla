------------------------------- MODULE Lists -------------------------------
(***************************************************************************)
(* Operators on lists that several modules use and proofs are made about.  *)
(* SelectSeq of the standard module has no definition a prover could       *)
(* expand, so the filter is defined here, as a recursive function.         *)
(***************************************************************************)
EXTENDS Naturals, Sequences

\* The members of S in the list s, in the order of s.
Keep(s, S) ==
    LET kept[i \in 0..Len(s)] ==
          IF i = 0 THEN <<>>
          ELSE IF s[i] \in S THEN Append(kept[i - 1], s[i])
          ELSE kept[i - 1]
    IN  kept[Len(s)]

\* The list s without the members of S.
Without(s, S) == Keep(s, {s[i] : i \in DOMAIN s} \ S)
=============================================================================
