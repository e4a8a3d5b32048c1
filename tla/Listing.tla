-------------------------------- MODULE Listing --------------------------------
(***************************************************************************)
(* What is left of a sequence, and a set put in order, in a form that      *)
(* proofs can open: SelectSeq and SortSeq are closed to them. Operators    *)
(* only.                                                                   *)
(***************************************************************************)
EXTENDS Naturals, Sequences, FiniteSets

\* `retain': the elements of s that are in P, in their order.
Kept(s, P) ==
    LET UpTo[n \in 0..Len(s)] ==
            IF n = 0 THEN <<>>
            ELSE IF s[n] \in P THEN Append(UpTo[n - 1], s[n])
            ELSE UpTo[n - 1]
    IN  UpTo[Len(s)]

\* `sort': the elements of a finite set, each once. Before is a strict total order on it.
Arranged(S, Before(_, _)) ==
    LET places == 1..Cardinality(S)
    IN  CHOOSE f \in [places -> S] : \A i, j \in places : i < j => Before(f[i], f[j])
=============================================================================
