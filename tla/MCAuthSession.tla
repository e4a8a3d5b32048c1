---------------------------- MODULE MCAuthSession ----------------------------
(***************************************************************************)
(* AuthSession on small sets of interchangeable commands and starts.       *)
(***************************************************************************)
EXTENDS AuthSession, TLC

Symmetry == Permutations(Clients) \cup Permutations(Services)
=============================================================================
