---------------------------- MODULE MCHelperRelay ----------------------------
(***************************************************************************)
(* TLC instances of HelperRelay: three requests that are interchangeable.  *)
(***************************************************************************)
EXTENDS HelperRelayInv, TLC

RequestSymmetry == Permutations(Requests)
=============================================================================
