--------------------------- MODULE MCKeychainFile ---------------------------
(***************************************************************************)
(* TLC instances of KeychainFile.  Nothing orders or singles out a process, *)
(* an identity, a hash, a label, a record number or a password.             *)
(***************************************************************************)
EXTENDS KeychainFile, TLC

FileSymmetry ==
  Permutations(Processes) \union Permutations(Ids) \union Permutations(Hashes)
    \union Permutations(Labels) \union Permutations(Numbers) \union Permutations(Passwords)
=============================================================================
