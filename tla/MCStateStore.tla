---------------------------- MODULE MCStateStore ----------------------------
(* StateStore with interchangeable attempts and temporary names. *)
EXTENDS StateStoreProperties, TLC

Symmetry == Permutations(Attempt) \union Permutations(TempName)
=============================================================================
