---------------------------- MODULE MCVaultKeys ----------------------------
(***************************************************************************)
(* Small instances of VaultKeys.                                           *)
(***************************************************************************)
EXTENDS VaultKeys, TLC

\* Vaults of one sort and keys are interchangeable.
Symmetry == Permutations(Anon) \cup Permutations(Primary) \cup Permutations(Key)
=============================================================================
