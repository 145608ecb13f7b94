---------------------------- MODULE MCVaultNotify ----------------------------
(* Instances of VaultNotify for TLC.                                       *)
EXTENDS VaultNotify, TLC

Symmetry == Permutations(Session) \cup Permutations(Call)
=============================================================================
