----------------------------- MODULE MCVaultConn -----------------------------
(* VaultConn on small instances. *)
EXTENDS VaultConn, TLC

Symmetry == Permutations(Call)
=============================================================================
