---------------------------- MODULE MCVaultWrite ----------------------------
EXTENDS VaultWrite, TLC

Symmetry == Permutations(Version) \cup Permutations(Tx)
=============================================================================
