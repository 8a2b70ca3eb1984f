---------------------------- MODULE CatalogSyncMC ----------------------------
(* Small instances of CatalogSync.                                         *)
EXTENDS CatalogSync, TLC

CONSTANTS g, h, bar, nameA, nameB, s1, s2

Symmetry == Permutations({g, h}) \cup Permutations({nameA, nameB}) \cup Permutations({s1, s2})
=============================================================================
