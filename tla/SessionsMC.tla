----------------------------- MODULE SessionsMC -----------------------------
(***************************************************************************)
(* Small instances of Sessions.                                            *)
(***************************************************************************)
EXTENDS Sessions, TLC

Alike == Permutations(Workers) \cup Permutations(Slots) \cup Permutations(Sids)
=============================================================================
