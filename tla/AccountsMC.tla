----------------------------- MODULE AccountsMC -----------------------------
(***************************************************************************)
(* Small instances of Accounts.                                            *)
(***************************************************************************)
EXTENDS Accounts, TLC

\* Ids are told apart by nothing but their use.
Ids == Permutations(Requests) \cup Permutations(Links)
=============================================================================
