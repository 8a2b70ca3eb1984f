------------------------------- MODULE Totals -------------------------------
(***************************************************************************)
(* Sums over finite sets.                                                  *)
(***************************************************************************)
EXTENDS Integers, Folds

\* The sum of f[o] for the members o of a set.
Total(f, set) ==
    MapThenFoldSet(+, 0, LAMBDA o : f[o], LAMBDA s : CHOOSE o \in s : TRUE, set)
=============================================================================
