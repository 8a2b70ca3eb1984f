--------------------------- MODULE DictionariesMC ---------------------------
(***************************************************************************)
(* Small instances of Dictionaries.                                        *)
(***************************************************************************)
EXTENDS Dictionaries, TLC

CONSTANTS k1, k2, plain, capital, g1

N(k) == [key |-> k, form |-> plain]

\* The first product has an old value; its name suggests another one, which the
\* starting set has.
OldOfFirst  == [p \in Goods |-> IF p = g1 THEN N(k1) ELSE None]
NamedFirst  == [p \in Goods |-> IF p = g1 THEN N(k2) ELSE None]
StartSet    == {N(k2)}
NothingElse == None
Alike       == Permutations(Sessions)
=============================================================================
