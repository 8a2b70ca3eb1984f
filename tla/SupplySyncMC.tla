----------------------------- MODULE SupplySyncMC -----------------------------
(* Small instances of SupplySync: one product in a batch and without one.   *)
EXTENDS SupplySync, TLC

CONSTANTS a, rose, o1

OneOfEach == [k \in Keys |-> 1]
TwoInBatch == [k \in Keys |-> IF k[1] = a THEN 2 ELSE 1]
TwoInOne == [k \in Keys |-> IF k[1] = a THEN 2 ELSE 0]
=============================================================================
