----------------------------- MODULE PreorderMC -----------------------------
(***************************************************************************)
(* Small instances of PreorderDesk.                                        *)
(***************************************************************************)
EXTENDS PreorderDesk, TLC

CONSTANTS InitRows, InitStatus

PreorderInit == rows \in InitRows /\ status \in InitStatus /\ Opening /\ DeskInit

PreorderSafety == PreorderInit /\ [][DeskNext]_vars

R(stock, active) == [stock |-> stock, reserved |-> 0, active |-> active]

\* Two lorries with one product, and a batch of it that 1C keeps.
TwoLorries == {<<R(2, FALSE), R(1, FALSE), R(1, TRUE)>>}
FromThree  == <<"lorry", "truck", "onec">>
TwoComing  == {[s \in Supplies |-> IF s = "onec" THEN "unloaded" ELSE "onTheWay"]}

\* Two lorries, the second not entered yet.
LorryAndSlot == {<<R(2, FALSE), NoRow>>}
FromTwo      == <<"lorry", "truck">>
OneEntered   == {[s \in Supplies |-> IF s = "lorry" THEN "onTheWay" ELSE "none"]}

\* The same beside a batch that 1C keeps.
SlotAnd1C    == {<<R(2, FALSE), NoRow, R(1, TRUE)>>}
OneOfThree   == {[lorry |-> "onTheWay", truck |-> "none", onec |-> "unloaded"]}

\* One lorry alone.
OneLorry   == {<<R(2, FALSE)>>}
FromOne    == <<"lorry">>
OneComing  == {[s \in Supplies |-> "onTheWay"]}

SameProduct == [i \in Items |-> 1]
Minimum1    == [i \in Items |-> 1]
OwnDevice   == [d \in Devices |-> d]
AllOfAnna   == [d \in Devices |-> "anna"]

\* Ids are told apart by nothing but their use.
Ids == Permutations(PreorderIds)
=============================================================================
