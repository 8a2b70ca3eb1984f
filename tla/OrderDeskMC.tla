---------------------------- MODULE OrderDeskMC ----------------------------
(***************************************************************************)
(* A customer checks out while a member of staff changes the status of an  *)
(* order that holds packs of the same positions.                           *)
(***************************************************************************)
EXTENDS OrderDesk, TLC

R(stock) == [stock |-> stock, reserved |-> 0, active |-> stock > 0]
OnShelf(n) == [NoLine EXCEPT !["shelf"] = n]

Shelf == {<<R(1), R(2)>>}
Carts == {<<OnShelf(1), OnShelf(1)>>}

OldOrder == CHOOSE o \in OrderIds : TRUE
OneOld ==
    {OldOrder :> [token |-> NoToken, qty |-> <<1, 1>>, status |-> s]
       @@ [o \in OrderIds |-> NoOrder] : s \in {"new", "cancelled"}}

Minimum1 == [i \in Items |-> 1]
Separate == [i \in Items |-> i]
From1C   == [i \in Items |-> "service"]
=============================================================================
