-------------------------------- MODULE Shelf --------------------------------
(***************************************************************************)
(* The table supply_items: the stock positions of the shop.  "rows" holds  *)
(* committed values only: no session sees the writes of a transaction that *)
(* is still open in another one.                                           *)
(***************************************************************************)
EXTENDS Integers

CONSTANTS
    NItems,      \* number of stock positions (rows of supply_items)
    Product,     \* Product[i]: the product the stock position i belongs to
    NoRow        \* a row this request has not loaded

ASSUME ItemsAssumption == NItems \in Nat \ {0}

\* Primary keys: FOR UPDATE takes the locks in ascending order of them.
Items == 1..NItems

Row == [stock : Int, reserved : Nat, active : BOOLEAN]

VARIABLE rows    \* committed rows of supply_items

\* SupplyItem.available_stock: what an ordinary customer may still buy.
Avail(r) == IF r.stock > r.reserved THEN r.stock - r.reserved ELSE 0
=============================================================================
