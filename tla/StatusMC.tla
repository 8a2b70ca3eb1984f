------------------------------ MODULE StatusMC ------------------------------
(***************************************************************************)
(* Staff alone on a database that already has orders.                      *)
(***************************************************************************)
EXTENDS StatusChange, TLC

CONSTANTS InitStock, InitOrders

StatusInit ==
    /\ rows \in InitStock
    /\ orders \in InitOrders
    /\ StaffAlone

StatusSafety == StatusInit /\ [][StaffNext]_deskVars
StatusSpec   == StatusSafety /\ StaffFairness

R(stock, reserved, active) ==
    [stock |-> stock, reserved |-> reserved, active |-> active]

Bought(q) ==
    {[token |-> NoToken, qty |-> q, status |-> s] : s \in Statuses}

\* One order for positions 1 and 2, one for position 3: they share no row.
Disjoint == {(CHOOSE o \in OrderIds : TRUE) :> a @@ [o \in OrderIds |-> b] :
               a \in Bought(<<1, 1, 0>>), b \in Bought(<<0, 0, 2>>)}

\* Both orders have packs of the positions 1 and 2.
Sharing == {(CHOOSE o \in OrderIds : TRUE) :> a @@ [o \in OrderIds |-> b] :
               a \in Bought(<<1, 1, 0>>), b \in Bought(<<1, 1, 1>>)}

\* The last packs of two batches of one product, one order each.
TwinOrders == {(CHOOSE o \in OrderIds : TRUE) :> a @@ [o \in OrderIds |-> b] :
               a \in Bought(<<1, 0, 0>>), b \in Bought(<<0, 1, 0>>)}

Shelves == {<<a, R(1, 1, FALSE), c>> :
               a \in {R(0, 0, FALSE), R(1, 0, TRUE)},
               c \in {R(0, 0, FALSE), R(3, 1, TRUE)}}
SoldOut == {[i \in 1..3 |-> R(0, 0, FALSE)]}

MixedSupplies == <<"service", "invoice", "manual">>
Manual        == <<"manual", "manual", "manual">>
Separate      == [i \in Items |-> i]
Batches       == [i \in Items |-> 1]
Alike         == Permutations(Staff)
=============================================================================
