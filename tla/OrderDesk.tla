----------------------------- MODULE OrderDesk -----------------------------
(***************************************************************************)
(* Customers and staff at once: checkouts and status changes on the same   *)
(* stock rows, orders and row locks.                                       *)
(***************************************************************************)
EXTENDS Checkout, StatusChange

CONSTANT InitOrders   \* orders already in the database

\* The unique index on order_token holds of the orders there are.
ASSUME DeskAssumption ==
    /\ Staff \cap Workers = {}
    /\ InitOrders \subseteq [OrderIds -> Order \cup {NoOrder}]
    /\ \A old \in InitOrders : \A o, x \in OrderIds :
         /\ old[o] # NoOrder /\ old[x] # NoOrder
         /\ old[o].token # NoToken /\ old[o].token = old[x].token
         => o = x

checkoutVars == <<sess, shown, minted, reqVars>>
allVars == <<vars, staffVars>>

DeskInit ==
    /\ rows \in InitRows
    /\ rowLock = [i \in Items |-> NoOne]
    /\ orders \in InitOrders
    /\ ShopInit
    /\ StaffInit

DeskNext ==
    \/ Next /\ UNCHANGED staffVars
    \/ StaffNext /\ UNCHANGED checkoutVars

DeskSafety == DeskInit /\ [][DeskNext]_allVars

DeskSpec == DeskSafety /\ Fairness /\ StaffFairness
-----------------------------------------------------------------------------

\* A status change ends although customers keep locking the same rows.
EveryStatusChangeEnds == EveryChangeEnds
=============================================================================
