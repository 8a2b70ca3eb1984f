---------------------------- MODULE StockLedger ----------------------------
(***************************************************************************)
(* What a checkout promises, with no requests, locks or sessions: an order *)
(* appears in one indivisible step that takes exactly its packs from the   *)
(* stock of that very moment, and a token is used for one order only.      *)
(* An order, once written, is not touched by a checkout.                   *)
(***************************************************************************)
EXTENDS ShopDB

PlaceOrder(o) ==
    /\ ~Exists(o)
    /\ orders'[o] \in Order
    /\ orders'[o].token \in Tokens
    /\ orders' = [orders EXCEPT ![o] = orders'[o]]
    /\ \A other \in OrderIds :
          Exists(other) => orders[other].token # orders'[o].token
    /\ rows' = [i \in Items |->
                  IF orders'[o].qty[i] = 0 THEN rows[i]
                  ELSE [rows[i] EXCEPT
                          !.stock  = rows[i].stock - orders'[o].qty[i],
                          !.active = rows[i].active /\ Avail(rows'[i]) > 0]]

LedgerNext == \E o \in OrderIds : PlaceOrder(o)

LedgerSpec == [][LedgerNext]_<<rows, orders>>
=============================================================================
