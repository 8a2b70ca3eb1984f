------------------------------- MODULE ShopDB -------------------------------
(***************************************************************************)
(* The part of the PostgreSQL database that a purchase and a status change *)
(* share: the shelf, the locks of its rows, and the orders.  Like the rows *)
(* of the shelf, the orders are the committed ones (READ COMMITTED).  A    *)
(* row locked by SELECT ... FOR UPDATE stays locked until its transaction  *)
(* ends.                                                                   *)
(***************************************************************************)
EXTENDS Shelf

CONSTANTS
    OrderIds,    \* ids an order can get
    Tokens,      \* one-time order tokens that can ever be minted
    Txns,        \* database sessions, one per request being served
    NoOne,       \* "nobody holds this lock"
    NoOrder,     \* "no such order yet"
    NoToken      \* a browser session that holds no order token

ASSUME AbsentAssumption ==
    /\ NoOne \notin Txns
    /\ NoToken \notin Tokens

Statuses == {"new", "confirmed", "cancelled"}

Order == [token : Tokens \cup {NoToken}, qty : [Items -> Nat], status : Statuses]

ASSUME MarkersAssumption ==
    NoRow \notin Row /\ NoOrder \notin Order /\ NoOrder \notin OrderIds

VARIABLES
    rowLock,    \* who holds the lock of each stock row
    orders      \* committed orders

dbVars == <<rows, rowLock, orders>>

Exists(o) == orders[o] # NoOrder

\* Packs of position i that order x keeps off the shelf: none once it is
\* cancelled, none before it exists.
HeldBy(x, i) ==
    IF x = NoOrder THEN 0 ELSE IF x.status = "cancelled" THEN 0 ELSE x.qty[i]

\* Stock and orders only move together: at most one order changes, and what
\* it holds more of is what the shelf has less of.
StockFollowsOrders ==
    [][\E o \in OrderIds :
         /\ \A other \in OrderIds \ {o} : orders'[other] = orders[other]
         /\ \A i \in Items : rows'[i].stock - rows[i].stock
                              = HeldBy(orders[o], i) - HeldBy(orders'[o], i)
      ]_<<rows, orders>>

FreeId == CHOOSE o \in OrderIds : ~Exists(o)

\* Commit, rollback and loss of the connection all free the locks of t.
WithoutLocksOf(t) == [i \in Items |-> IF rowLock[i] = t THEN NoOne ELSE rowLock[i]]

\* Mutant: rows are locked in any order.
IsAny(i, left) == i \in left

\* The next row SELECT ... ORDER BY id FOR UPDATE locks, out of those left.
IsNext(i, left) == i \in left /\ \A j \in left : i <= j

DBTypeOK ==
    /\ rows \in [Items -> Row]
    /\ rowLock \in [Items -> Txns \cup {NoOne}]
    /\ orders \in [OrderIds -> Order \cup {NoOrder}]
=============================================================================
