---------------------------- MODULE StatusChange ----------------------------
(***************************************************************************)
(* Changing the status of an order and giving its packs back, or taking    *)
(* them again: services/orders.py, called by update_order_status (admin)   *)
(* and by update_orders_status (1C), one database session each.            *)
(*                                                                         *)
(* The order row is locked first.  Loading the order loads its lines and   *)
(* their SupplyItem objects with it (OrderItem.supply_item is a "selectin" *)
(* relationship); the SELECT ... FOR UPDATE that locks the stock rows      *)
(* later finds these objects in the session and does not refresh them, so  *)
(* what is computed and written is what "cache" held before the lock.      *)
(***************************************************************************)
EXTENDS ShopDB

CONSTANTS
    Staff,       \* sessions that change statuses
    Supply,      \* Supply[i]: the kind of supply position i came with
    MaxStock     \* bound: no cancellation is begun above this stock

SupplyKinds == {"service", "invoice", "manual", "onTheWay"}

ASSUME StatusAssumption ==
    /\ Staff \subseteq Txns
    /\ Supply \in [Items -> SupplyKinds]
    /\ MaxStock \in Nat

VARIABLES
    orderLock,   \* who holds the lock of each order row
    stage,       \* where a session is in its handler
    order,       \* the order it changes
    target,      \* the status it was asked for
    cache,       \* the SupplyItem objects the session loaded
    work         \* the same objects as the handler left them

staffVars == <<orderLock, stage, order, target, cache, work>>
deskVars  == <<dbVars, staffVars>>

Objects == [Items -> Row \cup {NoRow}]
Unloaded == [i \in Items |-> NoRow]

StaffInit ==
    /\ orderLock = [o \in OrderIds |-> NoOne]
    /\ stage = [e \in Staff |-> "idle"]
    /\ order = [e \in Staff |-> NoOrder]
    /\ target = [e \in Staff |-> "new"]
    /\ cache = [e \in Staff |-> Unloaded]
    /\ work = [e \in Staff |-> Unloaded]

ItemsOf(o) == {i \in Items : orders[o].qty[i] > 0}

\* No two orders have packs of one position.
OrdersApart ==
    \A o, x \in OrderIds :
        Exists(o) /\ Exists(x) /\ o # x => ItemsOf(o) \cap ItemsOf(x) = {}

-----------------------------------------------------------------------------

\* Mutant: the order is read without FOR UPDATE.
OpenPlain(e) ==
    /\ stage[e] = "idle"
    /\ \E o \in OrderIds, s \in Statuses :
        /\ Exists(o)
        /\ s = "cancelled" => \A i \in Items : rows[i].stock <= MaxStock
        /\ order' = [order EXCEPT ![e] = o]
        /\ target' = [target EXCEPT ![e] = s]
    /\ stage' = [stage EXCEPT ![e] = "loading"]
    /\ UNCHANGED <<dbVars, orderLock, cache, work>>

\* load_order_for_update: SELECT ... FROM orders FOR UPDATE.
Open(e) ==
    /\ stage[e] = "idle"
    /\ \E o \in OrderIds, s \in Statuses :
        /\ Exists(o)
        /\ orderLock[o] = NoOne
        /\ s = "cancelled" => \A i \in Items : rows[i].stock <= MaxStock
        /\ orderLock' = [orderLock EXCEPT ![o] = e]
        /\ order' = [order EXCEPT ![e] = o]
        /\ target' = [target EXCEPT ![e] = s]
    /\ stage' = [stage EXCEPT ![e] = "loading"]
    /\ UNCHANGED <<dbVars, cache, work>>

CrossesCancelled(e) ==
    (orders[order[e]].status = "cancelled") # (target[e] = "cancelled")

\* The lines and their stock objects are loaded by SELECTs of their own,
\* without a lock.  Then: nothing to do, only the word changes, or the stock
\* has to be settled.
Load(e) ==
    /\ stage[e] = "loading"
    /\ LET objects == [i \in Items |->
                         IF i \in ItemsOf(order[e]) THEN rows[i] ELSE NoRow]
       IN  /\ cache' = [cache EXCEPT ![e] = objects]
           /\ work' = [work EXCEPT ![e] = objects]
    /\ stage' = [stage EXCEPT ![e] =
                   IF orders[order[e]].status = target[e] THEN "closing"
                   ELSE IF CrossesCancelled(e) THEN "locking" ELSE "writing"]
    /\ UNCHANGED <<dbVars, orderLock, order, target>>

\* Mutant: the stock rows are not locked.
ToLockNone(e) == {}

ToLock(e) == {i \in ItemsOf(order[e]) : rowLock[i] # e}

\* _lock_supply_items, row by row in the order of ids.  The objects stay as
\* they were loaded.
LockItem(e) ==
    /\ stage[e] = "locking"
    /\ \E i \in Items :
        /\ IsNext(i, ToLock(e))
        /\ rowLock[i] = NoOne
        /\ rowLock' = [rowLock EXCEPT ![i] = e]
    /\ UNCHANGED <<rows, orders, staffVars>>

\* Mutant: only goods of the service supply are put back.
BackOnShelfService(i, object) ==
    object.active \/ (Avail(object) > 0 /\ Supply[i] = "service")

\* _put_back_on_shelf: goods of 1C go back whenever something is available,
\* a manually unloaded batch only if no other batch of the product is on the
\* shelf, as far as the database knows; goods on the way stay off it.
BackOnShelf(i, object) ==
    \/ object.active
    \/ /\ Avail(object) > 0
       /\ \/ Supply[i] \in {"service", "invoice"}
          \/ /\ Supply[i] = "manual"
             /\ \A j \in Items \ {i} : Product[j] = Product[i] => ~rows[j].active

\* _return_stock
Return(e) ==
    /\ stage[e] = "locking" /\ ToLock(e) = {} /\ target[e] = "cancelled"
    /\ LET with(i) == [cache[e][i] EXCEPT !.stock = @ + orders[order[e]].qty[i]]
       IN  work' = [work EXCEPT ![e] = [i \in Items |->
                      IF i \in ItemsOf(order[e])
                      THEN [with(i) EXCEPT !.active = BackOnShelf(i, with(i))]
                      ELSE NoRow]]
    /\ stage' = [stage EXCEPT ![e] = "writing"]
    /\ UNCHANGED <<dbVars, orderLock, order, target, cache>>

\* Mutant: packs reserved for preorders count as available.
EnoughOnHand(e) ==
    \A i \in ItemsOf(order[e]) : orders[order[e]].qty[i] <= cache[e][i].stock

\* _take_stock: all or nothing.
Enough(e) ==
    \A i \in ItemsOf(order[e]) : orders[order[e]].qty[i] <= Avail(cache[e][i])

Take(e) ==
    /\ stage[e] = "locking" /\ ToLock(e) = {} /\ target[e] # "cancelled"
    /\ \/ /\ ~Enough(e)
          /\ stage' = [stage EXCEPT ![e] = "closing"]
          /\ UNCHANGED work
       \/ /\ Enough(e)
          /\ stage' = [stage EXCEPT ![e] = "writing"]
          /\ LET without(i) ==
                   [cache[e][i] EXCEPT !.stock = @ - orders[order[e]].qty[i]]
             IN  work' = [work EXCEPT ![e] = [i \in Items |->
                   IF i \in ItemsOf(order[e])
                   THEN [without(i) EXCEPT !.active = @ /\ Avail(without(i)) > 0]
                   ELSE NoRow]]
    /\ UNCHANGED <<dbVars, orderLock, order, target, cache>>

\* The session ends: its locks are free and its objects are gone.
Leave(e) ==
    /\ rowLock' = WithoutLocksOf(e)
    /\ orderLock' = [o \in OrderIds |->
                       IF orderLock[o] = e THEN NoOne ELSE orderLock[o]]
    /\ stage' = [stage EXCEPT ![e] = "idle"]
    /\ order' = [order EXCEPT ![e] = NoOrder]
    /\ target' = [target EXCEPT ![e] = "new"]
    /\ cache' = [cache EXCEPT ![e] = Unloaded]
    /\ work' = [work EXCEPT ![e] = Unloaded]

\* The flush writes the columns whose value in the object has changed.
Flushed(i, e) ==
    IF work[e][i] = NoRow THEN rows[i]
    ELSE [rows[i] EXCEPT
            !.stock  = IF work[e][i].stock = cache[e][i].stock THEN @
                       ELSE work[e][i].stock,
            !.active = IF work[e][i].active = cache[e][i].active THEN @
                       ELSE work[e][i].active]

CommitStatus(e) ==
    /\ stage[e] = "writing"
    /\ rows' = [i \in Items |-> Flushed(i, e)]
    /\ orders' = [orders EXCEPT ![order[e]].status = target[e]]
    /\ Leave(e)

\* Nothing to do, or refused: rollback.
Close(e) ==
    /\ stage[e] = "closing"
    /\ UNCHANGED <<rows, orders>>
    /\ Leave(e)

\* The process dies or the database refuses a statement: rollback.
Lost(e) ==
    /\ stage[e] # "idle"
    /\ UNCHANGED <<rows, orders>>
    /\ Leave(e)

-----------------------------------------------------------------------------

Advance(e) == Load(e) \/ Return(e) \/ Take(e) \/ CommitStatus(e) \/ Close(e)

StaffNext == \E e \in Staff : Open(e) \/ Advance(e) \/ LockItem(e) \/ Lost(e)

\* Staff alone, on a database that already has orders.
StaffAlone ==
    /\ rows \in [Items -> Row]
    /\ rowLock = [i \in Items |-> NoOne]
    /\ orders \in [OrderIds -> Order \cup {NoOrder}]
    /\ StaffInit

StaffSafety == StaffAlone /\ [][StaffNext]_deskVars

\* As for a checkout: a handler runs on, and row locks are granted in turn.
StaffFairness == \A e \in Staff : WF_deskVars(Advance(e)) /\ SF_deskVars(LockItem(e))

-----------------------------------------------------------------------------
(* Properties                                                              *)

\* Every variable has its type.
StaffTypeOK ==
    /\ DBTypeOK
    /\ orderLock \in [OrderIds -> Txns \cup {NoOne}]
    /\ stage \in [Staff -> {"idle", "loading", "locking", "writing", "closing"}]
    /\ order \in [Staff -> OrderIds \cup {NoOrder}]
    /\ target \in [Staff -> Statuses]
    /\ cache \in [Staff -> Objects]
    /\ work \in [Staff -> Objects]

\* Taking a cancelled order back never takes packs that are not there or
\* that are reserved for preorders.
RetakenOrdersFit ==
    [][\A o \in OrderIds :
         /\ Exists(o) /\ orders[o].status = "cancelled"
         /\ orders'[o].status # "cancelled"
         => \A i \in ItemsOf(o) : rows'[i].reserved <= rows'[i].stock
      ]_deskVars

\* After a cancellation, goods of 1C that can be bought are in the catalogue.
CancelledGoodsAreBack ==
    [][\A o \in OrderIds :
         /\ Exists(o) /\ orders[o].status # "cancelled"
         /\ orders'[o].status = "cancelled"
         => \A i \in ItemsOf(o) :
              Supply[i] \in {"service", "invoice"} /\ Avail(rows'[i]) > 0
              => rows'[i].active
      ]_deskVars

\* Two manually unloaded batches of one product are not on the shelf together.
NoTwinBatches ==
    \A i, j \in Items :
        /\ i # j /\ Product[i] = Product[j]
        /\ Supply[i] = "manual" /\ Supply[j] = "manual"
        => ~(rows[i].active /\ rows[j].active)

\* Every status change ends.
EveryChangeEnds == \A e \in Staff : stage[e] # "idle" ~> stage[e] = "idle"
=============================================================================
