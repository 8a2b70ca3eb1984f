---------------------------- MODULE PreorderDesk ----------------------------
(***************************************************************************)
(* Customers, unloadings and the rest of the shop on one database.         *)
(***************************************************************************)
EXTENDS Preorders, Unloading, SupplyPages

CONSTANTS
    Overlap,     \* whether requests overlap, or the shop serves one at a time
    Traffic      \* what else happens in this instance

ASSUME DeskAssumption ==
    /\ Overlap \in BOOLEAN
    /\ Traffic \subseteq {"unload", "overdue", "edit", "deactivate", "sell",
                         "enter", "recount", "delete"}

vars == <<tables, writes, unloadVars, customerVars>>

Quiet ==
    /\ \A c \in Unloaders : phase[c] = "idle"
    /\ \A p \in Threads : step[p] = "idle"

\* A request or a job may begin.
MayBegin == Overlap \/ Quiet

Unload(c) ==
    /\ \/ MayBegin /\ "unload" \in Traffic /\ OpenUnload(c)
       \/ MayBegin /\ "overdue" \in Traffic /\ OpenOverdue(c)
       \/ UnloadStep(c)
    /\ UNCHANGED customerVars

Serve(p) ==
    /\ \/ MayBegin /\ (AddCheck(p) \/ RemoveFind(p) \/ MoveFind(p))
       \/ CustomerStep(p)
    /\ UNCHANGED unloadVars

\* One pack from the shelf, or the preorder lines of a cart: place_order
\* saves the emptied cart when it answers.
Buy ==
    /\ MayBegin /\ "sell" \in Traffic
    /\ \/ \E i \in Items : Sell(i, 1, FALSE) /\ UNCHANGED carts
       \/ \E d \in Devices, i \in Items :
            /\ carts[d][i] > 0
            /\ Sell(i, carts[d][i], TRUE)
            /\ carts' = [carts EXCEPT ![d][i] = 0]
    /\ UNCHANGED <<status, preorders, writes, unloadVars, reqVars>>

\* cart_page drops preorder lines whose batch is off the shelf.
VisitCart ==
    /\ MayBegin /\ "sell" \in Traffic
    /\ \E d \in Devices :
        carts' = [carts EXCEPT ![d] =
                    [i \in Items |-> IF IsActive(i) THEN @[i] ELSE 0]]
    /\ UNCHANGED <<tables, writes, unloadVars, reqVars>>

Manage ==
    /\ MayBegin
    /\ \/ "edit" \in Traffic /\ (EditSupply \/ NewSupply)
       \/ "deactivate" \in Traffic /\ Deactivate
       \/ "enter" \in Traffic /\ EnterLines
       \/ "recount" \in Traffic /\ UpdateLine
       \/ "delete" \in Traffic /\ (DeleteLine \/ DeleteSupply)
    /\ UNCHANGED <<unloadVars, customerVars>>

DeskNext ==
    \/ \E c \in Unloaders : Unload(c)
    \/ \E p \in Threads : Serve(p)
    \/ Buy \/ VisitCart \/ Manage

DeskInit == TablesInit /\ UnloadingInit /\ CustomersInit

OneSupplyIn(active) ==
    \A i, j \in Items :
        /\ i \in active /\ SupplyOf[i] \in Manual
        /\ j \in active /\ SupplyOf[j] \in Manual
        => SupplyOf[i] = SupplyOf[j]

\* A shop that has had no preorders: nothing is kept for any, every position
\* came with a supply, and by hand one supply was put on the shelf.
Opening ==
    /\ rows \in [Items -> {r \in Row : r.reserved = 0} \cup {NoRow}]
    /\ status \in [Supplies -> Statuses \cup {"none"}]
    /\ \A i \in Items : IsListed(i) => status[SupplyOf[i]] \in Statuses
    /\ OneSupplyIn({i \in Items : IsActive(i)})

DeskSpec == DeskInit /\ Opening /\ [][DeskNext]_vars

-----------------------------------------------------------------------------
(* Properties                                                              *)

\* Every variable has its type.
DeskTypeOK == TablesTypeOK /\ UnloadingTypeOK /\ CustomersTypeOK

ArrivedAt(i) == {o \in PreorderIds : Arrived(o) /\ preorders[o].item = i}

\* do_unload reserves packs for the preorders it fulfils and for nothing
\* else, and a move gives back no more than it took, wherever it was cut
\* off: what is reserved on a batch is owed to preorders that arrived there.
ReserveHasOwners ==
    \A i \in Items :
        IsListed(i) => rows[i].reserved <= PacksOf(ArrivedAt(i), preorders)

\* add_preorder_to_db merges: a customer waits for a product with one
\* preorder at most.
OneWaitingEach ==
    \A o, x \in PreorderIds :
        /\ Waiting(o) /\ Waiting(x)
        /\ preorders[o].user = preorders[x].user
        /\ preorders[o].product = preorders[x].product
        => o = x

\* do_unload takes old batches off the shelf before it puts new ones on it:
\* manual batches on the shelf came with one supply.
OneSupplyOnShelf == OneSupplyIn({i \in Items : IsActive(i)})

\* The pages that delete a position or a supply detach the preorders first
\* (_detach_supply_items): no preorder points at a position that is gone, and
\* wherever it points, its product is listed there.
PreordersPointAtLines ==
    \A o \in PreorderIds :
        Exists(o) /\ preorders[o].item # 0
        => IsListed(preorders[o].item) /\ Product[preorders[o].item] = preorders[o].product

\* do_unload leaves the batches alone that 1C keeps on the shelf
\* (scheduler.py:77-80): they leave it only sold out, or deleted by hand.
GoodsOf1CStay ==
    [][\A i \in Items :
         /\ SupplyOf[i] \notin Manual
         /\ IsActive(i) /\ rows'[i] # Gone /\ ~rows'[i].active
         => Avail(rows'[i]) = 0
      ]_vars

\* A customer who is told that the preorder has arrived can take it to the
\* cart (the notification of do_unload): its batch is on the shelf as long as
\* packs are reserved there.
ArrivedCanBeTaken ==
    \A o \in PreorderIds :
        Arrived(o) /\ preorders[o].item # 0 /\ rows[preorders[o].item].reserved > 0
        => rows[preorders[o].item].active

\* A preorder that has arrived, arrived with a supply that was unloaded, as
\* its notification says.
ArrivedHasCome ==
    \A o \in PreorderIds :
        Arrived(o) /\ preorders[o].item # 0 => status[SupplyOf[preorders[o].item]] = "unloaded"

\* Unloading a supply puts its batches on the shelf (supply_form.html:28).
UnloadFillsShelf ==
    [][\A c \in Unloaders :
         CommitUnload(c) =>
            \A i \in Items :
                item[c][i] # NoRow /\ IsListed(i) /\ Avail(rows'[i]) > 0 => rows'[i].active
      ]_vars

\* Two requests never give the packs of one preorder to two carts
\* (preorder_service.py:238-241).
GivenOnce ==
    \A p, q \in Threads :
        /\ p # q /\ step[p] = "merging" /\ step[q] = "merging"
        => target[p] # target[q]

\* The move of an arrived preorder is never refused by the database
\* (REVIEW.md:375 and README.md:24).
MoveIsServed == \A p \in Threads : step[p] # "failed"
=============================================================================
