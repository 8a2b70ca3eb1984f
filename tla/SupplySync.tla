------------------------------ MODULE SupplySync ------------------------------
(***************************************************************************)
(* Batches and their remainders as 1C sends them: apply_supplies and       *)
(* close_stale_supplies (services/supply_sync.py), apply_products          *)
(* (services/catalog_sync.py) for the goods without a batch, and the shop  *)
(* beside them.  Which product a line is about is CatalogSync's subject,   *)
(* how orders come to 1C is OrderExchange's: here 1C is the books it keeps *)
(* for the orders it has.                                                  *)
(*                                                                         *)
(* An exchange counts the orders 1C does not know yet when it begins,      *)
(* reads rows and preorders without locking them, and writes what 1C sent, *)
(* less that count, at its commit: the columns it has changed, as values.  *)
(* What it reads of the tables it reads here in one step.                  *)
(***************************************************************************)
EXTENDS Integers, FiniteSets, Totals

CONSTANTS
    Invoices,     \* batches as 1C numbers them
    Products,
    Service,      \* the batch of goods 1C sends without one
    Shipped,      \* Shipped[k]: packs of the product that came in the batch
    OrderIds,
    NPreorders,   \* number of preorders customers can make
    Packs,        \* how many packs a customer may ask for
    Reserve,      \* ONEC_RESERVE_UNEXPORTED
    Overlap,      \* whether the shop goes on while an exchange is applied
    Stale,        \* whether a message may be applied when 1C has long gone on
    Oddities,     \* what may be odd about one invoice of a message
    Odd,          \* the batches it may be odd about
    TellFirst,    \* whether 1C tells of cancelled orders before it sends remainders
    ResumesAll,   \* whether staff takes back orders that 1C holds as cancelled
    None

Batches == Invoices \cup {Service}
Keys    == Batches \X Products

PreorderIds == 1..NPreorders         \* in the order of created_at

ASSUME SyncAssumption ==
    /\ Service \notin Invoices
    /\ Shipped \in [Keys -> Nat]
    /\ NPreorders \in Nat
    /\ Packs \subseteq Nat \ {0}
    /\ Oddities \subseteq {"bare", "bad", "missing", "refused"}
    /\ Odd \subseteq Batches
    /\ {Reserve, Overlap, Stale, TellFirst, ResumesAll} \subseteq BOOLEAN
    /\ IsFiniteSet(OrderIds)
    /\ None \notin Keys

VARIABLES
    supply,       \* status of each supply, "none" if the site has no such row
    item,         \* rows of supply_items by supply and product
    orders,       \* orders of one line each
    preorders,
    counted,      \* pending_packs of the exchange under way
    draft,        \* what it has read, and what it makes of that
    posted,       \* status of each invoice in 1C
    books,        \* packs 1C thinks are left of each batch
    documents,    \* orders 1C has a document for
    dropped,      \* those of them it holds as cancelled
    message,      \* what 1C has sent
    still,        \* the shop has not moved since the exchange began
    settled,      \* a message was applied while it stood still, and it has not moved since
    lost          \* a reserve was written that had changed since it was read

siteVars == <<supply, item, orders, preorders>>
onecVars == <<posted, books, documents, dropped>>
syncVars == <<counted, draft, still>>
vars == <<siteVars, syncVars, onecVars, message, settled, lost>>

Absent == [on |-> FALSE, stock |-> 0, reserved |-> 0, active |-> FALSE]

NoOrder == [state |-> "none", batch |-> None, item |-> None, packs |-> 0, exported |-> FALSE]
NoPreorder == [state |-> "none", item |-> None, packs |-> 0]

Init ==
    /\ supply = [s \in Batches |-> IF s = Service THEN "arrived" ELSE "none"]
    /\ item = [k \in Keys |-> Absent]
    /\ orders = [o \in OrderIds |-> NoOrder]
    /\ preorders = [i \in PreorderIds |-> NoPreorder]
    /\ counted = None /\ draft = None
    /\ posted = [s \in Invoices |-> "transit"]
    /\ books = Shipped
    /\ documents = {}
    /\ dropped = {}
    /\ message = None
    /\ still = FALSE /\ settled = FALSE /\ lost = FALSE

Avail(r) == IF r.stock > r.reserved THEN r.stock - r.reserved ELSE 0

WaitingOn(s) == {i \in PreorderIds : /\ preorders[i].state = "waiting"
                                     /\ preorders[i].item \in {s} \X Products}

\* _referenced: an order or a preorder points to the position.
Referenced(k) ==
    \/ \E o \in OrderIds : orders[o].item = k
    \/ \E i \in PreorderIds : preorders[i].item = k

PacksOf(set) == Total([o \in set |-> orders[o].packs], set)

-----------------------------------------------------------------------------
(* What a message does to the supplies                                     *)

\* Mutant: orders that 1C has not confirmed are not told from the others.
PendingNone == [k \in Keys |-> 0]

\* pending_packs: packs of live orders without exported_at.
Pending == [k \in Keys |->
    IF Reserve THEN PacksOf({o \in OrderIds : /\ orders[o].state = "live"
                                              /\ ~orders[o].exported
                                              /\ orders[o].item = k})
               ELSE 0]

Less(n, k) == IF n > counted[k] THEN n - counted[k] ELSE 0

\* parse_supply: an invoice it refuses is not seen by anything that follows.
Accepted(m) == m.listed \ m.refused

\* Mutant: what 1C sends is added to the stock.
AfterLinesAdds(m, k) ==
    LET shelf == m.status[k[1]] = "received"
        stock == IF shelf THEN Less(m.qty[k], k) ELSE m.qty[k]
    IN  IF k \in m.bad THEN item[k]
        ELSE [item[k] EXCEPT !.on = TRUE, !.stock = @ + stock, !.active = shelf]

\* _upsert_lines, for one product of an accepted invoice.  A line in error
\* leaves the position alone; one that is missing, or empty in a batch on its
\* way, takes it away, or off the shelf if something points to it.
AfterLines(m, k) ==
    LET shelf == m.status[k[1]] = "received"
        row   == item[k]
        stock == IF shelf /\ row.on THEN Less(m.qty[k], k) ELSE m.qty[k]
        given == k \in m.given /\ (m.qty[k] > 0 \/ shelf)
    IN  IF k \in m.bad THEN row
        ELSE CASE given /\ (row.on \/ stock > 0) ->
                    [row EXCEPT !.on = TRUE, !.stock = stock, !.active = shelf /\ stock > 0]
               [] ~given /\ row.on /\ Referenced(k) ->
                    [row EXCEPT !.stock = 0, !.active = FALSE]
               [] OTHER -> Absent

\* An invoice sent without lines only lays out what there is.
AfterBare(m, k) ==
    [item[k] EXCEPT !.active = m.status[k[1]] = "received" /\ Avail(item[k]) > 0]

\* A cancelled invoice: its supply is deleted unless preorders wait for it.
Deleted(m, s) ==
    s \in Accepted(m) /\ m.status[s] = "cancelled" /\ WaitingOn(s) = {}

\* apply_supplies, the loop over the invoices.
AfterInvoice(m, k) ==
    LET s == k[1]
    IN  IF s \notin Accepted(m) THEN item[k]
        ELSE CASE m.status[s] # "cancelled" /\ s \in m.bare -> AfterBare(m, k)
               [] m.status[s] # "cancelled" /\ s \notin m.bare -> AfterLines(m, k)
               [] m.status[s] = "cancelled" /\ Deleted(m, s) -> Absent
               [] OTHER -> [item[k] EXCEPT !.stock = 0, !.active = FALSE]

\* A new invoice of which no line was accepted is not kept.
SupplyAfter(m, s) ==
    IF s \notin Accepted(m) THEN supply[s]
    ELSE CASE Deleted(m, s) -> "none"
           [] ~Deleted(m, s) /\ m.status[s] = "cancelled" -> "arrived"
           [] OTHER ->
                IF supply[s] = "none" /\ \A p \in Products : ~AfterInvoice(m, <<s, p>>).on
                THEN "none"
                ELSE IF m.status[s] = "received" THEN "arrived" ELSE "transit"

\* full: supplies of 1C that are not on the list are closed.
Closed(m, s) ==
    /\ m.full /\ Accepted(m) # {}
    /\ s \in Invoices \ Accepted(m)
    /\ \/ supply[s] = "transit"
       \/ supply[s] = "arrived" /\ \E p \in Products : item[<<s, p>>].active

Listed(m) ==
    [supply |-> [s \in Batches |->
        IF s = Service THEN "arrived"
        ELSE IF Closed(m, s) THEN "arrived" ELSE SupplyAfter(m, s)],
     item |-> [k \in Keys |->
        IF k[1] = Service THEN item[k]
        ELSE IF Closed(m, k[1]) THEN [item[k] EXCEPT !.active = FALSE]
        ELSE AfterInvoice(m, k)]]

-----------------------------------------------------------------------------
(* fulfil_preorders                                                        *)

Sells(rows, k) == rows[k].active /\ Avail(rows[k]) > 0

\* Mutant: only the position that was ordered is looked at.
SourcesOwn(rows, k) == {x \in {k} : Sells(rows, x)}

\* The position that was ordered, or else the goods without a batch.
Sources(rows, k) ==
    IF Sells(rows, k) THEN {k} ELSE {x \in {<<Service, k[2]>>} : Sells(rows, x)}

\* Mutant: the preorder stays with the position it was made for.
FulfilledAt(i, k, take) == [preorders[i] EXCEPT !.packs = take, !.state = "ready"]

Fulfilled(i, k, take) ==
    [preorders[i] EXCEPT !.packs = take, !.state = "ready", !.item = k]

\* The next preorder by created_at, when those before it are done: from a
\* position that is on sale it takes what it asks for, or what there is.
LookAt(db, n, done) ==
    LET p    == preorders[n]
        from == IF /\ p.state = "waiting" /\ p.item # None
                   /\ p.item[1] \in Invoices
                   /\ db.supply[p.item[1]] = "arrived"
                THEN Sources(done.item, p.item) ELSE {}
    IN  IF from = {} THEN done
        ELSE LET k    == CHOOSE k \in from : TRUE
                 take == IF p.packs < Avail(done.item[k]) THEN p.packs
                         ELSE Avail(done.item[k])
             IN  [item |-> [done.item EXCEPT ![k].reserved = @ + take],
                  preorders |-> [done.preorders EXCEPT ![n] = Fulfilled(n, k, take)]]

\* After[n]: the rows and preorders when the first n preorders have been
\* looked at.
Fulfil(db) ==
    LET After[n \in 0..NPreorders] ==
            IF n = 0 THEN [item |-> db.item, preorders |-> preorders]
            ELSE LookAt(db, n, After[n - 1])
    IN  After[NPreorders]

\* What apply_supplies makes of the tables.
Supplied(m) ==
    LET done == Fulfil(Listed(m))
    IN  [supply |-> Listed(m).supply, item |-> done.item, preorders |-> done.preorders,
         gone |-> {s \in Invoices : Deleted(m, s)}]

\* What apply_products makes of them, for lines with a price and a quantity.  It
\* does not look at preorders.
Restocked(m) ==
    [supply |-> supply,
     item |-> [k \in Keys |->
        LET row   == item[k]
            stock == IF row.on THEN Less(m.qty[k], k) ELSE m.qty[k]
        IN  IF k[1] # Service \/ k \in m.bad THEN row
            ELSE CASE k \in m.given ->
                        [row EXCEPT !.on = TRUE, !.stock = stock, !.active = stock > 0]
                   [] k \notin m.given /\ m.full ->
                        [row EXCEPT !.stock = 0, !.active = FALSE]
                   [] OTHER -> row],
     preorders |-> preorders,
     gone |-> {}]

Outcome(m) == IF m.kind = "supplies" THEN Supplied(m) ELSE Restocked(m)

-----------------------------------------------------------------------------
(* The site serves 1C                                                      *)

\* sync_supplies or sync_products starts on a message: lock_exchange lets one in
\* at a time, pending_packs counts what 1C does not know of yet.
BeginSync ==
    /\ message # None /\ counted = None
    /\ counted' = Pending
    /\ still' = TRUE
    /\ UNCHANGED <<siteVars, draft, onecVars, message, settled, lost>>

\* The rows and preorders are loaded and worked on in memory.
ReadTables ==
    /\ counted # None /\ draft = None
    /\ draft' = [old |-> [supply |-> supply, item |-> item, preorders |-> preorders],
                 new |-> Outcome(message)]
    /\ UNCHANGED <<siteVars, counted, still, onecVars, message, settled, lost>>

\* An UPDATE sets the columns whose value has changed in memory, and no others.
Column(now, old, new) == IF new = old THEN now ELSE new

\* A row that was deleted in memory is deleted whatever it holds.
RowWritten(k) ==
    LET old == draft.old.item[k]
        new == draft.new.item[k]
    IN  IF old.on /\ ~new.on THEN Absent
        ELSE [on |-> Column(item[k].on, old.on, new.on),
              stock |-> Column(item[k].stock, old.stock, new.stock),
              reserved |-> Column(item[k].reserved, old.reserved, new.reserved),
              active |-> Column(item[k].active, old.active, new.active)]

\* The commit fails if a preorder it serves has been deleted, or a row it
\* deletes is pointed to by now; the rows of a supply that goes are unhooked.
Writable ==
    /\ \A i \in PreorderIds :
        draft.new.preorders[i] = draft.old.preorders[i] \/ preorders[i] = draft.old.preorders[i]
    /\ \A k \in Keys :
        draft.old.item[k].on /\ ~draft.new.item[k].on /\ Referenced(k) => k[1] \in draft.new.gone

\* Deleting a supply leaves its orders and preorders without a position.
Unhooked(x) ==
    IF x.item # None /\ x.item[1] \in draft.new.gone THEN [x EXCEPT !.item = None] ELSE x

Overwritten(k) ==
    /\ draft.new.item[k].reserved # draft.old.item[k].reserved
    /\ item[k].reserved # draft.old.item[k].reserved

\* The commit of apply_supplies or apply_products.
CommitSync ==
    /\ draft # None /\ Writable
    /\ supply' = [s \in Batches |-> Column(supply[s], draft.old.supply[s], draft.new.supply[s])]
    /\ item' = [k \in Keys |-> RowWritten(k)]
    /\ preorders' = [i \in PreorderIds |->
                        Unhooked(Column(preorders[i], draft.old.preorders[i], draft.new.preorders[i]))]
    /\ orders' = [o \in OrderIds |-> Unhooked(orders[o])]
    /\ settled' = still
    /\ lost' = (lost \/ \E k \in Keys : Overwritten(k))
    /\ counted' = None /\ draft' = None /\ still' = FALSE
    /\ UNCHANGED <<onecVars, message>>

\* dry_run, or a commit that fails: nothing is written.
RollBack ==
    /\ counted # None
    /\ counted' = None /\ draft' = None /\ still' = FALSE
    /\ UNCHANGED <<siteVars, onecVars, message, settled, lost>>

-----------------------------------------------------------------------------
(* 1C (external)                                                           *)

\* A document is made of an order; a live one takes its packs from the batch.
Document(o) ==
    /\ Stale \/ message = None
    /\ orders[o].state # "none" /\ o \notin documents
    /\ documents' = documents \cup {o}
    /\ books' = IF orders[o].state = "live" /\ orders[o].item # None
                THEN [books EXCEPT ![orders[o].item] = @ - orders[o].packs] ELSE books
    /\ dropped' = IF orders[o].state = "live" THEN dropped ELSE dropped \cup {o}
    /\ UNCHANGED <<siteVars, syncVars, posted, message, settled, lost>>

\* What the shop does ends the calm of an exchange.
ShopActs ==
    /\ settled' = FALSE /\ still' = FALSE
    /\ UNCHANGED <<counted, draft, onecVars, message, lost>>

\* orders/ack
Confirm(o) ==
    /\ Stale \/ message = None
    /\ counted = None
    /\ o \in documents /\ ~orders[o].exported
    /\ orders' = [orders EXCEPT ![o].exported = TRUE]
    /\ ShopActs
    /\ UNCHANGED <<supply, item, preorders>>

Receive(s) ==
    /\ message = None /\ posted[s] = "transit"
    /\ posted' = [posted EXCEPT ![s] = "received"]
    /\ UNCHANGED <<siteVars, syncVars, books, documents, dropped, message, settled, lost>>

CancelInvoice(s) ==
    /\ message = None /\ posted[s] # "cancelled"
    /\ posted' = [posted EXCEPT ![s] = "cancelled"]
    /\ UNCHANGED <<siteVars, syncVars, books, documents, dropped, message, settled, lost>>

\* 1C cancels an order: its packs are free in the books at once.  The job of
\* docs/1C_INTEGRATION.md tells the site after the remainders (steps 4 and 5).
DropOrder(o) ==
    /\ o \in documents \ dropped
    /\ orders[o].state = "live" /\ orders[o].item # None
    /\ dropped' = dropped \cup {o}
    /\ books' = [books EXCEPT ![orders[o].item] = @ + orders[o].packs]
    /\ UNCHANGED <<siteVars, syncVars, posted, documents, message, settled, lost>>

\* One batch of the message may be sent without lines, or be refused, or
\* have a line in error, or lack one.
Message(kind, listed, full, odd, k) ==
    [kind |-> kind, listed |-> listed, full |-> full, status |-> posted,
     qty |-> [x \in Keys |-> IF books[x] > 0 THEN books[x] ELSE 0],
     known |-> documents \ dropped,
     given |-> (listed \X Products) \ (IF odd \in {"bad", "missing"} THEN {k} ELSE {}),
     bad |-> IF odd = "bad" THEN {k} ELSE {},
     bare |-> IF odd = "bare" THEN {k[1]} ELSE {},
     refused |-> IF odd = "refused" THEN {k[1]} ELSE {}]

\* full: all that are on their way or have something left.
Untold == {o \in dropped : orders[o].state = "live"}

SendSupplies ==
    /\ message = None /\ counted = None /\ (TellFirst => Untold = {})
    /\ \E listed \in SUBSET Invoices, full \in BOOLEAN, odd \in Oddities \cup {"none"}, k \in Keys :
        /\ listed # {} /\ k[1] \in listed /\ (odd = "none" \/ k[1] \in Odd)
        /\ full => \A s \in Invoices \ listed :
                       /\ posted[s] # "transit"
                       /\ posted[s] = "cancelled" \/ \A p \in Products : books[<<s, p>>] = 0
        /\ message' = Message("supplies", listed, full, odd, k)
    /\ UNCHANGED <<siteVars, syncVars, onecVars, settled, lost>>

SendProducts ==
    /\ message = None /\ counted = None /\ (TellFirst => Untold = {})
    /\ \E full \in BOOLEAN, odd \in (Oddities \ {"bare", "refused"}) \cup {"none"}, p \in Products :
        /\ odd = "none" \/ Service \in Odd
        /\ message' = Message("products", {Service}, full, odd, <<Service, p>>)
    /\ UNCHANGED <<siteVars, syncVars, onecVars, settled, lost>>

\* The answer comes, or 1C gives up.
Done ==
    /\ message # None /\ counted = None
    /\ message' = None /\ settled' = FALSE
    /\ UNCHANGED <<siteVars, syncVars, onecVars, lost>>

-----------------------------------------------------------------------------
(* The shop                                                                *)

ShopMoves == Overlap \/ counted = None

\* place_order, for one line.
Order(o, k, n) ==
    /\ ShopMoves
    /\ orders[o].state = "none"
    /\ item[k].active /\ n <= Avail(item[k])
    /\ orders' = [orders EXCEPT ![o] = [state |-> "live", batch |-> k, item |-> k,
                                        packs |-> n, exported |-> FALSE]]
    /\ item' = [item EXCEPT ![k].stock = @ - n,
                            ![k].active = Avail(item[k]) > n]
    /\ ShopActs
    /\ UNCHANGED <<supply, preorders>>

\* What stays of the reserve when n packs are freed (max(0, reserved - want)).
Freed(row, n) == IF row.reserved > n THEN row.reserved - n ELSE 0

\* A preorder that has arrived is moved into the cart, which frees its reserve,
\* and ordered (Preorders has these one by one).  Where a reserve was lost, only
\* what there is of it can be moved, or else what is free.
Moved(row, n) ==
    LET most == IF row.reserved > 0 THEN row.reserved ELSE Avail(row)
    IN  IF n < most THEN n ELSE most

TakeReady(o, i) ==
    /\ ShopMoves
    /\ orders[o].state = "none"
    /\ preorders[i].state = "ready" /\ preorders[i].item # None
    /\ LET k == preorders[i].item
           n == Moved(item[k], preorders[i].packs)
           left == [item[k] EXCEPT !.stock = @ - n, !.reserved = Freed(item[k], n)]
       IN  /\ item[k].active /\ n > 0 /\ n <= item[k].stock
           /\ orders' = [orders EXCEPT ![o] = [state |-> "live", batch |-> k, item |-> k,
                                               packs |-> n, exported |-> FALSE]]
           /\ item' = [item EXCEPT ![k] = [left EXCEPT !.active = @ /\ Avail(left) > 0]]
    /\ preorders' = [preorders EXCEPT ![i] = [NoPreorder EXCEPT !.state = "gone"]]
    /\ ShopActs
    /\ UNCHANGED supply

\* add_preorder_to_db, for goods on their way.
AskFor(i, k, n) ==
    /\ ShopMoves
    /\ preorders[i].state = "none"
    /\ \A j \in PreorderIds : j < i => preorders[j].state # "none"
    /\ supply[k[1]] = "transit" /\ item[k].on
    /\ preorders' = [preorders EXCEPT ![i] = [state |-> "waiting", item |-> k, packs |-> n]]
    /\ ShopActs
    /\ UNCHANGED <<supply, item, orders>>

\* A preorder is given up; one that has arrived, by way of the cart: what it had
\* in reserve is free.
GiveUp(i) ==
    /\ ShopMoves
    /\ preorders[i].state \in {"waiting", "ready"}
    /\ IF preorders[i].state = "ready"
       THEN /\ preorders[i].item # None /\ item[preorders[i].item].active
            /\ item' = [item EXCEPT ![preorders[i].item].reserved =
                          Freed(item[preorders[i].item], preorders[i].packs)]
       ELSE UNCHANGED item
    /\ preorders' = [preorders EXCEPT ![i] = [NoPreorder EXCEPT !.state = "gone"]]
    /\ ShopActs
    /\ UNCHANGED <<supply, orders>>

\* _return_stock and _put_back_on_shelf, for a batch of 1C or goods without one.
Returned(o) ==
    LET k    == orders[o].item
        back == [item[k] EXCEPT !.stock = @ + orders[o].packs]
    IN  IF k = None THEN item
        ELSE [item EXCEPT ![k] =
                [back EXCEPT !.active = @ \/ (Avail(back) > 0 /\ supply[k[1]] = "arrived")]]

StaffCancels(o) ==
    /\ ShopMoves
    /\ orders[o].state = "live"
    /\ item' = Returned(o)
    /\ orders' = [orders EXCEPT ![o].state = "cancelled"]
    /\ ShopActs
    /\ UNCHANGED <<supply, preorders>>

\* The same, by orders/status: an order of which 1C sends a status is exported.
TellDropped(o) ==
    /\ message = None /\ counted = None
    /\ o \in Untold
    /\ item' = Returned(o)
    /\ orders' = [orders EXCEPT ![o].state = "cancelled", ![o].exported = TRUE]
    /\ ShopActs
    /\ UNCHANGED <<supply, preorders>>

\* _take_stock: what has no position any more is not asked for.
StaffResumes(o) ==
    /\ ShopMoves
    /\ orders[o].state = "cancelled" /\ (ResumesAll \/ o \notin dropped)
    /\ LET k == orders[o].item
           left == [item[k] EXCEPT !.stock = @ - orders[o].packs]
       IN  IF k = None THEN UNCHANGED item
           ELSE /\ orders[o].packs <= Avail(item[k])
                /\ item' = [item EXCEPT ![k] =
                              [left EXCEPT !.active = @ /\ Avail(left) > 0]]
    /\ orders' = [orders EXCEPT ![o].state = "live"]
    /\ ShopActs
    /\ UNCHANGED <<supply, preorders>>

\* close_stale_supplies: 1C has not sent the invoice for STALE_DAYS.
CloseStale(s) ==
    /\ ShopMoves
    /\ supply[s] = "transit"
    /\ supply' = [supply EXCEPT ![s] = "arrived"]
    /\ item' = [k \in Keys |-> IF k[1] = s THEN [item[k] EXCEPT !.active = FALSE] ELSE item[k]]
    /\ ShopActs
    /\ UNCHANGED <<orders, preorders>>

Next ==
    \/ BeginSync \/ ReadTables \/ CommitSync \/ RollBack
    \/ SendSupplies \/ SendProducts \/ Done
    \/ \E s \in Invoices : Receive(s) \/ CancelInvoice(s) \/ CloseStale(s)
    \/ \E o \in OrderIds :
        \/ Document(o) \/ Confirm(o) \/ DropOrder(o) \/ TellDropped(o)
        \/ StaffCancels(o) \/ StaffResumes(o)
        \/ \E k \in Keys, n \in Packs : Order(o, k, n)
        \/ \E i \in PreorderIds : TakeReady(o, i)
    \/ \E i \in PreorderIds :
        \/ GiveUp(i)
        \/ \E k \in Keys, n \in Packs : AskFor(i, k, n)

Spec == Init /\ [][Next]_vars

-----------------------------------------------------------------------------
(* Properties                                                              *)

\* The values the tables may take; reserves and stock are never negative.
SyncTypeOK ==
    /\ supply \in [Batches -> {"none", "transit", "arrived"}]
    /\ item \in [Keys -> [on : BOOLEAN, stock : Nat, reserved : Nat, active : BOOLEAN]]
    /\ orders \in [OrderIds -> [state : {"none", "live", "cancelled"},
                                batch : Keys \cup {None}, item : Keys \cup {None},
                                packs : Nat, exported : BOOLEAN]]
    /\ preorders \in [PreorderIds -> [state : {"none", "waiting", "ready", "gone"},
                                      item : Keys \cup {None}, packs : Nat]]
    /\ counted = None \/ counted \in [Keys -> Nat]

Withdrawn(k) == k[1] \in Invoices /\ posted[k[1]] = "cancelled"

SoldOf(k) == PacksOf({o \in OrderIds : orders[o].state = "live" /\ orders[o].batch = k})

\* What the site still offers of a batch and what it has sold of it are
\* together no more than came in it, whatever 1C sends and whenever.  The code
\* does not give that: README, section 5, has four ways to break it.
NothingIsResold ==
    \A k \in Keys : item[k].on /\ ~Withdrawn(k) => item[k].stock + SoldOf(k) <= Shipped[k]

\* The message says what is left of k, in a line that can be read.
SaysOf(m, k) ==
    /\ k \in m.given \ m.bad
    /\ IF m.kind = "supplies" THEN k[1] \in Accepted(m) \ m.bare ELSE k[1] = Service

\* 1C knew the orders of k when it sent the message, and held them as live, or
\* they are counted as unexported.
KnowsOrdersOf(m, k) ==
    \A o \in OrderIds :
        orders[o].state = "live" /\ orders[o].batch = k => o \in m.known \/ ~orders[o].exported

\* Whatever went wrong before, sales in the middle of an exchange, late messages,
\* orders 1C holds as cancelled that staff has taken back: an exchange the shop
\* does not disturb puts the shelf right, and unconfirmed orders are not sold
\* again ("Страховка от перепродажи", docs/1C_INTEGRATION.md; pending_packs).
ShelfIsRight ==
    settled => \A k \in Keys :
        SaysOf(message, k) /\ KnowsOrdersOf(message, k) /\ ~Withdrawn(k) =>
            item[k].stock = 0 \/ item[k].stock + SoldOf(k) <= Shipped[k]

KeptPacks(set) == Total([i \in set |-> preorders[i].packs], set)

\* The reserve of a position is that of the preorders that have arrived on
\* it, however often supplies are rewritten, closed or deleted, and whatever the
\* shop does while an exchange is applied, until an exchange that serves
\* preorders writes a reserve that has changed since it read it
\* (fulfil_preorders; that one way to lose a reserve is reserve_lost, README).
ReserveIsOwned ==
    ~lost => \A k \in Keys :
        item[k].reserved =
            KeptPacks({i \in PreorderIds : preorders[i].state = "ready"
                                           /\ preorders[i].item = k})

\* When supplies have been applied and the shop has stood still meanwhile, nobody
\* is left waiting for goods that lie on the shelf, those of the supply or the
\* same without one (fulfil_preorders is repeated at every exchange).
ArrivedAreServed ==
    settled /\ message.kind = "supplies" =>
        \A i \in PreorderIds :
            preorders[i].state = "waiting" /\ preorders[i].item # None
            /\ supply[preorders[i].item[1]] = "arrived" =>
                /\ ~Sells(item, preorders[i].item)
                /\ ~Sells(item, <<Service, preorders[i].item[2]>>)

\* What customers can buy of a position and what is kept for them.
OnOffer(k) == <<item[k].stock, item[k].reserved, Sells(item, k)>>

\* A message 1C repeats because it got no answer changes nothing that is on
\* offer or kept (all operations are idempotent, docs/1C_PROGRAMMER_BRIEF.md),
\* except for a batch 1C has cancelled, and as long as no reserve was lost.
RepeatChangesNothing ==
    [][settled /\ settled' /\ ~lost =>
        \A k \in Keys : Withdrawn(k) \/ OnOffer(k)' = OnOffer(k)]_vars

\* The same for cancelled batches as well.
AnyRepeatChangesNothing ==
    [][settled /\ settled' => \A k \in Keys : OnOffer(k)' = OnOffer(k)]_vars
=============================================================================
