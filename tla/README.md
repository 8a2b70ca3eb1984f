# Diantus: the shop's stock, orders and exchanges in TLA+

Диантус is a wholesale flower shop: a FastAPI application (`src/app`), served by
several worker processes, with PostgreSQL for its data, Redis for browser sessions
and locks, and an exchange with 1C, the shop's accounting. What must not go wrong
is the stock: every pack is sold once, reserved packs go to the customer who
reserved them, what the shop holds agrees with the orders, and the site and 1C
agree with each other. This directory models the code that moves packs, orders,
products, accounts and sessions, checks the models with TLC on small instances,
and proves the main results with TLAPS for instances of any size.

Contents: 1 the system · 2 plan · 3 the modules · 4 the runs · 5 variations, and
where the code disagrees with what it says · 6 fairness · 7 proofs · 8 bounds and
abstractions · 9 not modelled · 10 how to run.

## 1. The system

The request handlers are synchronous functions in a thread pool. Each request
has one SQLAlchemy session (`database.py`, `get_db`): no autoflush, objects not
expired at commit, PostgreSQL's READ COMMITTED. The browser session is a JSON
document in Redis, loaded before the handler and saved whole with the response
(`session.py`). SQLite serves for development; it has no row locks, one writer at
a time, and enforces no foreign keys here.

| Component | State | Operations | Interacts with | Hard behaviour | Correct when |
|---|---|---|---|---|---|
| Stock and orders (`models.py`) | `supply_items` (stock, reserved_stock, is_active), `orders` (status, order_token), `order_items` | — | everything below | row locks, uniqueness | stock and orders agree |
| Cart and checkout (`routers/cart.py`) | cart and order_token of the session | add, update, remove, clear, cart page, checkout page, place_order, repeat_order, preorder_to_cart | sessions, stock, preorders, mail | two customers on the last packs; the form sent twice; crash after commit; lines merged or not | no pack sold twice, one order per form |
| Browser sessions (`session.py`) | Redis document or per-worker memory | load, save, delete, rotate | every route | two tabs overwrite each other; Redis down | who signs in gets a new identifier; a session ended while nobody else used it stays ended |
| Status changes (`services/orders.py`, `admin.py`, `integration_1c.py`) | order status, stock, is_active | lock order, return, take again, commit | stock, notifications | two clerks; clerk against checkout; objects loaded before the lock | packs return once, are taken again only when free |
| Preorders (`preorder_service.py`, `preorder_rules.py`) | preorders, reserved_stock | add, remove, fulfil, move to cart | supplies, cart | double move, two transactions per move | every reserved pack belongs to one preorder |
| Scheduler and unloading (`scheduler.py`, `admin.py`) | supply status, shelf | unload by hand, unload overdue supplies, enter, edit, delete supplies and positions | preorders, mail | admin and job at the same time; savepoints; deleted positions | a supply is unloaded once, one batch of a product on the shelf |
| 1C supplies (`supply_sync.py`) | supplies, items, reserves | apply a message, fulfil, close | preorders, stock | repeated, partial, late messages; orders 1C does not know | what 1C has sold and what the site has sold do not overlap |
| 1C products (`catalog_sync.py`) | products, stock of the service supply | match, create, overwrite | checkout, staff | goods without keys; two exchanges at once | one card per good |
| 1C orders (`integration_1c.py`, `integration_admin.py`) | exported_at, status | export, ack, status batch, the file of the integration page | status changes | lost reply, repeated batch, late request | each order reaches 1C, statuses agree |
| Dictionaries (`taxonomy.py`, `filters.py`) | kinds, colours, heights, countries | look up, create, adopt a 1C identifier, add, rename, delete | products, exchanges | each request looks up in its own memory | one entry per identifier |
| Accounts (`auth.py`, `admin.py`, `staff.py`, `legal.py`, `password_reset.py`) | users, consents and their journal, requests, links | register, approve, promote, demote, reject, erase, consent, reset | orders, 1C | read, decide, commit without locks | the journal tells the truth; an erased account stays shut |
| Legal documents (`services/legal.py`) | document, revisions | edit, agree | accounts | edit while a person reads | every version agreed to can be restored |
| Login (`auth.py`, `security.py`, `totp.py`) | failure counters, locks, used codes | login, second factor, unlock | Redis or memory | counters per worker when Redis is down | a code works once, mistakes are bounded |
| Start-up (`main.py`, `migrations.py`, `locks.py`) | tables, columns, flags of repairs, file locks | prepare the database, start the scheduler | database, kernel, supervisor | workers start together, die anywhere; most failures are swallowed | each repair once, the hourly job finds a worker |
| Catalogue, claims, notifications, documents, uploads, scripts | claims, mail, files | forms and queries | — | best effort | — |

`PROJECT.json` names the source files of each component and what is left out,
and lists the hazards at the lines where they bite.

## 2. Plan

Written, in this order: the shelf and the checkout (`Shelf`, `ShopDB`, `Cart`,
`StockLedger`, `Checkout`), status changes beside it (`StatusChange`,
`OrderDesk`), preorders and unloading (`PreorderDB`, `Preorders`, `Unloading`,
`SupplyPages`, `PreorderDesk`), the three exchanges with 1C (`OrderDelivery`,
`OrderExchange`, `OrderPage`; `SupplySync`; `CatalogSync`), the dictionaries,
accounts and legal texts, the start of the site, sessions and login.

Still wanted, in this order:

1. `repeat_order`, and the status batch of several orders in one database
   session (`integration_1c.py:617`), as an extension of `StatusChange`.
2. An abstract `Reservations` (each reserved pack has one owner) that
   `Preorders`, `Unloading` and `SupplySync` implement; the three state it as
   invariants of their own now.
3. Letters: what customers are told against what is committed
   (`scheduler.py:160`, `supply_sync.py`).
4. Theorems: type correctness of `CatalogSync`, `SignIn` and `LegalTexts`, and a
   reservation abstraction that the invariants of `PreorderProofs` and
   `SupplyProofs` are instances of.

## 3. The modules

### Shelf, cart and checkout

**`ShopDB`** – `rows`, `rowLock`, `orders` hold committed data. `Items` are
numbered because `ORDER BY id` fixes the locking order; `IsNext` is the next row
a `SELECT … ORDER BY id FOR UPDATE` asks for. `Avail` (in `Shelf`) is
`SupplyItem.available_stock`; stock is an integer, not a natural: whether it can
become negative is a question, not an assumption. Of the six order statuses the
stock distinguishes only «Отменён»; "new" and "confirmed" stand for the others,
so that a change which moves no stock exists too.

**`Cart`** – a line is (position, kind): *shelf* (added), *moved* (re-pointed by
the cart page to a newer batch) or *pre* (from a preorder). Up to three lines on
one position are what the code allows, and it matters: `place_order` looks at
each alone. The order of the list is not kept, so where the code addresses the
first ordinary line of a position (`_find_cart_index`, the merge in
`add_to_cart`), the model lets either be meant.

**`Checkout`** – a thread's life: `Begin` (session loaded) → a cart route, or
`Submit` → `LockRow` for each row → `Check` → `InsertOrder` → `Commit` →
`Placed` → `Finish` (session saved, locks freed by closing the database
session). Side exits: refusals, `Conflict` (IntegrityError), `Fail` (any other
exception, also after the commit), `Crash` anywhere. `sess` is the stored
session, `data` the request's copy of it; the difference is what lost updates
are made of. `shown` is the set of tokens in forms the browser has on screen,
which it may send at any time and any number of times. `InsertOrder` waits for an
uncommitted insert of the same token, as a unique index does. The deduction
(lines 760–765) works on objects in memory and reaches the database with the
flush and commit, so it is part of `Commit`.

**`StockLedger`** – an order appears, its packs leave the stock of that moment,
its token was unused: one step. `Checkout` implements it with the identity
mapping on `rows` and `orders` (`LedgerKept`).

**`StatusChange`** – `Open` locks the order row, `Load` runs the SELECTs that
follow it without locks, `LockItem` locks stock rows in order, `Return` or
`Take` computes, `CommitStatus` flushes and commits. The objects of `Load`
(`cache`) are *not* refreshed by the locking SELECT: `OrderItem.supply_item` is
`lazy="selectin"`, so they are already in the identity map, and SQLAlchemy
refreshes present objects only with `populate_existing`. `Flushed` writes only
columns that differ from what was loaded. Supplies are of four kinds, as
`_put_back_on_shelf` distinguishes them.

Two sets of behaviours are made of it: `StaffSafety`, staff alone on any database
(`StaffAlone`), where `OrdersApart` says that no two orders share a position, and

**`OrderDesk`** – checkouts and status changes on one database that may already have
orders (`InitOrders`, whose tokens are unique, as the index on `order_token` is).

### Preorders and unloading

**`PreorderDB`** – the shelf, supply statuses and preorders, and what open
transactions have written. The only handler that writes and then goes on for long
before it commits is an unloading, so only it has writes of its own: `reset` (rows
the bulk UPDATE took off the shelf), `draft`, `fulfilled`, `closed`. `FreeOf` is
who must wait: PostgreSQL for the row, SQLite for the whole database. `Database`
chooses, because the two differ where it matters.

**`SupplyPages`** – the administrator enters a supply and its positions, recounts,
edits the status, takes a supply off the shelf, deletes a position or a supply.
`Detached` is `_detach_supply_items`: a position that goes takes the references
of preorders along. Each is one committed step.

**`Unloading`** – `OpenUnload` (administrator, one supply, any status) or
`OpenOverdue` (the hourly job, any nonempty set of supplies on the way or arrived)
loads the batches; for each supply `ClearShelf` sends the bulk UPDATE and reads
the waiting preorders, `Flush` writes the changed columns of batches and
preorders, `SkipSupply` goes back to the savepoint when a preorder is gone;
`CommitUnload` or `LostUnload` ends it. `item` and `found` are the objects as they
were loaded: `Flushed` compares with them, not with the rows, as SQLAlchemy does
after an UPDATE with `synchronize_session=False`.

**`Preorders`** – adding is `AddCheck`, `AddLook`, `AddWrite`, since the position,
the waiting preorder and the commit are separate moments; removing is
`RemoveFind`, `RemoveWrite`; moving is `MoveFind`, `MoveLock`, `MoveTake` (first
commit), `MoveMerge` (second commit), `Answer` (the session). Carts hold only the
`from_preorder` lines.

**`PreorderDesk`** – puts them on one database. `Overlap` says whether handlers
interleave; with `FALSE` one runs at a time, which still may be cut off between
its commits. `Opening` is what may be in the tables at first: reserves that are
owed, one lorry on the shelf, no preorder twice; the initial tables of the runs are
instances of it.

**`Totals`** – the sum over a set, as a recursive function, for the packs of
preorders and orders.

### Exchange with 1C

1C is not in the repository; it is modelled by what `docs/1C_INTEGRATION.md` asks
of it and by what the handlers accept from it.

**`OrderDelivery`** – abstract: an order placed on the site comes to 1C, and is
confirmed only when 1C has it.

**`OrderExchange`** – `Insert`, `Settle`: an order gets its id before it is
committed, so a later id may be visible earlier. `ServeExport`, `ServeAck`,
`ServeStatus` are the three handlers; a status batch is one step per order, since
each is committed on its own: `SettleOne`, or `RefuseOne` (a cancelled order whose
goods are sold). The reply names at most `MaxErrors` of the refused orders and counts
the settled ones; 1C takes the orders that are not named as settled only if the
numbers account for its whole batch (`Accounted`). Staff changes any order at any
time; `untouched` remembers which orders nobody has changed since their batch was
dealt with. `Lose` loses a request or a reply; `GiveUp` is a time-out, after which a
request may still be served (`late`, for the kinds in `Lagging`). `job` is 1C's loop:
ask, load, tell. The mapping to `OrderDelivery`: placed is `Stored`, known is
`documents`, confirmed is `exported`.

**`OrderPage`** – the same with an administrator who downloads the file of waiting
orders, loads it into 1C and presses the button that marks them.

**`SupplySync`** – one exchange is `BeginSync` (orders 1C does not know are counted),
`ReadTables` (rows and preorders are loaded and worked on in memory), and
`CommitSync` or `RollBack`. `draft` holds what was read and what became of it;
`CommitSync` writes a column only if it differs from what was read, as a value
(`Column`, `RowWritten`), so what the shop did to that column meanwhile is lost, and
what it did to others is kept; it fails when a served preorder or a row is gone
(`Writable`). `AfterLines`, `AfterBare`, `SupplyAfter`, `Closed` and `Fulfil` (the loop
of `fulfil_preorders`, one preorder per turn in the order of their numbers, `LookAt`)
are what one message makes of the tables (`Supplied`, `Restocked`), named after the
parts of `apply_supplies`; `Less` is the withholding of packs that unexported orders
hold. 1C is its books: what is left of each batch for the orders it has documents
for. A message may be a full list, leave out a batch, have a batch without lines, or
a line that is refused. Four constants say how orderly the world is: `Overlap`, whether
the shop goes on while an exchange is applied; `Stale`, whether 1C goes on while its
message is; `TellFirst`, whether it reports cancelled orders before it sends
remainders (the job of `docs/1C_INTEGRATION.md`, section 3, does so after them);
`ResumesAll`, whether staff takes back an order that 1C holds as cancelled. The run
takes all four as the program does: nothing is orderly. `still`, `settled` and `lost`
record which exchanges were disturbed, for the properties.

**`CatalogSync`** – `Begin` reads the catalogue, `KnownLine`, `NewLine`,
`SkippedLine` decide line by line in memory, `Commit` writes what has changed.
`Find` is `Catalog.find` with its order of keys (identifier, barcode, article,
name) and its refusals; `Indexed` keeps the dictionaries as `register` does.
`MayEnter` is the advisory lock. Staff adds, edits and deletes the same products
without any lock.

**`Dictionaries`** – whoever brings values loads the table (`Begin`), resolves them
in its own memory (`Resolved`: by id, by identifier of 1C, by name) and commits
(`Commit`, which the unique indexes may refuse). `CarryOver` and `Seed` are the
start of the site, `AddValue`, `EditValue`, `DeleteValue`, `ChooseValue` the pages.
A name is a key, as `fold` compares it, and a form, as the unique index does.

### People

**`Accounts`** – every handler loads, decides and commits: the decision is put
into `job`, and `Commit` carries it out on the tables of that moment. A column
that did not change is not written (`Written`). The journal keeps the last word
per consent. `SyncClient` is the line of `clients/sync` that names an account by
its number. `Overlap` chooses one request at a time or any interleaving.

**`LegalTexts`** – a document, its former versions, and people who read one text
and agree to the version current when their form arrives.

**`Sessions`** – `Begin` loads (Redis, else the worker's memory), `Respond` saves in
one place, drops the old identifier when the session is renewed or cleared, and
may lose its cookie. Redis fails and recovers, workers restart and then do or do
not find Redis (`linked`). `ended` records identifiers ended while no other
request used them and no call had failed: a request under way with one saves it once more (`session.py:176`),
*old_session* in section 5.

**`SignIn`** – failures, locks and used codes, each in Redis or in a worker's
memory; the stages of a login are separate steps.

### Start

**`Startup`** – a worker waits for the file lock, walks through `Order`: looks
whether a step's trace is there, then does it; a repair sets its flag in a
transaction of its own before its work. What may fail without stopping the start
does (`StepFails`, `WorkFails`): columns and indexes (`_exec_one`), the flag and the
work of a repair, the administrator (no or unusable entry in `.env`, an address that
is taken, any exception) and the documents; the worker serves all the same. Then it
tries the scheduler's lock once: it gets it, is refused, or gets it and cannot start
the scheduler (`SchedulerFails`, `broken`). It may die anywhere; the supervisor starts
it again. `Faults` names the steps of a run that may fail; the proofs are for any.

`CheckoutMC`, `StatusMC`, `OrderDeskMC`, `PreorderMC`, `OrderExchangeMC`,
`SupplySyncMC`, `CatalogSyncMC`, `AccountsMC`, `DictionariesMC`, `SessionsMC` define
instances for TLC; the proofs are in
`CheckoutProofs` (checkout, status changes, both together), `PreorderProofs`,
`SupplyProofs`, `OrderExchangeProofs`, `CatalogProofs`, `DictionariesProofs`
(dictionaries and `Startup`), `AccountsProofs` (accounts and `Sessions`) and
`TotalsProofs` (sums).

## 4. The runs

| Run | Checks | Instance | States | Shows |
|---|---|---|---|---|
| `checkout_onebrowser` | `OneOrderPerToken`, `SingleLineOrdersFit`, `LedgerKept` | 2 threads, 1 browser with tabs, 2 tokens, 2 rows of few packs, 2 order ids, the cart routes | 1.3 million | Two threads serve one browser whose tabs edit the cart, reopen the checkout page, send a form again after a crash and overwrite each other's session: a form makes at most one order, each order is one step of the stock ledger, and nobody is promised more than there is. |
| `status_apart` | `StockFollowsOrders`, `RetakenOrdersFit`, `CancelledGoodsAreBack` | 2 clerks, an order on 2 rows and one on a third, four kinds of supply | 9016 | Two staff sessions cancel and take back orders that share no stock row, both possibly the same order: packs return once, and are taken again only if they are free. |
| `desk` | `HeldRowsAreFresh`, `EveryRequestEnds`, `EveryStatusChangeEnds` | 1 customer, 1 clerk, 2 common rows | 20 000 | A checkout and a status change on the same rows: the checkout still decides on current rows, and both end. |
| `preorder_serial` | `ReserveHasOwners`, `OneSupplyOnShelf`, `PreordersPointAtLines` | 2 customers, 1 unloader, a lorry slot, a lorry and a 1C batch of one product, 2 preorder ids, SQLite, one handler at a time, cut off anywhere | 869 000 | Customers, unloadings and the supply pages one handler at a time, each cut off anywhere between its commits: no reserve loses its owner, no preorder its position, and one lorry of a product is on the shelf. |
| `preorder_overlap` | `OneWaitingEach`, `GoodsOf1CStay` | 1 customer, 1 unloader, 2 lorries, a third batch of 1C, PostgreSQL, every interleaving | 354 000 | A customer's requests and sales interleave with every step of an unloading on PostgreSQL, with deleted preorders met by the flush and savepoints rolled back. |
| `orders_exchange` | `NoOrderIsForgotten`, `SiteFollows1C`, `ExchangeDelivers` | 2 orders, 1 per reply, 1 error per reply, 1 late confirmation or status batch, any number of lost replies | 50 000 | Orders are exported, confirmed and their statuses sent while replies are lost, requests outlive their time-out, status batches are refused in part with a reply that cannot name every refusal, and staff changes any order: no order is left out, 1C concludes from its replies only what the site has, and the exchange implements OrderDelivery. |
| `supplies_exchange` | `ShelfIsRight`, `ReserveIsOwned`, `ArrivedAreServed`, `RepeatChangesNothing` | 1 product in a batch of two packs and without one, 1 order, 2 preorders; messages late, in part, without lines or lacking one; the shop goes on during an exchange | 1.6 million | 1C sends batches and remainders, whole or in part, late or repeated, and cancels orders before or after it tells the site; each exchange counts, reads and commits at different moments while the shop goes on: an exchange the shop did not disturb puts the shelf right whatever went wrong before, reserves have owners, arrived preorders are served, and a repeated message changes nothing on the shelf. |
| `catalog_exchange` | `OneCardPerGood`, `GoodsKeepApart`, `CardKeepsItsGood`, `BadLineKeepsStock` | 2 goods, 2 names, 2 sessions, 2 product ids, 2 lines per message, staff adds, edits and deletes | 77 000 | Two exchanges and staff that edits the same products: each good of 1C has one card, no card changes its good, and a line that cannot be read leaves the stock alone. |
| `accounts` | `JournalAgrees`, `ErasedStaysShut` | 2 people (one administrator), 2 requests, 2 links, one request at a time | 1.8 million | Accounts are made, approved, promoted, demoted, rejected and erased, consents given and withdrawn, passwords set by link or by staff, one request at a time with commits that fail: the journal says what the account says, and an erased account stays shut. |
| `startup` | `EachRepairOnce`, `SomebodySchedules`, `StartsSettle` | 2 workers started up to three times; the columns, a repair retried and one not, the administrator and the scheduler may fail | 1.5 million | Two workers start up to three times each and die at any step, while the columns, a repair, the administrator and the scheduler may fail at any start: a repair is done once, a site in service has its hourly job unless it would not start, and in the end all workers serve. |
| `dictionaries` | `OneEntryPerCode`, `CodeIsKept` | 2 names, 2 identifiers, 1 product, 2 sessions, 3 entry ids, PostgreSQL | 321 000 | The start, an exchange, a file and the pages of staff bring, rename, adopt and delete entries at the same time on PostgreSQL: an identifier of 1C has one entry, and an entry keeps its identifier. |
| `sessions` | `SignedInIdIsNew`, `EndedStaysEnded` | 2 workers, 2 tabs, 3 identifiers, one outage or restart | 365 000 | Two tabs load and save one session on two workers while Redis fails or a worker restarts: who is signed in has an identifier given out for that, and a session ended while no other request was using it stays ended as long as nothing failed. |

`status_apart` is restricted to orders without a common row because with one
`StockFollowsOrders` is false (`stale_cancel`, section 5): the run shows that the
order lock does its part, and that the missing refresh is the only cause.
`ReserveHasOwners` is checked one handler at a time because a preorder removed or
re-pointed while it is being fulfilled leaves its packs reserved for nobody.
`accounts` has one request at a time: with two, `ErasedStaysShut` is false
(`shut_overlap`, section 5); `JournalAgrees` holds either way (section 7). In
`supplies_exchange` the shop, 1C and the exchange interleave; packs can then be sold
twice (`NothingIsResold`, section 5), and the run asks whether an exchange that nobody
disturbs puts that right.

For each property of a run `PROJECT.json` names a mutant: a plausible bug (no unique
index, locks in any order, an availability check that ignores reserves, an export
that marks what it offers, an exchange that ignores unexported orders, …) under
which TLC finds the property violated. Their operators stand before the definition
they replace and are marked "Mutant".

Configurations kept beside the regular runs, run the same way (that two customers
who lock overlapping carts row by row keep the properties of `checkout_onebrowser`,
and that `preorder_serial` holds for any supplies, are theorems of section 7):

| Configuration | Module | Asks | Answer |
|---|---|---|---|
| `sign_in` | `SignIn` | `CodeWorksOnce`, `TriesAreBounded` | hold as long as Redis answers |
| `legal_texts` | `LegalTexts` | `HistoryIsWhole`, `NoTextIsLost`, one edit at a time | hold |
| `stale_cancel` | `OrderDeskMC` | `StockFollowsOrders` beside a checkout | violated, section 5 |
| `marked_unseen` | `OrderPage` | `NoOrderIsForgotten` with the integration page | violated, section 5 |

## 5. Variations, and where the code disagrees with what it says

Each of these is one property on one instance, which TLC refutes within seconds to
a minute. `stale_cancel` and `marked_unseen` are the configurations above; a name in
italics is a listed configuration with the change given beside it.

*Stock and checkout*

* `stale_cancel` – a status change that waited for a row computes from the stock
  it loaded before the wait and overwrites what the checkout wrote.
  `services/orders.py:8–11` promises that packs return and names the locks as the
  means.
* *oversell* (`checkout_onebrowser` with a second browser, `Product <- Batches`, `InitRows <-
  SinglePacks`, `InitCarts <- OverlapFirst`, `Routes = {"view"}`; `NoOversell`) –
  `cart_page` re-points a line to the newest batch and leaves it beside a line of
  that batch; `place_order` (`cart.py:711`) compares each line with what is available
  but deducts both. Stock becomes negative; `tests/test_critical.py:96` says
  «Проверяем, что stock не уходит в минус». With one line per position the check is
  right: `OrdersFit`.
* *told_already* (one browser, `InitRows <- TwoRows`, `InitCarts <- OneEach`;
  `ToldAlreadyIsPlaced`) – two checkout pages opened at once mint two tokens; the
  session saved last keeps one. The form with the other is told «Заказ уже оформлен»
  (`cart.py:642`), although no order exists.
* *edited_resubmission* (the same with `Routes = {"update"}`;
  `DuplicateIsTheSameOrder`) – after a commit whose response is lost, the token and
  the cart are still in the session. If the customer edits the cart and sends it, the
  conflict is taken for a double click (`cart.py:799`) and the new cart is emptied.
* *twin_batches* (`status_apart` with `Product <- Batches`, `Supply <- Manual`,
  `InitStock <- SoldOut`, `InitOrders <- TwinOrders`; `NoTwinBatches`) – two
  cancellations at once put two batches of a product on the shelf, what
  `_put_back_on_shelf` (`orders.py:90`) says it avoids.

*Preorders* (variations of `preorder_overlap` or `preorder_serial` with one lorry,
`InitRows <- OneLorry`, unless said otherwise)

* *stranded_preorder* (`ArrivedCanBeTaken`) – customers preorder all that a lorry
  brings. The unloading tells them so (`scheduler.py:132`) and leaves the batch
  inactive, because nothing is left for others; moving the preorder is refused as
  «ещё не активирован» (`preorder_service.py:251`).
* *unload_twice* (`Traffic = {"unload", "edit"}`; `UnloadFillsShelf`) – unloading a
  supply whose batches are on the shelf takes them off, and nothing puts them back:
  the objects in memory show no change. `templates/supply_form.html:28` offers it.
* *twin_unload* (two unloaders, two lorries; `OneSupplyOnShelf`) – two overlapping
  unloadings miss each other's batches (`scheduler.py:85`).
* *repointed_preorder* (two lorries, `Overlap = TRUE`; `ArrivedHasCome`) – a customer
  adds to a preorder while it is being fulfilled: it is fulfilled and points to a
  lorry still on its way (`preorder_service.py:56`).
* *moved_twice* (SQLite, two devices; `GivenOnce`) – two devices move one preorder;
  both carts get it (`preorder_service.py:238–246`).
* *move_on_postgres* (`MoveIsServed`) – PostgreSQL refuses `FOR UPDATE` on the
  nullable side of an outer join, which is what the locking query of the move is
  (`preorder_service.py:244`); the `of=` that `load_order_for_update` uses is
  missing. This rests on the documented behaviour of PostgreSQL and of `joinedload`,
  both external to the repository.

*Exchange*

* `marked_unseen` – the button of the integration page marks all orders up to an id
  (`integration_admin.py:256`), also one that got a smaller id but was committed
  after the file was made: 1C never sees it.
* *late_status* (`orders_exchange` without `StaffChanges`; `SiteFollows1C` without
  `untouched`) – a status batch 1C has given up on is served after a newer one: the
  site keeps the older status.
* *cut_errors* (`orders_exchange` with `Accounted == TRUE`; `SiteFollows1C`) – the
  reply to a status batch names at most 50 refused orders (`integration_1c.py:669`) of
  up to 1000. `docs/1C_PROGRAMMER_BRIEF.md:696` tells 1C to read `errors`; a 1C that
  does no more takes a refused order that is not named for changed. It can tell
  only by adding up `updated`, `unchanged` and the errors.
* `NothingIsResold` (`supplies_exchange`) – what the site offers of a batch and what it
  has sold of it are no more than came. With `Overlap` and `Stale` and `ResumesAll`
  false and `TellFirst` true it holds on the instance of the run (135 000 states); with
  any one of the four turned it is violated, although `docs/1C_INTEGRATION.md:101–103`
  calls the count of unexported orders the insurance against reselling:
  *resold* (`Overlap = TRUE`): the orders that 1C does not know are counted when the
  exchange begins, the stock is written when it ends, and an order placed in between is
  overwritten; *stale_message* (`Stale = TRUE`): 1C makes documents and confirms them
  after its message was made; *told_late* (`TellFirst = FALSE`): 1C cancels an order and
  sends the remainders before it tells the site, which is the order of the job in
  `docs/1C_INTEGRATION.md`, section 3; *resumed* (`ResumesAll = TRUE`): staff takes back
  an order that 1C holds as cancelled.
* *reserve_lost* (`supplies_exchange`; `ReserveIsOwned` without `~lost`) – an exchange
  has read the tables; a customer takes an arrived preorder, which frees its reserve;
  the commit serves a second preorder and writes the reserve it computed from what it
  had read (`supply_sync.py:358`): a pack stays reserved for nobody. The same overlap
  leaves a preorder made meanwhile waiting until the next exchange.
* *cancelled_twice* (`AnyRepeatChangesNothing`) – repeating the message that cancels
  a batch does change what is on offer, against «all operations are idempotent».
* *merged_goods* (`catalog_exchange` with `Kinds = {"supplies"}`, no staff needed;
  `GoodsOfABatchKeepApart`) – a line of a batch does not write its identifier to a
  product that has none, so two goods found by one name become one product, what
  `Catalog.find` says it avoids («иначе два разных товара … склеились бы в один»).
* *twin_values* (`dictionaries` with both `Forms`; `OneEntryPerName`) – a file and a
  form bring one name in two spellings at the same time: two entries, which
  `taxonomy.py:6–7` rules out. *guessed_over* (`FilledIsKept`) – a value staff chose
  while an exchange was under way is replaced by a guess, against
  `catalog_sync.py:400–401`.

*People and start* (variations of `accounts` with `Overlap = TRUE` and two threads,
unless said otherwise)

* *old_session* (`sessions` with `ended` recording every identifier of somebody signed
  in; `EndedStaysEnded`) – a request that had loaded the session before a new password
  or a logout saves it under the old identifier afterwards (`session.py:176`), and the
  old cookie is signed in again. `profile.py:256–257` says «после смены пароля он
  мёртв».
* *no_admin_left* – two administrators demote each other at once (`SomeoneIsAdmin`).
* *orders_lost* – a customer orders while the account is rejected; the order goes
  with it (`OrdersAreKept`).
* *shut_overlap* – a password set while the account is erased (`ErasedStaysShut`).
* *erased_again* (`accounts` as it is; `ErasedStaysBare`) – `clients/sync` finds an
  erased account by its number and writes the identifier, discount and address of the
  counterparty back, while `anonymize_user` says «связь с контрагентом 1С тоже
  разрываем».
* *seen_text*, *lost_text* (`legal_texts`, the second with `Overlap = TRUE`) – a
  document edited while a person reads it: the journal names a version with another
  text (`SeenTextIsRestored`; `models.py:497–498`). Two edits at once: one text is
  nowhere (`HistoryIsWhole`).
* *lost_repair* (`startup` with one worker; `FailureLeavesNoMark`) – a worker dies
  between the flag of the taxonomy repair and its work: it stays «done»
  (`migrations.py:309–313`).
* *unlocked_start* (`startup` with `LockWorks = FALSE`; `NobodyFallsOver`) – where lock
  files cannot be opened (`locks.py:12–13`), two workers create the tables at once and
  one start fails.

Read, but not modelled: the docstring of `sync_clients` says a line whose id, e-mail
and INN point to different clients is an error; the code compares them only when
the client was found by the site's id.

Known to the authors and therefore not listed: reserves of one product are shared
by whoever moves a preorder first (`REVIEW.md:383`, `docs/ВЛАДЕЛЬЦУ.md:364`), and a
preorder line may be ordered when its batch has less free than reserved
(`models.py:334` only warns).

## 6. Fairness

*Checkout and status changes.* Weak fairness of what a handler does by itself
(`Handle`, `Advance`): a thread that runs is scheduled again. Strong fairness of
taking a row lock and of the insert (`LockRow`, `LockItem`, `InsertOrder`):
PostgreSQL queues the waiting sessions, so one whose lock becomes free again and
again gets it. Nothing obliges customers or clerks to send requests, and crashes are
never forced. Opening an order is where a clerk's request enters the model; the wait
for the order's own lock comes before it, so liveness says nothing of it.

*Order exchange.* 1C runs its job on a schedule: it asks again after a loss (weak
fairness of `AskNew`, `SendStatus`, `NothingToTell`), and a request that is served
and answered again and again is in the end not lost (strong fairness of serving and
of taking the answer, of making the documents and of sending the confirmation). A
status batch needs only weak fairness, since while 1C waits for it nothing else
disturbs it. Customers need not order, staff need not change anything, replies may
be lost any number of times.

*Start.* Weak fairness of a worker's own steps, of being granted a free file lock,
and of the supervisor's restart. Deaths are bounded by `MaxStarts` and never forced.

The other models have safety properties only, and state no fairness.

## 7. Proofs

Checked by TLAPS for every value of the constants, under the named assumptions of
the modules (markers such as `NoRow` are not data, threads are database sessions,
every minimum is at least one pack, the sets that are summed over are finite, …),
which TLC evaluates in the runs. "If" below names the assumptions a theorem makes
beyond those.

| Module | Theorem | States | If |
|---|---|---|---|
| `CheckoutProofs` | `TypeCorrect` | `TypeOK` | |
| | `FreshUnderLock` | `HeldRowsAreFresh` | |
| | `OneOrderPerForm` | `OneOrderPerToken` | |
| | `CheckoutIsAtomic` | `LedgerKept`: each checkout is one step of `StockLedger` | |
| | `OrdersFit` | `SingleLineOrdersFit` | |
| | `StockIsSettledOnce` | `StockFollowsOrders` | `OrdersApart` |
| | `RetakenFit` | `RetakenOrdersFit` | `OrdersApart` |
| | `CancelledAreBack` | `CancelledGoodsAreBack` | `OrdersApart` |
| | `FreshBesideStaff`, `OneOrderBesideStaff`, `OrdersFitBesideStaff` | the second, third and fifth of these, beside any number of status changes | |
| `PreorderProofs` | `DeskTypeCorrect` | `DeskTypeOK` | |
| | `OneCKeepsItsShelf` | `GoodsOf1CStay` | |
| | `WaitingOnce` | `OneWaitingEach` | `~Overlap`, or one request of customers at a time |
| | `ReservesAreOwed` | `ReserveHasOwners` | `~Overlap` |
| | `OneLorryAtATime` | `OneSupplyOnShelf` | `~Overlap` |
| | `ReferencesHold` | `PreordersPointAtLines` | `~Overlap` |
| `SupplyProofs` | `ReservesAreOwned` | `ReserveIsOwned` | |
| | `NobodyWaitsForTheShelf` | `ArrivedAreServed` | |
| | `ShelfIsPutRight` | `ShelfIsRight` | `Reserve` |
| | `RepetitionIsIdle` | `RepeatChangesNothing` | |
| `OrderExchangeProofs` | `OrdersAreKept` | `NoOrderIsForgotten` | |
| | `ExchangeImplementsDelivery` | the safety part of `OrderDelivery` | |
| | `SiteFollows` | `SiteFollows1C` | |
| `CatalogProofs` | `OneCard` | `OneCardPerGood` | `Locked` |
| | `OneService` | `OneServiceSupply` | `Locked` |
| | `CardIsKept` | `CardKeepsItsGood` | `Locked` |
| | `NamedGoodsStay` | `BadLineKeepsStock` | `Locked` |
| | `GoodsStayApart` | `GoodsKeepApart` | |
| `DictionariesProofs` | `DictionariesTypeCorrect` | `DictionariesTypeOK` | |
| | `OneEntryOfCode`, `CodeStays` | `OneEntryPerCode`, `CodeIsKept` | `Postgres` or `~Overlap` |
| | `RepairsRunOnce`, `StartsDoNotClash` | `EachRepairOnce`, `NobodyFallsOver` (`Startup`) | `LockWorks` |
| | `JobFindsItsWorker` | `SomebodySchedules` (`Startup`) | |
| `AccountsProofs` | `AccountsTypeCorrect` | `AccountsTypeOK` | |
| | `JournalIsTrue` | `JournalAgrees` | |
| | `ErasedIsShut` | `ErasedStaysShut` | `~Overlap` |
| | `SessionsTypeCorrect` | `SessionsTypeOK` (`Sessions`) | |
| | `NobodySignsInUnderAnOldId` | `SignedInIdIsNew` | |
| | `EndedIsOver` | `EndedStaysEnded` | finitely many workers |

### What the assumptions mean

`Locked` and `Postgres` are the shop as it is deployed: PostgreSQL, whose advisory
lock keeps exchanges apart and whose unique indexes see every session's rows.
`LockWorks` is a lock file that can be opened. `Reserve` is
`ONEC_RESERVE_UNEXPORTED=1`. `~Overlap` (of `PreorderDesk`, `Accounts` and
`Dictionaries`) and `OrdersApart` are where the code stops keeping its promise: each
is the complement of a counterexample in section 5 (`twin_unload`,
`repointed_preorder`, `stale_cancel`, `shut_overlap`), so the theorems say that
nothing *but* that interleaving breaks the property. One handler at a time is not one
step at a time: it may be cut off between its commits, and everything it has
committed stays. The theorems about supplies and about order exchange assume no
order of events at all: messages are late, repeated and overtaken, and the shop and
1C go on during an exchange.

### The arguments

*Checkout.* `HeldRowsAreFresh` needs that a thread that is not in `place_order` has
seen nothing. `OneOrderPerToken` needs to know that at the commit no committed
order has this token: that held when the row was inserted, and must have held ever
since. The missing part is `TokenReserved`: of a thread that is about to commit, no
committed order carries the token and no other thread about to commit has it, which
is what the unique index enforces by making the second insert wait. `IInv` joins
these with what a request has when (`Entered`, `Rendered`, `Unread`, `Prepared`) and
the types. The atomicity theorem follows because at the commit what was read under
the locks equals what is in the database, so the concurrent deduction is the
ledger's.

*Status changes.* The order lock (`OrderIsHeld`) gives a clerk the order; as no
other order has its positions, what was loaded *before* the row locks is still
current (`LoadedIsCurrent`), and so what was computed is the row of the moment plus
or minus the order's claim (`RightWork`). The proof uses `OrdersApart` at exactly
that place and nowhere else: it is what the missing refresh costs.

*Both together.* Beside a checkout the loaded objects may be stale, and `StaffInv`
fails. What is left is enough for customers: a session changes only rows it has
locked (`WritesAreLocked`), never the token or the packs of an order
(`OrderIsThere`), so every step of staff keeps `IInv` and `Checked`.

*Preorders.* `DeskInv` is what a session knows: what it has loaded existed, what it
has written is there until it ends (`Holds`), and a request goes on only with what
it found (`Asks`). Steps are described once by what they do to the tables (`Lasts`,
`Spares`) and then each session's knowledge is shown to survive them. Without
overlap `SerialInv` says that a session in the middle of its work, were it to end
now, would leave the tables right: `Tidy` counts the reserve of each position
against the preorders that *will* have arrived there (`ArrivedFor`), including those
the unloading has marked and not committed; `Current` gives a move between its two
commits the packs it has already taken off the reserve. That is why being cut off
anywhere does no harm.

*Supplies.* Two invariants go through every step. `ReservesInv` is about the tables:
`SiteInv` makes the reserve of each position equal to the sum of the preorders on it
until one was overwritten (`AllKept`), and `DraftInv` says that what an exchange has
computed is sound *of the tables it has read* (`Sound`), that no row has come or gone
since, and that while the shop stands still it is what would be computed now.
`CommitKeeps` then follows the writing of single columns over tables that have
changed. The hard part is
`fulfil_preorders`, a loop with a decision per preorder. What a recursive function
computes cannot be proved by induction here, so the loop is followed by the *least
counterexample*: if the table after some number of preorders were wrong, there would
be a least such number (`LoopKeeps`), whose turn would have broken what `TurnKeeps`
shows no turn breaks. The same way `Midway` shows that the loop never takes back what
it gave and never adds to what is free, so a preorder passed over for lack of packs
is still without them at the end: `NobodyWaitsForTheShelf`.

`BooksInv` relates the two sides and needs no rule that anybody keeps. What is left
of a batch in 1C's books is what came less the orders it has documents for and does
not hold as cancelled (`BooksAgree`); a message says no more than that of the orders
it knew (`MessageAgrees`); an order keeps its batch unless 1C has withdrawn it
(`BatchesAgree`); and, while the shop stands still, what was counted is what is
pending (`CountAgrees`). With `DraftInv` this gives `StillIsApplied`: the commit of an
exchange nobody disturbed leaves the tables as `Outcome` makes them of the tables of
that moment, so the two reads and the commit are one step. `OutcomeFits` shows of that
one step that it leaves on each position it says something about no more than came
less what was sold: `ShelfIsPutRight`. Nothing is assumed of the stock before it, so
whatever an overlapped or late exchange did is undone.

`RepetitionIsIdle` describes the whole result of a message once applied: `Answered`
says of every position, by what its invoice and its line said, whether it is in the
table, on the shelf and with which stock, and of every supply whether it is there.
The first application brings it about (`SuppliesAnswer`, `ProductsAnswer`), whatever
was in the tables before; nothing disturbs it while `settled` holds; and to a table
that is as `Answered` says a second application does nothing (`ListRepeats`), not
even through `fulfil_preorders`, because nobody waits for what is on sale
(`NobodyToServe`, `IdleLoop`). It rests on the count of unexported packs being the
same both times (`StillCounts`) and on `NothingSoldOf`: what has never been entered
has no orders, so a new row may be written without subtracting that count.

*Sums.* `TotalsProofs` proves, by least counterexample over cardinalities, that the
recursive sum of `Totals` does not depend on the order in which `CHOOSE` takes the
members, and from that how it changes with one member, with a subset and with the
summed function.

*Order exchange.* That a confirmed order has a document depends on everything still
on the wire: `OnTheWay` says that the orders 1C works on are stored, that those it
confirms or rules on have documents, and the same of every request it has given up
on. A lost or late request therefore brings nothing new. `FollowInv` follows a status
batch and its reply: the orders it has settled have the status it asked for unless
somebody has touched them since, those it will name are others, and the reply counts
the former. `AllAccounted` does the sum: if the settled
and the named orders are as many as the batch, no refused order went unnamed, so an
order that is not named was settled. Where the reply was cut the sum falls short and
1C concludes nothing.

*Catalogue.* Staff never writes an identifier, so under the lock of exchanges what
an exchange remembers stays true: the identifiers of the table, of what was read and
of the memory agree, whatever rows were added or deleted meanwhile. `CatalogInv`
says that the dictionary `by_ext` is exactly the inverse of the identifiers in
memory: a line finds the card of its good if there is one, and the commit carries
uniqueness from memory into the table. `SeenInv` remembers which goods a message
named. `GoodsStayApart` needs no lock: within one message `ApartInv` shows that a
card that a line has landed on has that line's identifier, and `find` refuses it to
any other (`FindFits`).

*Dictionaries.* Identifiers stay unique because only one exchange is open and its
memory is never behind the table (`Fresh`), while new entries have ids nobody has
seen (`Beyond`). Of names the code promises more than it keeps (*twin_values*).

*Accounts and sessions.* The journal agrees with the accounts under any overlap
because each plan carries entries for exactly the columns its commit writes
(`Sound`), whatever it has read. `ErasedIsShut` needs `StillSo`: what a plan rests
on is still so when it is carried out, which is what one request at a time gives.
For sessions, `Carried` says that a request is signed in only under an identifier
made for that; `EndedInv` that there is one place to look (`OnePlace`) and what was
ended is neither there nor in the hands of a request (`Over`).

*Start.* `Mutex` (who works has the lock) makes `NotDoneBefore` (what a worker found
missing is still missing, a repair begun was never committed) stable, and with it
`Flagged` (a repair was committed not at all, or once and has its flag).
`JobFindsItsWorker` needs no lock: who comes to serve is given the lock or finds it
held by a worker that runs the scheduler, and a worker that dies no longer serves.

### Only model-checked

Liveness (`EveryRequestEnds`, `EveryStatusChangeEnds`, `StartsSettle`, the fairness
part of `ExchangeDelivers`): fairness and ENABLED are out of the prover's reach.
What `SignIn` and `LegalTexts` promise. What a recursive definition computes for
every input is proved only where a least counterexample does the work of induction
(sums, the loop of `fulfil_preorders`).

## 8. Bounds and abstractions

Two of each actor suffice for the races here: a row has one holder and one
waiter, a token one owner and one rival; the theorems of section 7 remove the bounds
for every safety property of the runs. Two rows are needed for lock order, three for
orders that share nothing. Rows start with one to three packs so that the last pack
is always contended.

Named bounds. Checkout: `Tokens` (forms ever minted), `OrderIds` (orders ever placed;
a commit beyond them is not taken), `Wanted` (typed amounts), `OneMovePerPosition`.
Status: `MaxStock` (no cancellation begins above it). Preorders: `PreorderIds` (a wish
beyond them is dropped), `MaxPreorder` (2000 packs in the code, 2 here, so that
merging reaches it), `Wishes`, `Packs`. Exchange: `NOrders`, `Limit`
(`ORDERS_MAX_PER_CALL`, 1 here, so that two calls are needed), `MaxErrors`
(`MAX_ERRORS_IN_REPLY`, 50 in the code, 1 here, so that a batch of two is cut), `MaxLate`,
`NPreorders`,
`MaxId` and `MaxRows` (two lines are enough for a clash of keys). Dictionaries:
`MaxId`, `MaxLines`. Sessions and login: `MaxTroubles` (outages and restarts), `Limit`
(mistakes before a lock, 2 here). Start: `MaxStarts` (3, so that a repair is tried, tried
again and found done, with a death between). `LegalTexts`: `MaxTexts`.

Two lorries of one product are the least with which an old batch and a new one
compete; the third position is there for 1C. `preorder_serial` begins with one free
slot for a supply, so that a lorry is entered, unloaded and deleted in one behaviour.
Identifiers are symmetric where nothing orders them; symmetry is not used in runs with
liveness. Deadlock is checked everywhere: the models never stop.

Left out inside the modelled components: prices and discounts (a changed price is a
refusal that may always happen), texts, mail, the limit per minute, the content of
date and address fields (may always be refused), expiry of links and the numbers of
seconds of a lock (a lock may run out at any time).

Simplified: an exchange with 1C makes all its reads of the tables in one step
(`ReadTables`), although its queries follow each other; what the shop does between two
of them is seen either wholly before or wholly after. In `Startup` the columns and
indexes are one step that fails or succeeds as a whole; `stop_scheduler` does not wait
for a job that runs (`shutdown(wait=False)`), and such a job ends with its process
here. Where lock files do not work (`LockWorks = FALSE`) several workers run the
scheduler, which `scheduler.py:31–32` accepts; the run has them work.

## 9. Not modelled

* `repeat_order` adds amounts of several lines of an old order into one, beyond what
  `Cart` keeps per line; it writes only the session.
* Claims (`routers/claims.py`): forms on a row of their own.
* Notifications, push, mail: best effort after or before a commit; nothing reads them
  back.
* Catalogue queries, exports of clients and of the stock, reports, Excel, PDF, photos,
  uploads: they read, or write files.
* Imports of product and stock files by staff: they match like `CatalogSync` and write
  like `SupplyPages`, row by row.
* Settings, API keys, audit log, rate limits, rendering, validators, helpers.
* `src/scripts` and `seed_demo.py`: run by hand on a stopped shop.
* 1C itself, PostgreSQL, Redis and SQLAlchemy: external, modelled by how the code uses
  them and marked so in the map.

## 10. Running

    tlc -workers 2 -config checkout_onebrowser.cfg CheckoutMC
    tlapm CheckoutProofs.tla

`PROJECT.json` maps runs to modules, and every definition to the lines it models. No
run takes longer than about three minutes; the longest proofs, those of `SupplyProofs`
and `PreorderProofs`, some minutes each.
