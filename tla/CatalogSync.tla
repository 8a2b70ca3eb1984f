----------------------------- MODULE CatalogSync -----------------------------
(***************************************************************************)
(* Which product a line from 1C is about: Catalog and the loops over lines *)
(* of apply_products (services/catalog_sync.py) and apply_supplies         *)
(* (services/supply_sync.py), and the pages where staff changes the same   *)
(* products by hand (routers/admin.py).                                    *)
(*                                                                         *)
(* An exchange reads the catalogue, decides line by line in its own        *)
(* memory, and writes at its commit what it has changed; the advisory lock *)
(* of PostgreSQL keeps exchanges apart, and nothing keeps staff apart.     *)
(* A line is drawn when it is looked at; barcode, article and name are     *)
(* three keys that may be blank.  Stock is that of the goods without a     *)
(* batch; SupplySync has the batches.                                      *)
(***************************************************************************)
EXTENDS Naturals, FiniteSets

CONSTANTS
    Goods,      \* identifiers of goods in 1C
    Bars,       \* barcodes
    Skus,       \* articles
    Names,
    Sessions,   \* requests, of 1C or of an administrator who loads a file
    Kinds,      \* what may be sent: "products", "supplies"
    Staff,      \* what staff may do: "add", "edit", "delete"
    Locked,     \* whether lock_exchange locks (PostgreSQL)
    MaxId,      \* bound on products ever made
    MaxRows,    \* bound on the lines of one message
    Stocks,     \* quantities a line may give
    Blank,      \* an empty field
    None        \* no value: a field that is not sent, no product, no line

Ids == 1..MaxId

Card == [ext : Goods \cup {Blank}, bar : Bars \cup {Blank}, sku : Skus \cup {Blank},
         name : Names]

ASSUME CatalogAssumption ==
    /\ Blank \notin Goods \cup Bars \cup Skus \cup Names
    /\ None \notin Goods \cup Bars \cup Skus \cup Names \cup Nat \cup Card
    /\ Kinds \subseteq {"products", "supplies"}
    /\ Staff \subseteq {"add", "edit", "delete"}
    /\ Locked \in BOOLEAN
    /\ MaxId \in Nat /\ MaxRows \in Nat
    /\ Stocks \subseteq Nat

VARIABLES
    products,   \* rows of products by id, None where there is none
    stock,      \* what the service supply has of each, None without a line
    services,   \* how many service supplies there are
    used,       \* ids given out by the sequence
    pc,         \* what each session is doing
    kind,       \* and with what kind of message
    read,       \* the rows it has read
    mem,        \* the rows as it has changed them
    index,      \* its dictionaries by_ext, by_barcode, by_sku, by_name
    shelf,      \* the quantities as it has changed them
    seen,       \* the products its lines were about
    named,      \* the identifiers its lines gave
    landed,     \* and the product each of them led to
    rows        \* how many lines it has looked at

dbVars == <<products, stock, services, used>>
exVars == <<pc, kind, read, mem, index, shelf, seen, named, landed, rows>>
vars == <<dbVars, exVars>>

\* A line; a bad one is refused by parse_product_row or by the dictionaries.
Line == [ext : Goods \cup {Blank}, bar : Bars \cup {Blank, None}, sku : Skus \cup {Blank},
         name : Names, packs : Stocks \cup {None}, bad : BOOLEAN]

NoRead == [products |-> [p \in Ids |-> None], stock |-> [p \in Ids |-> None], service |-> FALSE]
NoIndex == [ext |-> [g \in Goods |-> None], bar |-> [v \in Bars |-> None],
            sku |-> [v \in Skus |-> None], name |-> [v \in Names |-> None]]

Init ==
    /\ products = [p \in Ids |-> None]
    /\ stock = [p \in Ids |-> None]
    /\ services = 0
    /\ used = 0
    /\ pc = [s \in Sessions |-> "idle"]
    /\ kind = [s \in Sessions |-> "products"]
    /\ read = [s \in Sessions |-> NoRead]
    /\ mem = [s \in Sessions |-> NoRead.products]
    /\ index = [s \in Sessions |-> NoIndex]
    /\ shelf = [s \in Sessions |-> NoRead.stock]
    /\ seen = [s \in Sessions |-> {}]
    /\ named = [s \in Sessions |-> {}]
    /\ landed = [s \in Sessions |-> [g \in Goods |-> None]]
    /\ rows = [s \in Sessions |-> 0]

-----------------------------------------------------------------------------
(* The catalogue in the memory of an exchange                              *)

\* Any of the products with the value may come first: the query has no order.
Firsts(field, values) ==
    {f \in [values -> Ids \cup {None}] :
        \A v \in values :
            LET with == {p \in Ids : products[p] # None /\ products[p][field] = v}
            IN  f[v] \in IF with = {} THEN {None} ELSE with}

\* Catalog._index: setdefault, the first product with a value stays.
SetDefault(f, v, p) ==
    IF v \in DOMAIN f THEN [f EXCEPT ![v] = IF @ = None THEN p ELSE @] ELSE f

Indexed(ix, card, p) ==
    [ext  |-> SetDefault(ix.ext, card.ext, p),
     bar  |-> SetDefault(ix.bar, card.bar, p),
     sku  |-> SetDefault(ix.sku, card.sku, p),
     name |-> SetDefault(ix.name, card.name, p)]

At(f, v) == IF v \in DOMAIN f THEN f[v] ELSE None

\* Mutant: a product of 1C is taken for another because of its keys.
FitsByKey(cards, ext, p) == p # None

\* A product found by a key is not that of the line if 1C knows it by another
\* identifier.
Fits(cards, ext, p) == p # None /\ (ext = Blank \/ cards[p].ext \in {Blank, ext})

\* Catalog.find: by identifier, barcode, article, name.
Find(ix, cards, line) ==
    LET e == At(ix.ext, line.ext)
        b == At(ix.bar, line.bar)
        k == At(ix.sku, line.sku)
        n == At(ix.name, line.name)
    IN  IF e # None THEN e
        ELSE IF Fits(cards, line.ext, b) THEN b
        ELSE IF Fits(cards, line.ext, k) THEN k
        ELSE IF Fits(cards, line.ext, n) THEN n ELSE None

\* new_product
NewCard(line) ==
    [ext |-> line.ext, bar |-> IF line.bar = None THEN Blank ELSE line.bar,
     sku |-> line.sku, name |-> line.name]

\* The fields of a known product that a line of products/sync sets.
Updated(card, line) ==
    [ext |-> IF line.ext = Blank THEN card.ext ELSE line.ext,
     bar |-> IF line.bar = None THEN card.bar ELSE line.bar,
     sku |-> IF line.sku = Blank THEN card.sku ELSE line.sku,
     name |-> line.name]

-----------------------------------------------------------------------------
(* An exchange                                                             *)

\* Mutant: the lock is not taken on PostgreSQL either.
MayEnterAlways(s) == TRUE

\* lock_exchange: until the other's commit or rollback.
MayEnter(s) == Locked => \A t \in Sessions : pc[t] = "idle"

\* What apply_products reads before the first line: the service supply, the
\* products the lines may be about, their lines on the shelf.
Snapshot == [products |-> products, stock |-> stock, service |-> services > 0]

\* A request with a message starts the exchange: sync_products, sync_supplies
\* or import_catalog_file.
Begin(s) ==
    /\ pc[s] = "idle" /\ MayEnter(s)
    /\ \E k \in Kinds,
          e \in Firsts("ext", Goods), b \in Firsts("bar", Bars),
          c \in Firsts("sku", Skus), n \in Firsts("name", Names) :
            /\ kind' = [kind EXCEPT ![s] = k]
            /\ index' = [index EXCEPT ![s] = [ext |-> e, bar |-> b, sku |-> c, name |-> n]]
    /\ read' = [read EXCEPT ![s] = Snapshot]
    /\ mem' = [mem EXCEPT ![s] = products]
    /\ shelf' = [shelf EXCEPT ![s] = stock]
    /\ pc' = [pc EXCEPT ![s] = "apply"]
    /\ UNCHANGED <<dbVars, seen, named, landed, rows>>

Named(s, line) == [named EXCEPT ![s] = @ \cup ({line.ext} \ {Blank})]

Landed(s, line, p) ==
    IF line.ext = Blank THEN landed ELSE [landed EXCEPT ![s][line.ext] = p]

\* Mutant: a line in error does not keep its product on the shelf.
SeenForget(s, line, p) == IF line.bad THEN seen[s] ELSE seen[s] \cup {p}

\* A line in error still says that the goods are there.
Seen(s, line, p) == seen[s] \cup {p}

\* One line that is about a product the site has.
KnownLine(s) ==
    /\ pc[s] = "apply" /\ rows[s] < MaxRows
    /\ \E line \in Line :
        LET p == Find(index[s], mem[s], line)
            card == Updated(mem[s][p], line)
            writes == ~line.bad /\ kind[s] = "products"
        IN  /\ p # None
            /\ seen' = [seen EXCEPT ![s] = Seen(s, line, p)]
            /\ IF writes
               THEN /\ mem' = [mem EXCEPT ![s][p] = card]
                    /\ index' = [index EXCEPT ![s] = Indexed(index[s], card, p)]
                    /\ shelf' = IF line.packs = None THEN shelf
                                ELSE [shelf EXCEPT ![s][p] = line.packs]
               ELSE UNCHANGED <<mem, index, shelf>>
            /\ named' = Named(s, line)
            /\ landed' = IF line.bad THEN landed ELSE Landed(s, line, p)
    /\ rows' = [rows EXCEPT ![s] = @ + 1]
    /\ UNCHANGED <<dbVars, pc, kind, read>>

\* One line about a product the site does not have.
NewLine(s) ==
    /\ pc[s] = "apply" /\ rows[s] < MaxRows
    /\ used < MaxId
    /\ \E line \in Line :
        LET p == used + 1
            card == NewCard(line)
        IN  /\ Find(index[s], mem[s], line) = None
            /\ ~line.bad
            /\ mem' = [mem EXCEPT ![s][p] = card]
            /\ index' = [index EXCEPT ![s] = Indexed(index[s], card, p)]
            /\ shelf' = IF line.packs = None \/ kind[s] = "supplies" THEN shelf
                        ELSE [shelf EXCEPT ![s][p] = line.packs]
            /\ seen' = [seen EXCEPT ![s] = @ \cup {p}]
            /\ named' = Named(s, line)
            /\ landed' = Landed(s, line, p)
    /\ used' = used + 1
    /\ rows' = [rows EXCEPT ![s] = @ + 1]
    /\ UNCHANGED <<products, stock, services, pc, kind, read>>

\* A bad line about one that it does not have: an error of the reply.
SkippedLine(s) ==
    /\ pc[s] = "apply" /\ rows[s] < MaxRows
    /\ \E line \in Line :
        /\ line.bad /\ Find(index[s], mem[s], line) = None
        /\ named' = Named(s, line)
    /\ rows' = [rows EXCEPT ![s] = @ + 1]
    /\ UNCHANGED <<dbVars, pc, kind, read, mem, index, shelf, seen, landed>>

Over(s) ==
    /\ pc' = [pc EXCEPT ![s] = "idle"]
    /\ kind' = [kind EXCEPT ![s] = "products"]
    /\ read' = [read EXCEPT ![s] = NoRead]
    /\ mem' = [mem EXCEPT ![s] = NoRead.products]
    /\ index' = [index EXCEPT ![s] = NoIndex]
    /\ shelf' = [shelf EXCEPT ![s] = NoRead.stock]
    /\ seen' = [seen EXCEPT ![s] = {}]
    /\ named' = [named EXCEPT ![s] = {}]
    /\ landed' = [landed EXCEPT ![s] = [g \in Goods |-> None]]
    /\ rows' = [rows EXCEPT ![s] = 0]

\* What a full list leaves of the quantities.
AfterList(s, full) ==
    [p \in Ids |-> IF full /\ shelf[s][p] # None /\ p \notin seen[s] THEN 0 ELSE shelf[s][p]]

ChangedCards(s) == {p \in Ids : mem[s][p] # read[s].products[p]}
ChangedLines(s, left) == {p \in Ids : left[p] # read[s].stock[p]}

IsNew(s, p) == read[s].products[p] = None

\* The columns that were changed are written over what is there now.
Written(s, p) ==
    IF IsNew(s, p) THEN mem[s][p]
    ELSE [f \in DOMAIN mem[s][p] |->
            IF mem[s][p][f] # read[s].products[p][f] THEN mem[s][p][f] ELSE products[p][f]]

\* A message or a file without lines is answered and not applied: a full list
\* of nothing would take everything off the shelf.
HasLines(s) == rows[s] > 0

\* ensure_service_supply: made when the exchange has found none.
ServicesAfter(s) ==
    IF kind[s] = "products" /\ ~read[s].service THEN services + 1 ELSE services

Commit(s) ==
    /\ pc[s] = "apply" /\ HasLines(s)
    /\ \E full \in BOOLEAN :
        LET left == IF kind[s] = "products" THEN AfterList(s, full) ELSE read[s].stock
            cards == ChangedCards(s)
            lines == ChangedLines(s, left)
        IN  /\ \A p \in cards \cup lines : IsNew(s, p) \/ products[p] # None
            /\ products' = [p \in Ids |-> IF p \in cards THEN Written(s, p) ELSE products[p]]
            /\ stock' = [p \in Ids |-> IF p \in lines THEN left[p] ELSE stock[p]]
    /\ services' = ServicesAfter(s)
    /\ Over(s)
    /\ UNCHANGED used

\* dry_run, a crash, or a commit the database refuses because staff has
\* deleted a product meanwhile.
RollBack(s) ==
    /\ pc[s] = "apply"
    /\ Over(s)
    /\ UNCHANGED dbVars

-----------------------------------------------------------------------------
(* Staff                                                                   *)

\* _check_product_fields: two products do not share a barcode.
BarIsFree(p, bar) ==
    \A q \in Ids \ {p} : products[q] # None /\ bar # Blank => products[q].bar # bar

\* product_new; a new name in products_import and supply_import_invoice.
StaffAdds ==
    /\ "add" \in Staff /\ used < MaxId
    /\ \E bar \in Bars \cup {Blank}, sku \in Skus \cup {Blank}, name \in Names :
        /\ BarIsFree(used + 1, bar)
        /\ products' = [products EXCEPT ![used + 1] =
                            [ext |-> Blank, bar |-> bar, sku |-> sku, name |-> name]]
    /\ used' = used + 1
    /\ UNCHANGED <<stock, services, exVars>>

\* product_edit; a name that is known, in products_import.
StaffEdits(p) ==
    /\ "edit" \in Staff
    /\ products[p] # None
    /\ \E bar \in Bars \cup {Blank}, sku \in Skus \cup {Blank}, name \in Names :
        /\ BarIsFree(p, bar)
        /\ products' = [products EXCEPT ![p].bar = bar, ![p].sku = sku, ![p].name = name]
    /\ UNCHANGED <<stock, services, used, exVars>>

\* product_delete: its lines on the shelf go with it.
StaffDeletes(p) ==
    /\ "delete" \in Staff
    /\ products[p] # None
    /\ products' = [products EXCEPT ![p] = None]
    /\ stock' = [stock EXCEPT ![p] = None]
    /\ UNCHANGED <<services, used, exVars>>

Next ==
    \/ \E s \in Sessions :
        Begin(s) \/ KnownLine(s) \/ NewLine(s) \/ SkippedLine(s) \/ Commit(s) \/ RollBack(s)
    \/ StaffAdds
    \/ \E p \in Ids : StaffEdits(p) \/ StaffDeletes(p)

Spec == Init /\ [][Next]_vars

-----------------------------------------------------------------------------
(* Properties                                                              *)

\* The values the variables may take; an exchange that is not under way
\* remembers nothing.
CatalogTypeOK ==
    /\ products \in [Ids -> Card \cup {None}]
    /\ stock \in [Ids -> Stocks \cup {0, None}]
    /\ services \in Nat
    /\ used \in 0..MaxId
    /\ pc \in [Sessions -> {"idle", "apply"}]
    /\ kind \in [Sessions -> {"products", "supplies"}]
    /\ mem \in [Sessions -> [Ids -> Card \cup {None}]]
    /\ shelf \in [Sessions -> [Ids -> Stocks \cup {0, None}]]
    /\ seen \in [Sessions -> SUBSET Ids]
    /\ named \in [Sessions -> SUBSET Goods]
    /\ landed \in [Sessions -> [Goods -> Ids \cup {None}]]
    /\ rows \in [Sessions -> 0..MaxRows]

\* No two products have the same identifier of 1C, however often 1C repeats
\* a message it got no answer to, renames its goods or gives them one name
\* (lock_exchange; ext_id_of: "переименование номенклатуры в 1С не создаёт дубль").
OneCardPerGood ==
    \A p, q \in Ids :
        products[p] # None /\ products[q] # None /\ products[p].ext # Blank
        /\ products[p].ext = products[q].ext => p = q

\* The goods without a batch are in one supply.
OneServiceSupply == services <= 1

\* A product stays that of the goods it was made for, whatever lines with the
\* same barcode, article or name come later.
CardKeepsItsGood ==
    [][\A p \in Ids :
        products[p] # None /\ products[p].ext # Blank =>
            products'[p] = None \/ products'[p].ext = products[p].ext]_vars

\* Two goods of 1C in one message never become one product, by products/sync.
GoodsKeepApart ==
    \A s \in Sessions : kind[s] = "products" =>
        \A g, h \in Goods : landed[s][g] # None /\ landed[s][g] = landed[s][h] => g = h

\* The same for batches: "иначе два разных товара с одним названием склеились
\* бы в один" (Catalog.find).
GoodsOfABatchKeepApart ==
    \A s \in Sessions :
        \A g, h \in Goods : landed[s][g] # None /\ landed[s][g] = landed[s][h] => g = h

\* A full list does not take off the shelf what it has a line about, were it
\* a line in error ("при «полном снимке» не обнуляем товар, чья строка пришла
\* битой").
BadLineKeepsStock ==
    [][\A s \in Sessions, p \in Ids :
        /\ pc[s] = "apply" /\ pc'[s] = "idle"
        /\ products[p] # None /\ products[p].ext \in named[s]
        /\ stock'[p] # stock[p]
        => stock'[p] = shelf[s][p]]_vars
=============================================================================
