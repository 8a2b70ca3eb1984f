---------------------------- MODULE CatalogProofs ----------------------------
(***************************************************************************)
(* On PostgreSQL no two products share an identifier of 1C, a product      *)
(* never changes its identifier, and there is one service supply.          *)
(*                                                                         *)
(* The lock makes what an exchange has read stay true of identifiers: only *)
(* an exchange writes them.  Its dictionary by_ext then is the inverse of  *)
(* the identifiers in its memory, so a line never makes a second product   *)
(* for one, and the commit carries that over into the table.               *)
(***************************************************************************)
EXTENDS CatalogSync, TLAPS

Has(cards, p, g) == cards[p] # None /\ cards[p].ext = g

\* The rows are cards, and ids above "used" have never been given out.
Rows(cards) ==
    /\ cards \in [Ids -> Card \cup {None}]
    /\ \A p \in Ids : cards[p] # None => p <= used

Unique(cards) ==
    \A p, q \in Ids, g \in Goods : Has(cards, p, g) /\ Has(cards, q, g) => p = q

\* by_ext is the inverse of the identifiers in memory.
Inverse1C(ix, cards) ==
    \A g \in Goods :
        /\ ix[g] # None => ix[g] \in Ids /\ Has(cards, ix[g], g)
        /\ \A p \in Ids : Has(cards, p, g) => ix[g] = p

\* The other dictionaries lead to rows in memory.
Leads(f, cards) == \A v \in DOMAIN f : f[v] # None => cards[f[v]] # None

Keys(ix, cards) ==
    /\ Leads(ix.bar, cards) /\ Leads(ix.sku, cards) /\ Leads(ix.name, cards)
    /\ ix \in [ext : [Goods -> Ids \cup {None}], bar : [Bars -> Ids \cup {None}],
               sku : [Skus -> Ids \cup {None}], name : [Names -> Ids \cup {None}]]

\* What an exchange remembers agrees with the table on identifiers.
Fresh(s) ==
    /\ \A p \in Ids : read[s].products[p] # None => mem[s][p] # None
    /\ \A p \in Ids, g \in Goods :
        /\ Has(products, p, g) => Has(read[s].products, p, g)
        /\ Has(read[s].products, p, g) => Has(mem[s], p, g)
    /\ read[s].service <=> services > 0

ExchangeInv(s) ==
    /\ Rows(mem[s])
    /\ read[s].products \in [Ids -> Card \cup {None}]
    /\ Unique(mem[s])
    /\ Keys(index[s], mem[s])
    /\ Inverse1C(index[s].ext, mem[s])
    /\ Fresh(s)

Shapes ==
    /\ used \in 0..MaxId
    /\ services \in 0..1
    /\ pc \in [Sessions -> {"idle", "apply"}]
    /\ DOMAIN read = Sessions /\ DOMAIN mem = Sessions /\ DOMAIN index = Sessions

OneAtATime ==
    \A s, t \in Sessions : pc[s] = "apply" /\ pc[t] = "apply" => s = t

CatalogInv ==
    /\ Shapes
    /\ Rows(products)
    /\ Unique(products)
    /\ OneAtATime
    /\ \A s \in Sessions : pc[s] = "apply" => ExchangeInv(s)

USE DEF Ids, Card

-----------------------------------------------------------------------------
(* The dictionary                                                          *)

\* setdefault
LEMMA SetDefaultIs ==
    ASSUME NEW D, NEW f \in [D -> Ids \cup {None}], NEW v, NEW p \in Ids
    PROVE  /\ SetDefault(f, v, p) \in [D -> Ids \cup {None}]
           /\ \A w \in D : SetDefault(f, v, p)[w] =
                    IF w = v /\ f[w] = None THEN p ELSE f[w]
BY DEF SetDefault

\* A product that is found is one in memory, and a line that has an
\* identifier finds the product of that identifier, or one that has none
\* while no product has that of the line.
LEMMA FindIs ==
    ASSUME CatalogAssumption,
           NEW cards, NEW ix, Keys(ix, cards), Inverse1C(ix.ext, cards),
           NEW line \in Line,
           NEW p, p = Find(ix, cards, line)
    PROVE  /\ p = None \/ (p \in Ids /\ cards[p] # None)
           /\ line.ext \in Goods /\ p # None =>
                \/ Has(cards, p, line.ext)
                \/ cards[p].ext = Blank /\ ix.ext[line.ext] = None
                \/ cards[p].ext = line.ext /\ ix.ext[line.ext] = None
           /\ line.ext \in Goods /\ p = None => ix.ext[line.ext] = None
<1>. DEFINE e == At(ix.ext, line.ext)
            b == At(ix.bar, line.bar)
            k == At(ix.sku, line.sku)
            n == At(ix.name, line.name)
<1>1. line.ext \in Goods => e = ix.ext[line.ext]
    BY DEF Keys, At
<1>2. \A x \in {e, b, k, n} : x = None \/ (x \in Ids /\ cards[x] # None)
    BY DEF Keys, At, Leads, Inverse1C, Has
<1>3. CASE e # None
    <2>1. p = e
        BY <1>3 DEF Find
    <2>2. line.ext \in Goods
        BY <1>3 DEF Keys, At
    <2>. QED
        BY <2>1, <2>2, <1>1, <1>2, <1>3 DEF Inverse1C
<1>4. CASE e = None
    <2>1. \/ p = None
          \/ p = b /\ Fits(cards, line.ext, b)
          \/ p = k /\ Fits(cards, line.ext, k)
          \/ p = n /\ Fits(cards, line.ext, n)
        BY <1>4 DEF Find
    <2>2. p = None \/ Fits(cards, line.ext, p)
        BY <2>1
    <2>3. Blank \notin Goods
        BY DEF CatalogAssumption
    <2>4. p # None /\ line.ext \in Goods => cards[p].ext \in {Blank, line.ext}
        BY <2>2, <2>3 DEF Fits
    <2>. QED
        BY <2>1, <2>4, <1>1, <1>2, <1>4
<1>. QED
    BY <1>3, <1>4

-----------------------------------------------------------------------------
(* The steps                                                               *)

USE CatalogAssumption DEF CatalogAssumption

LEMMA InitInv == Init => CatalogInv
BY DEF Init, CatalogInv, Shapes, Rows, Unique, Has, OneAtATime, NoRead, NoIndex

\* The others have nothing in hand while one does.
LEMMA AloneIs ==
    ASSUME CatalogInv, NEW s \in Sessions, pc[s] = "apply", NEW t \in Sessions \ {s}
    PROVE  pc[t] = "idle"
BY DEF CatalogInv, OneAtATime, Shapes

LEMMA BeginInv ==
    ASSUME Locked, CatalogInv, NEW s \in Sessions, Begin(s)
    PROVE  CatalogInv'
<1>1. \A t \in Sessions : pc[t] = "idle"
    BY DEF Begin, MayEnter
<1>2. PICK k \in Kinds, e \in Firsts("ext", Goods), b \in Firsts("bar", Bars),
           c \in Firsts("sku", Skus), n \in Firsts("name", Names) :
               index' = [index EXCEPT ![s] = [ext |-> e, bar |-> b, sku |-> c, name |-> n]]
    BY DEF Begin
<1>3. /\ UNCHANGED dbVars
      /\ pc' = [pc EXCEPT ![s] = "apply"]
      /\ mem' = [mem EXCEPT ![s] = products]
      /\ read' = [read EXCEPT ![s] = [products |-> products, stock |-> stock,
                                      service |-> services > 0]]
    BY DEF Begin, Snapshot
<1>4. Shapes'
    BY <1>2, <1>3 DEF Shapes, dbVars, CatalogInv
<1>5. OneAtATime'
    BY <1>1, <1>3 DEF OneAtATime, CatalogInv, Shapes
<1>6. Rows(products)' /\ Unique(products)'
    BY <1>3 DEF CatalogInv, Rows, Unique, Has, dbVars
<1>7. ASSUME NEW t \in Sessions, pc'[t] = "apply" PROVE ExchangeInv(t)'
    <2>1. t = s
        BY <1>1, <1>3, <1>7 DEF CatalogInv, Shapes
    <2>2. mem'[s] = products /\ read'[s].products = products
          /\ read'[s].service = (services > 0) /\ services' = services /\ products' = products
        BY <1>3 DEF CatalogInv, Shapes, dbVars
    <2>3. index'[s] = [ext |-> e, bar |-> b, sku |-> c, name |-> n]
        BY <1>2 DEF CatalogInv, Shapes
    <2>4. Keys(index'[s], mem'[s])
        BY <2>2, <2>3 DEF Keys, Firsts, Leads
    <2>5. Inverse1C(index'[s].ext, mem'[s])
        <3>1. ASSUME NEW g \in Goods, e[g] # None
              PROVE  e[g] \in Ids /\ Has(products, e[g], g)
            BY <3>1 DEF Firsts, Has
        <3>2. ASSUME NEW g \in Goods, NEW p \in Ids, Has(products, p, g)
              PROVE  e[g] = p
            <4>1. e[g] \in {q \in Ids : products[q] # None /\ products[q].ext = g}
                BY <3>2 DEF Firsts, Has
            <4>. QED
                BY <4>1, <3>2 DEF CatalogInv, Unique, Has
        <3>. QED
            BY <3>1, <3>2, <2>2, <2>3 DEF Inverse1C
    <2>6. Rows(mem[s])' /\ Unique(mem'[s])
        BY <2>2, <1>3 DEF CatalogInv, Rows, dbVars
    <2>7. Fresh(s)'
        BY <2>2 DEF Fresh
    <2>. QED
        BY <2>1, <2>2, <2>4, <2>5, <2>6, <2>7 DEF ExchangeInv, CatalogInv, Rows
<1>. QED
    BY <1>4, <1>5, <1>6, <1>7 DEF CatalogInv

\* A card that is written keeps the dictionaries in order.
LEMMA IndexedKeys ==
    ASSUME NEW cards, NEW ix, NEW p \in Ids, NEW card \in Card,
           cards \in [Ids -> Card \cup {None}], Keys(ix, cards)
    PROVE  Keys(Indexed(ix, card, p), [cards EXCEPT ![p] = card])
<1>. DEFINE new == [cards EXCEPT ![p] = card]
            iy == Indexed(ix, card, p)
<1>1. card # None
    BY CatalogAssumption DEF CatalogAssumption
<1>2. iy.ext \in [Goods -> Ids \cup {None}]
    BY SetDefaultIs DEF Indexed, Keys
<1>3. ASSUME NEW D, NEW f \in [D -> Ids \cup {None}], NEW v, Leads(f, cards)
      PROVE  /\ SetDefault(f, v, p) \in [D -> Ids \cup {None}]
             /\ Leads(SetDefault(f, v, p), new)
    <2>. DEFINE d == SetDefault(f, v, p)
    <2>1. d \in [D -> Ids \cup {None}]
          /\ \A w \in D : d[w] = IF w = v /\ f[w] = None THEN p ELSE f[w]
        BY SetDefaultIs
    <2>. HIDE DEF d
    <2>2. Leads(d, new)
        BY <2>1, <1>1, <1>3 DEF Leads
    <2>. QED
        BY <2>1, <2>2 DEF d
<1>4. /\ iy.bar \in [Bars -> Ids \cup {None}] /\ Leads(iy.bar, new)
      /\ iy.sku \in [Skus -> Ids \cup {None}] /\ Leads(iy.sku, new)
      /\ iy.name \in [Names -> Ids \cup {None}] /\ Leads(iy.name, new)
    BY <1>3 DEF Indexed, Keys
<1>5. Keys(iy, new)
    <2>1. iy = [ext |-> iy.ext, bar |-> iy.bar, sku |-> iy.sku, name |-> iy.name]
        BY DEF Indexed
    <2>. QED
        BY <2>1, <1>2, <1>4 DEF Keys
<1>. QED
    BY <1>5

\* A card that is written in memory under an identifier that is its own or is
\* still free keeps the memory in order.
LEMMA WriteKeeps ==
    ASSUME NEW cards, NEW ix, NEW p \in Ids, NEW card \in Card,
           cards \in [Ids -> Card \cup {None}], Unique(cards),
           Keys(ix, cards), Inverse1C(ix.ext, cards),
           card.ext \in Goods => ix.ext[card.ext] \in {None, p},
           \A g \in Goods : Has(cards, p, g) => card.ext = g
    PROVE  LET new == [cards EXCEPT ![p] = card]
           IN  /\ Unique(new)
               /\ Keys(Indexed(ix, card, p), new)
               /\ Inverse1C(Indexed(ix, card, p).ext, new)
<1>. DEFINE new == [cards EXCEPT ![p] = card]
            iy == Indexed(ix, card, p)
<1>1. card # None
    OBVIOUS
<1>2. ASSUME NEW q \in Ids, NEW g \in Goods
      PROVE  Has(new, q, g) <=> IF q = p THEN card.ext = g ELSE Has(cards, q, g)
    BY <1>1 DEF Has
<1>3. ASSUME NEW q \in Ids, q # p, NEW g \in Goods, card.ext = g
      PROVE  ~Has(cards, q, g)
    BY <1>3 DEF Inverse1C
<1>4. Unique(new)
    BY <1>2, <1>3 DEF Unique
<1>5. /\ iy.ext \in [Goods -> Ids \cup {None}]
      /\ \A g \in Goods : iy.ext[g] = IF g = card.ext /\ ix.ext[g] = None THEN p ELSE ix.ext[g]
    BY SetDefaultIs DEF Indexed, Keys
<1>7. Keys(iy, new)
    BY IndexedKeys
<1>8. Inverse1C(iy.ext, new)
    <2>1. ASSUME NEW g \in Goods, iy.ext[g] # None
          PROVE  iy.ext[g] \in Ids /\ Has(new, iy.ext[g], g)
        <3>1. CASE g = card.ext
            <4>1. ix.ext[g] \in {None, p}
                BY <3>1
            <4>2. iy.ext[g] = p
                BY <3>1, <4>1, <1>5, <2>1
            <4>3. Has(new, p, g)
                BY <3>1, <1>2
            <4>. QED
                BY <4>2, <4>3
        <3>2. CASE g # card.ext
            <4>1. ix.ext[g] # None /\ iy.ext[g] = ix.ext[g]
                BY <3>2, <1>5, <2>1
            <4>2. ix.ext[g] \in Ids /\ Has(cards, ix.ext[g], g)
                BY <4>1 DEF Inverse1C
            <4>3. ix.ext[g] # p
                BY <4>2, <3>2
            <4>. QED
                BY <4>1, <4>2, <4>3, <1>2
        <3>. QED
            BY <3>1, <3>2
    <2>2. ASSUME NEW g \in Goods, NEW q \in Ids, Has(new, q, g)
          PROVE  iy.ext[g] = q
        <3>1. CASE q = p
            BY <3>1, <2>2, <1>2, <1>5
        <3>2. CASE q # p
            <4>1. Has(cards, q, g)
                BY <3>2, <2>2, <1>2
            <4>2. ix.ext[g] = q
                BY <4>1 DEF Inverse1C
            <4>. QED
                BY <4>2, <1>5
        <3>. QED
            BY <3>1, <3>2
    <2>. QED
        BY <2>1, <2>2 DEF Inverse1C
<1>. QED
    BY <1>4, <1>7, <1>8

\* A step of one session that leaves the tables and the other sessions alone.
LEMMA InHandInv ==
    ASSUME CatalogInv, NEW s \in Sessions, pc[s] = "apply",
           UNCHANGED <<products, services, pc, read>>,
           used' \in 0..MaxId, used <= used',
           DOMAIN mem' = Sessions, DOMAIN index' = Sessions,
           ExchangeInv(s)'
    PROVE  CatalogInv'
<1>1. Shapes'
    BY DEF CatalogInv, Shapes
<1>2. Rows(products)' /\ Unique(products)' /\ OneAtATime'
    BY DEF CatalogInv, Shapes, Rows, Unique, OneAtATime
<1>3. ASSUME NEW t \in Sessions, pc'[t] = "apply" PROVE ExchangeInv(t)'
    <2>1. t = s
        BY <1>3, AloneIs
    <2>. QED
        BY <2>1
<1>. QED
    BY <1>1, <1>2, <1>3 DEF CatalogInv

LEMMA KnownLineInv ==
    ASSUME CatalogInv, NEW s \in Sessions, KnownLine(s)
    PROVE  CatalogInv'
<1>1. PICK line \in Line :
        LET p == Find(index[s], mem[s], line)
            card == Updated(mem[s][p], line)
            writes == ~line.bad /\ kind[s] = "products"
        IN  /\ p # None
            /\ IF writes
               THEN /\ mem' = [mem EXCEPT ![s][p] = card]
                    /\ index' = [index EXCEPT ![s] = Indexed(index[s], card, p)]
               ELSE UNCHANGED <<mem, index>>
    BY DEF KnownLine
<1>. DEFINE p == Find(index[s], mem[s], line)
            card == Updated(mem[s][p], line)
<1>2. /\ pc[s] = "apply" /\ ExchangeInv(s)
      /\ UNCHANGED <<products, services, used, pc, read>>
    BY DEF KnownLine, CatalogInv, dbVars
<1>3. /\ p # None => p \in Ids /\ mem[s][p] # None
      /\ line.ext \in Goods /\ p # None =>
            \/ Has(mem[s], p, line.ext)
            \/ mem[s][p].ext = Blank /\ index[s].ext[line.ext] = None
            \/ mem[s][p].ext = line.ext /\ index[s].ext[line.ext] = None
    BY <1>2, FindIs DEF ExchangeInv
<1>4. CASE UNCHANGED <<mem, index>>
    <2>1. ExchangeInv(s)'
        BY <1>2, <1>4 DEF ExchangeInv, Fresh, Rows
    <2>. QED
        BY <2>1, <1>2, <1>4, InHandInv DEF CatalogInv, Shapes
<1>5. CASE /\ mem' = [mem EXCEPT ![s][p] = card]
           /\ index' = [index EXCEPT ![s] = Indexed(index[s], card, p)]
    <2>. DEFINE cards == mem[s]
                ix == index[s]
    <2>1. p \in Ids /\ cards[p] \in Card
        BY <1>1, <1>2, <1>3 DEF ExchangeInv, Rows
    <2>2. card \in Card
        BY <2>1 DEF Updated, Line
    <2>3. card.ext = IF line.ext = Blank THEN cards[p].ext ELSE line.ext
        BY DEF Updated
    <2>4. card.ext \in Goods => ix.ext[card.ext] \in {None, p}
        BY <1>1, <1>2, <1>3, <2>1, <2>3 DEF ExchangeInv, Inverse1C, Has, Line
    <2>5. \A g \in Goods : Has(cards, p, g) => card.ext = g
        BY <1>1, <1>2, <1>3, <2>1, <2>3 DEF ExchangeInv, Inverse1C, Has, Line
    <2>6. mem'[s] = [cards EXCEPT ![p] = card] /\ index'[s] = Indexed(ix, card, p)
        BY <1>5 DEF CatalogInv, Shapes
    <2>. HIDE DEF card, p
    <2>7. /\ Unique(mem'[s])
          /\ Keys(index'[s], mem'[s])
          /\ Inverse1C(index'[s].ext, mem'[s])
        <3>1. /\ cards \in [Ids -> Card \cup {None}]
              /\ Unique(cards) /\ Keys(ix, cards) /\ Inverse1C(ix.ext, cards)
            BY <1>2 DEF ExchangeInv, Rows
        <3>. HIDE DEF cards, ix
        <3>2. LET new == [cards EXCEPT ![p] = card]
              IN  /\ Unique(new)
                  /\ Keys(Indexed(ix, card, p), new)
                  /\ Inverse1C(Indexed(ix, card, p).ext, new)
            BY <2>1, <2>2, <2>4, <2>5, <3>1, WriteKeeps
        <3>. QED
            BY <2>6, <3>2
    <2>8. Rows(mem[s])'
        BY <1>2, <1>3, <1>1, <2>1, <2>2, <2>6 DEF ExchangeInv, Rows, p
    <2>9. Fresh(s)'
        BY <1>2, <2>1, <2>2, <2>5, <2>6 DEF ExchangeInv, Fresh, Has, Rows
    <2>10. ExchangeInv(s)'
        BY <1>2, <2>7, <2>8, <2>9 DEF ExchangeInv
    <2>. QED
        BY <1>2, <1>5, <2>10, InHandInv DEF CatalogInv, Shapes
<1>. QED
    BY <1>1, <1>4, <1>5

LEMMA NewLineInv ==
    ASSUME CatalogInv, NEW s \in Sessions, NewLine(s)
    PROVE  CatalogInv'
<1>. DEFINE p == used + 1
            cards == mem[s]
            ix == index[s]
<1>1. PICK line \in Line :
        /\ Find(ix, cards, line) = None
        /\ mem' = [mem EXCEPT ![s][p] = NewCard(line)]
        /\ index' = [index EXCEPT ![s] = Indexed(ix, NewCard(line), p)]
    BY DEF NewLine
<1>. DEFINE card == NewCard(line)
<1>2. /\ pc[s] = "apply" /\ ExchangeInv(s) /\ p \in Ids /\ used \in Nat /\ used' = p
      /\ used' \in 0..MaxId /\ used <= used'
      /\ UNCHANGED <<products, services, pc, read>>
    BY DEF NewLine, CatalogInv, Shapes
<1>3. cards[p] = None /\ cards \in [Ids -> Card \cup {None}]
    BY <1>2 DEF ExchangeInv, Rows
<1>4. card \in Card /\ card.ext = line.ext
    BY DEF NewCard, Line
<1>5. card.ext \in Goods => ix.ext[card.ext] = None
    BY <1>1, <1>2, <1>4, FindIs DEF ExchangeInv
<1>6. \A g \in Goods : ~Has(cards, p, g)
    BY <1>3 DEF Has
<1>7. mem'[s] = [cards EXCEPT ![p] = card] /\ index'[s] = Indexed(ix, card, p)
    BY <1>1 DEF CatalogInv, Shapes
<1>. HIDE DEF card, p
<1>8. /\ Unique(mem'[s])
      /\ Keys(index'[s], mem'[s])
      /\ Inverse1C(index'[s].ext, mem'[s])
    <2>1. Unique(cards) /\ Keys(ix, cards) /\ Inverse1C(ix.ext, cards)
        BY <1>2 DEF ExchangeInv
    <2>2. card.ext \in Goods => ix.ext[card.ext] \in {None, p}
        BY <1>5
    <2>3. p \in Ids
        BY <1>2
    <2>. HIDE DEF cards, ix
    <2>4. \A g \in Goods : Has(cards, p, g) => card.ext = g
        BY <1>6
    <2>5. LET new == [cards EXCEPT ![p] = card]
          IN  /\ Unique(new)
              /\ Keys(Indexed(ix, card, p), new)
              /\ Inverse1C(Indexed(ix, card, p).ext, new)
        BY <2>1, <2>2, <2>3, <2>4, <1>3, <1>4, WriteKeeps
    <2>. QED
        BY <2>5, <1>7
<1>9. Rows(mem[s])'
    BY <1>2, <1>3, <1>4, <1>7 DEF ExchangeInv, Rows
<1>10. Fresh(s)'
    BY <1>2, <1>3, <1>4, <1>6, <1>7 DEF ExchangeInv, Fresh, Has
<1>11. ExchangeInv(s)'
    BY <1>2, <1>8, <1>9, <1>10 DEF ExchangeInv
<1>12. DOMAIN mem' = Sessions /\ DOMAIN index' = Sessions
    BY <1>1 DEF CatalogInv, Shapes
<1>. QED
    BY <1>2, <1>11, <1>12, InHandInv

\* An identifier that is in the table after a commit is the product's in the
\* memory of the exchange.
LEMMA CommitWrites ==
    ASSUME CatalogInv, NEW s \in Sessions, Commit(s),
           NEW p \in Ids, NEW g \in Goods, Has(products', p, g)
    PROVE  Has(mem[s], p, g)
<1>1. ExchangeInv(s)
    BY DEF Commit, CatalogInv
<1>2. PICK full \in BOOLEAN :
        /\ \A q \in ChangedCards(s) : IsNew(s, q) \/ products[q] # None
        /\ products' = [q \in Ids |-> IF q \in ChangedCards(s) THEN Written(s, q) ELSE products[q]]
    BY DEF Commit
<1>3. CASE p \in ChangedCards(s) /\ IsNew(s, p)
    BY <1>1, <1>2, <1>3 DEF Has, Written, ChangedCards, IsNew
<1>4. CASE p \in ChangedCards(s) /\ ~IsNew(s, p)
    <2>1. /\ mem[s][p] \in Card /\ read[s].products[p] \in Card /\ products[p] \in Card
          /\ mem[s][p] # None
        BY <1>1, <1>2, <1>4 DEF ExchangeInv, Rows, IsNew, CatalogInv, Fresh
    <2>2. products'[p].ext = IF mem[s][p].ext # read[s].products[p].ext THEN mem[s][p].ext
                             ELSE products[p].ext
        BY <1>2, <1>4, <2>1 DEF Written
    <2>3. CASE mem[s][p].ext # read[s].products[p].ext
        BY <2>1, <2>2, <2>3 DEF Has
    <2>4. CASE mem[s][p].ext = read[s].products[p].ext
        <3>1. Has(products, p, g)
            BY <2>1, <2>2, <2>4 DEF Has
        <3>. QED
            BY <1>1, <3>1 DEF ExchangeInv, Fresh
    <2>. QED
        BY <2>3, <2>4
<1>5. CASE p \notin ChangedCards(s)
    <2>1. Has(products, p, g)
        BY <1>2, <1>5 DEF Has
    <2>. QED
        BY <1>1, <2>1 DEF ExchangeInv, Fresh
<1>. QED
    BY <1>3, <1>4, <1>5

LEMMA SkippedLineInv ==
    ASSUME CatalogInv, NEW s \in Sessions, SkippedLine(s)
    PROVE  CatalogInv'
BY DEF SkippedLine, dbVars, CatalogInv, Shapes, Rows, Unique, OneAtATime, ExchangeInv, Keys,
       Inverse1C, Fresh, Has, Leads

LEMMA CommitInv ==
    ASSUME CatalogInv, NEW s \in Sessions, Commit(s)
    PROVE  CatalogInv'
<1>1. pc[s] = "apply" /\ ExchangeInv(s)
    BY DEF Commit, CatalogInv
<1>2. PICK full \in BOOLEAN :
        /\ \A q \in ChangedCards(s) : IsNew(s, q) \/ products[q] # None
        /\ products' = [q \in Ids |-> IF q \in ChangedCards(s) THEN Written(s, q) ELSE products[q]]
    BY DEF Commit
<1>3. pc' = [pc EXCEPT ![s] = "idle"] /\ used' = used
    BY DEF Commit, Over
<1>4. \A t \in Sessions : pc'[t] = "idle"
    BY <1>1, <1>3, AloneIs DEF CatalogInv, Shapes
<1>5. services' \in 0..1
    <2>1. services \in 0..1 /\ (read[s].service <=> services > 0)
        BY <1>1 DEF CatalogInv, Shapes, ExchangeInv, Fresh
    <2>2. CASE services = 0
        BY <2>2 DEF Commit, ServicesAfter
    <2>3. CASE services = 1
        <3>1. read[s].service
            BY <2>1, <2>3
        <3>2. services' = services
            BY <3>1 DEF Commit, ServicesAfter
        <3>. QED
            BY <2>3, <3>2
    <2>. QED
        BY <2>1, <2>2, <2>3
<1>6. Shapes'
    BY <1>3, <1>5 DEF Commit, Over, CatalogInv, Shapes
<1>7. Unique(products)'
    <2>1. ASSUME NEW p \in Ids, NEW q \in Ids, NEW g \in Goods,
                 Has(products', p, g), Has(products', q, g)
          PROVE  p = q
        BY <1>1, <2>1, CommitWrites DEF ExchangeInv, Unique
    <2>. QED
        BY <2>1 DEF Unique, Has
<1>8. Rows(products)'
    <2>1. ASSUME NEW p \in Ids
          PROVE  products'[p] \in Card \cup {None} /\ (products'[p] # None => p <= used)
        <3>1. CASE p \in ChangedCards(s) /\ IsNew(s, p)
            BY <1>1, <1>2, <3>1 DEF Written, ExchangeInv, Rows
        <3>2. CASE p \in ChangedCards(s) /\ ~IsNew(s, p)
            <4>1. mem[s][p] \in Card /\ products[p] \in Card /\ p <= used
                BY <1>1, <1>2, <3>2 DEF ExchangeInv, Rows, IsNew, CatalogInv, Fresh
            <4>2. Written(s, p) \in Card
                BY <3>2, <4>1 DEF Written
            <4>. QED
                BY <1>2, <3>2, <4>1, <4>2
        <3>3. CASE p \notin ChangedCards(s)
            BY <1>2, <3>3 DEF CatalogInv, Rows
        <3>. QED
            BY <3>1, <3>2, <3>3
    <2>. QED
        BY <1>2, <1>3, <2>1 DEF Rows
<1>. QED
    BY <1>4, <1>6, <1>7, <1>8 DEF CatalogInv, OneAtATime

LEMMA RollBackInv ==
    ASSUME CatalogInv, NEW s \in Sessions, RollBack(s)
    PROVE  CatalogInv'
<1>1. \A t \in Sessions : pc'[t] = "idle"
    BY AloneIs DEF RollBack, Over, CatalogInv, Shapes
<1>2. Shapes'
    BY DEF RollBack, Over, dbVars, CatalogInv, Shapes
<1>. QED
    BY <1>1, <1>2 DEF RollBack, dbVars, CatalogInv, OneAtATime, Rows, Unique, Has

\* Staff makes, changes and deletes rows but never writes an identifier.
LEMMA StaffKeeps ==
    ASSUME CatalogInv,
           UNCHANGED <<services, exVars>>,
           used' \in 0..MaxId, used <= used',
           products' \in [Ids -> Card \cup {None}],
           \A p \in Ids : products'[p] # None => p <= used',
           \A p \in Ids, g \in Goods : Has(products', p, g) => Has(products, p, g)
    PROVE  CatalogInv'
<1>1. Shapes' /\ OneAtATime'
    BY DEF CatalogInv, Shapes, OneAtATime, exVars
<1>2. Rows(products)'
    BY DEF Rows
<1>3. Unique(products)'
    <2>1. ASSUME NEW p \in Ids, NEW q \in Ids, NEW g \in Goods,
                 Has(products', p, g), Has(products', q, g)
          PROVE  p = q
        BY <2>1 DEF CatalogInv, Unique
    <2>. QED
        BY <2>1 DEF Unique, Has
<1>4. ASSUME NEW s \in Sessions, pc'[s] = "apply" PROVE ExchangeInv(s)'
    <2>1. ExchangeInv(s) /\ UNCHANGED <<mem, read, index, services>>
        BY <1>4 DEF exVars, CatalogInv
    <2>2. Rows(mem[s])'
        BY <2>1 DEF ExchangeInv, Rows, CatalogInv, Shapes
    <2>3. Fresh(s)'
        <3>1. ASSUME NEW p \in Ids, NEW g \in Goods, Has(products', p, g)
              PROVE  Has(read[s].products, p, g)
            BY <2>1, <3>1 DEF ExchangeInv, Fresh
        <3>. QED
            BY <2>1, <3>1 DEF ExchangeInv, Fresh, Has
    <2>. QED
        BY <2>1, <2>2, <2>3 DEF ExchangeInv
<1>. QED
    BY <1>1, <1>2, <1>3, <1>4 DEF CatalogInv

LEMMA StaffAddsInv ==
    ASSUME CatalogInv, StaffAdds
    PROVE  CatalogInv'
<1>1. PICK bar \in Bars \cup {Blank}, sku \in Skus \cup {Blank}, name \in Names :
        products' = [products EXCEPT ![used + 1] =
                        [ext |-> Blank, bar |-> bar, sku |-> sku, name |-> name]]
    BY DEF StaffAdds
<1>2. used' = used + 1 /\ used \in Nat /\ used < MaxId /\ UNCHANGED <<services, exVars>>
    BY DEF StaffAdds, CatalogInv, Shapes
<1>3. products' \in [Ids -> Card \cup {None}]
    BY <1>1, <1>2 DEF CatalogInv, Rows
<1>4. \A p \in Ids : products'[p] # None => p <= used'
    BY <1>1, <1>2 DEF CatalogInv, Rows
<1>5. ASSUME NEW p \in Ids, NEW g \in Goods, Has(products', p, g) PROVE Has(products, p, g)
    BY <1>1, <1>5 DEF CatalogInv, Rows, Has
<1>. QED
    BY <1>2, <1>3, <1>4, <1>5, StaffKeeps

LEMMA EditKeepsGood ==
    ASSUME CatalogInv, NEW q \in Ids, StaffEdits(q), NEW p \in Ids, products[p] # None
    PROVE  products'[p].ext = products[p].ext
<1>1. PICK bar \in Bars \cup {Blank}, sku \in Skus \cup {Blank}, name \in Names :
        products' = [products EXCEPT ![q].bar = bar, ![q].sku = sku, ![q].name = name]
    BY DEF StaffEdits
<1>2. /\ products \in [Ids -> Card \cup {None}]
      /\ products[q] \in Card /\ products[p] \in Card
    BY DEF StaffEdits, CatalogInv, Rows
<1>3. products' = [products EXCEPT ![q] = [products[q] EXCEPT !.bar = bar, !.sku = sku,
                                                            !.name = name]]
    BY <1>1, <1>2
<1>. QED
    BY <1>2, <1>3

LEMMA StaffEditsInv ==
    ASSUME CatalogInv, NEW p \in Ids, StaffEdits(p)
    PROVE  CatalogInv'
<1>1. PICK bar \in Bars \cup {Blank}, sku \in Skus \cup {Blank}, name \in Names :
        products' = [products EXCEPT ![p].bar = bar, ![p].sku = sku, ![p].name = name]
    BY DEF StaffEdits
<1>2. UNCHANGED <<services, used, exVars>> /\ products[p] # None /\ used \in 0..MaxId
    BY DEF StaffEdits, CatalogInv, Shapes
<1>. DEFINE card == [products[p] EXCEPT !.bar = bar, !.sku = sku, !.name = name]
<1>6. products[p] \in Card /\ products \in [Ids -> Card \cup {None}]
    BY <1>2 DEF CatalogInv, Rows
<1>7. card \in Card /\ card.ext = products[p].ext
    BY <1>6
<1>8. products' = [products EXCEPT ![p] = card]
    BY <1>1, <1>6
<1>. HIDE DEF card
<1>3. products' \in [Ids -> Card \cup {None}]
    BY <1>6, <1>7, <1>8
<1>4. \A q \in Ids : products'[q] # None => q <= used'
    BY <1>6, <1>8, <1>2 DEF CatalogInv, Rows
<1>5. ASSUME NEW q \in Ids, NEW g \in Goods, Has(products', q, g) PROVE Has(products, q, g)
    BY <1>6, <1>7, <1>8, <1>2, <1>5 DEF Has
<1>. QED
    BY <1>2, <1>3, <1>4, <1>5, StaffKeeps

LEMMA StaffDeletesInv ==
    ASSUME CatalogInv, NEW p \in Ids, StaffDeletes(p)
    PROVE  CatalogInv'
<1>1. products' = [products EXCEPT ![p] = None]
    BY DEF StaffDeletes
<1>2. UNCHANGED <<services, used, exVars>> /\ used \in 0..MaxId
    BY DEF StaffDeletes, CatalogInv, Shapes
<1>3. products' \in [Ids -> Card \cup {None}]
      /\ \A q \in Ids : products'[q] # None => q <= used'
    BY <1>1, <1>2 DEF CatalogInv, Rows
<1>4. ASSUME NEW q \in Ids, NEW g \in Goods, Has(products', q, g) PROVE Has(products, q, g)
    BY <1>1, <1>4 DEF CatalogInv, Rows, Has
<1>. QED
    BY <1>2, <1>3, <1>4, StaffKeeps

-----------------------------------------------------------------------------
(* The theorems                                                            *)

LEMMA StutterInv ==
    ASSUME CatalogInv, UNCHANGED vars
    PROVE  CatalogInv'
BY DEF vars, dbVars, exVars, CatalogInv, Shapes, Rows, Unique, OneAtATime, ExchangeInv, Keys,
       Inverse1C, Fresh, Has, Leads

LEMMA CatalogInvariant ==
    ASSUME Locked
    PROVE  Spec => []CatalogInv
<1>1. CatalogInv /\ [Next]_vars => CatalogInv'
    <2>. SUFFICES ASSUME CatalogInv, [Next]_vars PROVE CatalogInv'
        OBVIOUS
    <2>1. ASSUME NEW s \in Sessions,
                 \/ Begin(s) \/ KnownLine(s) \/ NewLine(s)
                 \/ SkippedLine(s) \/ Commit(s) \/ RollBack(s)
          PROVE  CatalogInv'
        BY <2>1, BeginInv, KnownLineInv, NewLineInv, SkippedLineInv, CommitInv, RollBackInv
    <2>2. CASE StaffAdds
        BY <2>2, StaffAddsInv
    <2>3. ASSUME NEW p \in Ids, StaffEdits(p) \/ StaffDeletes(p) PROVE CatalogInv'
        BY <2>3, StaffEditsInv, StaffDeletesInv
    <2>4. CASE UNCHANGED vars
        BY <2>4, StutterInv
    <2>. QED
        BY <2>1, <2>2, <2>3, <2>4 DEF Next
<1>. QED
    BY InitInv, <1>1, PTL DEF Spec

\* On PostgreSQL two products never have the same identifier of 1C, whatever
\* 1C sends, repeats or renames and whatever staff does meanwhile
\* (lock_exchange, Catalog.find, apply_products, apply_supplies).
THEOREM OneCard ==
    ASSUME Locked
    PROVE  Spec => []OneCardPerGood
<1>1. CatalogInv => OneCardPerGood
    BY DEF CatalogInv, Rows, Unique, Has, OneCardPerGood
<1>. QED
    BY CatalogInvariant, <1>1, PTL

\* ensure_service_supply makes the service supply once.
THEOREM OneService ==
    ASSUME Locked
    PROVE  Spec => []OneServiceSupply
<1>1. CatalogInv => OneServiceSupply
    BY DEF CatalogInv, Shapes, OneServiceSupply
<1>. QED
    BY CatalogInvariant, <1>1, PTL

\* A product never becomes that of other goods.
THEOREM CardIsKept ==
    ASSUME Locked
    PROVE  Spec => CardKeepsItsGood
<1>1. ASSUME CatalogInv, CatalogInv', [Next]_vars,
             NEW p \in Ids, products[p] # None, products[p].ext # Blank
      PROVE  products'[p] = None \/ products'[p].ext = products[p].ext
    <2>1. ASSUME NEW s \in Sessions, Commit(s), products'[p] # None
          PROVE  products'[p].ext = products[p].ext
        <3>1. ExchangeInv(s) /\ products[p].ext \in Goods /\ Has(products, p, products[p].ext)
            BY <1>1, <2>1 DEF Commit, CatalogInv, Rows, Has
        <3>2. Has(mem[s], p, products[p].ext) /\ Has(read[s].products, p, products[p].ext)
            BY <3>1 DEF ExchangeInv, Fresh
        <3>3. PICK full \in BOOLEAN :
                products' = [q \in Ids |-> IF q \in ChangedCards(s) THEN Written(s, q)
                                          ELSE products[q]]
            BY <2>1 DEF Commit
        <3>4. CASE p \in ChangedCards(s)
            <4>1. mem[s][p] \in Card
                BY <3>1, <3>2 DEF ExchangeInv, Rows, Has
            <4>2. Written(s, p).ext = products[p].ext
                BY <3>2, <4>1 DEF Written, IsNew, Has
            <4>. QED
                BY <3>3, <3>4, <4>2
        <3>5. CASE p \notin ChangedCards(s)
            BY <3>3, <3>5
        <3>. QED
            BY <3>4, <3>5
    <2>2. ASSUME NEW s \in Sessions,
                 Begin(s) \/ KnownLine(s) \/ NewLine(s) \/ SkippedLine(s) \/ RollBack(s)
          PROVE  products' = products
        BY <2>2 DEF Begin, KnownLine, NewLine, SkippedLine, RollBack, dbVars
    <2>3. CASE StaffAdds
        BY <1>1, <2>3 DEF StaffAdds, CatalogInv, Rows, Shapes
    <2>4. ASSUME NEW q \in Ids, StaffEdits(q) \/ StaffDeletes(q)
          PROVE  products'[p] = None \/ products'[p].ext = products[p].ext
        <3>1. CASE StaffDeletes(q)
            BY <1>1, <3>1 DEF StaffDeletes, CatalogInv, Rows
        <3>2. CASE StaffEdits(q)
            BY <1>1, <3>2, EditKeepsGood
        <3>. QED
            BY <2>4, <3>1, <3>2
    <2>5. CASE UNCHANGED vars
        BY <2>5 DEF vars, dbVars
    <2>. QED
        BY <1>1, <2>1, <2>2, <2>3, <2>4, <2>5 DEF Next
<1>2. CatalogInv /\ CatalogInv' /\ [Next]_vars =>
        [\A p \in Ids :
            products[p] # None /\ products[p].ext # Blank =>
                products'[p] = None \/ products'[p].ext = products[p].ext]_vars
    BY <1>1
<1>. QED
    BY CatalogInvariant, <1>2, PTL DEF Spec, CardKeepsItsGood

-----------------------------------------------------------------------------
(* A full list and the lines in error                                      *)

\* What has an identifier that a line gave has been seen: by_ext leads there.
Remembers(s) ==
    \A g \in named[s], p \in Ids : Has(read[s].products, p, g) => p \in seen[s]

SeenInv ==
    /\ DOMAIN seen = Sessions /\ DOMAIN named = Sessions
    /\ \A s \in Sessions : named[s] \subseteq Goods /\ Remembers(s)
    /\ \A s \in Sessions : pc[s] = "idle" => named[s] = {}

\* A line adds the identifier it gives; the product that has it is found.
LEMMA LineIsSeen ==
    ASSUME SeenInv, NEW s \in Sessions, pc[s] = "apply", UNCHANGED <<pc, read>>,
           NEW line \in Line, named' = Named(s, line), DOMAIN seen' = Sessions,
           \A t \in Sessions : seen[t] \subseteq seen'[t],
           \A p \in Ids : line.ext \in Goods /\ Has(read[s].products, p, line.ext) => p \in seen'[s]
    PROVE  SeenInv'
<1>1. line.ext \in Goods \cup {Blank}
    BY DEF Line
<1>2. /\ DOMAIN named' = Sessions /\ named'[s] = named[s] \cup ({line.ext} \ {Blank})
      /\ \A t \in Sessions \ {s} : named'[t] = named[t]
    BY DEF Named, SeenInv
<1>3. \A t \in Sessions : named'[t] \subseteq Goods
    BY <1>1, <1>2 DEF SeenInv
<1>4. ASSUME NEW t \in Sessions PROVE Remembers(t)'
    <2>. SUFFICES ASSUME NEW g \in named'[t], NEW p \in Ids, Has(read[t].products, p, g)
                  PROVE  p \in seen'[t]
        BY DEF Remembers, Has
    <2>1. CASE g \in named[t]
        BY <2>1 DEF SeenInv, Remembers
    <2>2. CASE g \notin named[t]
        BY <1>2, <1>3, <2>2
    <2>. QED
        BY <2>1, <2>2
<1>. QED
    BY <1>2, <1>3, <1>4 DEF SeenInv

LEMMA OverIsSeen ==
    ASSUME SeenInv, NEW s \in Sessions, Over(s)
    PROVE  SeenInv'
<1>1. /\ DOMAIN seen' = Sessions /\ DOMAIN named' = Sessions /\ named'[s] = {}
      /\ \A t \in Sessions \ {s} : /\ named'[t] = named[t] /\ seen'[t] = seen[t]
                                   /\ pc[t] = pc'[t] /\ read[t] = read'[t]
    BY DEF Over, SeenInv
<1>2. \A t \in Sessions : Remembers(t)'
    BY <1>1 DEF SeenInv, Remembers, Has
<1>. QED
    BY <1>1, <1>2 DEF SeenInv

LEMMA SeenStep ==
    ASSUME CatalogInv, SeenInv, [Next]_vars
    PROVE  SeenInv'
<1>1. ASSUME NEW s \in Sessions, Begin(s) PROVE SeenInv'
    <2>1. named[s] = {} /\ UNCHANGED <<seen, named>>
          /\ \A t \in Sessions \ {s} : pc'[t] = pc[t] /\ read'[t] = read[t]
          /\ pc'[s] = "apply"
        BY <1>1 DEF Begin, SeenInv, CatalogInv, Shapes
    <2>2. \A t \in Sessions : Remembers(t)'
        BY <2>1 DEF SeenInv, Remembers, Has
    <2>. QED
        BY <2>1, <2>2 DEF SeenInv
<1>2. ASSUME NEW s \in Sessions, pc[s] = "apply", NEW line \in Line, NEW p \in Ids,
             line.ext \in Goods, Has(read[s].products, p, line.ext)
      PROVE  Find(index[s], mem[s], line) = p
    <2>1. ExchangeInv(s)
        BY <1>2 DEF CatalogInv
    <2>2. index[s].ext[line.ext] = p
        BY <1>2, <2>1 DEF ExchangeInv, Fresh, Inverse1C
    <2>3. At(index[s].ext, line.ext) = p
        BY <1>2, <2>1, <2>2 DEF ExchangeInv, Keys, At
    <2>. QED
        BY <2>3 DEF Find
<1>3. ASSUME NEW s \in Sessions, KnownLine(s) PROVE SeenInv'
    <2>1. PICK line \in Line : /\ named' = Named(s, line)
                               /\ seen' = [seen EXCEPT ![s] = seen[s] \cup {Find(index[s], mem[s], line)}]
        BY <1>3 DEF KnownLine, Seen
    <2>2. pc[s] = "apply" /\ UNCHANGED <<pc, read>>
        BY <1>3 DEF KnownLine
    <2>3. \A t \in Sessions : seen[t] \subseteq seen'[t]
        BY <2>1 DEF SeenInv
    <2>4. DOMAIN seen' = Sessions /\ Find(index[s], mem[s], line) \in seen'[s]
        BY <2>1 DEF SeenInv
    <2>. QED
        BY <1>2, <2>1, <2>2, <2>3, <2>4, LineIsSeen
<1>4. ASSUME NEW s \in Sessions, NewLine(s) PROVE SeenInv'
    <2>1. PICK line \in Line : /\ named' = Named(s, line)
                               /\ Find(index[s], mem[s], line) = None
                               /\ seen' = [seen EXCEPT ![s] = seen[s] \cup {used + 1}]
        BY <1>4 DEF NewLine
    <2>2. pc[s] = "apply" /\ UNCHANGED <<pc, read>>
        BY <1>4 DEF NewLine
    <2>3. (\A t \in Sessions : seen[t] \subseteq seen'[t]) /\ DOMAIN seen' = Sessions
        BY <2>1 DEF SeenInv
    <2>. QED
        BY <1>2, <2>1, <2>2, <2>3, LineIsSeen
<1>5. ASSUME NEW s \in Sessions, SkippedLine(s) PROVE SeenInv'
    <2>1. PICK line \in Line : /\ named' = Named(s, line)
                               /\ Find(index[s], mem[s], line) = None
        BY <1>5 DEF SkippedLine
    <2>2. pc[s] = "apply" /\ UNCHANGED <<pc, read, seen>>
        BY <1>5 DEF SkippedLine
    <2>. QED
        BY <1>2, <2>1, <2>2, LineIsSeen DEF SeenInv
<1>6. ASSUME NEW s \in Sessions, Commit(s) \/ RollBack(s) PROVE SeenInv'
    BY <1>6, OverIsSeen DEF Commit, RollBack
<1>7. CASE UNCHANGED exVars
    BY <1>7 DEF exVars, SeenInv, Remembers, Has
<1>8. StaffAdds \/ (\E p \in Ids : StaffEdits(p) \/ StaffDeletes(p)) => UNCHANGED exVars
    BY DEF StaffAdds, StaffEdits, StaffDeletes
<1>. QED
    BY <1>1, <1>3, <1>4, <1>5, <1>6, <1>7, <1>8 DEF Next, vars

\* A full list does not take off the shelf a product that one of its lines
\* names, were the line in error (apply_products: seen is filled before the
\* line is checked), on PostgreSQL and whatever staff does meanwhile.
THEOREM NamedGoodsStay ==
    ASSUME Locked
    PROVE  Spec => BadLineKeepsStock
<1>1. Init => SeenInv
    BY DEF Init, SeenInv, Remembers
<1>2. ASSUME CatalogInv, SeenInv, [Next]_vars, NEW s \in Sessions, NEW p \in Ids,
             pc[s] = "apply", pc'[s] = "idle",
             products[p] # None, products[p].ext \in named[s], stock'[p] # stock[p]
      PROVE  stock'[p] = shelf[s][p]
    <2>1. p \in seen[s]
        BY <1>2 DEF CatalogInv, ExchangeInv, Fresh, SeenInv, Remembers, Has
    <2>2. CASE Commit(s)
        <3>1. PICK full \in BOOLEAN :
                LET left == IF kind[s] = "products" THEN AfterList(s, full) ELSE read[s].stock
                IN  stock' = [q \in Ids |-> IF q \in ChangedLines(s, left) THEN left[q]
                                            ELSE stock[q]]
            BY <2>2 DEF Commit
        <3>2. CASE kind[s] = "products"
            <4>1. stock'[p] = AfterList(s, full)[p]
                BY <1>2, <3>1, <3>2
            <4>. QED
                BY <2>1, <4>1 DEF AfterList
        <3>3. CASE kind[s] # "products"
            BY <1>2, <3>1, <3>3 DEF ChangedLines
        <3>. QED
            BY <3>2, <3>3
    <2>3. ASSUME NEW t \in Sessions,
                 Begin(t) \/ KnownLine(t) \/ NewLine(t) \/ SkippedLine(t) \/ RollBack(t)
          PROVE  stock' = stock
        BY <2>3 DEF Begin, KnownLine, NewLine, SkippedLine, RollBack, dbVars
    <2>4. ASSUME NEW t \in Sessions, t # s, Commit(t) PROVE FALSE
        BY <1>2, <2>4, AloneIs DEF Commit
    <2>5. CASE UNCHANGED exVars
        BY <1>2, <2>5 DEF exVars
    <2>6. StaffAdds \/ (\E q \in Ids : StaffEdits(q) \/ StaffDeletes(q)) => UNCHANGED exVars
        BY DEF StaffAdds, StaffEdits, StaffDeletes
    <2>. QED
        BY <1>2, <2>2, <2>3, <2>4, <2>5, <2>6 DEF Next, vars
<1>3. CatalogInv /\ SeenInv /\ [Next]_vars =>
        [\A s \in Sessions, p \in Ids :
            /\ pc[s] = "apply" /\ pc'[s] = "idle"
            /\ products[p] # None /\ products[p].ext \in named[s]
            /\ stock'[p] # stock[p]
            => stock'[p] = shelf[s][p]]_vars
    BY <1>2
<1>4. CatalogInv /\ SeenInv /\ [Next]_vars => SeenInv'
    BY SeenStep
<1>. QED
    BY CatalogInvariant, <1>1, <1>3, <1>4, PTL DEF Spec, BadLineKeepsStock

-----------------------------------------------------------------------------
(* Goods of one message, with the lock and without it                      *)

\* An identifier by_ext knows is that of the product it leads to, and of one
\* that a line has led to since.
Landing(s) ==
    \A g \in Goods : landed[s][g] # None =>
        landed[s][g] \in Ids /\ Has(mem[s], landed[s][g], g)

LeadsToIts(ix, cards) ==
    \A g \in Goods : ix[g] # None => ix[g] \in Ids /\ Has(cards, ix[g], g)

InHand(s) ==
    /\ Rows(mem[s])
    /\ read[s].products \in [Ids -> Card \cup {None}]
    /\ \A p \in Ids : read[s].products[p] # None => mem[s][p] # None
    /\ Keys(index[s], mem[s])
    /\ LeadsToIts(index[s].ext, mem[s])
    /\ kind[s] = "products" => Landing(s)

ApartInv ==
    /\ used \in 0..MaxId
    /\ pc \in [Sessions -> {"idle", "apply"}]
    /\ DOMAIN read = Sessions /\ DOMAIN mem = Sessions /\ DOMAIN index = Sessions
    /\ DOMAIN kind = Sessions /\ landed \in [Sessions -> [Goods -> Ids \cup {None}]]
    /\ Rows(products)
    /\ \A s \in Sessions :
        IF pc[s] = "apply" THEN InHand(s) ELSE \A g \in Goods : landed[s][g] = None

\* The product a key leads to is taken only if 1C knows it by no other
\* identifier.
LEMMA FindFits ==
    ASSUME NEW cards, NEW ix, Keys(ix, cards), LeadsToIts(ix.ext, cards),
           NEW line \in Line, NEW p, p = Find(ix, cards, line), p # None
    PROVE  /\ p \in Ids /\ cards[p] # None
           /\ line.ext \in Goods => cards[p].ext \in {Blank, line.ext}
<1>. DEFINE e == At(ix.ext, line.ext)
            b == At(ix.bar, line.bar)
            k == At(ix.sku, line.sku)
            n == At(ix.name, line.name)
<1>1. \A x \in {e, b, k, n} : x = None \/ (x \in Ids /\ cards[x] # None)
    BY DEF Keys, At, Leads, LeadsToIts, Has
<1>2. CASE e # None
    <2>1. p = e
        BY <1>2 DEF Find
    <2>2. cards[e].ext = line.ext
        BY <1>2 DEF LeadsToIts, Has, At, Keys
    <2>. QED
        BY <1>1, <2>1, <2>2
<1>3. CASE e = None
    <2>1. p \in {b, k, n} /\ Fits(cards, line.ext, p)
        BY <1>3 DEF Find
    <2>. QED
        BY <1>1, <2>1 DEF Fits
<1>. QED
    BY <1>2, <1>3

\* A card written under an identifier that is its own keeps what by_ext and
\* the earlier lines say.
LEMMA WriteKeepsApart ==
    ASSUME NEW cards, NEW ix, NEW p \in Ids, NEW card \in Card,
           cards \in [Ids -> Card \cup {None}], Keys(ix, cards), LeadsToIts(ix.ext, cards),
           \A g \in Goods : Has(cards, p, g) => card.ext = g
    PROVE  /\ \A q \in Ids, g \in Goods : Has(cards, q, g) => Has([cards EXCEPT ![p] = card], q, g)
           /\ LeadsToIts(Indexed(ix, card, p).ext, [cards EXCEPT ![p] = card])
<1>. DEFINE new == [cards EXCEPT ![p] = card]
            iy == Indexed(ix, card, p)
<1>1. \A q \in Ids, g \in Goods : Has(cards, q, g) => Has(new, q, g)
    BY DEF Has
<1>2. Has(new, p, card.ext)
    BY DEF Has
<1>3. \A g \in Goods : iy.ext[g] = IF g = card.ext /\ ix.ext[g] = None THEN p ELSE ix.ext[g]
    BY SetDefaultIs DEF Indexed, Keys
<1>. HIDE DEF new, iy
<1>4. LeadsToIts(iy.ext, new)
    BY <1>1, <1>2, <1>3 DEF LeadsToIts
<1>. QED
    BY <1>1, <1>4 DEF new, iy

\* A step of one session that leaves the table and the other sessions alone.
LEMMA InHandApart ==
    ASSUME ApartInv, NEW s \in Sessions, pc[s] = "apply",
           UNCHANGED <<products, pc, kind, read>>,
           used' \in 0..MaxId, used <= used',
           DOMAIN mem' = Sessions, DOMAIN index' = Sessions,
           landed' \in [Sessions -> [Goods -> Ids \cup {None}]],
           \A t \in Sessions \ {s} : /\ mem'[t] = mem[t] /\ index'[t] = index[t]
                                     /\ landed'[t] = landed[t],
           InHand(s)'
    PROVE  ApartInv'
<1>1. Rows(products)'
    BY DEF ApartInv, Rows
<1>2. ASSUME NEW t \in Sessions \ {s}, pc[t] = "apply" PROVE InHand(t)'
    BY <1>2 DEF ApartInv, InHand, Rows, Landing
<1>. QED
    BY <1>1, <1>2 DEF ApartInv

\* A line that writes puts a card where it is found, or under a new id.
LEMMA WrittenApart ==
    ASSUME ApartInv, NEW s \in Sessions, pc[s] = "apply",
           UNCHANGED <<products, pc, kind, read>>,
           used' \in 0..MaxId, used <= used',
           NEW line \in Line, NEW p \in Ids, NEW card \in Card, p <= used',
           mem' = [mem EXCEPT ![s][p] = card],
           index' = [index EXCEPT ![s] = Indexed(index[s], card, p)],
           \A g \in Goods : Has(mem[s], p, g) => card.ext = g,
           line.ext \in Goods => card.ext = line.ext,
           landed' = Landed(s, line, p)
    PROVE  ApartInv'
<1>1. InHand(s) /\ mem[s] \in [Ids -> Card \cup {None}]
    BY DEF ApartInv, InHand, Rows
<1>2. /\ mem'[s] = [mem[s] EXCEPT ![p] = card] /\ index'[s] = Indexed(index[s], card, p)
      /\ DOMAIN mem' = Sessions /\ DOMAIN index' = Sessions
      /\ \A t \in Sessions \ {s} : mem'[t] = mem[t] /\ index'[t] = index[t]
    BY DEF ApartInv
<1>3. /\ Keys(index'[s], mem'[s])
      /\ \A q \in Ids, g \in Goods : Has(mem[s], q, g) => Has(mem'[s], q, g)
      /\ LeadsToIts(index'[s].ext, mem'[s])
    BY <1>1, <1>2, IndexedKeys, WriteKeepsApart DEF InHand
<1>4. /\ landed' \in [Sessions -> [Goods -> Ids \cup {None}]]
      /\ \A t \in Sessions \ {s} : landed'[t] = landed[t]
      /\ \A g \in Goods : landed'[s][g] = IF g = line.ext THEN p ELSE landed[s][g]
    BY DEF ApartInv, Landed, Line
<1>5. Has(mem'[s], p, card.ext)
    BY <1>1, <1>2 DEF Has
<1>6. ASSUME kind[s] = "products" PROVE Landing(s)'
    <2>. SUFFICES ASSUME NEW g \in Goods, landed'[s][g] # None
                  PROVE  landed'[s][g] \in Ids /\ Has(mem'[s], landed'[s][g], g)
        BY DEF Landing, Has
    <2>1. CASE g = line.ext
        BY <1>4, <1>5, <2>1
    <2>2. CASE g # line.ext
        BY <1>1, <1>3, <1>4, <1>6, <2>2 DEF InHand, Landing
    <2>. QED
        BY <2>1, <2>2
<1>7. Rows(mem[s])' /\ \A q \in Ids : read[s].products[q] # None => mem'[s][q] # None
    BY <1>1, <1>2 DEF InHand, Rows, ApartInv
<1>8. InHand(s)'
    BY <1>1, <1>3, <1>6, <1>7 DEF InHand
<1>. QED
    BY <1>2, <1>4, <1>8, InHandApart

LEMMA KnownLineApart ==
    ASSUME ApartInv, NEW s \in Sessions, KnownLine(s)
    PROVE  ApartInv'
<1>1. PICK line \in Line :
        LET p == Find(index[s], mem[s], line)
            card == Updated(mem[s][p], line)
            writes == ~line.bad /\ kind[s] = "products"
        IN  /\ p # None
            /\ IF writes
               THEN /\ mem' = [mem EXCEPT ![s][p] = card]
                    /\ index' = [index EXCEPT ![s] = Indexed(index[s], card, p)]
               ELSE UNCHANGED <<mem, index>>
            /\ landed' = IF line.bad THEN landed ELSE Landed(s, line, p)
    BY DEF KnownLine
<1>. DEFINE p == Find(index[s], mem[s], line)
            card == Updated(mem[s][p], line)
<1>2. /\ pc[s] = "apply" /\ InHand(s) /\ used \in 0..MaxId
      /\ UNCHANGED <<products, used, pc, kind, read>>
    BY DEF KnownLine, ApartInv, dbVars
<1>3. /\ p \in Ids /\ mem[s][p] \in Card /\ p <= used
      /\ line.ext \in Goods => mem[s][p].ext \in {Blank, line.ext}
    BY <1>1, <1>2, FindFits DEF InHand, Rows
<1>4. CASE ~line.bad /\ kind[s] = "products"
    <2>1. card \in Card /\ card.ext = IF line.ext = Blank THEN mem[s][p].ext ELSE line.ext
        BY <1>3 DEF Updated, Line
    <2>2. \A g \in Goods : Has(mem[s], p, g) => card.ext = g
        BY <1>3, <2>1 DEF Has, Line
    <2>3. /\ mem' = [mem EXCEPT ![s][p] = card]
          /\ index' = [index EXCEPT ![s] = Indexed(index[s], card, p)]
          /\ landed' = Landed(s, line, p)
        BY <1>1, <1>4
    <2>4. line.ext \in Goods => card.ext = line.ext
        BY <2>1
    <2>5. used' \in 0..MaxId /\ used <= used' /\ p <= used'
        BY <1>2, <1>3
    <2>. HIDE DEF p, card
    <2>. QED
        BY <1>2, <1>3, <2>1, <2>2, <2>3, <2>4, <2>5, WrittenApart
<1>5. CASE ~(~line.bad /\ kind[s] = "products")
    <2>1. UNCHANGED <<mem, index>>
        BY <1>1, <1>5
    <2>2. /\ landed' \in [Sessions -> [Goods -> Ids \cup {None}]]
          /\ \A t \in Sessions \ {s} : landed'[t] = landed[t]
        <3>1. landed' = landed \/ landed' = Landed(s, line, p)
            BY <1>1
        <3>. HIDE DEF p
        <3>. QED
            BY <1>3, <3>1 DEF ApartInv, Landed, Line
    <2>3. kind[s] = "products" => landed' = landed
        BY <1>1, <1>5
    <2>4. InHand(s)'
        BY <1>2, <2>1, <2>3 DEF InHand, Rows, Landing
    <2>. QED
        BY <1>2, <2>1, <2>2, <2>4, InHandApart DEF ApartInv
<1>. QED
    BY <1>4, <1>5

LEMMA NewLineApart ==
    ASSUME ApartInv, NEW s \in Sessions, NewLine(s)
    PROVE  ApartInv'
<1>. DEFINE p == used + 1
<1>1. PICK line \in Line :
        /\ mem' = [mem EXCEPT ![s][p] = NewCard(line)]
        /\ index' = [index EXCEPT ![s] = Indexed(index[s], NewCard(line), p)]
        /\ landed' = Landed(s, line, p)
    BY DEF NewLine
<1>2. /\ pc[s] = "apply" /\ InHand(s) /\ p \in Ids /\ used' = p
      /\ used' \in 0..MaxId /\ used <= used' /\ p <= used'
      /\ UNCHANGED <<products, pc, kind, read>>
    BY DEF NewLine, ApartInv
<1>3. \A g \in Goods : ~Has(mem[s], p, g)
    BY <1>2 DEF InHand, Rows, Has, ApartInv
<1>4. NewCard(line) \in Card /\ NewCard(line).ext = line.ext
    BY DEF NewCard, Line
<1>. HIDE DEF p
<1>. QED
    BY <1>1, <1>2, <1>3, <1>4, WrittenApart

LEMMA SkippedLineApart ==
    ASSUME ApartInv, NEW s \in Sessions, SkippedLine(s)
    PROVE  ApartInv'
<1>1. pc[s] = "apply" /\ InHand(s) /\ UNCHANGED <<dbVars, pc, kind, read, mem, index, landed>>
    BY DEF SkippedLine, ApartInv
<1>2. InHand(s)'
    BY <1>1 DEF InHand, Rows, Landing, dbVars
<1>. QED
    BY <1>1, <1>2, InHandApart DEF ApartInv, dbVars

\* What others hold is as it was when a session begins or is over.
LEMMA OthersApart ==
    ASSUME ApartInv, NEW s \in Sessions, used' = used,
           NEW t \in Sessions \ {s}, pc[t] = "apply",
           pc'[t] = pc[t] /\ kind'[t] = kind[t] /\ read'[t] = read[t] /\ mem'[t] = mem[t]
           /\ index'[t] = index[t] /\ landed'[t] = landed[t]
    PROVE  InHand(t)'
BY DEF ApartInv, InHand, Rows, Landing

LEMMA BeginApart ==
    ASSUME ApartInv, NEW s \in Sessions, Begin(s)
    PROVE  ApartInv'
<1>1. PICK k \in Kinds, e \in Firsts("ext", Goods), b \in Firsts("bar", Bars),
           c \in Firsts("sku", Skus), n \in Firsts("name", Names) :
               /\ index' = [index EXCEPT ![s] = [ext |-> e, bar |-> b, sku |-> c, name |-> n]]
               /\ kind' = [kind EXCEPT ![s] = k]
    BY DEF Begin
<1>2. /\ UNCHANGED <<products, used, landed>> /\ pc[s] = "idle"
      /\ pc' = [pc EXCEPT ![s] = "apply"]
      /\ mem' = [mem EXCEPT ![s] = products]
      /\ read' = [read EXCEPT ![s] = [products |-> products, stock |-> stock,
                                      service |-> services > 0]]
    BY DEF Begin, Snapshot, dbVars
<1>3. /\ mem'[s] = products /\ read'[s].products = products
      /\ index'[s] = [ext |-> e, bar |-> b, sku |-> c, name |-> n]
    BY <1>1, <1>2 DEF ApartInv
<1>4. Keys(index'[s], mem'[s]) /\ LeadsToIts(index'[s].ext, mem'[s])
    BY <1>3 DEF Keys, Firsts, Leads, LeadsToIts, Has
<1>5. InHand(s)'
    BY <1>2, <1>3, <1>4 DEF InHand, ApartInv, Rows, Landing
<1>6. ASSUME NEW t \in Sessions \ {s}
      PROVE  pc'[t] = pc[t] /\ kind'[t] = kind[t] /\ read'[t] = read[t] /\ mem'[t] = mem[t]
             /\ index'[t] = index[t] /\ landed'[t] = landed[t]
    BY <1>1, <1>2 DEF ApartInv
<1>7. \A t \in Sessions \ {s} : pc[t] = "apply" => InHand(t)'
    BY <1>2, <1>6, OthersApart
<1>8. /\ DOMAIN read' = Sessions /\ DOMAIN mem' = Sessions /\ DOMAIN index' = Sessions
      /\ DOMAIN kind' = Sessions /\ pc' \in [Sessions -> {"idle", "apply"}] /\ pc'[s] = "apply"
      /\ Rows(products)'
    BY <1>1, <1>2 DEF ApartInv, Rows
<1>. QED
    BY <1>2, <1>5, <1>6, <1>7, <1>8 DEF ApartInv

LEMMA OverApart ==
    ASSUME ApartInv, NEW s \in Sessions, Over(s), used' = used, Rows(products)'
    PROVE  ApartInv'
<1>1. ASSUME NEW t \in Sessions \ {s}
      PROVE  pc'[t] = pc[t] /\ kind'[t] = kind[t] /\ read'[t] = read[t] /\ mem'[t] = mem[t]
             /\ index'[t] = index[t] /\ landed'[t] = landed[t]
    BY DEF Over, ApartInv
<1>2. \A t \in Sessions \ {s} : pc[t] = "apply" => InHand(t)'
    BY <1>1, OthersApart
<1>3. /\ DOMAIN read' = Sessions /\ DOMAIN mem' = Sessions /\ DOMAIN index' = Sessions
      /\ DOMAIN kind' = Sessions /\ pc' \in [Sessions -> {"idle", "apply"}] /\ pc'[s] = "idle"
    BY DEF Over, ApartInv
<1>4. landed' \in [Sessions -> [Goods -> Ids \cup {None}]] /\ \A g \in Goods : landed'[s][g] = None
    BY DEF Over, ApartInv
<1>. QED
    BY <1>1, <1>2, <1>3, <1>4 DEF ApartInv

\* A commit writes cards, and none under an id never given out.
LEMMA CommitApart ==
    ASSUME ApartInv, NEW s \in Sessions, Commit(s)
    PROVE  ApartInv'
<1>1. InHand(s) /\ Over(s) /\ used' = used
    BY DEF Commit, ApartInv
<1>2. PICK full \in BOOLEAN :
        /\ \A q \in ChangedCards(s) : IsNew(s, q) \/ products[q] # None
        /\ products' = [q \in Ids |-> IF q \in ChangedCards(s) THEN Written(s, q) ELSE products[q]]
    BY DEF Commit
<1>3. ASSUME NEW p \in Ids
      PROVE  products'[p] \in Card \cup {None} /\ (products'[p] # None => p <= used)
    <2>1. CASE p \in ChangedCards(s) /\ IsNew(s, p)
        BY <1>1, <1>2, <2>1 DEF Written, InHand, Rows
    <2>2. CASE p \in ChangedCards(s) /\ ~IsNew(s, p)
        <3>1. mem[s][p] \in Card /\ products[p] \in Card /\ p <= used
            BY <1>1, <1>2, <2>2 DEF InHand, Rows, IsNew, ApartInv
        <3>2. Written(s, p) \in Card
            BY <2>2, <3>1 DEF Written
        <3>. QED
            BY <1>2, <2>2, <3>1, <3>2
    <2>3. CASE p \notin ChangedCards(s)
        BY <1>2, <2>3 DEF ApartInv, Rows
    <2>. QED
        BY <2>1, <2>2, <2>3
<1>4. Rows(products)'
    BY <1>1, <1>2, <1>3 DEF Rows
<1>. QED
    BY <1>1, <1>4, OverApart

LEMMA StaffApart ==
    ASSUME ApartInv, StaffAdds \/ (\E p \in Ids : StaffEdits(p) \/ StaffDeletes(p))
    PROVE  ApartInv'
<1>1. UNCHANGED exVars
    BY DEF StaffAdds, StaffEdits, StaffDeletes
<1>2. used' \in 0..MaxId /\ used <= used'
    <2>1. StaffAdds => used' = used + 1 /\ used < MaxId
        BY DEF StaffAdds
    <2>2. (\E p \in Ids : StaffEdits(p) \/ StaffDeletes(p)) => used' = used
        BY DEF StaffEdits, StaffDeletes
    <2>. QED
        BY <2>1, <2>2 DEF ApartInv
<1>3. Rows(products)'
    <2>1. CASE StaffAdds
        <3>1. PICK card \in Card : products' = [products EXCEPT ![used + 1] = card]
            BY <2>1 DEF StaffAdds
        <3>2. used' = used + 1
            BY <2>1 DEF StaffAdds
        <3>. QED
            BY <1>2, <3>1, <3>2 DEF ApartInv, Rows
    <2>2. ASSUME NEW p \in Ids, StaffEdits(p) PROVE Rows(products)'
        <3>1. PICK bar \in Bars \cup {Blank}, sku \in Skus \cup {Blank}, name \in Names :
                products' = [products EXCEPT ![p].bar = bar, ![p].sku = sku, ![p].name = name]
            BY <2>2 DEF StaffEdits
        <3>2. products[p] \in Card /\ products \in [Ids -> Card \cup {None}] /\ p <= used /\ used' = used
            BY <2>2 DEF StaffEdits, ApartInv, Rows
        <3>3. PICK card \in Card : products' = [products EXCEPT ![p] = card]
            <4>1. [products[p] EXCEPT !.bar = bar, !.sku = sku, !.name = name] \in Card
                BY <3>2
            <4>2. products' = [products EXCEPT ![p] = [products[p] EXCEPT !.bar = bar, !.sku = sku,
                                                                         !.name = name]]
                BY <3>1, <3>2
            <4>. QED
                BY <4>1, <4>2
        <3>. QED
            BY <3>2, <3>3 DEF ApartInv, Rows
    <2>3. ASSUME NEW p \in Ids, StaffDeletes(p) PROVE Rows(products)'
        BY <2>3 DEF StaffDeletes, ApartInv, Rows
    <2>. QED
        BY <2>1, <2>2, <2>3
<1>4. ASSUME NEW s \in Sessions, pc[s] = "apply" PROVE InHand(s)'
    BY <1>1, <1>2, <1>4 DEF exVars, ApartInv, InHand, Rows, Landing
<1>. QED
    BY <1>1, <1>2, <1>3, <1>4 DEF ApartInv, exVars

\* Two goods of one message never become one product, whoever works on the
\* catalogue at the same time and with or without the lock: find takes a
\* product by barcode, article or name only if 1C knows it by no other
\* identifier.
THEOREM GoodsStayApart == Spec => []GoodsKeepApart
<1>1. Init => ApartInv
    BY DEF Init, ApartInv, Rows, NoRead, NoIndex
<1>2. ASSUME ApartInv, [Next]_vars PROVE ApartInv'
    <2>1. ASSUME NEW s \in Sessions,
                 \/ Begin(s) \/ KnownLine(s) \/ NewLine(s)
                 \/ SkippedLine(s) \/ Commit(s)
          PROVE  ApartInv'
        BY <1>2, <2>1, BeginApart, KnownLineApart, NewLineApart, SkippedLineApart, CommitApart
    <2>2. ASSUME NEW s \in Sessions, RollBack(s) PROVE ApartInv'
        BY <1>2, <2>2, OverApart DEF RollBack, dbVars, ApartInv, Rows
    <2>3. CASE UNCHANGED vars
        <3>1. ASSUME NEW s \in Sessions, pc[s] = "apply" PROVE InHand(s)'
            BY <1>2, <2>3, <3>1 DEF vars, dbVars, exVars, ApartInv, InHand, Rows, Landing
        <3>. QED
            BY <1>2, <2>3, <3>1 DEF vars, dbVars, exVars, ApartInv, Rows
    <2>. QED
        BY <1>2, <2>1, <2>2, <2>3, StaffApart DEF Next
<1>3. ASSUME ApartInv PROVE GoodsKeepApart
    <2>. SUFFICES ASSUME NEW s \in Sessions, kind[s] = "products", NEW g \in Goods, NEW h \in Goods,
                         landed[s][g] # None, landed[s][g] = landed[s][h]
                  PROVE  g = h
        BY DEF GoodsKeepApart
    <2>1. InHand(s)
        BY <1>3 DEF ApartInv
    <2>2. Has(mem[s], landed[s][g], g) /\ Has(mem[s], landed[s][g], h)
        BY <2>1 DEF InHand, Landing
    <2>. QED
        BY <2>2 DEF Has
<1>. QED
    BY <1>1, <1>2, <1>3, PTL DEF Spec
=============================================================================
