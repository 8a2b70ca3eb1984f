--------------------------- MODULE PreorderProofs ---------------------------
(***************************************************************************)
(* Preorders and the shelf they are served from.  Whatever overlaps, the   *)
(* goods of 1C stay on the shelf, and with one customer at a time nobody   *)
(* waits twice for a product.  Without overlap, reserves are owed to       *)
(* preorders that have arrived, one supply is on the shelf and every       *)
(* preorder points at a line of its product.                               *)
(***************************************************************************)
EXTENDS PreorderDesk, TotalsProofs

\* Every position came with a supply that is there.
Stands == \A i \in Items : IsListed(i) => SupplyExists(SupplyOf[i])

\* What an unloading has loaded has been there, what it has written is there
\* until it ends, and an idle session has neither.
Holds(c) ==
    /\ phase[c] = "idle" =>
         /\ todo[c] = {} /\ item[c] = NoDraft /\ draft[c] = NoDraft
         /\ fulfilled[c] = NotMarked /\ closed[c] = {}
    /\ phase[c] # "flushing" => reset[c] = {} /\ current[c] = {} /\ found[c] = NothingFound
    /\ \A s, t \in current[c] : s = t
    /\ \A s \in todo[c] \cup current[c] : status[s] # "none"
    /\ \A s \in closed[c] : SupplyExists(s)
    /\ \A i \in Items :
         /\ item[c][i] # NoRow => rows[i] # NoRow
         /\ i \in reset[c] \/ draft[c][i] # NoRow => IsListed(i) /\ SupplyOf[i] \in Manual
    /\ \A o \in PreorderIds :
         /\ fulfilled[c][o] # 0 => Exists(o)
         /\ found[c][o] # Unused =>
              /\ preorders[o] # Unused
              /\ \E i \in Loaded(c, current[c]) : Product[i] = found[c][o].product

\* What a request has found before it goes on.
Asks(p) ==
    /\ step[p] \in {"looking", "adding"} => wish[p] # NoWish
    /\ step[p] \in {"idle", "looking"} => target[p] = {}
    /\ \A o, x \in target[p] : o = x
    /\ target[p] # {} => seen[p] # Unused
    /\ step[p] \in {"locking", "taking", "merging"} => seen[p] # Unused /\ seen[p].item # 0
    /\ step[p] = "taking" => shelf[p] # NoRow

DeskInv ==
    /\ DeskTypeOK /\ Stands
    /\ \A c \in Unloaders : Holds(c)
    /\ \A p \in Threads : Asks(p)

\* Without overlap, one session is busy at most.
OneAtATime ==
    Overlap \/
      /\ \A c, d \in Unloaders : phase[c] # "idle" /\ phase[d] # "idle" => c = d
      /\ \A p, q \in Threads : step[p] # "idle" /\ step[q] # "idle" => p = q
      /\ \A c \in Unloaders, p \in Threads : phase[c] = "idle" \/ step[p] = "idle"

-----------------------------------------------------------------------------
(* One customer at a time                                                  *)

\* A request that found nothing to merge into may still add.
NothingToMerge ==
    \A p \in Threads :
        step[p] = "adding" /\ target[p] = {} => \A o \in PreorderIds : ~OfWish(p, o)

WaitingInv == DeskInv /\ OneAtATime /\ NothingToMerge /\ OneWaitingEach

-----------------------------------------------------------------------------
(* Without overlap: the tables as an unloading will leave them             *)

PreorderSeen(c, o) ==
    IF fulfilled[c][o] = 0 THEN preorders[o]
    ELSE [preorders[o] EXCEPT !.done = TRUE, !.item = fulfilled[c][o]]

ArrivedFor(c, i) ==
    {o \in PreorderIds : Exists(o) /\ PreorderSeen(c, o).done /\ PreorderSeen(c, o).item = i}

\* What an unloading has found is still so, and what it has written so far
\* would do if it ended here.
Tidy(c) ==
    /\ \A i \in Items : item[c][i] # NoRow => IsListed(i)
    /\ \A i \in Items :
         IsListed(i) => RowSeen(c, i).reserved <= PacksOf(ArrivedFor(c, i), preorders)
    /\ OneSupplyIn({i \in Items : IsListed(i) /\ RowSeen(c, i).active})
    /\ phase[c] = "flushing" => reset[c] = OldBatches(c)
    /\ \A o \in PreorderIds :
         /\ found[c][o] # Unused =>
              found[c][o] = preorders[o] /\ Waiting(o) /\ fulfilled[c][o] = 0
         /\ fulfilled[c][o] # 0 =>
              /\ Waiting(o) /\ IsListed(fulfilled[c][o])
              /\ Product[fulfilled[c][o]] = preorders[o].product

\* What a request has found is still so.
Current(p) ==
    /\ step[p] \in {"looking", "adding"} => IsListed(wish[p].item)
    /\ step[p] \in {"adding", "removing"} =>
         \A o \in target[p] : Waiting(o) /\ preorders[o] = seen[p]
    /\ step[p] = "adding" =>
         \A o \in target[p] : preorders[o].product = Product[wish[p].item]
    /\ step[p] \in {"locking", "taking", "merging"} =>
         /\ target[p] # {}
         /\ \A o \in target[p] : Arrived(o) /\ preorders[o] = seen[p]
    /\ step[p] = "taking" =>
         /\ IsListed(seen[p].item)
         /\ shelf[p] = rows[seen[p].item]
         /\ give[p] = MovedPacks(shelf[p], seen[p].qty)
    /\ step[p] = "merging" => LET i == seen[p].item IN
         /\ IsListed(i)
         /\ rows[i].reserved <= PacksOf(ArrivedAt(i) \ target[p], preorders)

SerialInv ==
    /\ DeskInv /\ OneAtATime
    /\ ReserveHasOwners /\ OneSupplyOnShelf /\ PreordersPointAtLines
    /\ \A c \in Unloaders : Tidy(c)
    /\ \A p \in Threads : Current(p)

USE PreorderAssumption, CustomersAssumption, UnloadingAssumption, PagesAssumption

-----------------------------------------------------------------------------
(* What a step does to the tables                                          *)

\* Nothing that a session has loaded or written is as if it had never been.
Lasts ==
    /\ rows' \in [Items -> Row \cup {NoRow, Gone}]
    /\ status' \in [Supplies -> Statuses \cup {"none", "gone"}]
    /\ preorders' \in [PreorderIds -> Preorder \cup {Unused, Gone}]
    /\ \A i \in Items : rows[i] # NoRow => rows'[i] # NoRow
    /\ \A o \in PreorderIds : preorders[o] # Unused => preorders'[o] # Unused
    /\ \A s \in Supplies : status[s] # "none" => status'[s] # "none"
    /\ \A i \in Items : rows'[i] \in Row => status'[SupplyOf[i]] \in Statuses

\* What c has written is not taken away from it.
Spares(c) ==
    /\ \A i \in Items : (i \in reset[c] \/ draft[c][i] # NoRow) => rows'[i] \in Row
    /\ \A o \in PreorderIds : fulfilled[c][o] # 0 => preorders'[o] \in Preorder
    /\ \A s \in closed[c] : status'[s] \in Statuses

MyUnload(c) == <<phase[c], todo[c], current[c], item[c], found[c],
                 reset[c], draft[c], fulfilled[c], closed[c]>>

LEMMA FreeItem ==
    ASSUME NEW set, NEW i \in Items, FreeOf(set, "item", i)
    PROVE  \A c \in set : i \notin reset[c] /\ draft[c][i] = NoRow
  BY DEF FreeOf, HasWritten, Writes, NoDraft

LEMMA FreePreorder ==
    ASSUME NEW set, NEW o \in PreorderIds, FreeOf(set, "preorder", o)
    PROVE  \A c \in set : fulfilled[c][o] = 0
  BY DEF FreeOf, HasWritten, Writes, NotMarked

LEMMA FreeSupply ==
    ASSUME NEW set, NEW s, FreeOf(set, "supply", s)
    PROVE  \A c \in set : s \notin closed[c]
  BY DEF FreeOf, HasWritten, Writes

LEMMA HoldsStill ==
    ASSUME DeskInv, Lasts, NEW c \in Unloaders, Spares(c), MyUnload(c)' = MyUnload(c)
    PROVE  Holds(c)'
<1>1. Holds(c)
  BY DEF DeskInv
<1>2. /\ phase'[c] = phase[c] /\ todo'[c] = todo[c] /\ current'[c] = current[c]
      /\ item'[c] = item[c] /\ found'[c] = found[c] /\ reset'[c] = reset[c]
      /\ draft'[c] = draft[c] /\ fulfilled'[c] = fulfilled[c] /\ closed'[c] = closed[c]
  BY DEF MyUnload
<1>3. todo[c] \subseteq Supplies /\ current[c] \subseteq Supplies
  BY DEF DeskInv, DeskTypeOK, UnloadingTypeOK
<1> QED  BY <1>1, <1>2, <1>3 DEF Holds, Lasts, Spares, Exists, IsListed, SupplyExists, Loaded

LEMMA AsksStill ==
    ASSUME NEW p \in Threads, Asks(p),
           step'[p] = step[p], wish'[p] = wish[p], target'[p] = target[p],
           seen'[p] = seen[p], shelf'[p] = shelf[p]
    PROVE  Asks(p)'
  BY DEF Asks

-----------------------------------------------------------------------------
(* The steps of the shop, the pages and the customers                      *)

LEMMA RowIs ==
    ASSUME NEW r \in Row
    PROVE  r.stock \in Int /\ r.reserved \in Nat /\ r.active \in BOOLEAN /\ Avail(r) \in Nat
  BY DEF Row, Avail

LEMMA RowWithStock ==
    ASSUME NEW r \in Row, NEW n \in Int
    PROVE  LET w == [r EXCEPT !.stock = n]
           IN  w \in Row /\ w.stock = n /\ w.reserved = r.reserved /\ w.active = r.active
  BY DEF Row

LEMMA RowWithReserve ==
    ASSUME NEW r \in Row, NEW n \in Nat
    PROVE  LET w == [r EXCEPT !.reserved = n]
           IN  w \in Row /\ w.stock = r.stock /\ w.reserved = n /\ w.active = r.active
  BY DEF Row

LEMMA RowWithActive ==
    ASSUME NEW r \in Row, NEW b \in BOOLEAN
    PROVE  LET w == [r EXCEPT !.active = b]
           IN  w \in Row /\ w.stock = r.stock /\ w.reserved = r.reserved /\ w.active = b
  BY DEF Row

LEMMA SellIs ==
    ASSUME DeskInv, NEW i \in Items, NEW n \in Nat, NEW b \in BOOLEAN, Sell(i, n, b),
           UNCHANGED <<status, preorders>>
    PROVE  /\ Lasts /\ \A c \in Unloaders : Spares(c)
           /\ \A j \in Items : IsListed(j) =>
                /\ rows'[j] \in Row /\ rows'[j].reserved = rows[j].reserved
                /\ rows'[j].active => rows[j].active
                /\ rows[j].active /\ ~rows'[j].active => Avail(rows'[j]) = 0
           /\ \A j \in Items : ~IsListed(j) => rows'[j] = rows[j]
<1> DEFINE left == [rows[i] EXCEPT !.stock = @ - n]
           new == [left EXCEPT !.active = @ /\ Avail(left) > 0]
<1>1. rows[i] \in Row /\ rows \in [Items -> Row \cup {NoRow, Gone}]
  BY DEF Sell, IsListed, DeskInv, DeskTypeOK, TablesTypeOK
<1>2. rows' = [rows EXCEPT ![i] = new]
  BY DEF Sell
<1>3. /\ left \in Row /\ left.reserved = rows[i].reserved /\ left.active = rows[i].active
      /\ new \in Row /\ new.reserved = left.reserved /\ new.stock = left.stock
      /\ new.active = (left.active /\ Avail(left) > 0)
      /\ Avail(left) \in Nat
  <2>1. rows[i].stock - n \in Int
    BY <1>1, RowIs
  <2>2. left \in Row /\ left.reserved = rows[i].reserved /\ left.active = rows[i].active
    BY <1>1, <2>1, RowWithStock
  <2>3. Avail(left) \in Nat /\ (left.active /\ Avail(left) > 0) \in BOOLEAN
    BY <2>2, RowIs
  <2> DEFINE still == left.active /\ Avail(left) > 0
  <2>4. still \in BOOLEAN /\ new = [left EXCEPT !.active = still]
    BY <2>3
  <2> HIDE DEF left, still, new
  <2>5. /\ new \in Row /\ new.stock = left.stock
        /\ new.reserved = left.reserved /\ new.active = still
    BY <2>2, <2>4, RowWithActive
  <2> QED  BY <2>2, <2>3, <2>5 DEF still
<1>4. Avail(new) = Avail(left)
  BY <1>3 DEF Avail
<1> HIDE DEF new, left
<1>5. \A j \in Items : rows'[j] = IF j = i THEN new ELSE rows[j]
  BY <1>1, <1>2
<1>6. rows' \in [Items -> Row \cup {NoRow, Gone}]
  BY <1>1, <1>2, <1>3
<1>7. \A j \in Items : IsListed(j) => rows'[j] \in Row
  BY <1>3, <1>5 DEF IsListed
<1>8. Lasts
  BY <1>1, <1>3, <1>5, <1>6 DEF Lasts, DeskInv, DeskTypeOK, TablesTypeOK, Stands, IsListed,
     SupplyExists
<1>9. \A c \in Unloaders : Spares(c)
  BY <1>7 DEF Spares, DeskInv, Holds, Exists, SupplyExists
<1>10. ASSUME NEW j \in Items, IsListed(j)
       PROVE  /\ rows'[j] \in Row /\ rows'[j].reserved = rows[j].reserved
              /\ rows'[j].active => rows[j].active
              /\ rows[j].active /\ ~rows'[j].active => Avail(rows'[j]) = 0
  <2>1. CASE j # i
    BY <1>5, <1>10, <2>1 DEF IsListed
  <2>2. CASE j = i
    <3>1. rows'[j] = new /\ rows[j] = rows[i]
      BY <1>5, <2>2
    <3>2. new \in Row /\ new.reserved = rows[i].reserved /\ (new.active => rows[i].active)
      BY <1>3
    <3>3. ASSUME rows[i].active, ~new.active
          PROVE  Avail(new) = 0
      <4>1. left.active
        BY <1>3, <3>3
      <4>2. ~(Avail(left) > 0)
        BY <1>3, <3>3, <4>1
      <4> QED  BY <1>3, <1>4, <4>2
    <3> QED  BY <3>1, <3>2, <3>3
  <2> QED  BY <2>1, <2>2
<1>11. \A j \in Items : ~IsListed(j) => rows'[j] = rows[j]
  BY <1>1, <1>5 DEF IsListed
<1> QED
  BY <1>8, <1>9, <1>10, <1>11

LEMMA BuyIs ==
    ASSUME DeskInv, Buy
    PROVE  /\ Lasts /\ (\A c \in Unloaders : Spares(c)) /\ UNCHANGED <<status, preorders>>
           /\ carts' \in [Devices -> [Items -> Nat]]
           /\ \A j \in Items : IsListed(j) =>
                /\ rows'[j] \in Row /\ rows'[j].reserved = rows[j].reserved
                /\ rows'[j].active => rows[j].active
                /\ rows[j].active /\ ~rows'[j].active => Avail(rows'[j]) = 0
           /\ \A j \in Items : ~IsListed(j) => rows'[j] = rows[j]
<1>1. carts \in [Devices -> [Items -> Nat]]
  BY DEF DeskInv, DeskTypeOK, CustomersTypeOK
<1>2. UNCHANGED <<status, preorders>>
  BY DEF Buy
<1>3. CASE \E i \in Items : Sell(i, 1, FALSE) /\ UNCHANGED carts
  <2>1. PICK i \in Items : Sell(i, 1, FALSE) /\ UNCHANGED carts
    BY <1>3
  <2>2. FALSE \in BOOLEAN /\ 1 \in Nat
    OBVIOUS
  <2> QED  BY <1>1, <1>2, <2>1, <2>2, SellIs
<1>4. CASE \E d \in Devices, i \in Items :
             /\ carts[d][i] > 0
             /\ Sell(i, carts[d][i], TRUE)
             /\ carts' = [carts EXCEPT ![d][i] = 0]
  <2>1. PICK d \in Devices, i \in Items :
             /\ Sell(i, carts[d][i], TRUE)
             /\ carts' = [carts EXCEPT ![d][i] = 0]
    BY <1>4
  <2>2. TRUE \in BOOLEAN /\ carts[d][i] \in Nat
    BY <1>1
  <2>3. carts' \in [Devices -> [Items -> Nat]]
    BY <1>1, <2>1
  <2> QED  BY <1>2, <2>1, <2>2, <2>3, SellIs
<1> QED  BY <1>3, <1>4 DEF Buy

LEMMA RowsOnly ==
    ASSUME DeskInv, UNCHANGED <<status, preorders>>,
           rows' \in [Items -> Row \cup {NoRow, Gone}],
           \A j \in Items : IsListed(j) => rows'[j] \in Row,
           \A j \in Items : ~IsListed(j) /\ rows'[j] # rows[j] =>
                rows[j] = NoRow /\ SupplyExists(SupplyOf[j])
    PROVE  Lasts /\ \A c \in Unloaders : Spares(c)
<1>1. \A j \in Items : rows[j] # NoRow => rows'[j] # NoRow
  BY DEF IsListed, DeskInv, DeskTypeOK, TablesTypeOK
<1>2. \A i \in Items : rows'[i] \in Row => status'[SupplyOf[i]] \in Statuses
  BY DEF DeskInv, Stands, SupplyExists, IsListed
<1>3. Lasts
  BY <1>1, <1>2 DEF Lasts, DeskInv, DeskTypeOK, TablesTypeOK
<1> QED  BY <1>3 DEF Spares, DeskInv, Holds, Exists, SupplyExists

LEMMA PreordersOnly ==
    ASSUME DeskInv, UNCHANGED <<rows, status>>,
           preorders' \in [PreorderIds -> Preorder \cup {Unused, Gone}],
           \A o \in PreorderIds : preorders[o] # Unused => preorders'[o] # Unused,
           \A o \in PreorderIds : preorders'[o] = Gone =>
                preorders[o] = Gone \/ FreeOf(Unloaders, "preorder", o)
    PROVE  Lasts /\ \A c \in Unloaders : Spares(c)
<1>1. \A c \in Unloaders, o \in PreorderIds : fulfilled[c][o] # 0 => preorders'[o] \in Preorder
  <2> SUFFICES ASSUME NEW c \in Unloaders, NEW o \in PreorderIds, fulfilled[c][o] # 0
               PROVE  preorders'[o] \in Preorder
    OBVIOUS
  <2>1. preorders[o] \in Preorder
    BY DEF DeskInv, Holds, Exists
  <2>2. ~FreeOf(Unloaders, "preorder", o)
    <3>1. FreeOf(Unloaders, "preorder", o) => fulfilled[c][o] = 0
      BY FreePreorder
    <3> QED  BY <3>1
  <2>3. preorders'[o] # Gone /\ preorders'[o] # Unused
    BY <2>1, <2>2
  <2> QED  BY <2>3
<1>2. Lasts
  BY DEF Lasts, DeskInv, DeskTypeOK, TablesTypeOK, Stands, IsListed, SupplyExists
<1> QED  BY <1>1, <1>2 DEF Spares, DeskInv, Holds, IsListed, SupplyExists

LEMMA StatusOnly ==
    ASSUME DeskInv, EditSupply \/ NewSupply
    PROVE  Lasts /\ \A c \in Unloaders : Spares(c)
<1>1. UNCHANGED <<rows, preorders>>
  BY DEF EditSupply, NewSupply
<1>2. PICK s \in Supplies, st \in Statuses : status' = [status EXCEPT ![s] = st]
  BY DEF EditSupply, NewSupply
<1>3. status \in [Supplies -> Statuses \cup {"none", "gone"}]
  BY DEF DeskInv, DeskTypeOK, TablesTypeOK
<1>4. status' \in [Supplies -> Statuses \cup {"none", "gone"}]
  BY <1>2, <1>3
<1>5. \A x \in Supplies : status[x] \in Statuses => status'[x] \in Statuses
  BY <1>2, <1>3
<1>6. \A x \in Supplies : status[x] # "none" => status'[x] # "none"
  BY <1>2, <1>3 DEF Statuses
<1>7. Lasts
  BY <1>1, <1>4, <1>5, <1>6 DEF Lasts, DeskInv, DeskTypeOK, TablesTypeOK, Stands, IsListed, SupplyExists
<1>8. \A c \in Unloaders : closed[c] \subseteq Supplies
  BY DEF DeskInv, DeskTypeOK, TablesTypeOK
<1> QED  BY <1>1, <1>5, <1>7, <1>8 DEF Spares, DeskInv, Holds, Exists, IsListed, SupplyExists

\* A page that changes rows leaves the reserves alone and puts nothing on the
\* shelf.
LinesChanged ==
    /\ \A j \in Items : IsListed(j) =>
         /\ rows'[j] \in Row /\ rows'[j].reserved = rows[j].reserved
         /\ rows'[j].active => rows[j].active
    /\ \A j \in Items : ~IsListed(j) /\ rows'[j] # rows[j] =>
         rows'[j] \in Row /\ rows'[j].reserved = 0 /\ ~rows'[j].active

LEMMA DeactivateIs ==
    ASSUME DeskInv, Deactivate
    PROVE  /\ Lasts /\ (\A c \in Unloaders : Spares(c)) /\ UNCHANGED <<status, preorders>>
           /\ LinesChanged
           /\ \A j \in Items : IsListed(j) /\ SupplyOf[j] \notin Manual => rows'[j] = rows[j]
<1>1. UNCHANGED <<status, preorders>>
  BY DEF Deactivate
<1>2. PICK s \in Manual : rows' = [i \in Items |->
                      IF SupplyOf[i] = s /\ IsActive(i)
                      THEN [rows[i] EXCEPT !.active = FALSE] ELSE rows[i]]
  BY DEF Deactivate
<1>3. ASSUME NEW j \in Items, IsListed(j)
      PROVE  /\ rows'[j] \in Row /\ rows'[j].reserved = rows[j].reserved
             /\ rows'[j].active => rows[j].active
             /\ SupplyOf[j] \notin Manual => rows'[j] = rows[j]
  <2>1. rows[j] \in Row
    BY <1>3 DEF IsListed
  <2>2. CASE rows'[j] = rows[j]
    BY <2>1, <2>2
  <2>3. CASE rows'[j] # rows[j]
    <3>1. SupplyOf[j] \in Manual /\ rows'[j] = [rows[j] EXCEPT !.active = FALSE]
      BY <1>2, <2>3
    <3>2. rows'[j] \in Row /\ rows'[j].reserved = rows[j].reserved /\ rows'[j].active = FALSE
      BY <2>1, <3>1 DEF Row
    <3> QED  BY <3>1, <3>2
  <2> QED  BY <2>2, <2>3
<1>4. \A j \in Items : ~IsListed(j) => rows'[j] = rows[j]
  BY <1>2 DEF IsActive
<1>5. rows \in [Items -> Row \cup {NoRow, Gone}]
  BY DEF DeskInv, DeskTypeOK, TablesTypeOK
<1>6. rows' \in [Items -> Row \cup {NoRow, Gone}]
  BY <1>2, <1>3, <1>4, <1>5
<1>7. Lasts /\ \A c \in Unloaders : Spares(c)
  BY <1>1, <1>3, <1>4, <1>6, RowsOnly
<1> QED  BY <1>1, <1>3, <1>4, <1>7 DEF LinesChanged

LEMMA EnteredIs ==
    ASSUME NEW i \in Items, NEW packs \in Nat, rows[i] \in Row \cup {NoRow}
    PROVE  /\ Entered(i, packs) \in Row
           /\ IsListed(i) => /\ Entered(i, packs).reserved = rows[i].reserved
                             /\ Entered(i, packs).active = rows[i].active
           /\ ~IsListed(i) => Entered(i, packs).reserved = 0 /\ ~Entered(i, packs).active
<1>1. CASE IsListed(i)
  <2>1. rows[i] \in Row /\ rows[i].stock + packs \in Int
    BY <1>1, RowIs DEF IsListed
  <2>2. Entered(i, packs) = [rows[i] EXCEPT !.stock = rows[i].stock + packs]
    BY <1>1, <2>1 DEF Entered, Row
  <2> QED  BY <1>1, <2>1, <2>2, RowWithStock
<1>2. CASE ~IsListed(i)
  <2>1. Entered(i, packs) = [stock |-> packs, reserved |-> 0, active |-> FALSE]
    BY <1>2 DEF Entered
  <2>2. Entered(i, packs) \in Row
    BY <2>1 DEF Row
  <2>3. Entered(i, packs).reserved = 0 /\ ~Entered(i, packs).active
    BY <2>1
  <2> QED  BY <1>2, <2>2, <2>3
<1> QED  BY <1>1, <1>2

LEMMA EnterIs ==
    ASSUME DeskInv, EnterLines
    PROVE  /\ Lasts /\ (\A c \in Unloaders : Spares(c)) /\ UNCHANGED <<status, preorders>>
           /\ LinesChanged
           /\ \A j \in Items : IsListed(j) => rows'[j].active = rows[j].active
<1>1. UNCHANGED <<status, preorders>>
  BY DEF EnterLines
<1>2. PICK s \in Supplies, packs \in Packs,
           lines \in SUBSET Items :
        /\ \A i \in lines : SupplyOf[i] = s
        /\ SupplyExists(s)
        /\ \A i \in lines : rows[i] # Gone
        /\ rows' = [i \in Items |-> IF i \in lines THEN Entered(i, packs) ELSE rows[i]]
  BY DEF EnterLines
<1>3. rows \in [Items -> Row \cup {NoRow, Gone}] /\ packs \in Nat
  BY DEF DeskInv, DeskTypeOK, TablesTypeOK
<1>4. ASSUME NEW j \in Items
      PROVE  /\ IsListed(j) => /\ rows'[j] \in Row /\ rows'[j].reserved = rows[j].reserved
                               /\ rows'[j].active = rows[j].active
             /\ ~IsListed(j) /\ rows'[j] # rows[j] =>
                  /\ rows[j] = NoRow /\ SupplyExists(SupplyOf[j])
                  /\ rows'[j] \in Row /\ rows'[j].reserved = 0 /\ ~rows'[j].active
             /\ rows'[j] \in Row \cup {NoRow, Gone}
  <2>1. CASE j \notin lines
    BY <1>2, <1>3, <2>1 DEF IsListed
  <2>2. CASE j \in lines
    <3>1. rows'[j] = Entered(j, packs) /\ rows[j] \in Row \cup {NoRow} /\ SupplyOf[j] = s
      BY <1>2, <1>3, <2>2
    <3> QED  BY <1>2, <1>3, <3>1, EnteredIs DEF IsListed
  <2> QED  BY <2>1, <2>2
<1>5. rows' \in [Items -> Row \cup {NoRow, Gone}]
  BY <1>2, <1>4
<1>6. Lasts /\ \A c \in Unloaders : Spares(c)
  BY <1>1, <1>4, <1>5, RowsOnly
<1> QED  BY <1>1, <1>4, <1>6 DEF LinesChanged

LEMMA UpdateIs ==
    ASSUME DeskInv, UpdateLine
    PROVE  /\ Lasts /\ (\A c \in Unloaders : Spares(c)) /\ UNCHANGED <<status, preorders>>
           /\ LinesChanged
           /\ \A j \in Items : IsListed(j) => rows'[j].active = rows[j].active
<1>1. UNCHANGED <<status, preorders>>
  BY DEF UpdateLine
<1>2. PICK i \in Items, packs \in Packs : IsListed(i) /\ rows' = [rows EXCEPT ![i].stock = packs]
  BY DEF UpdateLine
<1>3. rows \in [Items -> Row \cup {NoRow, Gone}] /\ packs \in Int
  BY DEF DeskInv, DeskTypeOK, TablesTypeOK
<1>4. ASSUME NEW j \in Items
      PROVE  /\ IsListed(j) => /\ rows'[j] \in Row /\ rows'[j].reserved = rows[j].reserved
                               /\ rows'[j].active = rows[j].active
             /\ ~IsListed(j) => rows'[j] = rows[j]
  <2>1. CASE j # i
    BY <1>2, <1>3, <2>1 DEF IsListed
  <2>2. CASE j = i
    <3>1. rows'[j] = [rows[j] EXCEPT !.stock = packs] /\ rows[j] \in Row
      BY <1>2, <1>3, <2>2 DEF IsListed
    <3> QED  BY <1>2, <1>3, <2>2, <3>1, RowWithStock
  <2> QED  BY <2>1, <2>2
<1>5. rows' \in [Items -> Row \cup {NoRow, Gone}]
  <2>1. rows' = [j \in Items |-> rows'[j]]
    BY <1>2, <1>3
  <2>2. \A j \in Items : rows'[j] \in Row \cup {NoRow, Gone}
    BY <1>3, <1>4
  <2> QED  BY <2>1, <2>2
<1>6. Lasts /\ \A c \in Unloaders : Spares(c)
  BY <1>1, <1>4, <1>5, RowsOnly
<1> QED  BY <1>1, <1>4, <1>6 DEF LinesChanged

\* Lines are deleted with the references of the preorders to them.
LinesDeleted(lines) ==
    /\ rows' = [i \in Items |-> IF i \in lines THEN Gone ELSE rows[i]]
    /\ preorders' = Detached(lines)

LEMMA DetachedIs ==
    ASSUME DeskInv, NEW lines, NEW o \in PreorderIds
    PROVE  /\ ~Exists(o) => Detached(lines)[o] = preorders[o]
           /\ Exists(o) /\ preorders[o].item \notin lines => Detached(lines)[o] = preorders[o]
           /\ Exists(o) /\ preorders[o].item \in lines =>
                Detached(lines)[o] = [preorders[o] EXCEPT !.item = 0]
           /\ Exists(o) => /\ Detached(lines)[o] \in Preorder
                           /\ Detached(lines)[o].user = preorders[o].user
                           /\ Detached(lines)[o].product = preorders[o].product
                           /\ Detached(lines)[o].qty = preorders[o].qty
                           /\ Detached(lines)[o].done = preorders[o].done
<1>1. Exists(o) => preorders[o] \in Preorder
  BY DEF Exists
<1>2. /\ ~Exists(o) => Detached(lines)[o] = preorders[o]
      /\ Exists(o) /\ preorders[o].item \notin lines => Detached(lines)[o] = preorders[o]
      /\ Exists(o) /\ preorders[o].item \in lines =>
           Detached(lines)[o] = [preorders[o] EXCEPT !.item = 0]
  BY DEF Detached
<1>3. ASSUME Exists(o), preorders[o].item \notin lines
      PROVE  Detached(lines)[o] = preorders[o]
  BY <1>2, <1>3
<1>4. ASSUME Exists(o), preorders[o].item \in lines
      PROVE  /\ Detached(lines)[o] \in Preorder
             /\ Detached(lines)[o].user = preorders[o].user
             /\ Detached(lines)[o].product = preorders[o].product
             /\ Detached(lines)[o].qty = preorders[o].qty
             /\ Detached(lines)[o].done = preorders[o].done
  <2>1. Detached(lines)[o] = [preorders[o] EXCEPT !.item = 0]
    BY <1>2, <1>4
  <2> QED  BY <1>1, <1>4, <2>1 DEF Preorder
<1> QED  BY <1>1, <1>2, <1>3, <1>4

LEMMA DeletePages ==
    ASSUME DeleteLine \/ DeleteSupply
    PROVE  \E lines \in SUBSET Items :
             /\ LinesDeleted(lines)
             /\ \A i \in lines : IsListed(i) /\ FreeOf(Unloaders, "item", i)
             /\ \/ UNCHANGED status
                \/ \E s \in Supplies :
                     /\ SupplyExists(s) /\ FreeOf(Unloaders, "supply", s)
                     /\ lines = {i \in Items : SupplyOf[i] = s /\ IsListed(i)}
                     /\ status' = [status EXCEPT ![s] = "gone"]
<1>1. CASE DeleteLine
  <2>1. PICK i \in Items : IsListed(i) /\ Delete({i})
    BY <1>1 DEF DeleteLine
  <2>2. UNCHANGED status
    BY <1>1 DEF DeleteLine
  <2>3. {i} \in SUBSET Items /\ LinesDeleted({i})
    BY <2>1 DEF Delete, LinesDeleted
  <2>4. \A j \in {i} : IsListed(j) /\ FreeOf(Unloaders, "item", j)
    BY <2>1 DEF Delete
  <2> QED  BY <2>2, <2>3, <2>4
<1>2. CASE DeleteSupply
  <2>1. PICK s \in Supplies :
        /\ SupplyExists(s) /\ FreeOf(Unloaders, "supply", s)
        /\ Delete({i \in Items : SupplyOf[i] = s /\ IsListed(i)})
        /\ status' = [status EXCEPT ![s] = "gone"]
    BY <1>2 DEF DeleteSupply
  <2> DEFINE lines == {i \in Items : SupplyOf[i] = s /\ IsListed(i)}
  <2>2. LinesDeleted(lines) /\ lines \in SUBSET Items
    BY <2>1 DEF Delete, LinesDeleted
  <2>3. \A i \in lines : IsListed(i) /\ FreeOf(Unloaders, "item", i)
    BY <2>1 DEF Delete
  <2>4. /\ SupplyExists(s) /\ FreeOf(Unloaders, "supply", s)
        /\ lines = {i \in Items : SupplyOf[i] = s /\ IsListed(i)}
        /\ status' = [status EXCEPT ![s] = "gone"]
    BY <2>1
  <2> HIDE DEF lines
  <2> QED  BY <2>2, <2>3, <2>4
<1> QED  BY <1>1, <1>2

LEMMA DeleteIs ==
    ASSUME DeskInv, DeleteLine \/ DeleteSupply
    PROVE  Lasts /\ \A c \in Unloaders : Spares(c)
<1>1. PICK lines \in SUBSET Items :
             /\ LinesDeleted(lines)
             /\ \A i \in lines : IsListed(i) /\ FreeOf(Unloaders, "item", i)
             /\ \/ UNCHANGED status
                \/ \E s \in Supplies :
                     /\ SupplyExists(s) /\ FreeOf(Unloaders, "supply", s)
                     /\ lines = {i \in Items : SupplyOf[i] = s /\ IsListed(i)}
                     /\ status' = [status EXCEPT ![s] = "gone"]
  BY DeletePages
<1>2. /\ rows \in [Items -> Row \cup {NoRow, Gone}]
      /\ status \in [Supplies -> Statuses \cup {"none", "gone"}]
      /\ preorders \in [PreorderIds -> Preorder \cup {Unused, Gone}]
      /\ \A c \in Unloaders : closed[c] \subseteq Supplies
  BY DEF DeskInv, DeskTypeOK, TablesTypeOK
<1>3. \A i \in Items : rows'[i] = IF i \in lines THEN Gone ELSE rows[i]
  BY <1>1 DEF LinesDeleted
<1>4. \A i \in Items : rows'[i] \in Row => rows[i] \in Row /\ i \notin lines
  BY <1>3
<1>5. \A i \in Items : rows[i] # NoRow => rows'[i] # NoRow
  BY <1>3
<1>6. rows' \in [Items -> Row \cup {NoRow, Gone}]
  BY <1>1, <1>2 DEF LinesDeleted
<1>7. \A o \in PreorderIds : /\ Exists(o) => preorders'[o] \in Preorder
                             /\ ~Exists(o) => preorders'[o] = preorders[o]
  BY <1>1, DetachedIs DEF LinesDeleted
<1>8. preorders' = [o \in PreorderIds |-> preorders'[o]]
  BY <1>1 DEF LinesDeleted, Detached
<1>9. preorders' \in [PreorderIds -> Preorder \cup {Unused, Gone}]
  BY <1>2, <1>7, <1>8
<1>10. \A o \in PreorderIds : preorders[o] # Unused => preorders'[o] # Unused
  BY <1>7
<1>11. ASSUME NEW c \in Unloaders
       PROVE  Spares(c)
  <2>1. Holds(c)
    BY DEF DeskInv
  <2>2. ASSUME NEW i \in Items, i \in reset[c] \/ draft[c][i] # NoRow
        PROVE  rows'[i] \in Row
    <3>1. rows[i] \in Row
      BY <2>1, <2>2 DEF Holds, IsListed
    <3>2. ~FreeOf(Unloaders, "item", i)
      <4>1. FreeOf(Unloaders, "item", i) => i \notin reset[c] /\ draft[c][i] = NoRow
        BY FreeItem
      <4> QED  BY <4>1, <2>2
    <3> QED  BY <1>1, <1>3, <3>1, <3>2
  <2>3. \A o \in PreorderIds : fulfilled[c][o] # 0 => preorders'[o] \in Preorder
    BY <1>7, <2>1 DEF Holds
  <2>4. ASSUME NEW s \in closed[c] PROVE status'[s] \in Statuses
    <3>1. status[s] \in Statuses /\ s \in Supplies
      BY <1>2, <2>1, <2>4 DEF Holds, SupplyExists
    <3>2. ~FreeOf(Unloaders, "supply", s)
      <4>1. FreeOf(Unloaders, "supply", s) => s \notin closed[c]
        BY FreeSupply
      <4> QED  BY <4>1, <2>4
    <3> QED  BY <1>1, <1>2, <3>1, <3>2
  <2> QED  BY <2>2, <2>3, <2>4 DEF Spares
<1>12. CASE UNCHANGED status
  <2>1. \A i \in Items : rows'[i] \in Row => status'[SupplyOf[i]] \in Statuses
    BY <1>4, <1>12 DEF DeskInv, Stands, SupplyExists, IsListed
  <2> QED  BY <1>2, <1>5, <1>6, <1>9, <1>10, <1>11, <1>12, <2>1 DEF Lasts
<1>13. ASSUME NEW s \in Supplies, SupplyExists(s),
              lines = {i \in Items : SupplyOf[i] = s /\ IsListed(i)},
              status' = [status EXCEPT ![s] = "gone"]
       PROVE  Lasts
  <2>1. status' \in [Supplies -> Statuses \cup {"none", "gone"}]
    BY <1>2, <1>13
  <2>2. \A x \in Supplies : status[x] # "none" => status'[x] # "none"
    BY <1>2, <1>13
  <2>3. \A i \in Items : rows'[i] \in Row => status'[SupplyOf[i]] \in Statuses
    BY <1>2, <1>4, <1>13 DEF DeskInv, Stands, SupplyExists, IsListed
  <2> QED  BY <1>5, <1>6, <1>9, <1>10, <2>1, <2>2, <2>3 DEF Lasts
<1> QED  BY <1>1, <1>11, <1>12, <1>13

LEMMA NothingWritten ==
    ASSUME DeskInv, UNCHANGED tables
    PROVE  Lasts /\ \A c \in Unloaders : Spares(c)
  BY DEF Lasts, Spares, tables, DeskInv, DeskTypeOK, TablesTypeOK, Stands, IsListed,
         SupplyExists, Holds, Exists

LEMMA CustomersAre ==
    ASSUME DeskInv, NEW p \in Threads
    PROVE  /\ carts \in [Devices -> [Items -> Nat]]
           /\ device \in [Threads -> Devices] /\ User(p) \in Users
           /\ session \in [Threads -> [Items -> Nat]]
           /\ target[p] \subseteq PreorderIds
           /\ step[p] \in {"looking", "adding"} =>
                wish[p].item \in Items /\ wish[p].packs \in 1..MaxPreorder
           /\ target[p] # {} => seen[p] \in Preorder
           /\ step[p] \in {"locking", "taking", "merging"} => seen[p] \in Preorder /\ seen[p].item \in Items
           /\ step[p] = "taking" => shelf[p] \in Row
           /\ give[p] \in 0..MaxPreorder
<1>1. Asks(p) /\ CustomersTypeOK
  BY DEF DeskInv, DeskTypeOK
<1>2. /\ wish[p] \in [item : Items, packs : 1..MaxPreorder] \cup {NoWish}
      /\ seen[p] \in Preorder \cup {Unused}
      /\ shelf[p] \in Row \cup {NoRow}
  BY <1>1 DEF CustomersTypeOK
<1>3. seen[p] # Unused => seen[p] \in Preorder /\ seen[p].item \in Items \cup {0}
  BY <1>2 DEF Preorder
<1> QED  BY <1>1, <1>2, <1>3 DEF Asks, CustomersTypeOK, User

LEMMA MergedIs ==
    ASSUME NEW o \in PreorderIds, NEW p \in Threads, Exists(o), seen[p] \in Preorder,
           wish[p].item \in Items, wish[p].packs \in 1..MaxPreorder
    PROVE  /\ Merged(p, o) \in Preorder
           /\ Merged(p, o).user = preorders[o].user
           /\ Merged(p, o).product = preorders[o].product
           /\ Merged(p, o).done = preorders[o].done
           /\ Merged(p, o).item \in {preorders[o].item, wish[p].item}
           /\ preorders[o] = seen[p] => Merged(p, o).item = wish[p].item
<1> DEFINE q == IF seen[p].qty = MaxPreorder THEN preorders[o].qty
                ELSE AtMost(seen[p].qty + wish[p].packs, MaxPreorder)
           i == IF seen[p].item = wish[p].item THEN preorders[o].item ELSE wish[p].item
<1>1. preorders[o] \in Preorder
  BY DEF Exists
<1>2. q \in 1..MaxPreorder /\ i \in Items \cup {0}
  BY <1>1 DEF Preorder, AtMost
<1>3. Merged(p, o) = [preorders[o] EXCEPT !.qty = q, !.item = i]
  BY <1>1 DEF Merged, Preorder
<1> HIDE DEF q
<1> QED  BY <1>1, <1>2, <1>3 DEF Preorder

LEMMA AddWriteIs ==
    ASSUME DeskInv, NEW p \in Threads, AddWrite(p)
    PROVE  /\ Lasts /\ \A c \in Unloaders : Spares(c)
           /\ \/ \E o \in target[p] :
                   /\ Exists(o)
                   /\ preorders' = [preorders EXCEPT ![o] = Merged(p, o)]
                   /\ Merged(p, o) \in Preorder
              \/ UNCHANGED preorders
              \/ /\ target[p] = {}
                 /\ \E o \in PreorderIds : \E new \in Preorder :
                      /\ preorders[o] = Unused
                      /\ preorders' = [preorders EXCEPT ![o] = new]
                      /\ new.user = User(p) /\ new.product = Product[wish[p].item]
                      /\ new.item = wish[p].item /\ new.done = FALSE
<1>1. step[p] = "adding" /\ UNCHANGED <<rows, status>>
  BY DEF AddWrite
<1>2. /\ User(p) \in Users /\ target[p] \subseteq PreorderIds
      /\ wish[p].item \in Items /\ wish[p].packs \in 1..MaxPreorder
      /\ target[p] # {} => seen[p] \in Preorder
  BY <1>1, CustomersAre
<1>3. preorders \in [PreorderIds -> Preorder \cup {Unused, Gone}]
  BY DEF DeskInv, DeskTypeOK, TablesTypeOK
<1>4. ASSUME NEW o \in target[p], Exists(o),
             preorders' = [preorders EXCEPT ![o] = Merged(p, o)]
      PROVE  Lasts /\ (\A c \in Unloaders : Spares(c)) /\ Merged(p, o) \in Preorder
  <2>1. o \in PreorderIds /\ seen[p] \in Preorder
    BY <1>2
  <2>2. Merged(p, o) \in Preorder
    BY <1>2, <1>4, <2>1, MergedIs
  <2>3. preorders' \in [PreorderIds -> Preorder \cup {Unused, Gone}]
    BY <1>3, <1>4, <2>2
  <2>4. \A x \in PreorderIds : x # o => preorders'[x] = preorders[x]
    BY <1>3, <1>4
  <2>5. preorders'[o] \in Preorder
    BY <1>3, <1>4, <2>1, <2>2
  <2>6. \A x \in PreorderIds : preorders[x] # Unused => preorders'[x] # Unused
    BY <2>4, <2>5
  <2>7. \A x \in PreorderIds : preorders'[x] = Gone =>
                preorders[x] = Gone \/ FreeOf(Unloaders, "preorder", x)
    BY <2>4, <2>5
  <2> QED  BY <1>1, <2>2, <2>3, <2>6, <2>7, PreordersOnly
<1>5. CASE UNCHANGED preorders
  BY <1>1, <1>5, NothingWritten DEF tables
<1>6. ASSUME target[p] = {}, NEW o \in PreorderIds, preorders[o] = Unused,
             preorders' = [preorders EXCEPT ![o] =
                    [user |-> User(p), product |-> Product[wish[p].item],
                     item |-> wish[p].item,
                     qty |-> AtMost(wish[p].packs, MaxPreorder), done |-> FALSE]]
      PROVE  /\ Lasts /\ \A c \in Unloaders : Spares(c)
             /\ \E x \in Preorder :
                  /\ preorders' = [preorders EXCEPT ![o] = x]
                  /\ x.user = User(p) /\ x.product = Product[wish[p].item]
                  /\ x.item = wish[p].item /\ x.done = FALSE
  <2> DEFINE new == [user |-> User(p), product |-> Product[wish[p].item],
                     item |-> wish[p].item,
                     qty |-> AtMost(wish[p].packs, MaxPreorder), done |-> FALSE]
  <2>1. AtMost(wish[p].packs, MaxPreorder) \in 1..MaxPreorder
    BY <1>2 DEF AtMost
  <2>2. /\ new \in Preorder /\ new.user = User(p) /\ new.product = Product[wish[p].item]
        /\ new.item = wish[p].item /\ new.done = FALSE
    BY <1>2, <2>1 DEF Preorder
  <2>3. preorders' = [preorders EXCEPT ![o] = new]
    BY <1>6
  <2> HIDE DEF new
  <2>4. preorders' \in [PreorderIds -> Preorder \cup {Unused, Gone}]
    BY <1>3, <2>2, <2>3
  <2>5. \A x \in PreorderIds : x # o => preorders'[x] = preorders[x]
    BY <1>3, <2>3
  <2>6. preorders'[o] \in Preorder
    BY <1>3, <2>2, <2>3
  <2>7. \A x \in PreorderIds : preorders[x] # Unused => preorders'[x] # Unused
    BY <2>5, <2>6
  <2>8. \A x \in PreorderIds : preorders'[x] = Gone =>
                preorders[x] = Gone \/ FreeOf(Unloaders, "preorder", x)
    BY <2>5, <2>6
  <2>9. Lasts /\ \A c \in Unloaders : Spares(c)
    BY <1>1, <2>4, <2>7, <2>8, PreordersOnly
  <2> QED  BY <2>2, <2>3, <2>9
<1> DEFINE fresh == [user |-> User(p), product |-> Product[wish[p].item],
                    item |-> wish[p].item,
                    qty |-> AtMost(wish[p].packs, MaxPreorder), done |-> FALSE]
<1>7. \/ \E o \in target[p] : Exists(o) /\ preorders' = [preorders EXCEPT ![o] = Merged(p, o)]
      \/ UNCHANGED preorders
      \/ /\ target[p] = {}
         /\ \E o \in PreorderIds :
              preorders[o] = Unused /\ preorders' = [preorders EXCEPT ![o] = fresh]
  BY DEF AddWrite
<1>8. ASSUME target[p] = {}, NEW o \in PreorderIds, preorders[o] = Unused,
             preorders' = [preorders EXCEPT ![o] = fresh]
      PROVE  /\ Lasts /\ \A c \in Unloaders : Spares(c)
             /\ \E x \in Preorder :
                  /\ preorders' = [preorders EXCEPT ![o] = x]
                  /\ x.user = User(p) /\ x.product = Product[wish[p].item]
                  /\ x.item = wish[p].item /\ x.done = FALSE
  BY <1>6, <1>8
<1> HIDE DEF fresh
<1>9. CASE \E o \in target[p] : Exists(o) /\ preorders' = [preorders EXCEPT ![o] = Merged(p, o)]
  BY <1>4, <1>9
<1>10. CASE UNCHANGED preorders
  BY <1>5, <1>10
<1>11. CASE /\ target[p] = {}
            /\ \E o \in PreorderIds :
                 preorders[o] = Unused /\ preorders' = [preorders EXCEPT ![o] = fresh]
  <2>1. PICK o \in PreorderIds :
          preorders[o] = Unused /\ preorders' = [preorders EXCEPT ![o] = fresh]
    BY <1>11
  <2>2. PICK new \in Preorder :
          /\ preorders' = [preorders EXCEPT ![o] = new]
          /\ new.user = User(p) /\ new.product = Product[wish[p].item]
          /\ new.item = wish[p].item /\ new.done = FALSE
    BY <1>8, <1>11, <2>1
  <2>3. Lasts /\ \A c \in Unloaders : Spares(c)
    BY <1>8, <1>11, <2>1
  <2> QED  BY <1>11, <2>1, <2>2, <2>3
<1> QED  BY <1>7, <1>9, <1>10, <1>11

LEMMA DeletedIs ==
    ASSUME DeskInv, NEW p \in Threads, RemoveWrite(p) \/ MoveMerge(p)
    PROVE  /\ Lasts /\ \A c \in Unloaders : Spares(c)
           /\ UNCHANGED <<rows, status>>
           /\ \A o \in PreorderIds :
                preorders'[o] = IF o \in target[p] THEN Gone ELSE preorders[o]
<1>1. /\ UNCHANGED <<rows, status>> /\ preorders' = Deleted(p)
      /\ \A o \in target[p] : FreeOf(Unloaders, "preorder", o)
  BY DEF RemoveWrite, MoveMerge
<1>2. \A o \in PreorderIds :
        preorders'[o] = IF o \in target[p] THEN Gone ELSE preorders[o]
  BY <1>1 DEF Deleted
<1>3. preorders \in [PreorderIds -> Preorder \cup {Unused, Gone}]
  BY DEF DeskInv, DeskTypeOK, TablesTypeOK
<1>4. preorders' \in [PreorderIds -> Preorder \cup {Unused, Gone}]
  BY <1>1, <1>3 DEF Deleted
<1>5. \A o \in PreorderIds : preorders[o] # Unused => preorders'[o] # Unused
  BY <1>2
<1>6. \A o \in PreorderIds : preorders'[o] = Gone =>
                preorders[o] = Gone \/ FreeOf(Unloaders, "preorder", o)
  BY <1>1, <1>2
<1>7. Lasts /\ \A c \in Unloaders : Spares(c)
  BY <1>1, <1>4, <1>5, <1>6, PreordersOnly
<1> QED  BY <1>1, <1>2, <1>7

LEMMA MovedPacksIs ==
    ASSUME NEW r \in Row, NEW q \in 1..MaxPreorder
    PROVE  MovedPacks(r, q) \in 0..MaxPreorder
  BY DEF MovedPacks, AtMost, Avail, Row

LEMMA MoveTakeIs ==
    ASSUME DeskInv, NEW p \in Threads, MoveTake(p)
    PROVE  /\ Lasts /\ \A c \in Unloaders : Spares(c)
           /\ UNCHANGED <<status, preorders>>
           /\ \A j \in Items : j # seen[p].item => rows'[j] = rows[j]
           /\ \A j \in Items : IsListed(j) =>
                rows'[j] \in Row /\ rows'[j].active = rows[j].active
           /\ \A j \in Items : ~IsListed(j) => rows'[j] = rows[j]
           /\ \/ UNCHANGED rows /\ ReserveLeft(shelf[p], give[p]) = shelf[p].reserved
              \/ /\ IsListed(seen[p].item)
                 /\ rows'[seen[p].item].reserved = ReserveLeft(shelf[p], give[p])
<1> DEFINE i == seen[p].item
           left == ReserveLeft(shelf[p], give[p])
<1>1. step[p] = "taking" /\ UNCHANGED <<status, preorders>>
  BY DEF MoveTake
<1>2. i \in Items /\ shelf[p] \in Row /\ give[p] \in Nat
  BY <1>1, CustomersAre
<1>3. left \in Nat
  BY <1>2 DEF ReserveLeft, Row
<1>4. rows \in [Items -> Row \cup {NoRow, Gone}]
  BY DEF DeskInv, DeskTypeOK, TablesTypeOK
<1>5. CASE UNCHANGED rows /\ left = shelf[p].reserved
  BY <1>1, <1>2, <1>4, <1>5, NothingWritten DEF tables, IsListed
<1>6. CASE IsListed(i) /\ rows' = [rows EXCEPT ![i].reserved = left]
  <2>1. rows[i] \in Row
    BY <1>6 DEF IsListed
  <2>2. rows'[i] = [rows[i] EXCEPT !.reserved = left] /\ \A j \in Items : j # i => rows'[j] = rows[j]
    BY <1>2, <1>4, <1>6
  <2> HIDE DEF left, i
  <2>3. rows'[i] \in Row /\ rows'[i].active = rows[i].active /\ rows'[i].reserved = left
    BY <1>3, <2>1, <2>2, RowWithReserve
  <2>4. \A j \in Items : IsListed(j) => rows'[j] \in Row /\ rows'[j].active = rows[j].active
    BY <2>2, <2>3 DEF IsListed
  <2>5. \A j \in Items : ~IsListed(j) => rows'[j] = rows[j]
    BY <1>6, <2>2
  <2>6. rows' = [j \in Items |-> rows'[j]]
    BY <1>4, <1>6
  <2>7. rows' \in [Items -> Row \cup {NoRow, Gone}]
    BY <1>4, <2>4, <2>5, <2>6 DEF IsListed
  <2>8. Lasts /\ \A c \in Unloaders : Spares(c)
    BY <1>1, <2>4, <2>5, <2>7, RowsOnly
  <2> QED  BY <1>1, <1>6, <2>2, <2>3, <2>4, <2>5, <2>8 DEF left, i
<1> QED  BY <1>5, <1>6 DEF MoveTake

-----------------------------------------------------------------------------
(* The steps of an unloading                                               *)

LEMMA UnloadersAre ==
    ASSUME DeskInv, NEW c \in Unloaders
    PROVE  /\ Holds(c)
           /\ item[c] \in [Items -> Row \cup {NoRow}]
           /\ draft[c] \in [Items -> Row \cup {NoRow}]
           /\ found[c] \in [PreorderIds -> Preorder \cup {Unused}]
           /\ fulfilled[c] \in [PreorderIds -> Items \cup {0}]
           /\ todo[c] \subseteq Manual /\ current[c] \subseteq Manual /\ reset[c] \subseteq Items
           /\ closed[c] \subseteq Supplies
           /\ rows \in [Items -> Row \cup {NoRow, Gone}]
           /\ preorders \in [PreorderIds -> Preorder \cup {Unused, Gone}]
           /\ status \in [Supplies -> Statuses \cup {"none", "gone"}]
           /\ \A i \in Items : IsListed(i) => RowSeen(c, i) \in Row
  BY DEF DeskInv, DeskTypeOK, TablesTypeOK, UnloadingTypeOK, RowSeen, IsListed

LEMMA PacksAreNat ==
    ASSUME NEW set \in SUBSET PreorderIds, NEW x, \A o \in set : x[o] \in Preorder
    PROVE  PacksOf(set, x) \in Nat
<1>1. IsFiniteSet(set)
  BY FS_Subset
<1> DEFINE f == [o \in set |-> x[o].qty]
<1>2. \A o \in set : f[o] \in Nat
  BY DEF Preorder
<1> HIDE DEF f
<1>3. Total(f, set) \in Nat
  BY <1>1, <1>2, TotalIsNat
<1> QED  BY <1>3 DEF PacksOf, f

LEMMA PlacedIs ==
    ASSUME DeskInv, NEW c \in Unloaders, NEW i \in Items, item[c][i] \in Row
    PROVE  /\ Placed(c, i) \in Row
           /\ \/ Placed(c, i).reserved = item[c][i].reserved
              \/ Placed(c, i).reserved <= PacksOf(Awaiting(c, i), found[c])
<1> DEFINE wanted == PacksOf(Awaiting(c, i), found[c])
           r == item[c][i]
           cut == IF wanted < r.stock THEN wanted ELSE r.stock
           held == IF wanted = 0 THEN r ELSE [r EXCEPT !.reserved = cut]
<1>1. wanted \in Nat
  <2>1. Awaiting(c, i) \subseteq PreorderIds /\ \A o \in Awaiting(c, i) : found[c][o] \in Preorder
    BY UnloadersAre DEF Awaiting
  <2> QED  BY <2>1, PacksAreNat
<1>2. CASE r.stock <= 0
  BY <1>2 DEF Placed
<1>3. CASE ~(r.stock <= 0)
  <2>1. r.stock \in Nat
    BY <1>3 DEF Row
  <2> HIDE DEF wanted
  <2>2. cut \in Nat /\ cut <= wanted
    BY <1>1, <2>1
  <2> HIDE DEF cut, r
  <2>3. held \in Row /\ (held.reserved = r.reserved \/ held.reserved <= wanted)
    <3>1. CASE wanted = 0
      BY <3>1 DEF r
    <3>2. CASE wanted # 0
      <4>1. r \in Row /\ held = [r EXCEPT !.reserved = cut]
        BY <3>2 DEF r
      <4> QED  BY <2>2, <4>1, RowWithReserve
    <3> QED  BY <3>1, <3>2
  <2>4. Placed(c, i) = [held EXCEPT !.active = @ \/ Avail(held) > 0]
    BY <1>3 DEF Placed, held, cut, r, wanted
  <2> HIDE DEF held
  <2> DEFINE b == held.active \/ Avail(held) > 0
  <2>5. b \in BOOLEAN /\ Placed(c, i) = [held EXCEPT !.active = b]
    BY <2>3, <2>4 DEF Row
  <2> HIDE DEF b
  <2>6. Placed(c, i) \in Row /\ Placed(c, i).reserved = held.reserved
    BY <2>3, <2>5, RowWithActive
  <2> QED  BY <2>3, <2>6 DEF r, wanted
<1> QED  BY <1>2, <1>3

LEMMA ClearedIs ==
    ASSUME DeskInv, NEW c \in Unloaders, NEW i \in Items, IsListed(i)
    PROVE  /\ Cleared(c, i) \in Row
           /\ i \in reset[c] => Cleared(c, i).reserved = 0 /\ ~Cleared(c, i).active
           /\ i \notin reset[c] => Cleared(c, i) = RowSeen(c, i)
<1>1. RowSeen(c, i) \in Row
  BY UnloadersAre
<1>2. CASE i \notin reset[c]
  BY <1>1, <1>2 DEF Cleared
<1>3. CASE i \in reset[c]
  <2>1. Cleared(c, i) = [RowSeen(c, i) EXCEPT !.active = FALSE, !.reserved = 0]
    BY <1>3 DEF Cleared
  <2> DEFINE r == RowSeen(c, i)
             off == [r EXCEPT !.active = FALSE]
             new == [off EXCEPT !.reserved = 0]
  <2>4. off \in Row /\ off.active = FALSE
    BY <1>1 DEF Row
  <2>5. Cleared(c, i) = new
    BY <1>1, <2>1 DEF Row
  <2> HIDE DEF off
  <2>6. new \in Row /\ new.reserved = 0 /\ new.active = off.active
    BY <2>4, RowWithReserve
  <2> HIDE DEF new
  <2>2. Cleared(c, i) \in Row
    BY <2>5, <2>6
  <2>3. Cleared(c, i).reserved = 0 /\ ~Cleared(c, i).active
    BY <2>4, <2>5, <2>6
  <2> QED  BY <1>3, <2>2, <2>3
<1> QED  BY <1>2, <1>3

\* The reserve of a flushed row is what it was once the shelf was cleared, or
\* no more than the preorders it was flushed for want; it enters the shelf
\* only with the supply that is unloaded.
LEMMA FlushedIs ==
    ASSUME DeskInv, NEW c \in Unloaders, NEW i \in Items, IsListed(i)
    PROVE  /\ Flushed(c, i) \in Row
           /\ \/ Flushed(c, i).reserved = Cleared(c, i).reserved
              \/ /\ i \in Loaded(c, current[c])
                 /\ Flushed(c, i).reserved <= PacksOf(Awaiting(c, i), found[c])
           /\ Flushed(c, i).active => Cleared(c, i).active \/ i \in Loaded(c, current[c])
<1>1. Cleared(c, i) \in Row
  BY ClearedIs
<1>2. CASE ~IsChanged(c, i)
  BY <1>1, <1>2 DEF Flushed
<1>3. CASE IsChanged(c, i)
  <2>1. i \in Loaded(c, current[c]) /\ item[c][i] \in Row
    BY <1>3, UnloadersAre DEF IsChanged, Loaded
  <2>2. /\ Placed(c, i) \in Row
        /\ \/ Placed(c, i).reserved = item[c][i].reserved
           \/ Placed(c, i).reserved <= PacksOf(Awaiting(c, i), found[c])
    BY <2>1, PlacedIs
  <2> DEFINE m == IF Placed(c, i).reserved = item[c][i].reserved THEN Cleared(c, i).reserved
                  ELSE Placed(c, i).reserved
             b == IF Placed(c, i).active = item[c][i].active THEN Cleared(c, i).active
                  ELSE Placed(c, i).active
  <2>3. m \in Nat /\ b \in BOOLEAN
    BY <1>1, <2>2 DEF Row
  <2>4. m = Cleared(c, i).reserved \/ m <= PacksOf(Awaiting(c, i), found[c])
    BY <2>2
  <2>5. Flushed(c, i) = [Cleared(c, i) EXCEPT !.reserved = m, !.active = b]
    BY <1>1, <1>3 DEF Flushed, Row
  <2> HIDE DEF m, b
  <2>6. Flushed(c, i) \in Row
    BY <1>1, <2>3, <2>5 DEF Row
  <2>7. Flushed(c, i).reserved = m
    BY <1>1, <2>3, <2>5 DEF Row
  <2> QED  BY <2>1, <2>4, <2>6, <2>7
<1> QED  BY <1>2, <1>3

UnloadTyped ==
    /\ reset \in [Unloaders -> SUBSET Items]
    /\ draft \in [Unloaders -> [Items -> Row \cup {NoRow}]]
    /\ fulfilled \in [Unloaders -> [PreorderIds -> Items \cup {0}]]
    /\ closed \in [Unloaders -> SUBSET Supplies]
    /\ UnloadingTypeOK

\* The others go on with what they have.
OthersStay(c) == \A d \in Unloaders : d # c => MyUnload(d)' = MyUnload(d)

LEMMA IsUnloadTyped ==
    ASSUME DeskInv
    PROVE  UnloadTyped
  BY DEF DeskInv, DeskTypeOK, TablesTypeOK, UnloadTyped

LEMMA OpenKeeps ==
    ASSUME DeskInv, NEW c \in Unloaders, OpenUnload(c) \/ OpenOverdue(c)
    PROVE  /\ UnloadTyped' /\ OthersStay(c) /\ Holds(c)' /\ UNCHANGED tables
           /\ phase[c] = "idle" /\ phase'[c] = "clearing"
           /\ writes' = writes /\ UNCHANGED found
           /\ \A i \in Items : item'[c][i] # NoRow => IsListed(i)
<1>1. PICK set \in SUBSET Manual : Open(c, set) /\ \A s \in set : status[s] \in Statuses
  <2>1. CASE OpenUnload(c)
    <3>1. PICK s \in Manual : ItemsOf({s}) # {} /\ Open(c, {s})
      BY <2>1 DEF OpenUnload
    <3>2. status[s] \in Statuses
      BY <3>1 DEF ItemsOf, DeskInv, Stands, SupplyExists
    <3> QED  BY <3>1, <3>2
  <2>2. CASE OpenOverdue(c)
    <3>1. PICK set \in SUBSET {s \in Manual : status[s] \in {"onTheWay", "arrived"}} : Open(c, set)
      BY <2>2 DEF OpenOverdue
    <3> QED  BY <3>1 DEF Statuses
  <2> QED  BY <2>1, <2>2
<1>2. /\ phase[c] = "idle" /\ UNCHANGED <<tables, writes, current, found>>
      /\ phase' = [phase EXCEPT ![c] = "clearing"]
      /\ todo' = [todo EXCEPT ![c] = set]
      /\ item' = [item EXCEPT ![c] =
                  [i \in Items |-> IF i \in ItemsOf(set) THEN rows[i] ELSE NoRow]]
      /\ was' = [was EXCEPT ![c] =
                  [s \in Supplies |-> IF s \in set THEN status[s] ELSE @[s]]]
  BY <1>1 DEF Open
<1>3. UnloadTyped
  BY IsUnloadTyped
<1>4. \A i \in ItemsOf(set) : IsListed(i) /\ rows[i] \in Row
  BY DEF ItemsOf, IsListed
<1>5. /\ phase'[c] = "clearing" /\ todo'[c] = set
      /\ item'[c] = [i \in Items |-> IF i \in ItemsOf(set) THEN rows[i] ELSE NoRow]
  BY <1>2, <1>3 DEF UnloadTyped, UnloadingTypeOK
<1>6. UnloadTyped'
  <2>1. item' \in [Unloaders -> [Items -> Row \cup {NoRow}]]
    BY <1>2, <1>3, <1>4 DEF UnloadTyped, UnloadingTypeOK
  <2>2. was' \in [Unloaders -> [Supplies -> Statuses]]
    BY <1>1, <1>2, <1>3 DEF UnloadTyped, UnloadingTypeOK
  <2>3. phase' \in [Unloaders -> {"idle", "clearing", "flushing", "committing"}]
    BY <1>2, <1>3 DEF UnloadTyped, UnloadingTypeOK
  <2>4. todo' \in [Unloaders -> SUBSET Manual]
    BY <1>2, <1>3 DEF UnloadTyped, UnloadingTypeOK
  <2> QED  BY <1>2, <1>3, <2>1, <2>2, <2>3, <2>4 DEF UnloadTyped, UnloadingTypeOK, writes
<1>7. OthersStay(c)
  BY <1>2, <1>3 DEF OthersStay, MyUnload, writes, UnloadTyped, UnloadingTypeOK
<1>8. Holds(c)'
  <2>1. Holds(c)
    BY DEF DeskInv
  <2>2. \A i \in Items : item'[c][i] # NoRow => IsListed(i)
    BY <1>4, <1>5
  <2>3. \A s \in set : status[s] # "none"
    BY <1>1 DEF Statuses
  <2>4. \A i \in Items : IsListed(i) => rows[i] # NoRow
    BY DEF IsListed
  <2>5. \A o \in PreorderIds : found[c][o] = Unused
    BY <1>2, <2>1 DEF Holds, NothingFound
  <2> QED
    BY <1>2, <1>5, <2>1, <2>2, <2>3, <2>4, <2>5
       DEF Holds, tables, writes, IsListed, Exists, SupplyExists
<1> QED  BY <1>2, <1>4, <1>5, <1>6, <1>7, <1>8

LEMMA ClearKeeps ==
    ASSUME DeskInv, NEW c \in Unloaders, ClearShelf(c)
    PROVE  /\ UnloadTyped' /\ OthersStay(c) /\ Holds(c)' /\ UNCHANGED tables
           /\ UNCHANGED <<draft, fulfilled, item>>
           /\ phase[c] = "clearing" /\ phase'[c] = "flushing"
           /\ reset'[c] = OldBatches(c)
           /\ \A o \in PreorderIds :
                found'[c][o] # Unused => found'[c][o] = preorders[o] /\ IsWaitingFor(c, o)
<1>1. PICK s \in todo[c] :
        /\ current' = [current EXCEPT ![c] = {s}]
        /\ todo' = [todo EXCEPT ![c] = @ \ {s}]
        /\ found' = [found EXCEPT ![c] =
              [o \in PreorderIds |->
                 IF IsWaitingFor(c, o) /\ preorders[o].product \in Delivered(c, s)
                 THEN preorders[o] ELSE Unused]]
  BY DEF ClearShelf
<1>2. /\ phase[c] = "clearing" /\ UNCHANGED <<tables, draft, fulfilled, closed, item, was>>
      /\ reset' = [reset EXCEPT ![c] = OldBatches(c)]
      /\ phase' = [phase EXCEPT ![c] = "flushing"]
  BY DEF ClearShelf
<1>3. UnloadTyped /\ Holds(c)
  BY IsUnloadTyped DEF DeskInv
<1>4. s \in Manual /\ s \in Supplies
  BY <1>3 DEF UnloadTyped, UnloadingTypeOK
<1>5. OldBatches(c) \subseteq Items
      /\ \A i \in OldBatches(c) : IsListed(i) /\ SupplyOf[i] \in Manual
  BY DEF OldBatches, OldBatchesOfAll
<1>6. /\ current'[c] = {s} /\ todo'[c] = todo[c] \ {s} /\ phase'[c] = "flushing"
      /\ reset'[c] = OldBatches(c)
      /\ found'[c] = [o \in PreorderIds |->
                 IF IsWaitingFor(c, o) /\ preorders[o].product \in Delivered(c, s)
                 THEN preorders[o] ELSE Unused]
  BY <1>1, <1>2, <1>3 DEF UnloadTyped, UnloadingTypeOK
<1>7. \A o \in PreorderIds : IsWaitingFor(c, o) => preorders[o] \in Preorder
  BY DEF IsWaitingFor, Waiting, Exists
<1>8. ASSUME NEW o \in PreorderIds, found'[c][o] # Unused
      PROVE  /\ found'[c][o] = preorders[o] /\ IsWaitingFor(c, o) /\ preorders[o] # Unused
             /\ \E i \in Loaded(c, {s}) : Product[i] = preorders[o].product
  <2>1. /\ IsWaitingFor(c, o) /\ preorders[o].product \in Delivered(c, s)
        /\ found'[c][o] = preorders[o]
    BY <1>6, <1>8
  <2>2. \E i \in Loaded(c, {s}) : Product[i] = preorders[o].product
    BY <2>1 DEF Delivered
  <2> QED  BY <1>8, <2>1, <2>2
<1>9. UnloadTyped'
  <2>1. found' \in [Unloaders -> [PreorderIds -> Preorder \cup {Unused}]]
    BY <1>1, <1>3, <1>7 DEF UnloadTyped, UnloadingTypeOK
  <2>2. /\ phase' \in [Unloaders -> {"idle", "clearing", "flushing", "committing"}]
        /\ todo' \in [Unloaders -> SUBSET Manual]
        /\ current' \in [Unloaders -> SUBSET Manual]
        /\ reset' \in [Unloaders -> SUBSET Items]
    BY <1>1, <1>2, <1>3, <1>4, <1>5 DEF UnloadTyped, UnloadingTypeOK
  <2> QED  BY <1>2, <1>3, <2>1, <2>2 DEF UnloadTyped, UnloadingTypeOK
<1>10. OthersStay(c)
  BY <1>1, <1>2, <1>3 DEF OthersStay, MyUnload, UnloadTyped, UnloadingTypeOK
<1>11. Holds(c)'
  <2>1. \A x \in todo'[c] \cup current'[c] : status'[x] # "none"
    BY <1>2, <1>3, <1>6 DEF Holds, tables
  <2>2. \A o \in PreorderIds : found'[c][o] # Unused =>
              /\ preorders'[o] # Unused
              /\ \E i \in Loaded(c, current[c])' : Product[i] = found'[c][o].product
    BY <1>2, <1>6, <1>8 DEF tables, Loaded
  <2>3. \A i \in Items : i \in reset'[c] => IsListed(i)' /\ SupplyOf[i] \in Manual
    BY <1>2, <1>5, <1>6 DEF tables, IsListed
  <2> QED
    BY <1>2, <1>3, <1>6, <2>1, <2>2, <2>3
       DEF Holds, tables, IsListed, Exists, SupplyExists
<1> QED  BY <1>2, <1>6, <1>8, <1>9, <1>10, <1>11

\* The position a preorder that was found is served from.
LEMMA BatchIs ==
    ASSUME DeskInv, NEW c \in Unloaders, NEW o \in PreorderIds, found[c][o] # Unused
    PROVE  /\ Batch(c, o) \in Loaded(c, current[c]) /\ Batch(c, o) \in Items
           /\ Product[Batch(c, o)] = found[c][o].product
<1>1. \E i \in Loaded(c, current[c]) : Product[i] = found[c][o].product
  BY DEF DeskInv, Holds
<1>2. Batch(c, o) \in Loaded(c, current[c]) /\ Product[Batch(c, o)] = found[c][o].product
  BY <1>1 DEF Batch
<1> QED  BY <1>2 DEF Loaded

LEMMA NextSupplyKeeps ==
    ASSUME DeskInv, NEW c \in Unloaders, phase[c] = "flushing", NextSupply(c),
           UNCHANGED <<tables, todo, item, was>>
    PROVE  /\ UnloadingTypeOK' /\ reset' \in [Unloaders -> SUBSET Items]
           /\ phase'[c] \in {"clearing", "committing"}
           /\ reset'[c] = {} /\ current'[c] = {} /\ found'[c] = NothingFound
           /\ \A d \in Unloaders \ {c} :
                /\ phase'[d] = phase[d] /\ reset'[d] = reset[d]
                /\ current'[d] = current[d] /\ found'[d] = found[d]
<1>1. UnloadTyped
  BY IsUnloadTyped
<1>2. NothingFound \in [PreorderIds -> Preorder \cup {Unused}]
  BY DEF NothingFound
<1> QED  BY <1>1, <1>2 DEF NextSupply, UnloadTyped, UnloadingTypeOK

LEMMA FlushKeeps ==
    ASSUME DeskInv, NEW c \in Unloaders, Flush(c)
    PROVE  /\ UnloadTyped' /\ OthersStay(c) /\ Holds(c)' /\ UNCHANGED <<tables, item>>
           /\ phase[c] = "flushing" /\ phase'[c] # "idle" /\ phase'[c] # "flushing"
           /\ found'[c] = NothingFound
           /\ \A i \in Items : draft'[c][i] =
                IF i \in reset[c] \/ IsChanged(c, i) THEN Flushed(c, i) ELSE draft[c][i]
           /\ \A i \in Items : IsChanged(c, i) => IsListed(i)
           /\ \A o \in PreorderIds : fulfilled'[c][o] =
                IF found[c][o] = Unused THEN fulfilled[c][o]
                ELSE IF found[c][o].item = Batch(c, o) THEN preorders[o].item ELSE Batch(c, o)
<1>1. /\ phase[c] = "flushing" /\ ~IsStale(c) /\ NextSupply(c)
      /\ UNCHANGED <<tables, todo, item, was>>
      /\ draft' = [draft EXCEPT ![c] =
          [i \in Items |-> IF i \in reset[c] \/ IsChanged(c, i) THEN Flushed(c, i) ELSE @[i]]]
      /\ fulfilled' = [fulfilled EXCEPT ![c] =
          [o \in PreorderIds |->
             IF o \notin IsFound(c) THEN @[o]
             ELSE IF found[c][o].item = Batch(c, o) THEN preorders[o].item
             ELSE Batch(c, o)]]
      /\ closed' = [closed EXCEPT ![c] = @ \cup NewlyClosed(c)]
  BY DEF Flush
<1>2. UnloadTyped /\ Holds(c)
  BY IsUnloadTyped DEF DeskInv
<1>3. /\ UnloadingTypeOK' /\ reset' \in [Unloaders -> SUBSET Items]
      /\ phase'[c] \in {"clearing", "committing"}
      /\ reset'[c] = {} /\ current'[c] = {} /\ found'[c] = NothingFound
      /\ \A d \in Unloaders \ {c} :
                /\ phase'[d] = phase[d] /\ reset'[d] = reset[d]
                /\ current'[d] = current[d] /\ found'[d] = found[d]
  BY <1>1, NextSupplyKeeps
<1>4. /\ rows \in [Items -> Row \cup {NoRow, Gone}]
      /\ preorders \in [PreorderIds -> Preorder \cup {Unused, Gone}]
      /\ status \in [Supplies -> Statuses \cup {"none", "gone"}]
      /\ found[c] \in [PreorderIds -> Preorder \cup {Unused}]
      /\ fulfilled[c] \in [PreorderIds -> Items \cup {0}]
      /\ current[c] \subseteq Supplies /\ current[c] \subseteq Manual
  BY UnloadersAre
<1>5. ASSUME NEW i \in Items, IsChanged(c, i)
      PROVE  IsListed(i) /\ SupplyOf[i] \in Manual
  <2>1. item[c][i] # NoRow /\ SupplyOf[i] \in current[c]
    BY <1>5 DEF IsChanged, Loaded
  <2>2. rows[i] # NoRow /\ rows[i] # Gone
    BY <1>1, <1>2, <1>5, <2>1 DEF Holds, IsStale
  <2> QED  BY <1>4, <2>1, <2>2 DEF IsListed
<1>6. \A i \in Items : i \in reset[c] => IsListed(i) /\ SupplyOf[i] \in Manual
  BY <1>2 DEF Holds
<1>7. ASSUME NEW o \in PreorderIds, found[c][o] # Unused
      PROVE  Exists(o)
  <2>1. preorders[o] # Unused /\ preorders[o] # Gone
    BY <1>1, <1>2, <1>7 DEF Holds, IsStale, IsFound
  <2> QED  BY <1>4, <2>1 DEF Exists
<1>8. ASSUME NEW s \in NewlyClosed(c)
      PROVE  s \in Supplies /\ SupplyExists(s)
  <2>1. s \in current[c] /\ status[s] # "gone" /\ status[s] # "none"
    BY <1>1, <1>2 DEF Holds, NewlyClosed, IsStale
  <2> QED  BY <1>4, <2>1 DEF SupplyExists
<1>9. \A i \in Items : draft'[c][i] =
                IF i \in reset[c] \/ IsChanged(c, i) THEN Flushed(c, i) ELSE draft[c][i]
  BY <1>1, <1>2 DEF UnloadTyped
<1>10. \A o \in PreorderIds : fulfilled'[c][o] =
                IF found[c][o] = Unused THEN fulfilled[c][o]
                ELSE IF found[c][o].item = Batch(c, o) THEN preorders[o].item ELSE Batch(c, o)
  BY <1>1, <1>2 DEF UnloadTyped, IsFound
<1>11. closed'[c] = closed[c] \cup NewlyClosed(c)
  BY <1>1, <1>2 DEF UnloadTyped
<1>12. \A i \in Items : i \in reset[c] \/ IsChanged(c, i) => Flushed(c, i) \in Row
  BY <1>5, <1>6, FlushedIs
<1>13. draft' \in [Unloaders -> [Items -> Row \cup {NoRow}]]
  BY <1>1, <1>2, <1>12 DEF UnloadTyped
<1>14. ASSUME NEW o \in PreorderIds, found[c][o] # Unused
       PROVE  Batch(c, o) \in Items /\ preorders[o].item \in Items \cup {0}
  BY <1>7, <1>14, BatchIs DEF Exists, Preorder
<1>15. fulfilled' \in [Unloaders -> [PreorderIds -> Items \cup {0}]]
  <2> DEFINE mine == [o \in PreorderIds |->
             IF o \notin IsFound(c) THEN fulfilled[c][o]
             ELSE IF found[c][o].item = Batch(c, o) THEN preorders[o].item
             ELSE Batch(c, o)]
  <2>1. mine \in [PreorderIds -> Items \cup {0}]
    BY <1>4, <1>14 DEF IsFound
  <2>2. fulfilled' = [fulfilled EXCEPT ![c] = mine]
    BY <1>1, <1>2 DEF UnloadTyped
  <2> HIDE DEF mine
  <2> QED  BY <1>2, <2>1, <2>2 DEF UnloadTyped
<1>16. closed' \in [Unloaders -> SUBSET Supplies]
  BY <1>1, <1>2, <1>8 DEF UnloadTyped
<1>17. UnloadTyped'
  BY <1>3, <1>13, <1>15, <1>16 DEF UnloadTyped
<1>18. OthersStay(c)
  BY <1>1, <1>2, <1>3 DEF OthersStay, MyUnload, UnloadTyped
<1>19. Holds(c)'
  <2>1. todo'[c] = todo[c] /\ item'[c] = item[c]
    BY <1>1
  <2>2. \A s \in closed'[c] : SupplyExists(s)'
    BY <1>1, <1>2, <1>8, <1>11 DEF Holds, SupplyExists, tables
  <2>3. \A i \in Items : draft'[c][i] # NoRow => IsListed(i)' /\ SupplyOf[i] \in Manual
    BY <1>1, <1>2, <1>5, <1>6, <1>9 DEF Holds, IsListed, tables
  <2>4. \A o \in PreorderIds : fulfilled'[c][o] # 0 => Exists(o)'
    BY <1>1, <1>2, <1>7, <1>10 DEF Holds, Exists, tables
  <2>5. \A o \in PreorderIds : found'[c][o] = Unused
    BY <1>3 DEF NothingFound
  <2>6. phase'[c] # "idle" /\ phase'[c] # "flushing"
    BY <1>3
  <2>7. \A i \in Items : item'[c][i] # NoRow => rows'[i] # NoRow
    BY <1>1, <1>2 DEF Holds, tables
  <2>8. \A s \in todo'[c] \cup current'[c] : status'[s] # "none"
    BY <1>1, <1>2, <1>3 DEF Holds, tables
  <2> QED
    BY <1>3, <2>2, <2>3, <2>4, <2>5, <2>6, <2>7, <2>8 DEF Holds
<1> QED  BY <1>1, <1>3, <1>5, <1>9, <1>10, <1>17, <1>18, <1>19

LEMMA SkipKeeps ==
    ASSUME DeskInv, NEW c \in Unloaders, SkipSupply(c)
    PROVE  /\ UnloadTyped' /\ OthersStay(c) /\ Holds(c)'
           /\ UNCHANGED <<tables, draft, fulfilled, item>>
           /\ phase[c] = "flushing" /\ phase'[c] # "idle" /\ phase'[c] # "flushing"
           /\ found'[c] = NothingFound
<1>1. /\ phase[c] = "flushing" /\ NextSupply(c)
      /\ UNCHANGED <<tables, draft, fulfilled, closed, todo, item, was>>
  BY DEF SkipSupply
<1>2. UnloadTyped /\ Holds(c)
  BY IsUnloadTyped DEF DeskInv
<1>3. /\ UnloadingTypeOK' /\ reset' \in [Unloaders -> SUBSET Items]
      /\ phase'[c] \in {"clearing", "committing"}
      /\ reset'[c] = {} /\ current'[c] = {} /\ found'[c] = NothingFound
      /\ \A d \in Unloaders \ {c} :
                /\ phase'[d] = phase[d] /\ reset'[d] = reset[d]
                /\ current'[d] = current[d] /\ found'[d] = found[d]
  BY <1>1, NextSupplyKeeps
<1>4. UnloadTyped'
  BY <1>1, <1>2, <1>3 DEF UnloadTyped
<1>5. OthersStay(c)
  BY <1>1, <1>3 DEF OthersStay, MyUnload
<1>6. Holds(c)'
  BY <1>1, <1>2, <1>3 DEF Holds, tables, IsListed, Exists, SupplyExists, NothingFound
<1> QED  BY <1>1, <1>3, <1>4, <1>5, <1>6

LEMMA EndKeeps ==
    ASSUME DeskInv, NEW c \in Unloaders, EndUnload(c)
    PROVE  /\ UnloadTyped' /\ OthersStay(c) /\ Holds(c)'
           /\ phase'[c] = "idle" /\ draft'[c] = NoDraft /\ fulfilled'[c] = NotMarked
           /\ found'[c] = NothingFound /\ item'[c] = NoDraft
<1>1. UnloadTyped
  BY IsUnloadTyped
<1>2. /\ NothingFound \in [PreorderIds -> Preorder \cup {Unused}]
      /\ NoDraft \in [Items -> Row \cup {NoRow}]
      /\ NotMarked \in [PreorderIds -> Items \cup {0}]
      /\ [s \in Supplies |-> "expected"] \in [Supplies -> Statuses]
  BY DEF NothingFound, NoDraft, NotMarked, Statuses
<1>3. UnloadTyped'
  BY <1>1, <1>2 DEF UnloadTyped, UnloadingTypeOK, EndUnload
<1>4. OthersStay(c)
  BY <1>1 DEF OthersStay, MyUnload, UnloadTyped, UnloadingTypeOK, EndUnload
<1>5. /\ phase'[c] = "idle" /\ todo'[c] = {} /\ current'[c] = {} /\ item'[c] = NoDraft
      /\ found'[c] = NothingFound /\ reset'[c] = {} /\ draft'[c] = NoDraft
      /\ fulfilled'[c] = NotMarked /\ closed'[c] = {}
  BY <1>1 DEF UnloadTyped, UnloadingTypeOK, EndUnload
<1>6. Holds(c)'
  BY <1>5 DEF Holds, NothingFound, NoDraft, NotMarked
<1> QED  BY <1>3, <1>4, <1>5, <1>6

LEMMA CommitIs ==
    ASSUME DeskInv, NEW c \in Unloaders, CommitUnload(c)
    PROVE  /\ Lasts /\ \A d \in Unloaders : Spares(d)
           /\ \A i \in Items : rows'[i] = RowSeen(c, i)
           /\ \A o \in PreorderIds : preorders'[o] =
                IF fulfilled[c][o] = 0 THEN preorders[o]
                ELSE [preorders[o] EXCEPT !.done = TRUE, !.item = fulfilled[c][o]]
           /\ \A o \in PreorderIds : fulfilled[c][o] # 0 => preorders'[o] \in Preorder
<1>1. /\ rows' = [i \in Items |-> RowSeen(c, i)]
      /\ preorders' = [o \in PreorderIds |->
          IF fulfilled[c][o] = 0 THEN preorders[o]
          ELSE [preorders[o] EXCEPT !.done = TRUE, !.item = fulfilled[c][o]]]
      /\ status' = [s \in Supplies |-> IF s \in closed[c] THEN "unloaded" ELSE status[s]]
  BY DEF CommitUnload
<1>2. /\ Holds(c)
      /\ draft[c] \in [Items -> Row \cup {NoRow}]
      /\ fulfilled[c] \in [PreorderIds -> Items \cup {0}]
      /\ rows \in [Items -> Row \cup {NoRow, Gone}]
      /\ preorders \in [PreorderIds -> Preorder \cup {Unused, Gone}]
      /\ status \in [Supplies -> Statuses \cup {"none", "gone"}]
  BY UnloadersAre
<1>3. \A i \in Items : /\ rows[i] \in Row => rows'[i] \in Row
                       /\ rows[i] \notin Row => rows'[i] = rows[i]
  BY <1>1, <1>2 DEF RowSeen, Holds, IsListed
<1>4. ASSUME NEW o \in PreorderIds, fulfilled[c][o] # 0
      PROVE  preorders'[o] \in Preorder
  <2>1. preorders[o] \in Preorder /\ fulfilled[c][o] \in Items
    BY <1>2, <1>4 DEF Holds, Exists
  <2>2. preorders'[o] = [preorders[o] EXCEPT !.done = TRUE, !.item = fulfilled[c][o]]
    BY <1>1, <1>4
  <2> QED  BY <2>1, <2>2 DEF Preorder
<1>5. \A o \in PreorderIds : preorders'[o] = preorders[o] \/ preorders'[o] \in Preorder
  BY <1>1, <1>4
<1>6. /\ rows' \in [Items -> Row \cup {NoRow, Gone}]
      /\ preorders' \in [PreorderIds -> Preorder \cup {Unused, Gone}]
  <2>1. \A i \in Items : rows'[i] \in Row \cup {NoRow, Gone}
    BY <1>2, <1>3
  <2>2. \A o \in PreorderIds : preorders'[o] \in Preorder \cup {Unused, Gone}
    BY <1>2, <1>5
  <2>3. rows' = [i \in Items |-> rows'[i]] /\ preorders' = [o \in PreorderIds |-> preorders'[o]]
    BY <1>1
  <2> QED  BY <2>1, <2>2, <2>3
<1>7. status' \in [Supplies -> Statuses \cup {"none", "gone"}]
      /\ \A s \in Supplies : /\ status[s] \in Statuses => status'[s] \in Statuses
                             /\ status[s] # "none" => status'[s] # "none"
  BY <1>1, <1>2 DEF Statuses
<1>8. \A i \in Items : rows[i] # NoRow => rows'[i] # NoRow
  BY <1>2, <1>3
<1>9. \A i \in Items : rows'[i] \in Row => status'[SupplyOf[i]] \in Statuses
  BY <1>3, <1>7 DEF DeskInv, Stands, SupplyExists, IsListed
<1>10. \A o \in PreorderIds : preorders[o] # Unused => preorders'[o] # Unused
  BY <1>5
<1>11. Lasts
  BY <1>6, <1>7, <1>8, <1>9, <1>10 DEF Lasts
<1>12. ASSUME NEW d \in Unloaders
       PROVE  Spares(d)
  <2>1. Holds(d) /\ closed[d] \subseteq Supplies
    BY UnloadersAre
  <2>2. \A o \in PreorderIds : preorders[o] \in Preorder => preorders'[o] \in Preorder
    BY <1>5
  <2> QED  BY <1>3, <1>7, <2>1, <2>2 DEF Spares, Holds, IsListed, Exists, SupplyExists
<1> QED  BY <1>1, <1>4, <1>11, <1>12

-----------------------------------------------------------------------------
(* The steps of a request                                                  *)

MyRequest(p) == <<step[p], device[p], session[p], wish[p], target[p], seen[p], shelf[p], give[p]>>

\* The other requests go on with what they have.
OthersAsk(p) == \A q \in Threads : q # p => MyRequest(q)' = MyRequest(q)

Begins(p) == AddCheck(p) \/ RemoveFind(p) \/ MoveFind(p)

LEMMA BeginKeeps ==
    ASSUME DeskInv, NEW p \in Threads, Begins(p)
    PROVE  CustomersTypeOK' /\ OthersAsk(p) /\ Asks(p)' /\ UNCHANGED tables
<1>1. CustomersTypeOK /\ Asks(p)
  BY DEF DeskInv, DeskTypeOK
<1>2. CASE AddCheck(p)
  <2>1. PICK d \in Devices, i \in Items, packs \in Wishes :
        /\ Begin(p, d, "looking")
        /\ wish' = [wish EXCEPT ![p] =
              [item |-> i, packs |-> IF packs < MinPacks[i] THEN MinPacks[i] ELSE packs]]
    BY <1>2 DEF AddCheck
  <2> DEFINE n == IF packs < MinPacks[i] THEN MinPacks[i] ELSE packs
  <2>2. n \in 1..MaxPreorder
    OBVIOUS
  <2>3. wish' = [wish EXCEPT ![p] = [item |-> i, packs |-> n]]
    BY <2>1
  <2> HIDE DEF n
  <2>4. [item |-> i, packs |-> n] # NoWish
    BY <2>2 DEF NoWish
  <2>5. UNCHANGED <<tables, carts, target, seen, shelf, give>> /\ step[p] = "idle"
    BY <1>2, <2>1 DEF AddCheck, Begin
  <2> QED
    BY <1>1, <2>1, <2>2, <2>3, <2>4, <2>5
       DEF CustomersTypeOK, Begin, Goes, OthersAsk, MyRequest, Asks
<1>3. CASE RemoveFind(p)
  <2>1. PICK d \in Devices, o \in PreorderIds :
        /\ Waiting(o) /\ Begin(p, d, "removing")
        /\ target' = [target EXCEPT ![p] = {o}]
        /\ seen' = [seen EXCEPT ![p] = preorders[o]]
    BY <1>3 DEF RemoveFind
  <2>2. preorders[o] \in Preorder /\ UNCHANGED <<tables, carts, wish, shelf, give>>
    BY <1>3, <2>1 DEF RemoveFind, Waiting, Exists
  <2> QED
    BY <1>1, <2>1, <2>2 DEF CustomersTypeOK, Begin, Goes, OthersAsk, MyRequest, Asks
<1>4. CASE MoveFind(p)
  <2>1. PICK d \in Devices, o \in PreorderIds :
        /\ Arrived(o) /\ preorders[o].item # 0 /\ Begin(p, d, "locking")
        /\ target' = [target EXCEPT ![p] = {o}]
        /\ seen' = [seen EXCEPT ![p] = preorders[o]]
    BY <1>4 DEF MoveFind
  <2>2. preorders[o] \in Preorder /\ UNCHANGED <<tables, carts, wish, shelf, give>>
    BY <1>4, <2>1 DEF MoveFind, Arrived, Exists
  <2> QED
    BY <1>1, <2>1, <2>2 DEF CustomersTypeOK, Begin, Goes, OthersAsk, MyRequest, Asks
<1> QED  BY <1>2, <1>3, <1>4 DEF Begins

LEMMA EndRequest ==
    ASSUME DeskInv, NEW p \in Threads, Answer(p) \/ Drop(p)
    PROVE  /\ CustomersTypeOK' /\ OthersAsk(p) /\ Asks(p)' /\ UNCHANGED tables
           /\ step'[p] = "idle" /\ target'[p] = {}
<1>1. CustomersTypeOK /\ Leave(p) /\ UNCHANGED tables
  BY DEF DeskInv, DeskTypeOK, Answer, Drop
<1>2. /\ (CHOOSE d \in Devices : TRUE) \in Devices
      /\ NoLines \in [Items -> Nat]
  BY DEF NoLines
<1>3. carts' \in [Devices -> [Items -> Nat]]
  BY <1>1 DEF Answer, Drop, CustomersTypeOK
<1>4. /\ step'[p] = "idle" /\ target'[p] = {}
  BY <1>1 DEF Leave, Goes, CustomersTypeOK
<1>5. CustomersTypeOK'
  BY <1>1, <1>2, <1>3 DEF Leave, Goes, CustomersTypeOK
<1>6. OthersAsk(p)
  BY <1>1 DEF Leave, Goes, CustomersTypeOK, OthersAsk, MyRequest
<1> QED  BY <1>1, <1>4, <1>5, <1>6 DEF Asks

LEMMA LookKeeps ==
    ASSUME DeskInv, NEW p \in Threads, AddLook(p)
    PROVE  /\ CustomersTypeOK' /\ OthersAsk(p) /\ Asks(p)' /\ UNCHANGED tables
           /\ step[p] = "looking" /\ step'[p] = "adding"
           /\ UNCHANGED <<wish, device>>
           /\ \/ target'[p] = {} /\ \A o \in PreorderIds : ~OfWish(p, o)
              \/ \E o \in PreorderIds : /\ target'[p] = {o} /\ OfWish(p, o)
                                        /\ seen'[p] = preorders[o]
<1>1. CustomersTypeOK /\ Asks(p) /\ step[p] = "looking"
      /\ UNCHANGED <<tables, carts, device, session, wish, shelf, give>>
      /\ step' = [step EXCEPT ![p] = "adding"]
  BY DEF DeskInv, DeskTypeOK, AddLook, Goes
<1>2. CASE \E o \in PreorderIds :
            /\ OfWish(p, o)
            /\ target' = [target EXCEPT ![p] = {o}]
            /\ seen' = [seen EXCEPT ![p] = preorders[o]]
  <2>1. PICK o \in PreorderIds :
            /\ OfWish(p, o)
            /\ target' = [target EXCEPT ![p] = {o}]
            /\ seen' = [seen EXCEPT ![p] = preorders[o]]
    BY <1>2
  <2>2. preorders[o] \in Preorder
    BY <2>1 DEF OfWish, Waiting, Exists
  <2> QED
    BY <1>1, <2>1, <2>2 DEF CustomersTypeOK, OthersAsk, MyRequest, Asks
<1>3. CASE (\A o \in PreorderIds : ~OfWish(p, o)) /\ UNCHANGED <<target, seen>>
  BY <1>1, <1>3 DEF CustomersTypeOK, OthersAsk, MyRequest, Asks
<1> QED  BY <1>2, <1>3 DEF AddLook

\* A request that goes on and learns nothing.
LEMMA GoesOn ==
    ASSUME DeskInv, NEW p \in Threads,
           NEW st \in {"merging", "answering", "failed"},
           st = "merging" => step[p] = "taking", step[p] # "idle",
           step' = [step EXCEPT ![p] = st],
           UNCHANGED <<carts, device, session, wish, target, seen, shelf, give>>
    PROVE  CustomersTypeOK' /\ OthersAsk(p) /\ Asks(p)'
<1>1. CustomersTypeOK /\ Asks(p)
  BY DEF DeskInv, DeskTypeOK
<1> QED  BY <1>1 DEF CustomersTypeOK, OthersAsk, MyRequest, Asks

LEMMA LockKeeps ==
    ASSUME DeskInv, NEW p \in Threads, MoveLock(p)
    PROVE  /\ CustomersTypeOK' /\ OthersAsk(p) /\ Asks(p)' /\ UNCHANGED tables
           /\ step[p] = "locking"
           /\ UNCHANGED <<wish, device, target, seen>>
           /\ \/ step'[p] \in {"answering", "failed"}
              \/ /\ step'[p] = "taking" /\ IsListed(seen[p].item)
                 /\ shelf'[p] = rows[seen[p].item]
                 /\ give'[p] = MovedPacks(shelf'[p], seen[p].qty)
<1> DEFINE i == seen[p].item
           packs == MovedPacks(rows[i], seen[p].qty)
<1>1. CustomersTypeOK /\ Asks(p) /\ step[p] = "locking"
      /\ UNCHANGED <<tables, carts, device, session, wish, target, seen>>
      /\ seen[p] \in Preorder
  BY CustomersAre DEF DeskInv, DeskTypeOK, MoveLock
<1>2. CASE step' = [step EXCEPT ![p] = "failed"] /\ UNCHANGED <<shelf, give>>
  <2>1. CustomersTypeOK' /\ OthersAsk(p) /\ Asks(p)'
    BY <1>1, <1>2 DEF CustomersTypeOK, OthersAsk, MyRequest, Asks
  <2> QED  BY <1>1, <1>2, <2>1 DEF CustomersTypeOK
<1>3. CASE step' = [step EXCEPT ![p] = "answering"] /\ UNCHANGED <<shelf, give>>
  <2>1. CustomersTypeOK' /\ OthersAsk(p) /\ Asks(p)'
    BY <1>1, <1>3 DEF CustomersTypeOK, OthersAsk, MyRequest, Asks
  <2> QED  BY <1>1, <1>3, <2>1 DEF CustomersTypeOK
<1>4. CASE /\ step' = [step EXCEPT ![p] = "taking"] /\ IsActive(i)
           /\ shelf' = [shelf EXCEPT ![p] = rows[i]]
           /\ give' = [give EXCEPT ![p] = packs]
  <2>1. rows[i] \in Row /\ seen[p].qty \in 1..MaxPreorder
    BY <1>1, <1>4 DEF IsActive, IsListed, Preorder
  <2>2. packs \in 0..MaxPreorder
    BY <2>1, MovedPacksIs
  <2>3. shelf'[p] = rows[i] /\ give'[p] = packs
    BY <1>1, <1>4 DEF CustomersTypeOK
  <2> HIDE DEF packs, i
  <2>4. CustomersTypeOK' /\ OthersAsk(p)
    BY <1>1, <1>4, <2>1, <2>2 DEF CustomersTypeOK, OthersAsk, MyRequest
  <2>5. Asks(p)'
    BY <1>1, <1>4, <2>1, <2>3 DEF CustomersTypeOK, Asks
  <2> QED  BY <1>1, <1>4, <2>1, <2>3, <2>4, <2>5 DEF CustomersTypeOK, packs, i, IsListed
<1> QED  BY <1>2, <1>3, <1>4 DEF MoveLock, Goes

LEMMA MergeKeeps ==
    ASSUME DeskInv, NEW p \in Threads, MoveMerge(p)
    PROVE  CustomersTypeOK' /\ OthersAsk(p) /\ Asks(p)'
<1>1. CustomersTypeOK /\ Asks(p) /\ step[p] = "merging"
      /\ UNCHANGED <<carts, device, wish, target, seen, shelf, give>>
      /\ step' = [step EXCEPT ![p] = "answering"]
      /\ session' = [session EXCEPT ![p] = MergedCart(p)]
  BY DEF DeskInv, DeskTypeOK, MoveMerge, Goes
<1>2. MergedCart(p) \in [Items -> Nat]
  <2>1. seen[p].item \in Items /\ give[p] \in Nat /\ session[p] \in [Items -> Nat]
    BY <1>1, CustomersAre
  <2> QED  BY <2>1 DEF MergedCart
<1> QED  BY <1>1, <1>2 DEF CustomersTypeOK, OthersAsk, MyRequest, Asks

-----------------------------------------------------------------------------
(* DeskInv is inductive                                                    *)

LEMMA RequestLeaves ==
    ASSUME DeskInv, Lasts, \A c \in Unloaders : Spares(c), UNCHANGED <<writes, unloadVars>>,
           CustomersTypeOK', \A p \in Threads : Asks(p)'
    PROVE  DeskInv'
<1>1. TablesTypeOK'
  BY DEF DeskInv, DeskTypeOK, TablesTypeOK, Lasts, writes
<1>2. UnloadingTypeOK'
  BY DEF DeskInv, DeskTypeOK, UnloadingTypeOK, unloadVars
<1>3. Stands'
  BY DEF Lasts, Stands, IsListed, SupplyExists
<1>4. ASSUME NEW c \in Unloaders
      PROVE  Holds(c)'
  <2>1. MyUnload(c)' = MyUnload(c)
    BY DEF MyUnload, writes, unloadVars
  <2> QED  BY <2>1, HoldsStill
<1> QED  BY <1>1, <1>2, <1>3, <1>4 DEF DeskInv, DeskTypeOK

LEMMA UnloadLeaves ==
    ASSUME DeskInv, Lasts, \A d \in Unloaders : Spares(d), UNCHANGED customerVars,
           NEW c \in Unloaders, UnloadTyped', OthersStay(c), Holds(c)'
    PROVE  DeskInv'
<1>1. TablesTypeOK' /\ UnloadingTypeOK'
  BY DEF Lasts, UnloadTyped, TablesTypeOK
<1>2. Stands'
  BY DEF Lasts, Stands, IsListed, SupplyExists
<1>3. ASSUME NEW d \in Unloaders
      PROVE  Holds(d)'
  <2>1. CASE d = c
    BY <2>1
  <2>2. CASE d # c
    <3>1. MyUnload(d)' = MyUnload(d)
      BY <2>2 DEF OthersStay
    <3> QED  BY <3>1, HoldsStill
  <2> QED  BY <2>1, <2>2
<1>4. CustomersTypeOK'
  BY DEF DeskInv, DeskTypeOK, CustomersTypeOK, customerVars, reqVars
<1>5. \A p \in Threads : Asks(p)'
  BY DEF DeskInv, Asks, customerVars, reqVars
<1> QED  BY <1>1, <1>2, <1>3, <1>4, <1>5 DEF DeskInv, DeskTypeOK

LEMMA AllAsk ==
    ASSUME DeskInv, NEW p \in Threads, OthersAsk(p), Asks(p)'
    PROVE  \A q \in Threads : Asks(q)'
  BY DEF DeskInv, OthersAsk, MyRequest, Asks

LEMMA UnloadKeeps ==
    ASSUME DeskInv, NEW c \in Unloaders, Unload(c)
    PROVE  DeskInv'
<1>1. UNCHANGED customerVars
  BY DEF Unload
<1>2. CASE OpenUnload(c) \/ OpenOverdue(c)
  BY <1>1, <1>2, OpenKeeps, NothingWritten, UnloadLeaves
<1>3. CASE ClearShelf(c)
  BY <1>1, <1>3, ClearKeeps, NothingWritten, UnloadLeaves
<1>4. CASE Flush(c)
  BY <1>1, <1>4, FlushKeeps, NothingWritten, UnloadLeaves
<1>5. CASE SkipSupply(c)
  BY <1>1, <1>5, SkipKeeps, NothingWritten, UnloadLeaves
<1>6. CASE CommitUnload(c)
  <2>1. EndUnload(c)
    BY <1>6 DEF CommitUnload
  <2> QED  BY <1>1, <1>6, <2>1, EndKeeps, CommitIs, UnloadLeaves
<1>7. CASE LostUnload(c)
  <2>1. EndUnload(c) /\ UNCHANGED tables
    BY <1>7 DEF LostUnload
  <2> QED  BY <1>1, <2>1, EndKeeps, NothingWritten, UnloadLeaves
<1> QED  BY <1>2, <1>3, <1>4, <1>5, <1>6, <1>7 DEF Unload, UnloadStep

LEMMA ServeKeeps ==
    ASSUME DeskInv, NEW p \in Threads, Serve(p)
    PROVE  DeskInv'
<1>1. UNCHANGED unloadVars
  BY DEF Serve
<1>2. CASE Begins(p)
  <2>1. UNCHANGED writes
    BY <1>2 DEF Begins, AddCheck, RemoveFind, MoveFind
  <2> QED  BY <1>1, <1>2, <2>1, BeginKeeps, NothingWritten, AllAsk, RequestLeaves
<1>3. CASE AddLook(p)
  <2>1. UNCHANGED writes
    BY <1>3 DEF AddLook
  <2> QED  BY <1>1, <1>3, <2>1, LookKeeps, NothingWritten, AllAsk, RequestLeaves
<1>4. CASE AddWrite(p)
  <2>1. UNCHANGED writes /\ CustomersTypeOK' /\ OthersAsk(p) /\ Asks(p)'
    <3>1. /\ step[p] # "idle" /\ step' = [step EXCEPT ![p] = "answering"]
          /\ UNCHANGED <<writes, carts, device, session, wish, target, seen, shelf, give>>
      BY <1>4 DEF AddWrite, Goes
    <3>2. "answering" \in {"merging", "answering", "failed"} /\ "answering" # "merging"
      OBVIOUS
    <3> QED  BY <3>1, <3>2, GoesOn
  <2> QED  BY <1>1, <1>4, <2>1, AddWriteIs, AllAsk, RequestLeaves
<1>5. CASE RemoveWrite(p)
  <2>1. UNCHANGED writes /\ CustomersTypeOK' /\ OthersAsk(p) /\ Asks(p)'
    <3>1. /\ step[p] # "idle" /\ step' = [step EXCEPT ![p] = "answering"]
          /\ UNCHANGED <<writes, carts, device, session, wish, target, seen, shelf, give>>
      BY <1>5 DEF RemoveWrite, Goes
    <3>2. "answering" \in {"merging", "answering", "failed"} /\ "answering" # "merging"
      OBVIOUS
    <3> QED  BY <3>1, <3>2, GoesOn
  <2> QED  BY <1>1, <1>5, <2>1, DeletedIs, AllAsk, RequestLeaves
<1>6. CASE MoveLock(p)
  <2>1. UNCHANGED writes
    BY <1>6 DEF MoveLock
  <2> QED  BY <1>1, <1>6, <2>1, LockKeeps, NothingWritten, AllAsk, RequestLeaves
<1>7. CASE MoveTake(p)
  <2>1. UNCHANGED writes /\ CustomersTypeOK' /\ OthersAsk(p) /\ Asks(p)'
    <3>1. /\ step[p] = "taking" /\ step' = [step EXCEPT ![p] = "merging"]
          /\ UNCHANGED <<writes, carts, device, session, wish, target, seen, shelf, give>>
      BY <1>7 DEF MoveTake, Goes
    <3>2. "merging" \in {"merging", "answering", "failed"} /\ step[p] # "idle"
      BY <3>1
    <3> QED  BY <3>1, <3>2, GoesOn
  <2> QED  BY <1>1, <1>7, <2>1, MoveTakeIs, AllAsk, RequestLeaves
<1>8. CASE MoveMerge(p)
  <2>1. UNCHANGED writes
    BY <1>8 DEF MoveMerge
  <2> QED  BY <1>1, <1>8, <2>1, MergeKeeps, DeletedIs, AllAsk, RequestLeaves
<1>9. CASE Answer(p) \/ Drop(p)
  <2>1. UNCHANGED writes
    BY <1>9 DEF Answer, Drop
  <2> QED  BY <1>1, <1>9, <2>1, EndRequest, NothingWritten, AllAsk, RequestLeaves
<1> QED
  BY <1>2, <1>3, <1>4, <1>5, <1>6, <1>7, <1>8, <1>9 DEF Serve, CustomerStep, Begins

LEMMA ManageKeeps ==
    ASSUME DeskInv, Manage
    PROVE  Lasts /\ (\A c \in Unloaders : Spares(c)) /\ UNCHANGED <<writes, unloadVars, customerVars>>
<1>1. UNCHANGED <<unloadVars, customerVars>>
  BY DEF Manage
<1>2. CASE EditSupply \/ NewSupply
  BY <1>1, <1>2, StatusOnly DEF EditSupply, NewSupply
<1>3. CASE Deactivate
  BY <1>1, <1>3, DeactivateIs DEF Deactivate
<1>4. CASE EnterLines
  BY <1>1, <1>4, EnterIs DEF EnterLines
<1>5. CASE UpdateLine
  BY <1>1, <1>5, UpdateIs DEF UpdateLine
<1>6. CASE DeleteLine \/ DeleteSupply
  BY <1>1, <1>6, DeleteIs DEF DeleteLine, DeleteSupply
<1> QED  BY <1>2, <1>3, <1>4, <1>5, <1>6 DEF Manage

LEMMA VisitIs ==
    ASSUME DeskInv, VisitCart
    PROVE  /\ carts' \in [Devices -> [Items -> Nat]]
           /\ UNCHANGED <<tables, writes, unloadVars, reqVars>>
<1>1. PICK d \in Devices :
        carts' = [carts EXCEPT ![d] = [i \in Items |-> IF IsActive(i) THEN @[i] ELSE 0]]
  BY DEF VisitCart
<1>2. carts \in [Devices -> [Items -> Nat]]
  BY DEF DeskInv, DeskTypeOK, CustomersTypeOK
<1> QED  BY <1>1, <1>2 DEF VisitCart

LEMMA DeskKeeps ==
    ASSUME DeskInv, [DeskNext]_vars
    PROVE  DeskInv'
<1>1. ASSUME UNCHANGED reqVars, carts' \in [Devices -> [Items -> Nat]]
      PROVE  CustomersTypeOK' /\ \A p \in Threads : Asks(p)'
  BY <1>1 DEF DeskInv, DeskTypeOK, CustomersTypeOK, Asks, reqVars
<1>2. carts \in [Devices -> [Items -> Nat]]
  BY DEF DeskInv, DeskTypeOK, CustomersTypeOK
<1>3. CASE \E c \in Unloaders : Unload(c)
  BY <1>3, UnloadKeeps
<1>4. CASE \E p \in Threads : Serve(p)
  BY <1>4, ServeKeeps
<1>5. CASE Buy
  <2>1. UNCHANGED <<writes, unloadVars, reqVars>>
    BY <1>5 DEF Buy
  <2> QED  BY <1>1, <1>5, <2>1, BuyIs, RequestLeaves
<1>6. CASE VisitCart
  BY <1>1, <1>6, VisitIs, NothingWritten, RequestLeaves
<1>7. CASE Manage
  BY <1>1, <1>2, <1>7, ManageKeeps, RequestLeaves DEF customerVars
<1>8. CASE UNCHANGED vars
  <2>1. UNCHANGED <<tables, writes, unloadVars, reqVars, carts>>
    BY <1>8 DEF vars, customerVars
  <2> QED  BY <1>1, <1>2, <2>1, NothingWritten, RequestLeaves
<1> QED  BY <1>3, <1>4, <1>5, <1>6, <1>7, <1>8 DEF DeskNext

LEMMA DeskStarts ==
    ASSUME DeskInit, Opening
    PROVE  DeskInv
<1>1. TablesTypeOK
  <2>1. rows \in [Items -> Row \cup {NoRow, Gone}] /\ status \in [Supplies -> Statuses \cup {"none", "gone"}]
    BY DEF Opening
  <2> QED  BY <2>1 DEF DeskInit, TablesInit, TablesTypeOK, NoDraft, NotMarked
<1>2. UnloadingTypeOK
  BY DEF DeskInit, UnloadingInit, UnloadingTypeOK, NoDraft, NothingFound, Statuses
<1>3. CustomersTypeOK
  BY DEF DeskInit, CustomersInit, CustomersTypeOK, NoLines
<1>4. Stands
  BY DEF Opening, Stands, SupplyExists
<1>5. \A c \in Unloaders : Holds(c)
  BY DEF DeskInit, TablesInit, UnloadingInit, Holds, NoDraft, NotMarked, NothingFound
<1>6. \A p \in Threads : Asks(p)
  BY DEF DeskInit, CustomersInit, Asks
<1> QED  BY <1>1, <1>2, <1>3, <1>4, <1>5, <1>6 DEF DeskInv, DeskTypeOK

\* Every variable of the preorder desk keeps its type.
THEOREM DeskTypeCorrect == DeskSpec => []DeskTypeOK
<1>1. DeskInit /\ Opening => DeskInv
  BY DeskStarts
<1>2. DeskInv /\ [DeskNext]_vars => DeskInv'
  BY DeskKeeps
<1>3. DeskInv => DeskTypeOK
  BY DEF DeskInv
<1> QED  BY <1>1, <1>2, <1>3, PTL DEF DeskSpec

-----------------------------------------------------------------------------
(* The goods of 1C                                                         *)

\* No unloading takes them off the shelf, whatever it overlaps with: it writes
\* rows of manual supplies only (Holds), and nothing else clears the shelf.
THEOREM OneCKeepsItsShelf == DeskSpec => GoodsOf1CStay
<1> DEFINE Stay == \A i \in Items :
         /\ SupplyOf[i] \notin Manual
         /\ IsActive(i) /\ rows'[i] # Gone /\ ~rows'[i].active
         => Avail(rows'[i]) = 0
<1>1. ASSUME DeskInv, [DeskNext]_vars
      PROVE  Stay
  <2> SUFFICES ASSUME NEW i \in Items, SupplyOf[i] \notin Manual, IsListed(i), rows[i].active,
                      rows'[i] # Gone, ~rows'[i].active
               PROVE  Avail(rows'[i]) = 0
    BY DEF IsActive
  <2>1. CASE UNCHANGED rows
    BY <2>1
  <2>2. ASSUME NEW c \in Unloaders, Unload(c) PROVE Avail(rows'[i]) = 0
    <3>1. CASE CommitUnload(c)
      <4>1. draft[c][i] = NoRow
        BY <1>1 DEF DeskInv, Holds
      <4>2. rows'[i] = RowSeen(c, i)
        BY <1>1, <3>1, CommitIs
      <4> QED  BY <4>1, <4>2 DEF RowSeen
    <3>2. CASE ~CommitUnload(c)
      <4>1. UNCHANGED tables
        BY <1>1, <2>2, <3>2, OpenKeeps, ClearKeeps, FlushKeeps, SkipKeeps
           DEF Unload, UnloadStep, LostUnload
      <4> QED  BY <2>1, <4>1 DEF tables
    <3> QED  BY <3>1, <3>2
  <2>3. ASSUME NEW p \in Threads, Serve(p) PROVE Avail(rows'[i]) = 0
    <3>1. CASE MoveTake(p)
      BY <1>1, <3>1, MoveTakeIs
    <3>2. CASE ~MoveTake(p)
      <4>1. UNCHANGED rows
        BY <2>3, <3>2
           DEF Serve, CustomerStep, tables, AddCheck, RemoveFind, MoveFind, AddLook, AddWrite,
               RemoveWrite, MoveLock, MoveMerge, Answer, Drop
      <4> QED  BY <2>1, <4>1
    <3> QED  BY <3>1, <3>2
  <2>4. CASE Buy
    BY <1>1, <2>4, BuyIs
  <2>5. CASE VisitCart
    BY <2>1, <2>5 DEF VisitCart, tables
  <2>6. CASE Manage
    <3>1. CASE EditSupply \/ NewSupply
      BY <2>1, <3>1 DEF EditSupply, NewSupply
    <3>2. CASE Deactivate
      BY <1>1, <3>2, DeactivateIs
    <3>3. CASE EnterLines
      BY <1>1, <3>3, EnterIs
    <3>4. CASE UpdateLine
      BY <1>1, <3>4, UpdateIs
    <3>5. CASE DeleteLine \/ DeleteSupply
      <4>1. PICK lines \in SUBSET Items : LinesDeleted(lines)
        BY <3>5, DeletePages
      <4> QED  BY <4>1 DEF LinesDeleted
    <3> QED  BY <2>6, <3>1, <3>2, <3>3, <3>4, <3>5 DEF Manage
  <2>7. CASE UNCHANGED vars
    BY <2>1, <2>7 DEF vars, tables
  <2> QED  BY <1>1, <2>2, <2>3, <2>4, <2>5, <2>6, <2>7 DEF DeskNext
<1>2. DeskInit /\ Opening => DeskInv
  BY DeskStarts
<1>3. DeskInv /\ [DeskNext]_vars => DeskInv'
  BY DeskKeeps
<1>4. DeskInv /\ [DeskNext]_vars => [Stay]_vars
  BY <1>1
<1> QED  BY <1>2, <1>3, <1>4, PTL DEF DeskSpec, GoodsOf1CStay

-----------------------------------------------------------------------------
(* One at a time                                                           *)

LEMMA UnloadersTakeTurns ==
    ASSUME DeskInv, OneAtATime, NEW c \in Unloaders, Unload(c)
    PROVE  OneAtATime'
<1>1. OthersStay(c)
  BY OpenKeeps, ClearKeeps, FlushKeeps, SkipKeeps, EndKeeps
     DEF Unload, UnloadStep, CommitUnload, LostUnload
<1>2. \A d \in Unloaders : d # c => phase'[d] = phase[d]
  BY <1>1 DEF OthersStay, MyUnload
<1>3. step' = step
  BY DEF Unload, customerVars, reqVars
<1>4. Overlap \/ Quiet \/ phase[c] # "idle"
  BY DEF Unload, MayBegin, UnloadStep, ClearShelf, Flush, SkipSupply, CommitUnload, LostUnload
<1> QED  BY <1>2, <1>3, <1>4 DEF OneAtATime, Quiet

LEMMA CustomersTakeTurns ==
    ASSUME DeskInv, OneAtATime, NEW p \in Threads, Serve(p)
    PROVE  OneAtATime'
<1>1. phase' = phase
  BY DEF Serve, unloadVars
<1>2. \A q \in Threads : q # p => step'[q] = step[q]
  BY DEF Serve, CustomerStep, AddCheck, RemoveFind, MoveFind, AddLook, AddWrite, RemoveWrite,
         MoveLock, MoveTake, MoveMerge, Answer, Drop, Begin, Leave, Goes,
         DeskInv, DeskTypeOK, CustomersTypeOK
<1>3. Overlap \/ Quiet \/ step[p] # "idle"
  BY DEF Serve, MayBegin, CustomerStep, AddLook, AddWrite, RemoveWrite,
         MoveLock, MoveTake, MoveMerge, Answer, Drop
<1> QED  BY <1>1, <1>2, <1>3 DEF OneAtATime, Quiet

LEMMA TurnsAreTaken ==
    ASSUME DeskInv, OneAtATime, [DeskNext]_vars
    PROVE  OneAtATime'
<1>1. CASE UNCHANGED <<phase, step>>
  BY <1>1 DEF OneAtATime
<1>2. CASE Buy \/ VisitCart \/ Manage \/ UNCHANGED vars
  BY <1>1, <1>2 DEF Buy, VisitCart, Manage, vars, unloadVars, customerVars, reqVars
<1> QED  BY <1>2, UnloadersTakeTurns, CustomersTakeTurns DEF DeskNext

-----------------------------------------------------------------------------
(* A customer waits once                                                   *)

\* Nobody starts to wait.
NoNewWish ==
    \A o \in PreorderIds : Waiting(o)' =>
        /\ Waiting(o)
        /\ preorders'[o].user = preorders[o].user
        /\ preorders'[o].product = preorders[o].product

LEMMA UnloadMakesNoWish ==
    ASSUME DeskInv, NEW c \in Unloaders, Unload(c)
    PROVE  NoNewWish
<1>1. CASE CommitUnload(c)
  <2> SUFFICES ASSUME NEW o \in PreorderIds, Waiting(o)'
               PROVE  preorders'[o] = preorders[o]
    BY DEF NoNewWish, Waiting, Exists
  <2>1. preorders'[o] = IF fulfilled[c][o] = 0 THEN preorders[o]
                ELSE [preorders[o] EXCEPT !.done = TRUE, !.item = fulfilled[c][o]]
    BY <1>1, CommitIs
  <2>2. fulfilled[c][o] # 0 => preorders[o] \in Preorder
    BY DEF DeskInv, Holds, Exists
  <2>3. CASE fulfilled[c][o] # 0
    <3>1. preorders'[o].done = TRUE
      BY <2>1, <2>2, <2>3 DEF Preorder
    <3> QED  BY <3>1 DEF Waiting
  <2> QED  BY <2>1, <2>3
<1>2. CASE ~CommitUnload(c)
  <2>1. UNCHANGED tables
    BY <1>2, OpenKeeps, ClearKeeps, FlushKeeps, SkipKeeps DEF Unload, UnloadStep, LostUnload
  <2> QED  BY <2>1 DEF NoNewWish, Waiting, Exists, tables
<1> QED  BY <1>1, <1>2

LEMMA ManageMakesNoWish ==
    ASSUME DeskInv, Manage
    PROVE  NoNewWish
<1>1. CASE UNCHANGED preorders
  BY <1>1 DEF NoNewWish, Waiting, Exists
<1>2. CASE DeleteLine \/ DeleteSupply
  <2>1. PICK lines \in SUBSET Items : LinesDeleted(lines)
    BY <1>2, DeletePages
  <2>2. \A o \in PreorderIds : preorders'[o] = Detached(lines)[o]
    BY <2>1 DEF LinesDeleted
  <2> SUFFICES ASSUME NEW o \in PreorderIds, Waiting(o)'
               PROVE  /\ Waiting(o)
                      /\ preorders'[o].user = preorders[o].user
                      /\ preorders'[o].product = preorders[o].product
    BY DEF NoNewWish
  <2>3. ~Exists(o) => preorders'[o] = preorders[o]
    BY <2>2, DetachedIs
  <2>4. Exists(o) => /\ Detached(lines)[o] \in Preorder
                     /\ Detached(lines)[o].user = preorders[o].user
                     /\ Detached(lines)[o].product = preorders[o].product
                     /\ Detached(lines)[o].qty = preorders[o].qty
                     /\ Detached(lines)[o].done = preorders[o].done
    BY DetachedIs
  <2> QED  BY <2>2, <2>3, <2>4 DEF Waiting, Exists
<1> QED
  BY <1>1, <1>2 DEF Manage, EditSupply, NewSupply, Deactivate, EnterLines, UpdateLine

OneCustomer == \A p, q \in Threads : step[p] # "idle" /\ step[q] # "idle" => p = q

LEMMA WishesShrink ==
    ASSUME WaitingInv, NoNewWish,
           \A p \in Threads : step'[p] = "adding" /\ target'[p] = {} =>
                /\ step[p] = "adding" /\ target[p] = {}
                /\ wish'[p] = wish[p] /\ device'[p] = device[p]
    PROVE  NothingToMerge' /\ OneWaitingEach'
<1>1. OneWaitingEach'
  BY DEF WaitingInv, OneWaitingEach, NoNewWish
<1>2. ASSUME NEW p \in Threads, step'[p] = "adding", target'[p] = {}, NEW o \in PreorderIds
      PROVE  ~OfWish(p, o)'
  <2>1. ~OfWish(p, o) /\ wish'[p] = wish[p] /\ device'[p] = device[p]
    BY <1>2 DEF WaitingInv, NothingToMerge
  <2> QED  BY <2>1 DEF OfWish, User, NoNewWish
<1> QED  BY <1>1, <1>2 DEF NothingToMerge

LEMMA ServeKeepsWishes ==
    ASSUME WaitingInv, OneCustomer, NEW p \in Threads, Serve(p)
    PROVE  NothingToMerge' /\ OneWaitingEach'
<1>1. DeskInv
  BY DEF WaitingInv
<1>2. CASE UNCHANGED tables /\ OthersAsk(p) /\ step'[p] # "adding"
  <2>1. NoNewWish
    BY <1>2 DEF NoNewWish, tables, Waiting, Exists
  <2> QED  BY <1>2, <2>1, WishesShrink DEF OthersAsk, MyRequest
<1>3. CASE Begins(p)
  <2>1. step'[p] # "adding"
    BY <1>1, <1>3 DEF Begins, AddCheck, RemoveFind, MoveFind, Begin, Goes,
                      DeskInv, DeskTypeOK, CustomersTypeOK
  <2> QED  BY <1>1, <1>2, <1>3, <2>1, BeginKeeps
<1>4. CASE AddLook(p)
  <2>1. /\ OthersAsk(p) /\ UNCHANGED <<tables, wish, device>>
        /\ target'[p] = {} => \A o \in PreorderIds : ~OfWish(p, o)
    BY <1>1, <1>4, LookKeeps
  <2>2. OneWaitingEach'
    BY <2>1 DEF WaitingInv, OneWaitingEach, tables, Waiting, Exists
  <2>3. \A q \in Threads, o \in PreorderIds : OfWish(q, o)' <=> OfWish(q, o)
    BY <2>1 DEF OfWish, User, tables, Waiting, Exists
  <2>4. \A q \in Threads : q # p => step'[q] = step[q] /\ target'[q] = target[q]
    BY <2>1 DEF OthersAsk, MyRequest
  <2>5. NothingToMerge'
    BY <2>1, <2>3, <2>4 DEF WaitingInv, NothingToMerge
  <2> QED  BY <2>2, <2>5
<1>5. CASE AddWrite(p)
  <2>1. /\ step[p] = "adding" /\ step'[p] = "answering"
        /\ \A q \in Threads : q # p => step'[q] = step[q]
        /\ UNCHANGED <<target, wish, device>>
    BY <1>1, <1>5 DEF AddWrite, Goes, DeskInv, DeskTypeOK, CustomersTypeOK
  <2>2. \A q \in Threads : step'[q] # "adding"
    BY <2>1 DEF OneCustomer
  <2>3. preorders \in [PreorderIds -> Preorder \cup {Unused, Gone}]
    BY <1>1 DEF DeskInv, DeskTypeOK, TablesTypeOK
  <2>4. CASE UNCHANGED preorders
    <3>1. NoNewWish
      BY <2>4 DEF NoNewWish, Waiting, Exists
    <3> QED  BY <2>2, <3>1, WishesShrink
  <2>5. CASE \E o \in target[p] :
                   /\ Exists(o)
                   /\ preorders' = [preorders EXCEPT ![o] = Merged(p, o)]
    <3>1. PICK o \in target[p] :
                   /\ Exists(o)
                   /\ preorders' = [preorders EXCEPT ![o] = Merged(p, o)]
      BY <2>5
    <3>2. o \in PreorderIds /\ seen[p] \in Preorder
          /\ wish[p].item \in Items /\ wish[p].packs \in 1..MaxPreorder
      BY <1>1, <2>1, <3>1, CustomersAre
    <3>3. /\ Merged(p, o).user = preorders[o].user
          /\ Merged(p, o).product = preorders[o].product
          /\ Merged(p, o).done = preorders[o].done
      BY <3>1, <3>2, MergedIs
    <3>4. preorders'[o] = Merged(p, o) /\ \A x \in PreorderIds : x # o => preorders'[x] = preorders[x]
      BY <2>3, <3>1, <3>2
    <3>5. NoNewWish
      BY <3>1, <3>3, <3>4 DEF NoNewWish, Waiting, Exists
    <3> QED  BY <2>2, <3>5, WishesShrink
  <2>6. CASE /\ target[p] = {}
             /\ \E o \in PreorderIds : \E new \in Preorder :
                  /\ preorders[o] = Unused
                  /\ preorders' = [preorders EXCEPT ![o] = new]
                  /\ new.user = User(p) /\ new.product = Product[wish[p].item]
                  /\ new.item = wish[p].item /\ new.done = FALSE
    <3>1. PICK o \in PreorderIds : \E new \in Preorder :
                  /\ preorders' = [preorders EXCEPT ![o] = new]
                  /\ new.user = User(p) /\ new.product = Product[wish[p].item]
      BY <2>6
    <3>2. preorders'[o].user = User(p) /\ preorders'[o].product = Product[wish[p].item]
      BY <2>3, <3>1
    <3>3. \A x \in PreorderIds : x # o => preorders'[x] = preorders[x]
      BY <2>3, <3>1
    <3>4. \A x \in PreorderIds : ~OfWish(p, x)
      BY <2>1, <2>6 DEF WaitingInv, NothingToMerge
    <3>5. \A x \in PreorderIds : Waiting(x)' /\ x # o =>
            /\ Waiting(x)
            /\ preorders'[x].user = preorders[x].user
            /\ preorders'[x].product = preorders[x].product
            /\ ~(preorders'[x].user = User(p) /\ preorders'[x].product = Product[wish[p].item])
      BY <3>3, <3>4 DEF OfWish, Waiting, Exists
    <3>6. OneWaitingEach'
      BY <3>2, <3>5 DEF WaitingInv, OneWaitingEach
    <3> QED  BY <2>2, <3>6 DEF NothingToMerge
  <2>7. \/ \E o \in target[p] :
                   /\ Exists(o)
                   /\ preorders' = [preorders EXCEPT ![o] = Merged(p, o)]
                   /\ Merged(p, o) \in Preorder
        \/ UNCHANGED preorders
        \/ /\ target[p] = {}
           /\ \E o \in PreorderIds : \E new \in Preorder :
                /\ preorders[o] = Unused
                /\ preorders' = [preorders EXCEPT ![o] = new]
                /\ new.user = User(p) /\ new.product = Product[wish[p].item]
                /\ new.item = wish[p].item /\ new.done = FALSE
    BY <1>1, <1>5, AddWriteIs
  <2> QED  BY <2>4, <2>5, <2>6, <2>7
<1>6. CASE RemoveWrite(p) \/ MoveMerge(p)
  <2>1. \A o \in PreorderIds :
                preorders'[o] = IF o \in target[p] THEN Gone ELSE preorders[o]
    BY <1>1, <1>6, DeletedIs
  <2>2. NoNewWish
    BY <2>1 DEF NoNewWish, Waiting, Exists
  <2>3. /\ step'[p] = "answering"
        /\ \A q \in Threads : q # p => step'[q] = step[q]
        /\ UNCHANGED <<target, wish, device>>
    BY <1>1, <1>6 DEF RemoveWrite, MoveMerge, Goes, DeskInv, DeskTypeOK, CustomersTypeOK
  <2> QED  BY <2>2, <2>3, WishesShrink
<1>7. CASE MoveLock(p)
  BY <1>1, <1>2, <1>7, LockKeeps
<1>8. CASE MoveTake(p)
  <2>1. UNCHANGED preorders
    BY <1>8 DEF MoveTake
  <2>2. NoNewWish
    BY <2>1 DEF NoNewWish, Waiting, Exists
  <2>3. /\ step'[p] = "merging"
        /\ \A q \in Threads : q # p => step'[q] = step[q]
        /\ UNCHANGED <<target, wish, device>>
    BY <1>1, <1>8 DEF MoveTake, Goes, DeskInv, DeskTypeOK, CustomersTypeOK
  <2> QED  BY <2>2, <2>3, WishesShrink
<1>9. CASE Answer(p) \/ Drop(p)
  BY <1>1, <1>2, <1>9, EndRequest
<1> QED
  BY <1>3, <1>4, <1>5, <1>6, <1>7, <1>8, <1>9 DEF Serve, CustomerStep, Begins

\* add_preorder_to_db asks first and writes later, and an unloading may come
\* between.  As long as customers are served one after the other, what was
\* not found is still not there when the preorder is written.
THEOREM WaitingOnce ==
    ASSUME ~Overlap \/ \A p, q \in Threads : p = q
    PROVE  DeskSpec => []OneWaitingEach
<1>1. DeskInit /\ Opening => WaitingInv
  <2> SUFFICES ASSUME DeskInit, Opening PROVE WaitingInv
    OBVIOUS
  <2>1. DeskInv
    BY DeskStarts
  <2>2. OneAtATime /\ NothingToMerge
    BY DEF DeskInit, UnloadingInit, CustomersInit, OneAtATime, NothingToMerge
  <2>3. OneWaitingEach
    BY DEF DeskInit, TablesInit, OneWaitingEach, Waiting, Exists
  <2> QED  BY <2>1, <2>2, <2>3 DEF WaitingInv
<1>2. ASSUME WaitingInv, [DeskNext]_vars
      PROVE  WaitingInv'
  <2>1. DeskInv /\ OneAtATime /\ DeskInv' /\ OneAtATime'
    BY <1>2, DeskKeeps, TurnsAreTaken DEF WaitingInv
  <2>2. OneCustomer
    BY <2>1 DEF OneAtATime, OneCustomer
  <2>3. CASE NoNewWish /\ UNCHANGED reqVars
    <3>1. UNCHANGED <<step, target, wish, device>> /\ NoNewWish
      BY <2>3 DEF reqVars
    <3> QED  BY <1>2, <2>1, <3>1, WishesShrink DEF WaitingInv
  <2>4. CASE UNCHANGED preorders /\ UNCHANGED reqVars
    BY <2>3, <2>4 DEF NoNewWish, Waiting, Exists
  <2>5. CASE \E c \in Unloaders : Unload(c)
    BY <2>1, <2>3, <2>5, UnloadMakesNoWish DEF Unload, customerVars
  <2>6. CASE \E p \in Threads : Serve(p)
    BY <1>2, <2>1, <2>2, <2>6, ServeKeepsWishes DEF WaitingInv
  <2>7. CASE Manage
    BY <2>1, <2>3, <2>7, ManageMakesNoWish DEF Manage, customerVars
  <2>8. CASE Buy \/ VisitCart \/ UNCHANGED vars
    BY <2>4, <2>8 DEF Buy, VisitCart, vars, tables, customerVars
  <2> QED  BY <1>2, <2>5, <2>6, <2>7, <2>8 DEF DeskNext
<1>3. WaitingInv => OneWaitingEach
  BY DEF WaitingInv
<1> QED  BY <1>1, <1>2, <1>3, PTL DEF DeskSpec

-----------------------------------------------------------------------------
(* Without overlap: what the tables keep                                   *)

TablesInv == ReserveHasOwners /\ OneSupplyOnShelf /\ PreordersPointAtLines

LEMMA PacksGrow ==
    ASSUME NEW A, NEW B \in SUBSET PreorderIds, A \subseteq B, NEW x, NEW y,
           \A o \in B : y[o] \in Preorder,
           \A o \in A : x[o].qty = y[o].qty
    PROVE  /\ PacksOf(A, x) <= PacksOf(B, y)
           /\ PacksOf(A, x) \in Nat /\ PacksOf(B, y) \in Nat
<1> DEFINE f == [o \in A |-> x[o].qty]
           g == [o \in A |-> y[o].qty]
           h == [o \in B |-> y[o].qty]
<1>1. IsFiniteSet(A) /\ IsFiniteSet(B) /\ A \in SUBSET B
  BY FS_Subset
<1>2. \A o \in B : h[o] \in Nat
  BY DEF Preorder
<1>3. \A o \in A : f[o] = h[o]
  OBVIOUS
<1>4. PacksOf(A, x) = Total(f, A) /\ PacksOf(B, y) = Total(h, B)
  BY DEF PacksOf
<1> HIDE DEF f, g, h
<1>5. Total(f, A) = Total(h, A)
  BY <1>1, <1>3, TotalOfSame
<1>6. Total(h, A) <= Total(h, B)
  BY <1>1, <1>2, TotalOfMore
<1>7. Total(h, A) \in Nat /\ Total(h, B) \in Nat
  BY <1>1, <1>2, TotalIsNat
<1> QED  BY <1>4, <1>5, <1>6, <1>7

LEMMA PacksLast ==
    ASSUME NEW i \in Items,
           \A o \in ArrivedAt(i) :
              Arrived(o)' /\ preorders'[o].item = i /\ preorders'[o].qty = preorders[o].qty
    PROVE  /\ PacksOf(ArrivedAt(i), preorders) <= PacksOf(ArrivedAt(i)', preorders')
           /\ PacksOf(ArrivedAt(i), preorders) \in Nat
           /\ PacksOf(ArrivedAt(i)', preorders') \in Nat
<1>1. /\ ArrivedAt(i)' \in SUBSET PreorderIds /\ ArrivedAt(i) \subseteq ArrivedAt(i)'
      /\ \A o \in ArrivedAt(i)' : preorders'[o] \in Preorder
      /\ \A o \in ArrivedAt(i) : preorders[o].qty = preorders'[o].qty
  BY DEF ArrivedAt, Arrived, Exists
<1> QED  BY <1>1, PacksGrow

\* No reserve grows and no preorder that has arrived loses its packs.
LEMMA OwnersStay ==
    ASSUME ReserveHasOwners,
           rows \in [Items -> Row \cup {NoRow, Gone}],
           \A i \in Items : IsListed(i)' =>
              \/ rows'[i].reserved = 0
              \/ /\ IsListed(i) /\ rows'[i].reserved = rows[i].reserved
                 /\ \A o \in ArrivedAt(i) :
                      Arrived(o)' /\ preorders'[o].item = i /\ preorders'[o].qty = preorders[o].qty
    PROVE  ReserveHasOwners'
<1> SUFFICES ASSUME NEW i \in Items, IsListed(i)'
             PROVE  rows'[i].reserved <= PacksOf(ArrivedAt(i)', preorders')
  BY DEF ReserveHasOwners
<1>1. ArrivedAt(i)' \subseteq PreorderIds /\ \A o \in ArrivedAt(i)' : preorders'[o] \in Preorder
  BY DEF ArrivedAt, Arrived, Exists
<1>2. PacksOf(ArrivedAt(i)', preorders') \in Nat
  BY <1>1, PacksAreNat
<1>3. CASE rows'[i].reserved = 0
  BY <1>2, <1>3
<1>4. CASE /\ IsListed(i) /\ rows'[i].reserved = rows[i].reserved
           /\ \A o \in ArrivedAt(i) :
                Arrived(o)' /\ preorders'[o].item = i /\ preorders'[o].qty = preorders[o].qty
  <2>1. /\ PacksOf(ArrivedAt(i), preorders) <= PacksOf(ArrivedAt(i)', preorders')
        /\ PacksOf(ArrivedAt(i), preorders) \in Nat
    BY <1>4, PacksLast
  <2>2. rows[i].reserved <= PacksOf(ArrivedAt(i), preorders) /\ rows[i].reserved \in Nat
    BY <1>4 DEF ReserveHasOwners, IsListed, Row
  <2> QED  BY <1>2, <1>4, <2>1, <2>2
<1> QED  BY <1>3, <1>4

LEMMA ShelfShrinks ==
    ASSUME OneSupplyOnShelf, \A i \in Items : IsActive(i)' => IsActive(i)
    PROVE  OneSupplyOnShelf'
  BY DEF OneSupplyOnShelf, OneSupplyIn

LEMMA PointersStay ==
    ASSUME PreordersPointAtLines, \A i \in Items : IsListed(i) => IsListed(i)',
           preorders \in [PreorderIds -> Preorder \cup {Unused, Gone}],
           \A o \in PreorderIds : Exists(o)' => Exists(o) /\ preorders'[o] = preorders[o]
    PROVE  PreordersPointAtLines'
  BY DEF PreordersPointAtLines, Exists, Preorder

LEMMA TablesSame ==
    ASSUME TablesInv, UNCHANGED tables
    PROVE  TablesInv'
  BY DEF TablesInv, tables, ReserveHasOwners, OneSupplyOnShelf, OneSupplyIn,
         PreordersPointAtLines, IsListed, IsActive, ArrivedAt, Arrived, Exists, PacksOf

\* The shop and the pages that change rows.
LEMMA RowsKept ==
    ASSUME DeskInv, TablesInv, UNCHANGED preorders,
           \A j \in Items : IsListed(j) =>
             /\ rows'[j] \in Row /\ rows'[j].reserved = rows[j].reserved
             /\ rows'[j].active => rows[j].active,
           \A j \in Items : ~IsListed(j) /\ rows'[j] # rows[j] =>
             rows'[j].reserved = 0 /\ ~rows'[j].active
    PROVE  TablesInv'
<1>1. /\ rows \in [Items -> Row \cup {NoRow, Gone}]
      /\ preorders \in [PreorderIds -> Preorder \cup {Unused, Gone}]
  BY DEF DeskInv, DeskTypeOK, TablesTypeOK
<1>2. \A i \in Items : IsListed(i)' /\ ~IsListed(i) => rows'[i].reserved = 0 /\ ~rows'[i].active
  BY DEF IsListed
<1>3. \A i \in Items : \A o \in ArrivedAt(i) :
        Arrived(o)' /\ preorders'[o].item = i /\ preorders'[o].qty = preorders[o].qty
  BY DEF ArrivedAt, Arrived, Exists
<1>4. ReserveHasOwners'
  BY <1>1, <1>2, <1>3, OwnersStay DEF TablesInv
<1>5. \A i \in Items : IsActive(i)' => IsActive(i)
  BY <1>2 DEF IsActive, IsListed
<1>6. OneSupplyOnShelf'
  BY <1>5, ShelfShrinks DEF TablesInv
<1>7. PreordersPointAtLines'
  <2>1. \A i \in Items : IsListed(i) => IsListed(i)'
    BY DEF IsListed
  <2> QED  BY <1>1, <2>1, PointersStay DEF TablesInv, Exists
<1> QED  BY <1>4, <1>6, <1>7 DEF TablesInv

LEMMA DeletedKept ==
    ASSUME DeskInv, TablesInv, NEW lines \in SUBSET Items, LinesDeleted(lines)
    PROVE  TablesInv'
<1>1. /\ rows \in [Items -> Row \cup {NoRow, Gone}]
      /\ preorders \in [PreorderIds -> Preorder \cup {Unused, Gone}]
  BY DEF DeskInv, DeskTypeOK, TablesTypeOK
<1>2. \A i \in Items : rows'[i] = IF i \in lines THEN Gone ELSE rows[i]
  BY DEF LinesDeleted
<1>3. \A i \in Items : IsListed(i)' => IsListed(i) /\ i \notin lines /\ rows'[i] = rows[i]
  BY <1>2 DEF IsListed
<1>4. \A o \in PreorderIds : /\ ~Exists(o) => preorders'[o] = preorders[o]
                             /\ Exists(o) /\ preorders[o].item \notin lines =>
                                  preorders'[o] = preorders[o]
                             /\ Exists(o) /\ preorders[o].item \in lines =>
                                  preorders'[o] = [preorders[o] EXCEPT !.item = 0]
  <2>1. \A o \in PreorderIds : preorders'[o] = Detached(lines)[o]
    BY DEF LinesDeleted
  <2> QED  BY <2>1, DetachedIs
<1>5. ReserveHasOwners'
  <2>1. \A i \in Items : IsListed(i)' => \A o \in ArrivedAt(i) :
          Arrived(o)' /\ preorders'[o].item = i /\ preorders'[o].qty = preorders[o].qty
    BY <1>3, <1>4 DEF ArrivedAt, Arrived, Exists
  <2> QED  BY <1>1, <1>3, <2>1, OwnersStay DEF TablesInv
<1>6. OneSupplyOnShelf'
  <2>1. \A i \in Items : IsActive(i)' => IsActive(i)
    BY <1>3 DEF IsActive
  <2> QED  BY <2>1, ShelfShrinks DEF TablesInv
<1>7. PreordersPointAtLines'
  <2> SUFFICES ASSUME NEW o \in PreorderIds, Exists(o)', preorders'[o].item # 0
               PROVE  /\ rows'[preorders'[o].item] \in Row
                      /\ Product[preorders'[o].item] = preorders'[o].product
    BY DEF PreordersPointAtLines, IsListed
  <2>1. Exists(o)
    BY <1>4 DEF Exists
  <2>2. preorders[o] \in Preorder
    BY <2>1 DEF Exists
  <2>3. preorders[o].item \notin lines /\ preorders'[o] = preorders[o]
    <3>1. CASE preorders[o].item \in lines
      <4>1. preorders'[o].item = 0
        BY <1>4, <2>1, <2>2, <3>1 DEF Preorder
      <4> QED  BY <4>1
    <3> QED  BY <1>4, <2>1, <3>1
  <2>4. IsListed(preorders[o].item) /\ Product[preorders[o].item] = preorders[o].product
    BY <2>1, <2>3 DEF TablesInv, PreordersPointAtLines
  <2>5. preorders[o].item \in Items
    BY <2>2, <2>3 DEF Preorder
  <2> QED  BY <1>2, <2>3, <2>4, <2>5 DEF IsListed
<1> QED  BY <1>5, <1>6, <1>7 DEF TablesInv

LEMMA ShopKeepsTables ==
    ASSUME DeskInv, TablesInv, Buy \/ VisitCart \/ Manage \/ UNCHANGED tables
    PROVE  TablesInv'
<1>1. CASE Buy
  BY <1>1, BuyIs, RowsKept
<1>2. CASE VisitCart \/ UNCHANGED tables
  BY <1>2, TablesSame DEF VisitCart
<1>3. CASE EditSupply \/ NewSupply
  <2>1. UNCHANGED <<rows, preorders>>
    BY <1>3 DEF EditSupply, NewSupply
  <2> QED  BY <2>1, RowsKept DEF IsListed
<1>4. CASE Deactivate \/ EnterLines \/ UpdateLine
  BY <1>4, DeactivateIs, EnterIs, UpdateIs, RowsKept DEF LinesChanged
<1>5. CASE DeleteLine \/ DeleteSupply
  <2>1. PICK lines \in SUBSET Items : LinesDeleted(lines)
    BY <1>5, DeletePages
  <2> QED  BY <2>1, DeletedKept
<1> QED  BY <1>1, <1>2, <1>3, <1>4, <1>5 DEF Manage

-----------------------------------------------------------------------------
(* Without overlap: an unloading                                           *)

\* One that has written nothing yet would change nothing.
LEMMA FreshIsTidy ==
    ASSUME TablesInv', NEW c \in Unloaders,
           draft'[c] = NoDraft, fulfilled'[c] = NotMarked, found'[c] = NothingFound,
           phase'[c] # "flushing",
           \A i \in Items : item'[c][i] # NoRow => IsListed(i)'
    PROVE  Tidy(c)'
<1>1. \A i \in Items : RowSeen(c, i)' = rows'[i]
  BY DEF RowSeen, NoDraft
<1>2. \A o \in PreorderIds : PreorderSeen(c, o)' = preorders'[o] /\ found'[c][o] = Unused
  BY DEF PreorderSeen, NotMarked, NothingFound
<1>3. \A i \in Items : ArrivedFor(c, i)' = ArrivedAt(i)'
  BY <1>2 DEF ArrivedFor, ArrivedAt, Arrived
<1>4. \A i \in Items : IsListed(i)' =>
        RowSeen(c, i)'.reserved <= PacksOf(ArrivedFor(c, i)', preorders')
  BY <1>1, <1>3 DEF TablesInv, ReserveHasOwners
<1>5. \A i, j \in Items :
        /\ IsListed(i)' /\ RowSeen(c, i)'.active /\ SupplyOf[i] \in Manual
        /\ IsListed(j)' /\ RowSeen(c, j)'.active /\ SupplyOf[j] \in Manual
        => SupplyOf[i] = SupplyOf[j]
  BY <1>1 DEF TablesInv, OneSupplyOnShelf, OneSupplyIn, IsActive
<1>6. OneSupplyIn({i \in Items : IsListed(i) /\ RowSeen(c, i).active})'
  BY <1>5 DEF OneSupplyIn
<1> QED  BY <1>2, <1>4, <1>6 DEF Tidy, NotMarked

\* The rows that are on the shelf once an unloading is over are the ones it
\* put there: what was there before it is in its way, and leaves.
LEMMA FlushPutsItsOwn ==
    ASSUME DeskInv, NEW c \in Unloaders, Tidy(c), Flush(c),
           NEW i \in Items, IsListed(i), SupplyOf[i] \in Manual, RowSeen(c, i)'.active
    PROVE  SupplyOf[i] \in current[c]
<1>1. /\ phase[c] = "flushing" /\ UNCHANGED tables
      /\ draft'[c][i] =
           IF i \in reset[c] \/ IsChanged(c, i) THEN Flushed(c, i) ELSE draft[c][i]
  BY FlushKeeps
<1>2. reset[c] = OldBatches(c)
  BY <1>1 DEF Tidy
<1>3. /\ Flushed(c, i) \in Row
      /\ Flushed(c, i).active => Cleared(c, i).active \/ i \in Loaded(c, current[c])
  BY FlushedIs
<1>4. /\ i \in reset[c] => ~Cleared(c, i).active
      /\ i \notin reset[c] => Cleared(c, i) = RowSeen(c, i)
  BY ClearedIs
<1>5. i \notin reset[c] => ~RowSeen(c, i).active
  BY <1>2 DEF OldBatches, OldBatchesOfAll
<1>6. CASE i \in reset[c] \/ IsChanged(c, i)
  <2>1. RowSeen(c, i)' = Flushed(c, i)
    BY <1>1, <1>3, <1>6 DEF RowSeen
  <2>2. i \in Loaded(c, current[c])
    BY <1>3, <1>4, <1>5, <2>1
  <2> QED  BY <2>2 DEF Loaded
<1>7. CASE ~(i \in reset[c] \/ IsChanged(c, i))
  <2>1. RowSeen(c, i)' = RowSeen(c, i)
    BY <1>1, <1>7 DEF RowSeen, tables
  <2> QED  BY <1>5, <1>7, <2>1
<1> QED  BY <1>6, <1>7

\* The preorders that are fulfilled with a batch are the ones it was loaded
\* for: a supply lists a product once.
LEMMA FlushServes ==
    ASSUME DeskInv, NEW c \in Unloaders, Tidy(c), Flush(c),
           NEW o \in PreorderIds, found[c][o] # Unused
    PROVE  /\ found[c][o] = preorders[o] /\ Waiting(o) /\ fulfilled[c][o] = 0
           /\ fulfilled'[c][o] = Batch(c, o) /\ Batch(c, o) \in Items
           /\ IsListed(Batch(c, o)) /\ Product[Batch(c, o)] = preorders[o].product
           /\ \A i \in Loaded(c, current[c]) :
                Product[i] = preorders[o].product => i = Batch(c, o)
<1>1. found[c][o] = preorders[o] /\ Waiting(o) /\ fulfilled[c][o] = 0
  BY DEF Tidy
<1>2. /\ Batch(c, o) \in Loaded(c, current[c]) /\ Batch(c, o) \in Items
      /\ Product[Batch(c, o)] = found[c][o].product
  BY BatchIs
<1>3. fulfilled'[c][o] =
        IF found[c][o].item = Batch(c, o) THEN preorders[o].item ELSE Batch(c, o)
  BY FlushKeeps
<1>4. fulfilled'[c][o] = Batch(c, o)
  BY <1>1, <1>3
<1>5. IsListed(Batch(c, o))
  BY <1>2 DEF Tidy, Loaded
<1>6. \A s, t \in current[c] : s = t
  BY DEF DeskInv, Holds
<1>7. ASSUME NEW i \in Loaded(c, current[c]), Product[i] = preorders[o].product
      PROVE  i = Batch(c, o)
  <2>1. SupplyOf[i] = SupplyOf[Batch(c, o)] /\ i \in Items
    BY <1>2, <1>6 DEF Loaded
  <2> QED  BY <1>1, <1>2, <1>7, <2>1
<1> QED  BY <1>1, <1>2, <1>4, <1>5, <1>7

LEMMA FlushReserves ==
    ASSUME DeskInv, NEW c \in Unloaders, Tidy(c), Flush(c), NEW i \in Items, IsListed(i)
    PROVE  RowSeen(c, i)'.reserved <= PacksOf(ArrivedFor(c, i)', preorders')
<1>1. /\ UNCHANGED tables
      /\ draft'[c][i] =
           IF i \in reset[c] \/ IsChanged(c, i) THEN Flushed(c, i) ELSE draft[c][i]
      /\ \A o \in PreorderIds : fulfilled'[c][o] =
                IF found[c][o] = Unused THEN fulfilled[c][o]
                ELSE IF found[c][o].item = Batch(c, o) THEN preorders[o].item ELSE Batch(c, o)
  BY FlushKeeps
<1>2. /\ ArrivedFor(c, i)' \in SUBSET PreorderIds
      /\ \A o \in ArrivedFor(c, i)' : preorders'[o] \in Preorder
  BY DEF ArrivedFor, Exists
<1>3. PacksOf(ArrivedFor(c, i)', preorders') \in Nat
  BY <1>2, PacksAreNat
<1>4. ArrivedFor(c, i) \subseteq ArrivedFor(c, i)'
  <2> SUFFICES ASSUME NEW o \in ArrivedFor(c, i) PROVE o \in ArrivedFor(c, i)'
    OBVIOUS
  <2>1. o \in PreorderIds /\ Exists(o) /\ PreorderSeen(c, o).done /\ PreorderSeen(c, o).item = i
    BY DEF ArrivedFor
  <2>2. found[c][o] = Unused
    <3>1. CASE fulfilled[c][o] = 0
      BY <2>1, <3>1 DEF Tidy, Waiting, PreorderSeen
    <3>2. CASE fulfilled[c][o] # 0
      BY <2>1, <3>2 DEF Tidy
    <3> QED  BY <3>1, <3>2
  <2>3. PreorderSeen(c, o)' = PreorderSeen(c, o)
    BY <1>1, <2>1, <2>2 DEF PreorderSeen, tables
  <2> QED  BY <1>1, <2>1, <2>3 DEF ArrivedFor, Exists, tables
<1>5. PacksOf(ArrivedFor(c, i), preorders) <= PacksOf(ArrivedFor(c, i)', preorders')
  <2>1. \A o \in ArrivedFor(c, i) : preorders[o].qty = preorders'[o].qty
    BY <1>1 DEF tables
  <2> QED  BY <1>2, <1>4, <2>1, PacksGrow
<1>6. /\ RowSeen(c, i).reserved <= PacksOf(ArrivedFor(c, i), preorders)
      /\ RowSeen(c, i) \in Row /\ RowSeen(c, i).reserved \in Nat
      /\ PacksOf(ArrivedFor(c, i), preorders) \in Nat
  <2>1. RowSeen(c, i) \in Row
    BY UnloadersAre
  <2>2. ArrivedFor(c, i) \in SUBSET PreorderIds /\ \A o \in ArrivedFor(c, i) : preorders[o] \in Preorder
    BY DEF ArrivedFor, Exists
  <2>3. PacksOf(ArrivedFor(c, i), preorders) \in Nat
    BY <2>2, PacksAreNat
  <2> QED  BY <2>1, <2>3, RowIs DEF Tidy
<1>7. /\ Flushed(c, i) \in Row
      /\ \/ Flushed(c, i).reserved = Cleared(c, i).reserved
         \/ /\ i \in Loaded(c, current[c])
            /\ Flushed(c, i).reserved <= PacksOf(Awaiting(c, i), found[c])
  BY FlushedIs
<1>8. Cleared(c, i).reserved = 0 \/ Cleared(c, i).reserved = RowSeen(c, i).reserved
  BY ClearedIs
<1>9. CASE RowSeen(c, i)' = RowSeen(c, i)
  BY <1>3, <1>5, <1>6, <1>9
<1>10. CASE RowSeen(c, i)' = Flushed(c, i) /\ Flushed(c, i).reserved = Cleared(c, i).reserved
  BY <1>3, <1>5, <1>6, <1>8, <1>10
<1>11. CASE /\ RowSeen(c, i)' = Flushed(c, i) /\ i \in Loaded(c, current[c])
            /\ Flushed(c, i).reserved <= PacksOf(Awaiting(c, i), found[c])
  <2>1. ASSUME NEW o \in Awaiting(c, i)
        PROVE  o \in ArrivedFor(c, i)' /\ found[c][o].qty = preorders'[o].qty
    <3>1. o \in PreorderIds /\ found[c][o] # Unused /\ found[c][o].product = Product[i]
      BY DEF Awaiting
    <3>2. /\ found[c][o] = preorders[o] /\ Waiting(o)
          /\ fulfilled'[c][o] = Batch(c, o) /\ Batch(c, o) \in Items
          /\ \A j \in Loaded(c, current[c]) :
               Product[j] = preorders[o].product => j = Batch(c, o)
      BY <3>1, FlushServes
    <3>3. fulfilled'[c][o] = i /\ i # 0
      BY <1>11, <3>1, <3>2 DEF Items
    <3>4. PreorderSeen(c, o)' = [preorders[o] EXCEPT !.done = TRUE, !.item = i]
      BY <1>1, <3>3 DEF PreorderSeen, tables
    <3>5. preorders[o] \in Preorder
      BY <3>2 DEF Waiting, Exists
    <3>6. PreorderSeen(c, o)'.done /\ PreorderSeen(c, o)'.item = i
      BY <3>4, <3>5 DEF Preorder
    <3> QED  BY <1>1, <3>1, <3>2, <3>5, <3>6 DEF ArrivedFor, Exists, tables
  <2>2. Awaiting(c, i) \subseteq ArrivedFor(c, i)'
    BY <2>1
  <2>3. /\ PacksOf(Awaiting(c, i), found[c]) <= PacksOf(ArrivedFor(c, i)', preorders')
        /\ PacksOf(Awaiting(c, i), found[c]) \in Nat
    BY <1>2, <2>1, <2>2, PacksGrow
  <2>4. Flushed(c, i).reserved \in Nat
    BY <1>7, RowIs
  <2> QED  BY <1>3, <1>11, <2>3, <2>4
<1>12. RowSeen(c, i)' \in {RowSeen(c, i), Flushed(c, i)}
  BY <1>1, <1>7 DEF RowSeen, tables
<1> QED  BY <1>7, <1>9, <1>10, <1>11, <1>12

LEMMA FlushIsTidy ==
    ASSUME DeskInv, NEW c \in Unloaders, Tidy(c), Flush(c)
    PROVE  Tidy(c)'
<1>1. /\ UNCHANGED <<tables, item>> /\ phase'[c] # "flushing" /\ found'[c] = NothingFound
      /\ \A o \in PreorderIds : fulfilled'[c][o] =
                IF found[c][o] = Unused THEN fulfilled[c][o]
                ELSE IF found[c][o].item = Batch(c, o) THEN preorders[o].item ELSE Batch(c, o)
  BY FlushKeeps
<1>2. \A i \in Items : item'[c][i] # NoRow => IsListed(i)'
  BY <1>1 DEF Tidy, IsListed, tables
<1>3. \A i \in Items : IsListed(i)' =>
        RowSeen(c, i)'.reserved <= PacksOf(ArrivedFor(c, i)', preorders')
  BY <1>1, FlushReserves DEF IsListed, tables
<1>4. OneSupplyIn({i \in Items : IsListed(i) /\ RowSeen(c, i).active})'
  <2>1. \A s, t \in current[c] : s = t
    BY DEF DeskInv, Holds
  <2>2. \A i \in Items :
          IsListed(i)' /\ RowSeen(c, i)'.active /\ SupplyOf[i] \in Manual =>
            SupplyOf[i] \in current[c]
    BY <1>1, FlushPutsItsOwn DEF IsListed, tables
  <2> QED  BY <2>1, <2>2 DEF OneSupplyIn
<1>5. \A o \in PreorderIds : found'[c][o] = Unused
  BY <1>1 DEF NothingFound
<1>6. ASSUME NEW o \in PreorderIds, fulfilled'[c][o] # 0
      PROVE  /\ Waiting(o)' /\ rows'[fulfilled'[c][o]] \in Row
             /\ Product[fulfilled'[c][o]] = preorders'[o].product
  <2>1. CASE found[c][o] = Unused
    BY <1>1, <1>6, <2>1 DEF Tidy, Waiting, Exists, IsListed, tables
  <2>2. CASE found[c][o] # Unused
    <3>1. /\ Waiting(o) /\ fulfilled'[c][o] = Batch(c, o)
          /\ IsListed(Batch(c, o)) /\ Product[Batch(c, o)] = preorders[o].product
      BY <2>2, FlushServes
    <3> QED  BY <1>1, <3>1 DEF Waiting, Exists, IsListed, tables
  <2> QED  BY <2>1, <2>2
<1> QED  BY <1>1, <1>2, <1>3, <1>4, <1>5, <1>6 DEF Tidy, IsListed

LEMMA CommitKeepsTables ==
    ASSUME DeskInv, TablesInv, NEW c \in Unloaders, Tidy(c), CommitUnload(c)
    PROVE  TablesInv'
<1>1. /\ \A i \in Items : rows'[i] = RowSeen(c, i)
      /\ \A o \in PreorderIds : preorders'[o] = PreorderSeen(c, o)
      /\ \A o \in PreorderIds : fulfilled[c][o] # 0 => preorders'[o] \in Preorder
  BY CommitIs DEF PreorderSeen
<1>2. \A i \in Items : IsListed(i)' <=> IsListed(i)
  <2>1. \A i \in Items : IsListed(i) => rows'[i] \in Row
    BY <1>1, UnloadersAre
  <2>2. \A i \in Items : ~IsListed(i) => rows'[i] = rows[i]
    BY <1>1, UnloadersAre DEF RowSeen, Holds
  <2> QED  BY <2>1, <2>2 DEF IsListed
<1>3. \A o \in PreorderIds : Exists(o)' <=> Exists(o)
  BY <1>1, UnloadersAre DEF PreorderSeen, Exists, Holds
<1>4. ASSUME NEW o \in PreorderIds, Exists(o)
      PROVE  preorders'[o].qty = preorders[o].qty /\ preorders'[o].product = preorders[o].product
  <2>1. preorders[o] \in Preorder
    BY <1>4 DEF Exists
  <2>2. CASE fulfilled[c][o] = 0
    BY <1>1, <2>2 DEF PreorderSeen
  <2>3. CASE fulfilled[c][o] # 0
    <3>1. preorders'[o] = [preorders[o] EXCEPT !.done = TRUE, !.item = fulfilled[c][o]]
      BY <1>1, <2>3 DEF PreorderSeen
    <3> QED  BY <2>1, <3>1 DEF Preorder
  <2> QED  BY <2>2, <2>3
<1>5. ASSUME NEW i \in Items, IsListed(i)'
      PROVE  rows'[i].reserved <= PacksOf(ArrivedAt(i)', preorders')
  <2>1. /\ rows'[i].reserved <= PacksOf(ArrivedFor(c, i), preorders)
        /\ rows'[i].reserved \in Nat
    BY <1>1, <1>2, <1>5, RowIs DEF Tidy, IsListed
  <2>2. ArrivedFor(c, i) \subseteq ArrivedAt(i)'
    BY <1>1, <1>3 DEF ArrivedFor, ArrivedAt, Arrived
  <2>3. /\ ArrivedAt(i)' \in SUBSET PreorderIds
        /\ \A o \in ArrivedAt(i)' : preorders'[o] \in Preorder
    BY DEF ArrivedAt, Arrived, Exists
  <2>4. \A o \in ArrivedFor(c, i) : preorders[o].qty = preorders'[o].qty
    BY <1>4 DEF ArrivedFor
  <2>5. /\ PacksOf(ArrivedFor(c, i), preorders) <= PacksOf(ArrivedAt(i)', preorders')
        /\ PacksOf(ArrivedFor(c, i), preorders) \in Nat
        /\ PacksOf(ArrivedAt(i)', preorders') \in Nat
    BY <2>2, <2>3, <2>4, PacksGrow
  <2> QED  BY <2>1, <2>5
<1>6. ReserveHasOwners'
  BY <1>5 DEF ReserveHasOwners
<1>7. OneSupplyOnShelf'
  <2>1. \A i \in Items : IsActive(i)' => IsListed(i) /\ RowSeen(c, i).active
    BY <1>1, <1>2 DEF IsActive
  <2> QED  BY <2>1 DEF Tidy, OneSupplyIn, OneSupplyOnShelf
<1>8. ASSUME NEW o \in PreorderIds, Exists(o)', preorders'[o].item # 0
      PROVE  /\ rows'[preorders'[o].item] \in Row
             /\ Product[preorders'[o].item] = preorders'[o].product
  <2>1. preorders[o] \in Preorder /\ preorders'[o].product = preorders[o].product
    BY <1>3, <1>4, <1>8 DEF Exists
  <2>2. CASE fulfilled[c][o] = 0
    <3>1. preorders'[o] = preorders[o] /\ preorders[o].item \in Items
      BY <1>1, <1>8, <2>1, <2>2 DEF PreorderSeen, Preorder
    <3>2. IsListed(preorders[o].item) /\ Product[preorders[o].item] = preorders[o].product
      BY <1>8, <2>1, <3>1 DEF TablesInv, PreordersPointAtLines, Exists
    <3> QED  BY <1>2, <3>1, <3>2 DEF IsListed
  <2>3. CASE fulfilled[c][o] # 0
    <3>1. preorders'[o].item = fulfilled[c][o] /\ fulfilled[c][o] \in Items
      <4>1. preorders'[o] = [preorders[o] EXCEPT !.done = TRUE, !.item = fulfilled[c][o]]
        BY <1>1, <2>3 DEF PreorderSeen
      <4>2. preorders'[o].item = fulfilled[c][o]
        BY <2>1, <4>1 DEF Preorder
      <4> QED  BY <2>3, <4>2, UnloadersAre
    <3>2. IsListed(fulfilled[c][o]) /\ Product[fulfilled[c][o]] = preorders[o].product
      BY <2>3 DEF Tidy
    <3> QED  BY <1>2, <2>1, <3>1, <3>2 DEF IsListed
  <2> QED  BY <2>2, <2>3
<1>9. PreordersPointAtLines'
  BY <1>8 DEF PreordersPointAtLines, IsListed
<1> QED  BY <1>6, <1>7, <1>9 DEF TablesInv

LEMMA UnloadKeepsTidy ==
    ASSUME SerialInv, NEW c \in Unloaders, Unload(c)
    PROVE  TablesInv' /\ Tidy(c)'
<1>1. DeskInv /\ TablesInv /\ Tidy(c) /\ Holds(c)
  BY DEF SerialInv, TablesInv, DeskInv
<1>2. CASE OpenUnload(c) \/ OpenOverdue(c)
  <2>1. /\ UNCHANGED tables /\ phase[c] = "idle" /\ phase'[c] = "clearing"
        /\ writes' = writes /\ UNCHANGED found
        /\ \A i \in Items : item'[c][i] # NoRow => IsListed(i)
    BY <1>1, <1>2, OpenKeeps
  <2>2. TablesInv'
    BY <1>1, <2>1, TablesSame
  <2>3. draft'[c] = NoDraft /\ fulfilled'[c] = NotMarked /\ found'[c] = NothingFound
    BY <1>1, <2>1 DEF Holds, writes
  <2> QED  BY <2>1, <2>2, <2>3, FreshIsTidy DEF tables, IsListed
<1>3. CASE ClearShelf(c)
  <2>1. /\ UNCHANGED tables /\ UNCHANGED <<draft, fulfilled, item>>
        /\ phase[c] = "clearing" /\ reset'[c] = OldBatches(c)
        /\ \A o \in PreorderIds :
             found'[c][o] # Unused => found'[c][o] = preorders[o] /\ IsWaitingFor(c, o)
    BY <1>1, <1>3, ClearKeeps
  <2>2. TablesInv'
    BY <1>1, <2>1, TablesSame
  <2>3. \A i \in Items : /\ IsListed(i)' <=> IsListed(i)
                         /\ RowSeen(c, i)' = RowSeen(c, i)
                         /\ ArrivedFor(c, i)' = ArrivedFor(c, i)
    BY <2>1 DEF tables, IsListed, RowSeen, ArrivedFor, PreorderSeen, Exists
  <2>4. OldBatches(c)' = OldBatches(c)
    BY <2>3 DEF OldBatches, OldBatchesOfAll
  <2>5. OneSupplyIn({i \in Items : IsListed(i) /\ RowSeen(c, i).active})'
    BY <1>1, <2>3 DEF Tidy, OneSupplyIn
  <2>6. \A i \in Items : item'[c][i] # NoRow => IsListed(i)'
    BY <1>1, <2>1, <2>3 DEF Tidy
  <2>7. \A i \in Items : IsListed(i)' =>
          RowSeen(c, i)'.reserved <= PacksOf(ArrivedFor(c, i)', preorders')
    BY <1>1, <2>1, <2>3 DEF Tidy, tables
  <2>8. \A o \in PreorderIds :
          found'[c][o] # Unused =>
            found'[c][o] = preorders'[o] /\ Waiting(o)' /\ fulfilled'[c][o] = 0
    BY <2>1 DEF IsWaitingFor, Waiting, Exists, tables
  <2>9. \A o \in PreorderIds : fulfilled'[c][o] # 0 =>
          /\ Waiting(o)' /\ rows'[fulfilled'[c][o]] \in Row
          /\ Product[fulfilled'[c][o]] = preorders'[o].product
    BY <1>1, <2>1 DEF Tidy, Waiting, Exists, IsListed, tables
  <2> QED  BY <2>1, <2>2, <2>4, <2>5, <2>6, <2>7, <2>8, <2>9 DEF Tidy, IsListed
<1>4. CASE Flush(c)
  <2>1. UNCHANGED tables
    BY <1>1, <1>4, FlushKeeps
  <2> QED  BY <1>1, <1>4, <2>1, FlushIsTidy, TablesSame
<1>5. CASE SkipSupply(c)
  <2>1. /\ UNCHANGED <<tables, draft, fulfilled, item>>
        /\ phase'[c] # "flushing" /\ found'[c] = NothingFound
    BY <1>1, <1>5, SkipKeeps
  <2>2. TablesInv'
    BY <1>1, <2>1, TablesSame
  <2>3. \A i \in Items : /\ IsListed(i)' <=> IsListed(i)
                         /\ RowSeen(c, i)' = RowSeen(c, i)
                         /\ ArrivedFor(c, i)' = ArrivedFor(c, i)
    BY <2>1 DEF tables, IsListed, RowSeen, ArrivedFor, PreorderSeen, Exists
  <2>4. OneSupplyIn({i \in Items : IsListed(i) /\ RowSeen(c, i).active})'
    BY <1>1, <2>3 DEF Tidy, OneSupplyIn
  <2>5. \A i \in Items : item'[c][i] # NoRow => IsListed(i)'
    BY <1>1, <2>1, <2>3 DEF Tidy
  <2>6. \A i \in Items : IsListed(i)' =>
          RowSeen(c, i)'.reserved <= PacksOf(ArrivedFor(c, i)', preorders')
    BY <1>1, <2>1, <2>3 DEF Tidy, tables
  <2>7. \A o \in PreorderIds : found'[c][o] = Unused
    BY <2>1 DEF NothingFound
  <2>8. \A o \in PreorderIds : fulfilled'[c][o] # 0 =>
          /\ Waiting(o)' /\ rows'[fulfilled'[c][o]] \in Row
          /\ Product[fulfilled'[c][o]] = preorders'[o].product
    BY <1>1, <2>1 DEF Tidy, Waiting, Exists, IsListed, tables
  <2> QED  BY <2>1, <2>2, <2>4, <2>5, <2>6, <2>7, <2>8 DEF Tidy, IsListed
<1>6. CASE CommitUnload(c) \/ LostUnload(c)
  <2>1. EndUnload(c) /\ (CommitUnload(c) \/ UNCHANGED tables)
    BY <1>6 DEF CommitUnload, LostUnload
  <2>2. TablesInv'
    BY <1>1, <2>1, CommitKeepsTables, TablesSame
  <2>3. /\ phase'[c] = "idle" /\ draft'[c] = NoDraft /\ fulfilled'[c] = NotMarked
        /\ found'[c] = NothingFound /\ item'[c] = NoDraft
    BY <1>1, <2>1, EndKeeps
  <2> QED  BY <2>2, <2>3, FreshIsTidy DEF NoDraft
<1> QED  BY <1>2, <1>3, <1>4, <1>5, <1>6 DEF Unload, UnloadStep

-----------------------------------------------------------------------------
(* Without overlap: a request                                              *)

\* What is reserved on a batch beyond the packs of one preorder belongs to
\* the others.
LEMMA ReserveOfOthers ==
    ASSUME DeskInv, ReserveHasOwners, NEW i \in Items, IsListed(i),
           NEW o \in ArrivedAt(i), NEW set, set = {o}
    PROVE  ReserveLeft(rows[i], MovedPacks(rows[i], preorders[o].qty))
             <= PacksOf(ArrivedAt(i) \ set, preorders)
<1> DEFINE f == [x \in ArrivedAt(i) |-> preorders[x].qty]
           g == [x \in ArrivedAt(i) \ set |-> preorders[x].qty]
<1>1. ArrivedAt(i) \in SUBSET PreorderIds /\ \A x \in ArrivedAt(i) : preorders[x] \in Preorder
  BY DEF ArrivedAt, Arrived, Exists
<1>2. IsFiniteSet(ArrivedAt(i)) /\ IsFiniteSet(ArrivedAt(i) \ set)
  BY <1>1, FS_Subset
<1>3. \A x \in ArrivedAt(i) : f[x] \in Nat
  BY <1>1 DEF Preorder
<1>4. /\ PacksOf(ArrivedAt(i), preorders) = Total(f, ArrivedAt(i))
      /\ PacksOf(ArrivedAt(i) \ set, preorders) = Total(g, ArrivedAt(i) \ set)
      /\ f[o] = preorders[o].qty
  BY DEF PacksOf
<1>5. \A x \in ArrivedAt(i) \ set : g[x] = f[x]
  OBVIOUS
<1> HIDE DEF f, g
<1>6. Total(f, ArrivedAt(i)) = f[o] + Total(f, ArrivedAt(i) \ {o})
  BY <1>2, <1>3, TotalOfMember
<1>7. Total(g, ArrivedAt(i) \ set) = Total(f, ArrivedAt(i) \ set)
  BY <1>2, <1>5, TotalOfSame
<1>8. Total(f, ArrivedAt(i) \ set) \in Nat
  BY <1>2, <1>3, TotalIsNat
<1>9. rows[i].reserved <= PacksOf(ArrivedAt(i), preorders) /\ rows[i] \in Row
  BY DEF ReserveHasOwners, IsListed
<1>10. rows[i].reserved \in Nat /\ Avail(rows[i]) \in Nat
  BY <1>9, RowIs
<1>11. preorders[o].qty \in Nat
  BY <1>3, <1>4
<1>12. rows[i].reserved <= preorders[o].qty + PacksOf(ArrivedAt(i) \ set, preorders)
  BY <1>4, <1>6, <1>7, <1>9
<1>13. PacksOf(ArrivedAt(i) \ set, preorders) \in Nat
  BY <1>4, <1>7, <1>8
<1> QED  BY <1>10, <1>11, <1>12, <1>13 DEF ReserveLeft, MovedPacks, AtMost

LEMMA IdleIsTidy ==
    ASSUME DeskInv', TablesInv', NEW c \in Unloaders, phase'[c] = "idle"
    PROVE  Tidy(c)'
<1>1. Holds(c)'
  BY DEF DeskInv
<1>2. /\ draft'[c] = NoDraft /\ fulfilled'[c] = NotMarked /\ found'[c] = NothingFound
      /\ \A i \in Items : item'[c][i] = NoRow
  BY <1>1 DEF Holds, NoDraft
<1> QED  BY <1>2, FreshIsTidy

LEMMA IdleIsCurrent ==
    ASSUME NEW p \in Threads, step'[p] \in {"idle", "answering", "failed"}
    PROVE  Current(p)'
  BY DEF Current

\* A request that only reads.
LEMMA ReadsAreCurrent ==
    ASSUME SerialInv, NEW p \in Threads, Begins(p) \/ AddLook(p) \/ MoveLock(p)
    PROVE  TablesInv' /\ Current(p)'
<1>1. DeskInv /\ TablesInv /\ Current(p) /\ CustomersTypeOK
  BY DEF SerialInv, TablesInv, DeskInv, DeskTypeOK
<1>2. UNCHANGED tables
  BY <1>1, BeginKeeps, LookKeeps, LockKeeps
<1>3. TablesInv'
  BY <1>1, <1>2, TablesSame
<1>4. UNCHANGED <<rows, preorders>>
  BY <1>2 DEF tables
<1>5. \A o \in PreorderIds : (Waiting(o)' <=> Waiting(o)) /\ (Arrived(o)' <=> Arrived(o))
  BY <1>4 DEF Waiting, Arrived, Exists
<1>6. CASE AddCheck(p)
  <2>1. PICK d \in Devices, i \in Items, packs \in Wishes :
        /\ IsOnTheWay(i) /\ Begin(p, d, "looking")
        /\ wish' = [wish EXCEPT ![p] =
              [item |-> i, packs |-> IF packs < MinPacks[i] THEN MinPacks[i] ELSE packs]]
    BY <1>6 DEF AddCheck
  <2>2. step'[p] = "looking" /\ wish'[p].item = i
    BY <1>1, <2>1 DEF Begin, Goes, CustomersTypeOK
  <2> QED  BY <1>3, <1>4, <2>1, <2>2 DEF Current, IsOnTheWay, IsListed
<1>7. CASE RemoveFind(p)
  <2>1. PICK d \in Devices, o \in PreorderIds :
        /\ Waiting(o) /\ Begin(p, d, "removing")
        /\ target' = [target EXCEPT ![p] = {o}]
        /\ seen' = [seen EXCEPT ![p] = preorders[o]]
    BY <1>7 DEF RemoveFind
  <2>2. step'[p] = "removing" /\ target'[p] = {o} /\ seen'[p] = preorders[o]
    BY <1>1, <2>1 DEF Begin, Goes, CustomersTypeOK
  <2>3. \A x \in target'[p] : Waiting(x)' /\ preorders'[x] = seen'[p]
    BY <1>4, <1>5, <2>1, <2>2
  <2> QED  BY <1>3, <2>2, <2>3 DEF Current
<1>8. CASE MoveFind(p)
  <2>1. PICK d \in Devices, o \in PreorderIds :
        /\ Arrived(o) /\ Begin(p, d, "locking")
        /\ target' = [target EXCEPT ![p] = {o}]
        /\ seen' = [seen EXCEPT ![p] = preorders[o]]
    BY <1>8 DEF MoveFind
  <2>2. step'[p] = "locking" /\ target'[p] = {o} /\ seen'[p] = preorders[o]
    BY <1>1, <2>1 DEF Begin, Goes, CustomersTypeOK
  <2>3. \A x \in target'[p] : Arrived(x)' /\ preorders'[x] = seen'[p]
    BY <1>4, <1>5, <2>1, <2>2
  <2> QED  BY <1>3, <2>2, <2>3 DEF Current
<1>9. CASE AddLook(p)
  <2>1. /\ step[p] = "looking" /\ step'[p] = "adding" /\ UNCHANGED <<wish, device>>
        /\ \/ target'[p] = {}
           \/ \E o \in PreorderIds : /\ target'[p] = {o} /\ OfWish(p, o)
                                     /\ seen'[p] = preorders[o]
    BY <1>1, <1>9, LookKeeps
  <2>2. rows'[wish'[p].item] \in Row
    BY <1>1, <1>4, <2>1 DEF Current, IsListed
  <2>3. \A o \in target'[p] :
          /\ Waiting(o)' /\ preorders'[o] = seen'[p]
          /\ preorders'[o].product = Product[wish'[p].item]
    BY <1>4, <1>5, <2>1 DEF OfWish
  <2> QED  BY <1>3, <2>1, <2>2, <2>3 DEF Current, IsListed
<1>10. CASE MoveLock(p)
  <2>1. /\ step[p] = "locking" /\ UNCHANGED <<target, seen>>
        /\ \/ step'[p] \in {"answering", "failed"}
           \/ /\ step'[p] = "taking" /\ IsListed(seen[p].item)
              /\ shelf'[p] = rows[seen[p].item]
              /\ give'[p] = MovedPacks(shelf'[p], seen[p].qty)
    BY <1>1, <1>10, LockKeeps
  <2>2. CASE step'[p] = "taking"
    <3>1. /\ target'[p] # {}
          /\ \A o \in target'[p] : Arrived(o)' /\ preorders'[o] = seen'[p]
      <4>1. target[p] \subseteq PreorderIds
        BY <1>1 DEF CustomersTypeOK
      <4> QED  BY <1>1, <1>4, <1>5, <2>1, <4>1 DEF Current
    <3>2. /\ rows'[seen'[p].item] \in Row /\ shelf'[p] = rows'[seen'[p].item]
          /\ give'[p] = MovedPacks(shelf'[p], seen'[p].qty)
      BY <1>4, <2>1, <2>2 DEF IsListed
    <3> QED  BY <1>3, <2>2, <3>1, <3>2 DEF Current, IsListed
  <2> QED  BY <1>3, <2>1, <2>2, IdleIsCurrent
<1> QED  BY <1>3, <1>6, <1>7, <1>8, <1>9, <1>10 DEF Begins

LEMMA AddWriteKeepsTables ==
    ASSUME DeskInv, TablesInv, NEW p \in Threads, Current(p), AddWrite(p)
    PROVE  TablesInv'
<1>1. /\ step[p] = "adding" /\ UNCHANGED rows
      /\ preorders \in [PreorderIds -> Preorder \cup {Unused, Gone}]
      /\ rows \in [Items -> Row \cup {NoRow, Gone}]
  BY DEF AddWrite, DeskInv, DeskTypeOK, TablesTypeOK
<1>2. wish[p].item \in Items /\ wish[p].packs \in 1..MaxPreorder /\ IsListed(wish[p].item)
      /\ target[p] \subseteq PreorderIds
  BY <1>1, CustomersAre DEF Current
\* One preorder is written, and it has not arrived.
<1>3. ASSUME NEW o \in PreorderIds, NEW new \in Preorder, ~Arrived(o), ~new.done,
             preorders' = [preorders EXCEPT ![o] = new],
             new.item # 0 => IsListed(new.item) /\ Product[new.item] = new.product
      PROVE  TablesInv'
  <2>1. preorders'[o] = new /\ \A x \in PreorderIds : x # o => preorders'[x] = preorders[x]
    BY <1>1, <1>3
  <2>2. \A i \in Items : \A x \in ArrivedAt(i) :
          Arrived(x)' /\ preorders'[x].item = i /\ preorders'[x].qty = preorders[x].qty
    BY <1>3, <2>1 DEF ArrivedAt, Arrived, Exists
  <2>3. \A i \in Items : IsListed(i)' => IsListed(i) /\ rows'[i].reserved = rows[i].reserved
    BY <1>1 DEF IsListed
  <2>4. ReserveHasOwners'
    BY <1>1, <2>2, <2>3, OwnersStay DEF TablesInv
  <2>5. OneSupplyOnShelf'
    BY <1>1, ShelfShrinks DEF TablesInv, IsActive, IsListed
  <2>6. PreordersPointAtLines'
    BY <1>1, <1>3, <2>1 DEF TablesInv, PreordersPointAtLines, Exists, IsListed
  <2> QED  BY <2>4, <2>5, <2>6 DEF TablesInv
<1>4. CASE \E o \in target[p] :
                   /\ Exists(o)
                   /\ preorders' = [preorders EXCEPT ![o] = Merged(p, o)]
                   /\ Merged(p, o) \in Preorder
  <2>1. PICK o \in target[p] :
                   /\ Exists(o)
                   /\ preorders' = [preorders EXCEPT ![o] = Merged(p, o)]
                   /\ Merged(p, o) \in Preorder
    BY <1>4
  <2>2. o \in PreorderIds /\ seen[p] \in Preorder
    BY <1>2, <2>1, CustomersAre
  <2>3. /\ Merged(p, o).product = preorders[o].product
        /\ Merged(p, o).done = preorders[o].done
        /\ preorders[o] = seen[p] => Merged(p, o).item = wish[p].item
    BY <1>2, <2>1, <2>2, MergedIs
  <2>4. /\ Waiting(o) /\ preorders[o] = seen[p]
        /\ preorders[o].product = Product[wish[p].item]
    BY <1>1, <2>1 DEF Current
  <2>5. ~Arrived(o) /\ ~Merged(p, o).done
    BY <2>3, <2>4 DEF Waiting, Arrived
  <2>6. IsListed(Merged(p, o).item) /\ Product[Merged(p, o).item] = Merged(p, o).product
    BY <1>2, <2>3, <2>4
  <2> QED  BY <1>3, <2>1, <2>2, <2>5, <2>6
<1>5. CASE UNCHANGED preorders
  <2>1. UNCHANGED tables
    BY <1>5 DEF AddWrite, tables
  <2> QED  BY <2>1, TablesSame
<1>6. CASE \E o \in PreorderIds : \E new \in Preorder :
                      /\ preorders[o] = Unused
                      /\ preorders' = [preorders EXCEPT ![o] = new]
                      /\ new.user = User(p) /\ new.product = Product[wish[p].item]
                      /\ new.item = wish[p].item /\ new.done = FALSE
  <2>1. PICK o \in PreorderIds : \E new \in Preorder :
                      /\ preorders[o] = Unused
                      /\ preorders' = [preorders EXCEPT ![o] = new]
                      /\ new.product = Product[wish[p].item]
                      /\ new.item = wish[p].item /\ new.done = FALSE
    BY <1>6
  <2>2. ~Arrived(o)
    BY <2>1 DEF Arrived, Exists
  <2> QED  BY <1>2, <1>3, <2>1, <2>2
<1>7. \/ \E o \in target[p] :
                   /\ Exists(o)
                   /\ preorders' = [preorders EXCEPT ![o] = Merged(p, o)]
                   /\ Merged(p, o) \in Preorder
      \/ UNCHANGED preorders
      \/ /\ target[p] = {}
         /\ \E o \in PreorderIds : \E new \in Preorder :
              /\ preorders[o] = Unused
              /\ preorders' = [preorders EXCEPT ![o] = new]
              /\ new.user = User(p) /\ new.product = Product[wish[p].item]
              /\ new.item = wish[p].item /\ new.done = FALSE
  BY AddWriteIs
<1> QED  BY <1>4, <1>5, <1>6, <1>7

\* A preorder is deleted by id: one that waits owns no packs, and the packs
\* of one that has arrived were taken off the reserve before.
LEMMA DeletionKeepsTables ==
    ASSUME DeskInv, TablesInv, NEW p \in Threads, Current(p), RemoveWrite(p) \/ MoveMerge(p)
    PROVE  TablesInv'
<1>1. /\ UNCHANGED <<rows, status>>
      /\ \A o \in PreorderIds :
           preorders'[o] = IF o \in target[p] THEN Gone ELSE preorders[o]
  BY DeletedIs
<1>2. /\ rows \in [Items -> Row \cup {NoRow, Gone}]
      /\ preorders \in [PreorderIds -> Preorder \cup {Unused, Gone}]
      /\ target[p] \subseteq PreorderIds
  BY CustomersAre DEF DeskInv, DeskTypeOK, TablesTypeOK
<1>3. \A o \in PreorderIds : Exists(o)' => Exists(o) /\ preorders'[o] = preorders[o]
  BY <1>1 DEF Exists
<1>4. PreordersPointAtLines'
  <2>1. \A i \in Items : IsListed(i) => IsListed(i)'
    BY <1>1 DEF IsListed
  <2> QED  BY <1>2, <1>3, <2>1, PointersStay DEF TablesInv
<1>5. OneSupplyOnShelf'
  BY <1>1, ShelfShrinks DEF TablesInv, IsActive, IsListed
<1>6. CASE RemoveWrite(p)
  <2>1. \A o \in target[p] : ~Arrived(o)
    BY <1>6 DEF RemoveWrite, Current, Waiting, Arrived
  <2>2. \A i \in Items : \A x \in ArrivedAt(i) :
          Arrived(x)' /\ preorders'[x].item = i /\ preorders'[x].qty = preorders[x].qty
    BY <1>1, <2>1 DEF ArrivedAt, Arrived, Exists
  <2>3. \A i \in Items : IsListed(i)' => IsListed(i) /\ rows'[i].reserved = rows[i].reserved
    BY <1>1 DEF IsListed
  <2>4. ReserveHasOwners'
    BY <1>2, <2>2, <2>3, OwnersStay DEF TablesInv
  <2> QED  BY <1>4, <1>5, <2>4 DEF TablesInv
<1>7. CASE MoveMerge(p)
  <2> DEFINE b == seen[p].item
  <2>1. /\ step[p] = "merging" /\ b \in Items /\ IsListed(b)
        /\ rows[b].reserved <= PacksOf(ArrivedAt(b) \ target[p], preorders)
        /\ \A o \in target[p] : preorders[o] = seen[p]
    BY <1>7, CustomersAre DEF MoveMerge, Current
  <2>2. ASSUME NEW i \in Items, IsListed(i)'
        PROVE  rows'[i].reserved <= PacksOf(ArrivedAt(i)', preorders')
    <3>1. /\ ArrivedAt(i)' \in SUBSET PreorderIds
          /\ \A o \in ArrivedAt(i)' : preorders'[o] \in Preorder
      BY DEF ArrivedAt, Arrived, Exists
    <3>2. /\ ArrivedAt(i) \ target[p] \subseteq ArrivedAt(i)'
          /\ \A o \in ArrivedAt(i) \ target[p] : preorders[o].qty = preorders'[o].qty
      BY <1>1 DEF ArrivedAt, Arrived, Exists
    <3>3. /\ PacksOf(ArrivedAt(i) \ target[p], preorders) <= PacksOf(ArrivedAt(i)', preorders')
          /\ PacksOf(ArrivedAt(i) \ target[p], preorders) \in Nat
          /\ PacksOf(ArrivedAt(i)', preorders') \in Nat
      BY <3>1, <3>2, PacksGrow
    <3>4. rows[i].reserved <= PacksOf(ArrivedAt(i) \ target[p], preorders)
      <4>1. CASE i = b
        BY <2>1, <4>1
      <4>2. CASE i # b
        <5>1. ArrivedAt(i) \ target[p] = ArrivedAt(i)
          BY <2>1, <4>2 DEF ArrivedAt
        <5>2. IsListed(i)
          BY <1>1, <2>2 DEF IsListed
        <5> QED  BY <5>1, <5>2 DEF TablesInv, ReserveHasOwners
      <4> QED  BY <4>1, <4>2
    <3>5. rows'[i] = rows[i] /\ rows[i].reserved \in Nat
      BY <1>1, <2>2, RowIs DEF IsListed
    <3> QED  BY <3>3, <3>4, <3>5
  <2>3. ReserveHasOwners'
    BY <2>2 DEF ReserveHasOwners
  <2> QED  BY <1>4, <1>5, <2>3 DEF TablesInv
<1> QED  BY <1>6, <1>7

LEMMA TakeKeepsTables ==
    ASSUME DeskInv, TablesInv, NEW p \in Threads, Current(p), MoveTake(p)
    PROVE  TablesInv' /\ Current(p)'
<1> DEFINE b == seen[p].item
           left == ReserveLeft(shelf[p], give[p])
<1>1. /\ step[p] = "taking" /\ UNCHANGED <<status, preorders, target, seen>>
      /\ step'[p] = "merging"
  BY DEF MoveTake, Goes, DeskInv, DeskTypeOK, CustomersTypeOK
<1>2. /\ \A j \in Items : j # b => rows'[j] = rows[j]
      /\ \A j \in Items : IsListed(j) => rows'[j] \in Row /\ rows'[j].active = rows[j].active
      /\ \A j \in Items : ~IsListed(j) => rows'[j] = rows[j]
      /\ \/ UNCHANGED rows /\ left = shelf[p].reserved
         \/ IsListed(b) /\ rows'[b].reserved = left
  BY MoveTakeIs
<1>3. /\ seen[p] \in Preorder /\ b \in Items /\ target[p] \subseteq PreorderIds
      /\ \A o, x \in target[p] : o = x
  BY <1>1, CustomersAre DEF DeskInv, Asks
<1>4. /\ IsListed(b) /\ shelf[p] = rows[b]
      /\ give[p] = MovedPacks(shelf[p], seen[p].qty)
      /\ target[p] # {}
      /\ \A o \in target[p] : Arrived(o) /\ preorders[o] = seen[p]
  BY <1>1 DEF Current
<1>5. rows'[b].reserved = left
  BY <1>2, <1>4
<1>6. PICK o \in PreorderIds : target[p] = {o} /\ o \in ArrivedAt(b) /\ preorders[o] = seen[p]
  BY <1>3, <1>4 DEF ArrivedAt
<1>7. left <= PacksOf(ArrivedAt(b) \ target[p], preorders)
  <2>1. ReserveLeft(rows[b], MovedPacks(rows[b], preorders[o].qty))
             <= PacksOf(ArrivedAt(b) \ target[p], preorders)
    BY <1>3, <1>4, <1>6, ReserveOfOthers DEF TablesInv
  <2> QED  BY <1>4, <1>6, <2>1
<1>8. ArrivedAt(b)' = ArrivedAt(b) /\ \A i \in Items : ArrivedAt(i)' = ArrivedAt(i)
  BY <1>1 DEF ArrivedAt, Arrived, Exists
<1>9. Current(p)'
  <2>1. /\ rows'[b] \in Row
        /\ rows'[b].reserved <= PacksOf(ArrivedAt(b)' \ target'[p], preorders')
    BY <1>1, <1>2, <1>3, <1>4, <1>5, <1>7, <1>8
  <2>2. \A x \in target'[p] : Arrived(x)' /\ preorders'[x] = seen'[p]
    BY <1>1, <1>4 DEF Arrived, Exists
  <2> QED  BY <1>1, <1>4, <2>1, <2>2 DEF Current, IsListed
<1>10. ReserveHasOwners'
  <2> SUFFICES ASSUME NEW i \in Items, IsListed(i)'
               PROVE  rows'[i].reserved <= PacksOf(ArrivedAt(i), preorders)
    BY <1>1, <1>8 DEF ReserveHasOwners
  <2>1. CASE i # b
    BY <1>2, <2>1 DEF TablesInv, ReserveHasOwners, IsListed
  <2>2. CASE i = b
    <3>1. /\ ArrivedAt(b) \in SUBSET PreorderIds /\ ArrivedAt(b) \ target[p] \subseteq ArrivedAt(b)
          /\ \A x \in ArrivedAt(b) : preorders[x] \in Preorder
      BY DEF ArrivedAt, Arrived, Exists
    <3>2. /\ PacksOf(ArrivedAt(b) \ target[p], preorders) <= PacksOf(ArrivedAt(b), preorders)
          /\ PacksOf(ArrivedAt(b) \ target[p], preorders) \in Nat
          /\ PacksOf(ArrivedAt(b), preorders) \in Nat
      BY <3>1, PacksGrow
    <3>3. rows'[b].reserved \in Nat
      BY <1>2, <1>3, <1>4, RowIs
    <3> QED  BY <1>5, <1>7, <2>2, <3>2, <3>3
  <2> QED  BY <2>1, <2>2
<1>11. OneSupplyOnShelf'
  <2>1. \A i \in Items : IsActive(i)' => IsActive(i)
    BY <1>2 DEF IsActive, IsListed
  <2> QED  BY <2>1, ShelfShrinks DEF TablesInv
<1>12. PreordersPointAtLines'
  <2>1. \A i \in Items : IsListed(i) => IsListed(i)'
    BY <1>2 DEF IsListed
  <2>2. preorders \in [PreorderIds -> Preorder \cup {Unused, Gone}]
    BY DEF DeskInv, DeskTypeOK, TablesTypeOK
  <2> QED  BY <1>1, <2>1, <2>2, PointersStay DEF TablesInv, Exists
<1> QED  BY <1>9, <1>10, <1>11, <1>12 DEF TablesInv

LEMMA ServeKeepsTables ==
    ASSUME SerialInv, NEW p \in Threads, Serve(p)
    PROVE  TablesInv' /\ Current(p)'
<1>1. DeskInv /\ TablesInv /\ Current(p) /\ CustomersTypeOK
  BY DEF SerialInv, TablesInv, DeskInv, DeskTypeOK
<1>2. CASE Begins(p) \/ AddLook(p) \/ MoveLock(p)
  BY <1>2, ReadsAreCurrent
<1>3. CASE AddWrite(p)
  <2>1. step'[p] = "answering"
    BY <1>1, <1>3 DEF AddWrite, Goes, CustomersTypeOK
  <2> QED  BY <1>1, <1>3, <2>1, AddWriteKeepsTables, IdleIsCurrent
<1>4. CASE RemoveWrite(p) \/ MoveMerge(p)
  <2>1. step'[p] = "answering"
    BY <1>1, <1>4 DEF RemoveWrite, MoveMerge, Goes, CustomersTypeOK
  <2> QED  BY <1>1, <1>4, <2>1, DeletionKeepsTables, IdleIsCurrent
<1>5. CASE MoveTake(p)
  BY <1>1, <1>5, TakeKeepsTables
<1>6. CASE Answer(p) \/ Drop(p)
  <2>1. UNCHANGED tables /\ step'[p] = "idle"
    BY <1>1, <1>6, EndRequest
  <2> QED  BY <1>1, <2>1, TablesSame, IdleIsCurrent
<1> QED  BY <1>2, <1>3, <1>4, <1>5, <1>6 DEF Serve, CustomerStep, Begins

-----------------------------------------------------------------------------
(* Without overlap: every step                                             *)

\* All others are idle when one session takes a step.
LEMMA OthersIdle ==
    ASSUME ~Overlap, DeskInv, OneAtATime, DeskInv', OneAtATime'
    PROVE  /\ \A c \in Unloaders : Unload(c) =>
                /\ \A d \in Unloaders : d # c => phase'[d] = "idle"
                /\ \A p \in Threads : step'[p] = "idle"
           /\ \A p \in Threads : Serve(p) =>
                /\ \A c \in Unloaders : phase'[c] = "idle"
                /\ \A q \in Threads : q # p => step'[q] = "idle"
<1>1. ASSUME NEW c \in Unloaders, Unload(c)
      PROVE  /\ \A d \in Unloaders : d # c => phase'[d] = "idle"
             /\ \A p \in Threads : step'[p] = "idle"
  <2>1. OthersStay(c)
    BY <1>1, OpenKeeps, ClearKeeps, FlushKeeps, SkipKeeps, EndKeeps
       DEF Unload, UnloadStep, CommitUnload, LostUnload
  <2>2. \A d \in Unloaders : d # c => phase'[d] = phase[d]
    BY <2>1 DEF OthersStay, MyUnload
  <2>3. step' = step
    BY <1>1 DEF Unload, customerVars, reqVars
  <2>4. Quiet \/ phase[c] # "idle"
    BY <1>1 DEF Unload, MayBegin, UnloadStep, ClearShelf, Flush, SkipSupply, CommitUnload, LostUnload
  <2> QED  BY <2>2, <2>3, <2>4 DEF OneAtATime, Quiet
<1>2. ASSUME NEW p \in Threads, Serve(p)
      PROVE  /\ \A c \in Unloaders : phase'[c] = "idle"
             /\ \A q \in Threads : q # p => step'[q] = "idle"
  <2>1. phase' = phase
    BY <1>2 DEF Serve, unloadVars
  <2>2. \A q \in Threads : q # p => step'[q] = step[q]
    BY <1>2 DEF Serve, CustomerStep, AddCheck, RemoveFind, MoveFind, AddLook, AddWrite,
                RemoveWrite, MoveLock, MoveTake, MoveMerge, Answer, Drop, Begin, Leave, Goes,
                DeskInv, DeskTypeOK, CustomersTypeOK
  <2>3. Quiet \/ step[p] # "idle"
    BY <1>2 DEF Serve, MayBegin, CustomerStep, AddLook, AddWrite, RemoveWrite,
                MoveLock, MoveTake, MoveMerge, Answer, Drop
  <2> QED  BY <2>1, <2>2, <2>3 DEF OneAtATime, Quiet
<1> QED  BY <1>1, <1>2

LEMMA SerialKeeps ==
    ASSUME ~Overlap, SerialInv, [DeskNext]_vars
    PROVE  SerialInv'
<1>1. DeskInv /\ OneAtATime /\ TablesInv
      /\ (\A c \in Unloaders : Tidy(c)) /\ (\A p \in Threads : Current(p))
  BY DEF SerialInv, TablesInv
<1>2. DeskInv' /\ OneAtATime'
  BY <1>1, DeskKeeps, TurnsAreTaken
<1>3. ASSUME TablesInv', \A c \in Unloaders : Tidy(c)', \A p \in Threads : Current(p)'
      PROVE  SerialInv'
  BY <1>2, <1>3 DEF SerialInv, TablesInv
<1>4. CASE \E c \in Unloaders : Unload(c)
  <2>1. PICK c \in Unloaders : Unload(c)
    BY <1>4
  <2>2. TablesInv' /\ Tidy(c)'
    BY <2>1, UnloadKeepsTidy
  <2>3. /\ \A d \in Unloaders : d # c => phase'[d] = "idle"
        /\ \A p \in Threads : step'[p] = "idle"
    BY <1>1, <1>2, <2>1, OthersIdle
  <2>4. \A d \in Unloaders : Tidy(d)'
    BY <1>2, <2>2, <2>3, IdleIsTidy
  <2>5. \A p \in Threads : Current(p)'
    BY <2>3, IdleIsCurrent
  <2> QED  BY <1>3, <2>2, <2>4, <2>5
<1>5. CASE \E p \in Threads : Serve(p)
  <2>1. PICK p \in Threads : Serve(p)
    BY <1>5
  <2>2. TablesInv' /\ Current(p)'
    BY <2>1, ServeKeepsTables
  <2>3. /\ \A c \in Unloaders : phase'[c] = "idle"
        /\ \A q \in Threads : q # p => step'[q] = "idle"
    BY <1>1, <1>2, <2>1, OthersIdle
  <2>4. \A c \in Unloaders : Tidy(c)'
    BY <1>2, <2>2, <2>3, IdleIsTidy
  <2>5. \A q \in Threads : Current(q)'
    BY <2>2, <2>3, IdleIsCurrent
  <2> QED  BY <1>3, <2>2, <2>4, <2>5
<1>6. CASE Buy \/ VisitCart \/ Manage
  <2>1. TablesInv'
    BY <1>1, <1>6, ShopKeepsTables
  <2>2. /\ \A c \in Unloaders : phase'[c] = "idle"
        /\ \A p \in Threads : step'[p] = "idle"
    BY <1>6 DEF Buy, VisitCart, Manage, MayBegin, Quiet, unloadVars, customerVars, reqVars
  <2>3. \A c \in Unloaders : Tidy(c)'
    BY <1>2, <2>1, <2>2, IdleIsTidy
  <2>4. \A p \in Threads : Current(p)'
    BY <2>2, IdleIsCurrent
  <2> QED  BY <1>3, <2>1, <2>3, <2>4
<1>7. CASE UNCHANGED vars
  <2>1. UNCHANGED tables
    BY <1>7 DEF vars
  <2>2. TablesInv'
    BY <1>1, <2>1, TablesSame
  <2>3. \A c \in Unloaders : Tidy(c)'
    BY <1>1, <1>7 DEF vars, tables, writes, unloadVars, Tidy, RowSeen, ArrivedFor, PreorderSeen,
       OldBatches, OldBatchesOfAll, OneSupplyIn, IsListed, Exists, Waiting, PacksOf
  <2>4. \A p \in Threads : Current(p)'
    <3>1. UNCHANGED <<rows, preorders, step, wish, target, seen, shelf, give>>
      BY <1>7 DEF vars, tables, customerVars, reqVars
    <3>2. ASSUME NEW i
          PROVE  ArrivedAt(i)' = ArrivedAt(i) /\ (IsListed(i)' <=> IsListed(i))
      BY <3>1 DEF ArrivedAt, Arrived, Exists, IsListed
    <3>3. \A o : (Waiting(o)' <=> Waiting(o)) /\ (Arrived(o)' <=> Arrived(o))
      BY <3>1 DEF Waiting, Arrived, Exists
    <3> QED  BY <1>1, <3>1, <3>2, <3>3 DEF Current
  <2> QED  BY <1>3, <2>2, <2>3, <2>4
<1> QED  BY <1>4, <1>5, <1>6, <1>7 DEF DeskNext

LEMMA SerialStarts ==
    ASSUME DeskInit, Opening
    PROVE  SerialInv
<1>1. DeskInv
  BY DeskStarts
<1>2. OneAtATime
  BY DEF DeskInit, UnloadingInit, CustomersInit, OneAtATime
<1>3. \A o \in PreorderIds : ~Exists(o) /\ preorders[o] = Unused
  BY DEF DeskInit, TablesInit, Exists
<1>4. \A i \in Items : IsListed(i) => rows[i].reserved = 0
  BY DEF Opening, IsListed
<1>5. \A set \in SUBSET PreorderIds : set = {} => PacksOf(set, preorders) = 0
  BY TotalOfNone DEF PacksOf
<1>6. \A i \in Items : ArrivedAt(i) = {} /\ ArrivedAt(i) \in SUBSET PreorderIds
  BY <1>3 DEF ArrivedAt, Arrived
<1>7. ReserveHasOwners
  BY <1>4, <1>5, <1>6 DEF ReserveHasOwners
<1>8. OneSupplyOnShelf
  BY DEF Opening, OneSupplyOnShelf
<1>9. PreordersPointAtLines
  BY <1>3 DEF PreordersPointAtLines
<1>10. ASSUME NEW c \in Unloaders
       PROVE  Tidy(c)
  <2>1. /\ draft[c] = NoDraft /\ fulfilled[c] = NotMarked /\ found[c] = NothingFound
        /\ item[c] = NoDraft /\ phase[c] = "idle"
    BY DEF DeskInit, TablesInit, UnloadingInit
  <2>2. \A i \in Items : RowSeen(c, i) = rows[i]
    BY <2>1 DEF RowSeen, NoDraft
  <2>3. \A i \in Items : ArrivedFor(c, i) = {} /\ ArrivedFor(c, i) \in SUBSET PreorderIds
    BY <1>3 DEF ArrivedFor
  <2>4. \A i \in Items :
          IsListed(i) => RowSeen(c, i).reserved <= PacksOf(ArrivedFor(c, i), preorders)
    BY <1>4, <1>5, <2>2, <2>3
  <2>5. OneSupplyIn({i \in Items : IsListed(i) /\ RowSeen(c, i).active})
    BY <1>8, <2>2 DEF OneSupplyOnShelf, OneSupplyIn, IsActive
  <2>6. \A i \in Items : item[c][i] = NoRow
    BY <2>1 DEF NoDraft
  <2>7. \A o \in PreorderIds : found[c][o] = Unused /\ fulfilled[c][o] = 0
    BY <2>1 DEF NothingFound, NotMarked
  <2> QED  BY <2>1, <2>4, <2>5, <2>6, <2>7 DEF Tidy
<1>11. \A p \in Threads : Current(p)
  BY DEF DeskInit, CustomersInit, Current
<1> QED  BY <1>1, <1>2, <1>7, <1>8, <1>9, <1>10, <1>11 DEF SerialInv

\* The packs an unloading reserves are those of the preorders it fulfils, all
\* of them or as many as there are; a request that takes a preorder to the
\* cart takes off its packs before it deletes it, and dies between the two
\* without giving away a pack that another preorder owns.
THEOREM ReservesAreOwed ==
    ASSUME ~Overlap
    PROVE  DeskSpec => []ReserveHasOwners
<1>1. DeskInit /\ Opening => SerialInv
  BY SerialStarts
<1>2. SerialInv /\ [DeskNext]_vars => SerialInv'
  BY SerialKeeps
<1>3. SerialInv => ReserveHasOwners
  BY DEF SerialInv
<1> QED  BY <1>1, <1>2, <1>3, PTL DEF DeskSpec

\* An unloading clears the shelf of every other supply kept by hand before it
\* fills it, so the shelf shows one lorry at a time.
THEOREM OneLorryAtATime ==
    ASSUME ~Overlap
    PROVE  DeskSpec => []OneSupplyOnShelf
<1>1. DeskInit /\ Opening => SerialInv
  BY SerialStarts
<1>2. SerialInv /\ [DeskNext]_vars => SerialInv'
  BY SerialKeeps
<1>3. SerialInv => OneSupplyOnShelf
  BY DEF SerialInv
<1> QED  BY <1>1, <1>2, <1>3, PTL DEF DeskSpec

\* The pages that delete positions detach the preorders in the same
\* transaction, and no request or unloading brings a reference back.
THEOREM ReferencesHold ==
    ASSUME ~Overlap
    PROVE  DeskSpec => []PreordersPointAtLines
<1>1. DeskInit /\ Opening => SerialInv
  BY SerialStarts
<1>2. SerialInv /\ [DeskNext]_vars => SerialInv'
  BY SerialKeeps
<1>3. SerialInv => PreordersPointAtLines
  BY DEF SerialInv
<1> QED  BY <1>1, <1>2, <1>3, PTL DEF DeskSpec
=============================================================================
