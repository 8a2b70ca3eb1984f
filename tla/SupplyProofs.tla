---------------------------- MODULE SupplyProofs ----------------------------
(***************************************************************************)
(* What the exchange of supplies keeps, for any number of batches, goods,  *)
(* orders and preorders, with the shop going on meanwhile and messages     *)
(* however late: a reserve belongs to a preorder until one is overwritten; *)
(* and an exchange the shop did not disturb leaves nobody waiting for      *)
(* goods that lie on the shelf, offers no pack again that is sold, and     *)
(* changes nothing if it is repeated.                                      *)
(***************************************************************************)
EXTENDS SupplySync, TotalsProofs

-----------------------------------------------------------------------------
(* Sums                                                                    *)

\* What the preorders of a table keep of position k.
KeptFrom(table, k) ==
    Total([i \in PreorderIds |-> table[i].packs],
          {i \in PreorderIds : table[i].state = "ready" /\ table[i].item = k})

PreorderRow == [state : {"none", "waiting", "ready", "gone"},
                item : Keys \cup {None}, packs : Nat]

OrderRow == [state : {"none", "live", "cancelled"}, batch : Keys \cup {None},
             item : Keys \cup {None}, packs : Nat, exported : BOOLEAN]

ItemRow == [on : BOOLEAN, stock : Int, reserved : Nat, active : BOOLEAN]

LEMMA PreordersFinite == IsFiniteSet(PreorderIds)
<1>1. NPreorders \in Nat
  BY SyncAssumption
<1> QED  BY <1>1, FS_Interval DEF PreorderIds

LEMMA KeptIs ==
    ASSUME NEW k
    PROVE  KeptPacks({i \in PreorderIds : preorders[i].state = "ready" /\ preorders[i].item = k})
             = KeptFrom(preorders, k)
<1> DEFINE set == {i \in PreorderIds : preorders[i].state = "ready" /\ preorders[i].item = k}
<1>1. IsFiniteSet(set)
  BY PreordersFinite, FS_Subset
<1>2. Total([i \in set |-> preorders[i].packs], set)
        = Total([i \in PreorderIds |-> preorders[i].packs], set)
  BY <1>1, TotalOfSame
<1> QED  BY <1>2 DEF KeptPacks, KeptFrom

LEMMA KeptType ==
    ASSUME NEW t \in [PreorderIds -> PreorderRow], NEW k
    PROVE  KeptFrom(t, k) \in Nat
<1> DEFINE set == {i \in PreorderIds : t[i].state = "ready" /\ t[i].item = k}
           f == [i \in PreorderIds |-> t[i].packs]
<1>1. IsFiniteSet(set) /\ \A i \in set : f[i] \in Nat
  BY PreordersFinite, FS_Subset DEF PreorderRow
<1> QED  BY <1>1, TotalIsNat DEF KeptFrom

\* Of a position no preorder has arrived on, nothing is kept.
LEMMA KeptNone ==
    ASSUME NEW t, NEW k, \A i \in PreorderIds : ~(t[i].state = "ready" /\ t[i].item = k)
    PROVE  KeptFrom(t, k) = 0
<1>1. {i \in PreorderIds : t[i].state = "ready" /\ t[i].item = k} = {}
  OBVIOUS
<1> QED  BY <1>1, TotalOfNone DEF KeptFrom

\* Two tables with the same arrivals keep the same.
LEMMA KeptSame ==
    ASSUME NEW t, NEW u, NEW k,
           \A i \in PreorderIds :
              /\ (t[i].state = "ready" /\ t[i].item = k) <=> (u[i].state = "ready" /\ u[i].item = k)
              /\ t[i].state = "ready" /\ t[i].item = k => t[i].packs = u[i].packs
    PROVE  KeptFrom(t, k) = KeptFrom(u, k)
<1> DEFINE set == {i \in PreorderIds : t[i].state = "ready" /\ t[i].item = k}
           f == [i \in PreorderIds |-> t[i].packs]
           g == [i \in PreorderIds |-> u[i].packs]
<1>1. set = {i \in PreorderIds : u[i].state = "ready" /\ u[i].item = k}
  OBVIOUS
<1>2. \A i \in set : f[i] = g[i]
  OBVIOUS
<1>3. IsFiniteSet(set)
  BY PreordersFinite, FS_Subset
<1>4. Total(f, set) = Total(g, set)
  BY <1>2, <1>3, TotalOfSame
<1> QED  BY <1>1, <1>4 DEF KeptFrom

\* One preorder more.
LEMMA KeptMore ==
    ASSUME NEW t \in [PreorderIds -> PreorderRow], NEW u \in [PreorderIds -> PreorderRow],
           NEW k, NEW n \in PreorderIds,
           \A i \in PreorderIds \ {n} : u[i] = t[i],
           ~(t[n].state = "ready" /\ t[n].item = k), u[n].state = "ready" /\ u[n].item = k
    PROVE  KeptFrom(u, k) = KeptFrom(t, k) + u[n].packs
<1> DEFINE set == {i \in PreorderIds : t[i].state = "ready" /\ t[i].item = k}
           more == {i \in PreorderIds : u[i].state = "ready" /\ u[i].item = k}
           f == [i \in PreorderIds |-> t[i].packs]
           g == [i \in PreorderIds |-> u[i].packs]
<1>1. n \in more /\ more \ {n} = set /\ \A i \in set : f[i] = g[i]
  OBVIOUS
<1>2. IsFiniteSet(set) /\ IsFiniteSet(more)
  BY PreordersFinite, FS_Subset
<1>3. \A i \in more : g[i] \in Nat
  BY DEF PreorderRow
<1>4. Total(g, more) = g[n] + Total(g, set)
  BY <1>1, <1>2, <1>3, TotalOfMember
<1>5. Total(f, set) = Total(g, set)
  BY <1>1, <1>2, TotalOfSame
<1>6. Total(f, set) \in Nat /\ g[n] = u[n].packs /\ g[n] \in Nat
  <2>1. \A i \in set : f[i] \in Nat
    BY DEF PreorderRow
  <2> QED  BY <1>1, <1>2, <1>3, <2>1, TotalIsNat
<1> QED  BY <1>4, <1>5, <1>6 DEF KeptFrom

-----------------------------------------------------------------------------
(* The loop of fulfil_preorders                                            *)

FirstState(db) == [item |-> db.item, preorders |-> preorders]

Loops(g, db, m) ==
    g = [n \in 0..m |-> IF n = 0 THEN FirstState(db) ELSE LookAt(db, n, g[n - 1])]

LEMMA LoopsExist ==
    ASSUME NEW db, NEW m \in Nat
    PROVE  \E g : Loops(g, db, m)
<1> DEFINE Bad == {k \in Nat : ~ \E g : Loops(g, db, k)}
<1> SUFFICES ASSUME Bad # {} PROVE FALSE
  OBVIOUS
<1>1. PICK k \in Bad : \A j \in Bad : k <= j
  <2>1. Bad \in SUBSET Nat
    OBVIOUS
  <2> HIDE DEF Bad
  <2> QED  BY <2>1, LeastNatural
<1>2. CASE k = 0
  <2> DEFINE g == [n \in 0..0 |-> FirstState(db)]
  <2>1. Loops(g, db, 0)
    BY DEF Loops
  <2> QED  BY <1>1, <1>2, <2>1
<1>3. CASE k # 0
  <2>1. k - 1 \in Nat /\ k - 1 \notin Bad
    BY <1>1, <1>3
  <2>2. PICK g : Loops(g, db, k - 1)
    BY <2>1
  <2> DEFINE h == [n \in 0..k |-> IF n = 0 THEN FirstState(db) ELSE LookAt(db, n, g[n - 1])]
  <2>3. g = [n \in 0..(k - 1) |-> IF n = 0 THEN FirstState(db) ELSE LookAt(db, n, g[n - 1])]
    BY <2>2 DEF Loops
  <2>4. \A n \in 0..(k - 1) : h[n] = g[n]
    <3> SUFFICES ASSUME NEW n \in 0..(k - 1) PROVE h[n] = g[n]
      OBVIOUS
    <3>1. n \in 0..k
      BY <1>1
    <3>2. h[n] = IF n = 0 THEN FirstState(db) ELSE LookAt(db, n, g[n - 1])
      BY <3>1
    <3>3. g[n] = IF n = 0 THEN FirstState(db) ELSE LookAt(db, n, g[n - 1])
      BY <2>3
    <3> QED  BY <3>2, <3>3
  <2>5. \A n \in 0..k : n # 0 => n - 1 \in 0..(k - 1)
    BY <1>1
  <2>6. h = [n \in 0..k |-> IF n = 0 THEN FirstState(db) ELSE LookAt(db, n, h[n - 1])]
    <3> HIDE DEF h
    <3> SUFFICES ASSUME NEW n \in 0..k, n # 0
                 PROVE  LookAt(db, n, g[n - 1]) = LookAt(db, n, h[n - 1])
      BY DEF h
    <3> QED  BY <2>4, <2>5
  <2>7. Loops(h, db, k)
    BY <2>6 DEF Loops
  <2> QED  BY <1>1, <2>7
<1> QED  BY <1>2, <1>3

\* fulfil_preorders looks at one preorder after the other.
LEMMA FulfilRuns ==
    ASSUME NEW db
    PROVE  \E g : /\ Fulfil(db) = g[NPreorders]
                  /\ g[0] = FirstState(db)
                  /\ \A n \in PreorderIds : g[n] = LookAt(db, n, g[n - 1])
<1> DEFINE g == CHOOSE f : f = [n \in 0..NPreorders |->
                  IF n = 0 THEN [item |-> db.item, preorders |-> preorders]
                  ELSE LookAt(db, n, f[n - 1])]
<1>1. Fulfil(db) = g[NPreorders]
  BY DEF Fulfil
<1>2. NPreorders \in Nat
  BY SyncAssumption
<1>3. Loops(g, db, NPreorders)
  <2>1. \E f : Loops(f, db, NPreorders)
    BY <1>2, LoopsExist
  <2> QED  BY <2>1 DEF Loops, FirstState
<1> HIDE DEF g
<1>4. g[0] = FirstState(db)
  BY <1>2, <1>3 DEF Loops
<1>5. \A n \in PreorderIds : g[n] = LookAt(db, n, g[n - 1])
  BY <1>2, <1>3 DEF Loops, PreorderIds
<1> QED  BY <1>1, <1>4, <1>5

-----------------------------------------------------------------------------
(* The inductive invariant of the site                                     *)

MessageRow == [kind : {"supplies", "products"}, listed : SUBSET Batches, full : BOOLEAN,
               status : [Invoices -> {"transit", "received", "cancelled"}],
               qty : [Keys -> Nat], known : SUBSET OrderIds,
               given : SUBSET Keys, bad : SUBSET Keys,
               bare : SUBSET Batches, refused : SUBSET Batches]

SiteTypeOK ==
    /\ supply \in [Batches -> {"none", "transit", "arrived"}]
    /\ supply[Service] = "arrived"
    /\ item \in [Keys -> ItemRow]
    /\ orders \in [OrderIds -> OrderRow]
    /\ preorders \in [PreorderIds -> PreorderRow]
    /\ counted = None \/ counted \in [Keys -> Nat]
    /\ counted = None => draft = None
    /\ lost \in BOOLEAN
    /\ posted \in [Invoices -> {"transit", "received", "cancelled"}]
    /\ books \in [Keys -> Int]
    /\ documents \subseteq OrderIds /\ dropped \subseteq OrderIds
    /\ counted # None => message # None
    /\ message # None =>
         message \in MessageRow /\ (message.kind = "supplies" => message.listed \subseteq Invoices)

\* A position that is not in the table has nothing; one that an order or a
\* preorder points to is in the table.
OffIsAbsent(table) == \A k \in Keys : table[k].on \/ table[k] = Absent

PointedIsOn == \A k \in Keys : Referenced(k) => item[k].on

\* Only goods of an invoice are waited for, as long as it has not been deleted.
WaitingIsAhead ==
    \A i \in PreorderIds :
        preorders[i].state = "waiting" /\ preorders[i].item # None =>
            preorders[i].item \in Invoices \X Products

AllKept == ~lost => \A k \in Keys : item[k].reserved = KeptFrom(preorders, k)

SiteInv == SiteTypeOK /\ OffIsAbsent(item) /\ PointedIsOn /\ WaitingIsAhead /\ AllKept

-----------------------------------------------------------------------------
(* One turn of the loop                                                    *)

\* What holds of rows and preorders in the middle of the loop, when the
\* tables were db and the first n preorders have been looked at.  gone are
\* the positions of deleted supplies.
Midway(db, gone, n, now) ==
    /\ now.item \in [Keys -> ItemRow]
    /\ \A k \in Keys : /\ now.item[k].on = db.item[k].on
                       /\ now.item[k].stock = db.item[k].stock
                       /\ now.item[k].active = db.item[k].active
                       /\ now.item[k].reserved >= db.item[k].reserved
    /\ \A k \in Keys : ~Sells(db.item, k) => now.item[k] = db.item[k]
    /\ \A k \in gone : now.item[k] = Absent
    /\ now.preorders \in [PreorderIds -> PreorderRow]
    /\ \A i \in PreorderIds :
         \/ now.preorders[i] = preorders[i]
         \/ /\ preorders[i].state = "waiting" /\ now.preorders[i].state = "ready" /\ i <= n
            /\ now.preorders[i].item \in Keys /\ now.preorders[i].item[2] = preorders[i].item[2]
            /\ Sells(db.item, now.preorders[i].item)
    /\ ~lost => \A k \in Keys \ gone : now.item[k].reserved = KeptFrom(now.preorders, k)
    /\ \A i \in PreorderIds :
         /\ i <= n /\ now.preorders[i].state = "waiting" /\ preorders[i].item # None
         /\ db.supply[preorders[i].item[1]] = "arrived"
         => /\ ~Sells(now.item, preorders[i].item)
            /\ ~Sells(now.item, <<Service, preorders[i].item[2]>>)

LEMMA AvailIs == ASSUME NEW r \in ItemRow PROVE Avail(r) \in Nat
  BY DEF ItemRow, Avail

\* Who reserves puts nothing on sale.
LEMMA ReservingSellsLess ==
    ASSUME NEW old \in ItemRow, NEW new \in ItemRow, new.stock = old.stock,
           new.active = old.active, new.reserved >= old.reserved,
           new.active /\ Avail(new) > 0
    PROVE  old.active /\ Avail(old) > 0
  BY DEF ItemRow, Avail

\* What becomes of one preorder: it is passed over, or it takes packs of a
\* position on sale.
Passes(db, n, now) ==
    /\ LookAt(db, n, now) = now
    /\ \/ preorders[n].state # "waiting" \/ preorders[n].item = None
       \/ db.supply[preorders[n].item[1]] # "arrived"
       \/ /\ ~Sells(now.item, preorders[n].item)
          /\ ~Sells(now.item, <<Service, preorders[n].item[2]>>)

TakesFrom(db, n, now) ==
    /\ preorders[n].state = "waiting"
    /\ \E k \in Keys, take \in Nat :
         /\ k[2] = preorders[n].item[2] /\ Sells(now.item, k)
         /\ LookAt(db, n, now) =
              [item |-> [now.item EXCEPT ![k].reserved = @ + take],
               preorders |-> [now.preorders EXCEPT ![n] = Fulfilled(n, k, take)]]

LEMMA LookAtIs ==
    ASSUME NEW db, NEW n \in PreorderIds, NEW now, preorders \in [PreorderIds -> PreorderRow],
           WaitingIsAhead, now.item \in [Keys -> ItemRow]
    PROVE  Passes(db, n, now) \/ TakesFrom(db, n, now)
<1> DEFINE p == preorders[n]
           from == IF /\ p.state = "waiting" /\ p.item # None
                      /\ p.item[1] \in Invoices
                      /\ db.supply[p.item[1]] = "arrived"
                   THEN Sources(now.item, p.item) ELSE {}
           Take(k) == IF p.packs < Avail(now.item[k]) THEN p.packs ELSE Avail(now.item[k])
<1>1. p \in PreorderRow
      /\ (p.state = "waiting" /\ p.item # None => p.item \in Invoices \X Products)
  BY DEF WaitingIsAhead
<1>2. CASE from = {}
  <2>1. LookAt(db, n, now) = now
    BY <1>2 DEF LookAt
  <2>2. ASSUME p.state = "waiting", p.item # None, db.supply[p.item[1]] = "arrived"
        PROVE  ~Sells(now.item, p.item) /\ ~Sells(now.item, <<Service, p.item[2]>>)
    <3>1. Sources(now.item, p.item) = {}
      BY <1>1, <1>2, <2>2
    <3> QED  BY <3>1 DEF Sources
  <2> QED  BY <2>1, <2>2 DEF Passes
<1>3. CASE from # {}
  <2> DEFINE k == CHOOSE k \in from : TRUE
  <2>1. LookAt(db, n, now) =
          [item |-> [now.item EXCEPT ![k].reserved = @ + Take(k)],
           preorders |-> [now.preorders EXCEPT ![n] = Fulfilled(n, k, Take(k))]]
    BY <1>3 DEF LookAt
  <2>2. p.state = "waiting" /\ p.item \in Invoices \X Products /\ k \in Sources(now.item, p.item)
    BY <1>1, <1>3
  <2> HIDE DEF k
  <2>3. Sells(now.item, k) /\ (k = p.item \/ k = <<Service, p.item[2]>>)
    BY <2>2 DEF Sources
  <2>4. k \in Keys /\ k[2] = p.item[2]
    BY <2>2, <2>3 DEF Keys, Batches
  <2>5. Take(k) \in Nat
    BY <1>1, <2>4, AvailIs DEF PreorderRow
  <2> QED  BY <2>1, <2>2, <2>3, <2>4, <2>5 DEF TakesFrom
<1> QED  BY <1>2, <1>3

LEMMA TurnKeeps ==
    ASSUME NEW db, NEW gone \in SUBSET Keys, db.item \in [Keys -> ItemRow],
           preorders \in [PreorderIds -> PreorderRow], WaitingIsAhead,
           NEW n \in PreorderIds, NEW now, Midway(db, gone, n - 1, now)
    PROVE  Midway(db, gone, n, LookAt(db, n, now))
<1>1. n \in Nat /\ \A i \in PreorderIds : i \in Nat /\ (i <= n <=> i <= n - 1 \/ i = n)
  BY DEF PreorderIds
<1>2. now.item \in [Keys -> ItemRow] /\ now.preorders \in [PreorderIds -> PreorderRow]
  BY DEF Midway
<1>3. now.preorders[n] = preorders[n]
  BY <1>1 DEF Midway
<1>4. CASE Passes(db, n, now)
  BY <1>1, <1>3, <1>4 DEF Midway, Passes
<1>5. CASE TakesFrom(db, n, now)
  <2>1. PICK k \in Keys, take \in Nat :
          /\ k[2] = preorders[n].item[2] /\ Sells(now.item, k)
          /\ LookAt(db, n, now) =
               [item |-> [now.item EXCEPT ![k].reserved = @ + take],
                preorders |-> [now.preorders EXCEPT ![n] = Fulfilled(n, k, take)]]
    BY <1>5 DEF TakesFrom
  <2> DEFINE row == [now.item[k] EXCEPT !.reserved = @ + take]
             new == Fulfilled(n, k, take)
             later == LookAt(db, n, now)
  <2>2. /\ row \in ItemRow /\ row.on = now.item[k].on /\ row.stock = now.item[k].stock
        /\ row.active = now.item[k].active /\ row.reserved = now.item[k].reserved + take
    BY <1>2 DEF ItemRow
  <2>3. /\ new \in PreorderRow /\ new.state = "ready" /\ new.item = k /\ new.packs = take
    BY <1>2, <1>3 DEF PreorderRow, Fulfilled
  <2>4. /\ later.item = [now.item EXCEPT ![k] = row]
        /\ later.preorders = [now.preorders EXCEPT ![n] = new]
    BY <2>1
  <2> HIDE DEF row, new, later
  <2>5. /\ later.item[k] = row /\ \A j \in Keys \ {k} : later.item[j] = now.item[j]
        /\ later.preorders[n] = new
        /\ \A i \in PreorderIds \ {n} : later.preorders[i] = now.preorders[i]
        /\ later.item \in [Keys -> ItemRow]
        /\ later.preorders \in [PreorderIds -> PreorderRow]
    BY <1>2, <2>2, <2>3, <2>4
  <2>6. \A j \in Keys : /\ later.item[j].on = now.item[j].on
                        /\ later.item[j].stock = now.item[j].stock
                        /\ later.item[j].active = now.item[j].active
                        /\ later.item[j].reserved >= now.item[j].reserved
    BY <1>2, <2>2, <2>5 DEF ItemRow
  <2>7. \A j \in Keys : Sells(later.item, j) => Sells(now.item, j)
    BY <1>2, <2>5, <2>6, ReservingSellsLess DEF Sells
  <2>8. \A j \in Keys : Sells(now.item, j) => Sells(db.item, j)
    BY <1>2, ReservingSellsLess DEF Sells, Midway
  <2>9. k \notin gone
    BY <2>1 DEF Sells, Absent, Midway
  <2>10. ~lost => \A j \in Keys \ gone : later.item[j].reserved = KeptFrom(later.preorders, j)
    <3> SUFFICES ASSUME ~lost, NEW j \in Keys \ gone
                 PROVE  later.item[j].reserved = KeptFrom(later.preorders, j)
      OBVIOUS
    <3>1. now.item[j].reserved = KeptFrom(now.preorders, j)
      BY DEF Midway
    <3>2. now.preorders[n].state = "waiting"
      BY <1>3, <1>5 DEF TakesFrom
    <3>3. CASE j = k
      BY <1>2, <2>2, <2>3, <2>5, <3>1, <3>2, <3>3, KeptMore
    <3>4. CASE j # k
      BY <2>3, <2>5, <3>1, <3>2, <3>4, KeptSame
    <3> QED  BY <3>3, <3>4
  <2>11. \A i \in PreorderIds :
           \/ later.preorders[i] = preorders[i]
           \/ /\ preorders[i].state = "waiting" /\ later.preorders[i].state = "ready" /\ i <= n
              /\ later.preorders[i].item \in Keys
              /\ later.preorders[i].item[2] = preorders[i].item[2]
              /\ Sells(db.item, later.preorders[i].item)
    BY <1>1, <1>5, <2>1, <2>3, <2>5, <2>8 DEF Midway, TakesFrom
  <2>12. \A i \in PreorderIds :
           /\ i <= n /\ later.preorders[i].state = "waiting" /\ preorders[i].item # None
           /\ db.supply[preorders[i].item[1]] = "arrived"
           => /\ ~Sells(later.item, preorders[i].item)
              /\ ~Sells(later.item, <<Service, preorders[i].item[2]>>)
    <3> SUFFICES ASSUME NEW i \in PreorderIds, i <= n, later.preorders[i].state = "waiting",
                        preorders[i].item # None, db.supply[preorders[i].item[1]] = "arrived"
                 PROVE  /\ ~Sells(later.item, preorders[i].item)
                        /\ ~Sells(later.item, <<Service, preorders[i].item[2]>>)
      OBVIOUS
    <3>1. i # n /\ i <= n - 1 /\ now.preorders[i].state = "waiting"
      BY <1>1, <2>3, <2>5
    <3>2. /\ ~Sells(now.item, preorders[i].item)
          /\ ~Sells(now.item, <<Service, preorders[i].item[2]>>)
      BY <3>1 DEF Midway
    <3>3. preorders[i].state = "waiting"
      BY <3>1 DEF Midway
    <3>4. preorders[i].item \in Keys /\ <<Service, preorders[i].item[2]>> \in Keys
      BY <3>3 DEF WaitingIsAhead, Keys, Batches
    <3> QED  BY <2>7, <3>2, <3>4
  <2>13. \A j \in gone : later.item[j] = Absent
    BY <2>5, <2>9 DEF Midway
  <2>14. \A j \in Keys : /\ later.item[j].on = db.item[j].on
                         /\ later.item[j].stock = db.item[j].stock
                         /\ later.item[j].active = db.item[j].active
                         /\ later.item[j].reserved >= db.item[j].reserved
    BY <1>2, <2>5, <2>6 DEF Midway, ItemRow
  <2>15. \A j \in Keys : ~Sells(db.item, j) => later.item[j] = db.item[j]
    BY <2>1, <2>5, <2>8 DEF Midway
  <2> QED  BY <2>5, <2>10, <2>11, <2>12, <2>13, <2>14, <2>15 DEF Midway, later
<1>6. Passes(db, n, now) \/ TakesFrom(db, n, now)
  BY <1>2, LookAtIs
<1> QED  BY <1>4, <1>5, <1>6

-----------------------------------------------------------------------------
(* The whole loop, and what apply_supplies makes of the tables before it   *)

LEMMA LoopKeeps ==
    ASSUME NEW db, NEW gone \in SUBSET Keys, preorders \in [PreorderIds -> PreorderRow],
           WaitingIsAhead, db.item \in [Keys -> ItemRow],
           \A k \in gone : db.item[k] = Absent,
           ~lost => \A k \in Keys \ gone : db.item[k].reserved = KeptFrom(preorders, k)
    PROVE  Midway(db, gone, NPreorders, Fulfil(db))
<1>1. PICK g : /\ Fulfil(db) = g[NPreorders] /\ g[0] = FirstState(db)
               /\ \A n \in PreorderIds : g[n] = LookAt(db, n, g[n - 1])
  BY FulfilRuns
<1>2. NPreorders \in Nat
  BY SyncAssumption
<1> DEFINE Bad == {n \in 0..NPreorders : ~Midway(db, gone, n, g[n])}
<1> SUFFICES ASSUME Bad # {} PROVE FALSE
  BY <1>1, <1>2
<1>3. PICK n \in Bad : \A j \in Bad : n <= j
  <2>1. Bad \in SUBSET Nat
    BY <1>2
  <2> HIDE DEF Bad
  <2> QED  BY <2>1, LeastNatural
<1>4. CASE n = 0
  <2>1. g[0].item = db.item /\ g[0].preorders = preorders
    BY <1>1 DEF FirstState
  <2>2. \A k \in Keys : db.item[k].reserved \in Nat
    BY DEF ItemRow
  <2>3. \A i \in PreorderIds : ~(i <= 0)
    BY DEF PreorderIds
  <2> DEFINE now == g[0]
  <2>4. now.item = db.item /\ now.preorders = preorders
    BY <2>1
  <2> HIDE DEF now
  <2>5. \A k \in Keys : now.item[k].reserved >= db.item[k].reserved
    BY <2>2, <2>4
  <2>6. Midway(db, gone, 0, now)
    BY <2>3, <2>4, <2>5 DEF Midway
  <2> QED  BY <1>3, <1>4, <2>6 DEF now
<1>5. CASE n # 0
  <2>1. n \in PreorderIds /\ n - 1 \in 0..NPreorders /\ n - 1 \notin Bad
    BY <1>2, <1>3, <1>5 DEF PreorderIds
  <2>2. Midway(db, gone, n - 1, g[n - 1])
    BY <2>1
  <2>3. Midway(db, gone, n, LookAt(db, n, g[n - 1]))
    BY <2>1, <2>2, TurnKeeps
  <2>4. g[n] = LookAt(db, n, g[n - 1])
    BY <1>1, <2>1
  <2> QED  BY <1>3, <2>3, <2>4
<1> QED  BY <1>4, <1>5

\* The positions of the supplies a message deletes.
Gone(m) == {k \in Keys : k[1] \in Invoices /\ Deleted(m, k[1])}

\* A row that is rewritten keeps its reserve, and stays if it is pointed to.
Rewritten(k, row) ==
    /\ row \in ItemRow /\ (row.on \/ row = Absent)
    /\ ~lost => row.reserved = item[k].reserved
    /\ Referenced(k) => row.on

LEMMA KeysAre ==
    ASSUME NEW k \in Keys
    PROVE  k[1] \in Batches /\ (k[1] # Service => k[1] \in Invoices) /\ k[2] \in Products
           /\ k = <<k[1], k[2]>>
  BY DEF Keys, Batches

LEMMA UnpointedKeepsNothing ==
    ASSUME SiteInv, ~lost, NEW k \in Keys, ~Referenced(k)
    PROVE  item[k].reserved = 0
<1>1. KeptFrom(preorders, k) = 0
  BY KeptNone DEF Referenced
<1> QED  BY <1>1 DEF SiteInv, AllKept

\* The ways a row is rewritten.
Laid(r, a) == [r EXCEPT !.active = a]
Stocked(r, n, a) == [r EXCEPT !.stock = n, !.active = a]
Entered(r, n, a) == [r EXCEPT !.on = TRUE, !.stock = n, !.active = a]

LEMMA SameRow ==
    ASSUME NEW x \in ItemRow, NEW y \in ItemRow, x.on = y.on, x.stock = y.stock,
           x.reserved = y.reserved, x.active = y.active
    PROVE  x = y
  BY DEF ItemRow

LEMMA LaidIs ==
    ASSUME NEW r \in ItemRow, NEW a \in BOOLEAN
    PROVE  /\ Laid(r, a) \in ItemRow /\ Laid(r, a).on = r.on /\ Laid(r, a).stock = r.stock
           /\ Laid(r, a).reserved = r.reserved /\ Laid(r, a).active = a
           /\ r = Absent /\ ~a => Laid(r, a) = Absent
<1>1. ~a => a = FALSE
  OBVIOUS
<1>3. /\ Laid(r, a) \in ItemRow /\ Laid(r, a).on = r.on /\ Laid(r, a).stock = r.stock
      /\ Laid(r, a).reserved = r.reserved /\ Laid(r, a).active = a
  BY DEF Laid, ItemRow
<1>4. r = Absent => r.stock = 0 /\ r.active = FALSE
  BY DEF Absent
<1> QED  BY <1>1, <1>3, <1>4, SameRow

LEMMA StockedIs ==
    ASSUME NEW r \in ItemRow, NEW n \in Int, NEW a \in BOOLEAN
    PROVE  /\ Stocked(r, n, a) \in ItemRow /\ Stocked(r, n, a).on = r.on
           /\ Stocked(r, n, a).stock = n
           /\ Stocked(r, n, a).reserved = r.reserved /\ Stocked(r, n, a).active = a
           /\ r = Absent /\ ~a /\ n = 0 => Stocked(r, n, a) = Absent
<1>1. ~a => a = FALSE
  OBVIOUS
<1>3. /\ Stocked(r, n, a) \in ItemRow /\ Stocked(r, n, a).on = r.on
      /\ Stocked(r, n, a).stock = n
      /\ Stocked(r, n, a).reserved = r.reserved /\ Stocked(r, n, a).active = a
  BY DEF Stocked, ItemRow
<1>4. r = Absent => r.stock = 0 /\ r.active = FALSE
  BY DEF Absent
<1> QED  BY <1>1, <1>3, <1>4, SameRow

LEMMA EnteredIs ==
    ASSUME NEW r \in ItemRow, NEW n \in Int, NEW a \in BOOLEAN
    PROVE  /\ Entered(r, n, a) \in ItemRow /\ Entered(r, n, a).on
           /\ Entered(r, n, a).stock = n
           /\ Entered(r, n, a).reserved = r.reserved /\ Entered(r, n, a).active = a
  BY DEF Entered, ItemRow

LEMMA LinesRewrite ==
    ASSUME SiteInv, message # None, counted # None, NEW k \in Keys
    PROVE  Rewritten(k, AfterLines(message, k))
<1> DEFINE m == message
           row == item[k]
           shelf == m.status[k[1]] = "received"
           stock == IF shelf /\ row.on THEN Less(m.qty[k], k) ELSE m.qty[k]
           given == k \in m.given /\ (m.qty[k] > 0 \/ shelf)
<1>1. row \in ItemRow /\ (row.on \/ row = Absent) /\ (Referenced(k) => row.on)
  BY DEF SiteInv, SiteTypeOK, OffIsAbsent, PointedIsOn
<1>2. stock \in Int
  <2>1. m.qty[k] \in Int /\ counted[k] \in Nat
    BY DEF SiteInv, SiteTypeOK, MessageRow
  <2> QED  BY <2>1 DEF Less
<1>3. CASE k \in m.bad
  <2>1. AfterLines(m, k) = row
    BY <1>3 DEF AfterLines
  <2> QED  BY <1>1, <2>1 DEF Rewritten
<1>4. CASE k \notin m.bad /\ given /\ (row.on \/ stock > 0)
  <2> DEFINE live == shelf /\ stock > 0
             new == Entered(row, stock, live)
  <2>1. AfterLines(m, k) = new
    BY <1>4 DEF AfterLines, Entered
  <2>2. live \in BOOLEAN
    OBVIOUS
  <2> HIDE DEF stock, live
  <2>3. new \in ItemRow /\ new.on /\ new.reserved = row.reserved
    BY <1>1, <1>2, <2>2, EnteredIs
  <2> QED  BY <2>1, <2>3 DEF Rewritten
<1>5. CASE k \notin m.bad /\ ~given /\ row.on /\ Referenced(k)
  <2> DEFINE new == Stocked(row, 0, FALSE)
  <2>1. AfterLines(m, k) = new
    BY <1>5 DEF AfterLines, Stocked
  <2>2. FALSE \in BOOLEAN /\ 0 \in Int
    OBVIOUS
  <2>3. new \in ItemRow /\ new.on = row.on /\ new.reserved = row.reserved
    BY <1>1, <2>2, StockedIs
  <2> QED  BY <1>5, <2>1, <2>3 DEF Rewritten
<1>6. CASE /\ k \notin m.bad /\ ~(given /\ (row.on \/ stock > 0))
           /\ ~(~given /\ row.on /\ Referenced(k))
  <2>1. AfterLines(m, k) = Absent
    BY <1>6 DEF AfterLines
  <2>2. ~Referenced(k)
    BY <1>1, <1>6
  <2>3. ~lost => row.reserved = 0
    BY <2>2, UnpointedKeepsNothing
  <2> QED  BY <2>1, <2>2, <2>3 DEF Rewritten, Absent, ItemRow
<1> QED  BY <1>3, <1>4, <1>5, <1>6

LEMMA InvoiceRewrites ==
    ASSUME SiteInv, message # None, counted # None, NEW k \in Keys, k[1] \in Invoices
    PROVE  IF Deleted(message, k[1]) THEN AfterInvoice(message, k) = Absent
           ELSE Rewritten(k, AfterInvoice(message, k))
<1> DEFINE m == message
           s == k[1]
           row == item[k]
<1>1. row \in ItemRow /\ (row.on \/ row = Absent) /\ (Referenced(k) => row.on)
  BY DEF SiteInv, SiteTypeOK, OffIsAbsent, PointedIsOn
<1>2. CASE s \notin Accepted(m)
  BY <1>1, <1>2 DEF AfterInvoice, Deleted, Rewritten
<1>3. CASE s \in Accepted(m) /\ m.status[s] # "cancelled" /\ s \in m.bare
  <2> DEFINE live == m.status[s] = "received" /\ Avail(row) > 0
             new == Laid(row, live)
  <2>1. AfterInvoice(m, k) = new /\ ~Deleted(m, s)
    BY <1>3 DEF AfterInvoice, AfterBare, Deleted, Laid
  <2>2. live \in BOOLEAN /\ (row = Absent => ~live)
    BY DEF Avail, Absent
  <2> HIDE DEF live
  <2>3. new \in ItemRow /\ new.on = row.on /\ new.reserved = row.reserved
    BY <1>1, <2>2, LaidIs
  <2>4. row = Absent => new = Absent
    BY <1>1, <2>2, LaidIs
  <2> HIDE DEF new
  <2> QED  BY <1>1, <2>1, <2>3, <2>4 DEF Rewritten
<1>4. CASE s \in Accepted(m) /\ m.status[s] # "cancelled" /\ s \notin m.bare
  <2>1. AfterInvoice(m, k) = AfterLines(m, k) /\ ~Deleted(m, s)
    BY <1>4 DEF AfterInvoice, Deleted
  <2> QED  BY <2>1, LinesRewrite
<1>5. CASE s \in Accepted(m) /\ m.status[s] = "cancelled"
  <2>1. CASE Deleted(m, s)
    BY <1>5, <2>1 DEF AfterInvoice
  <2>2. CASE ~Deleted(m, s)
    <3> DEFINE new == Stocked(row, 0, FALSE)
    <3>1. AfterInvoice(m, k) = new
      BY <1>5, <2>2 DEF AfterInvoice, Stocked
    <3>4. FALSE \in BOOLEAN /\ 0 \in Int
      OBVIOUS
    <3>2. new \in ItemRow /\ new.on = row.on /\ new.reserved = row.reserved
      BY <1>1, <3>4, StockedIs
    <3>3. row = Absent => new = Absent
      BY <1>1, <3>4, StockedIs
    <3> HIDE DEF new
    <3> QED  BY <1>1, <2>2, <3>1, <3>2, <3>3 DEF Rewritten
  <2> QED  BY <2>1, <2>2
<1> QED  BY <1>2, <1>3, <1>4, <1>5

\* What the tables are when the loop over the invoices is done.
LEMMA ListedIs ==
    ASSUME SiteInv, message # None, message.kind = "supplies", counted # None
    PROVE  /\ Listed(message).supply \in [Batches -> {"none", "transit", "arrived"}]
           /\ Listed(message).supply[Service] = "arrived"
           /\ Listed(message).item \in [Keys -> ItemRow]
           /\ \A k \in Gone(message) : Listed(message).item[k] = Absent
           /\ \A k \in Keys \ Gone(message) : Rewritten(k, Listed(message).item[k])
<1> DEFINE m == message
           db == Listed(m)
<1>1. \A s \in Batches : db.supply[s] \in {"none", "transit", "arrived"}
  <2> SUFFICES ASSUME NEW s \in Batches PROVE db.supply[s] \in {"none", "transit", "arrived"}
    OBVIOUS
  <2>1. supply[s] \in {"none", "transit", "arrived"}
    BY DEF SiteInv, SiteTypeOK
  <2>2. SupplyAfter(m, s) \in {"none", "transit", "arrived"}
    BY <2>1 DEF SupplyAfter
  <2> QED  BY <2>2 DEF Listed
<1>2. db.supply = [s \in Batches |-> db.supply[s]] /\ Service \in Batches
  BY DEF Listed, Batches
<1>3. db.supply[Service] = "arrived"
  BY <1>2 DEF Listed
<1>4. ASSUME NEW k \in Keys
      PROVE  IF k \in Gone(m) THEN db.item[k] = Absent ELSE Rewritten(k, db.item[k])
  <2>1. item[k] \in ItemRow /\ (item[k].on \/ item[k] = Absent) /\ (Referenced(k) => item[k].on)
    BY DEF SiteInv, SiteTypeOK, OffIsAbsent, PointedIsOn
  <2>2. CASE k[1] = Service
    <3>1. k \notin Gone(m) /\ db.item[k] = item[k]
      BY <2>2, SyncAssumption DEF Gone, Listed
    <3> QED  BY <2>1, <3>1 DEF Rewritten
  <2>3. CASE k[1] # Service /\ Closed(m, k[1])
    <3> DEFINE new == Laid(item[k], FALSE)
    <3>1. k \notin Gone(m) /\ db.item[k] = new
      BY <2>3 DEF Gone, Listed, Closed, Deleted, Laid
    <3>4. FALSE \in BOOLEAN /\ 0 \in Int
      OBVIOUS
    <3>2. new \in ItemRow /\ new.on = item[k].on /\ new.reserved = item[k].reserved
      BY <2>1, <3>4, LaidIs
    <3>3. item[k] = Absent => new = Absent
      BY <2>1, <3>4, LaidIs
    <3> HIDE DEF new
    <3> QED  BY <2>1, <3>1, <3>2, <3>3 DEF Rewritten
  <2>4. CASE k[1] # Service /\ ~Closed(m, k[1])
    <3>1. k[1] \in Invoices /\ db.item[k] = AfterInvoice(m, k)
      BY <2>4, KeysAre DEF Listed
    <3>2. k \in Gone(m) <=> Deleted(m, k[1])
      BY <3>1 DEF Gone
    <3> QED  BY <3>1, <3>2, InvoiceRewrites
  <2> QED  BY <2>2, <2>3, <2>4
<1>5. \A k \in Keys : db.item[k] \in ItemRow
  <2>1. Absent \in ItemRow
    BY DEF Absent, ItemRow
  <2> QED  BY <1>4, <2>1 DEF Rewritten
<1>6. db.item = [k \in Keys |-> db.item[k]]
  BY DEF Listed
<1>7. Gone(m) \subseteq Keys
  BY DEF Gone
<1> HIDE DEF db
<1> QED  BY <1>1, <1>2, <1>3, <1>4, <1>5, <1>6, <1>7 DEF db

LEMMA LoopIsRun ==
    ASSUME SiteInv, message # None, message.kind = "supplies", counted # None
    PROVE  Midway(Listed(message), Gone(message), NPreorders, Fulfil(Listed(message)))
<1>1. Gone(message) \in SUBSET Keys
  BY DEF Gone
<1>2. preorders \in [PreorderIds -> PreorderRow] /\ WaitingIsAhead
  BY DEF SiteInv, SiteTypeOK
<1>3. ~lost => \A k \in Keys \ Gone(message) :
                 Listed(message).item[k].reserved = KeptFrom(preorders, k)
  BY ListedIs DEF Rewritten, SiteInv, AllKept
<1> QED  BY <1>1, <1>2, <1>3, ListedIs, LoopKeeps

LEMMA NoneIsApart == None \notin Keys /\ \A k \in Keys : None # k
  BY SyncAssumption

-----------------------------------------------------------------------------
(* What an exchange has read, and what it makes of that                    *)

\* The positions of supplies that go.
Off(gone) == {k \in Keys : k[1] \in gone}

\* Deleting supplies empties the positions of what pointed to them.
LEMMA UnhookedPreorder ==
    ASSUME NEW x \in PreorderRow
    PROVE  /\ Unhooked(x) \in PreorderRow
           /\ Unhooked(x).state = x.state /\ Unhooked(x).packs = x.packs
           /\ Unhooked(x).item = IF x.item \in Off(draft.new.gone) THEN None ELSE x.item
           /\ x.item \notin Off(draft.new.gone) => Unhooked(x) = x
<1>1. (x.item # None /\ x.item[1] \in draft.new.gone) <=> x.item \in Off(draft.new.gone)
  BY NoneIsApart DEF PreorderRow, Off
<1>2. CASE x.item \in Off(draft.new.gone)
  <2>1. Unhooked(x) = [x EXCEPT !.item = None]
    BY <1>1, <1>2 DEF Unhooked
  <2> QED  BY <1>2, <2>1 DEF PreorderRow
<1>3. CASE x.item \notin Off(draft.new.gone)
  BY <1>1, <1>3 DEF Unhooked
<1> QED  BY <1>2, <1>3

LEMMA UnhookedOrder ==
    ASSUME NEW x \in OrderRow
    PROVE  /\ Unhooked(x) \in OrderRow
           /\ Unhooked(x).state = x.state /\ Unhooked(x).packs = x.packs
           /\ Unhooked(x).batch = x.batch /\ Unhooked(x).exported = x.exported
           /\ Unhooked(x).item = IF x.item \in Off(draft.new.gone) THEN None ELSE x.item
<1>1. (x.item # None /\ x.item[1] \in draft.new.gone) <=> x.item \in Off(draft.new.gone)
  BY NoneIsApart DEF OrderRow, Off
<1>2. CASE x.item \in Off(draft.new.gone)
  <2>1. Unhooked(x) = [x EXCEPT !.item = None]
    BY <1>1, <1>2 DEF Unhooked
  <2> QED  BY <1>2, <2>1 DEF OrderRow
<1>3. CASE x.item \notin Off(draft.new.gone)
  BY <1>1, <1>3 DEF Unhooked
<1> QED  BY <1>2, <1>3

Tables == [supply |-> supply, item |-> item, preorders |-> preorders]

\* The tables as they were loaded, and as they are to be written.
Sound(old, new) ==
    /\ old.item \in [Keys -> ItemRow] /\ new.item \in [Keys -> ItemRow]
    /\ old.preorders \in [PreorderIds -> PreorderRow]
    /\ new.preorders \in [PreorderIds -> PreorderRow]
    /\ new.supply \in [Batches -> {"none", "transit", "arrived"}]
    /\ new.supply[Service] = "arrived"
    /\ OffIsAbsent(old.item) /\ OffIsAbsent(new.item)
    /\ \A k \in Off(new.gone) : ~new.item[k].on
    /\ \A i \in PreorderIds :
         \/ new.preorders[i] = old.preorders[i]
         \/ /\ new.preorders[i].state = "ready" /\ new.preorders[i].item \in Keys
            /\ new.item[new.preorders[i].item].on
    /\ ~lost => \A k \in Keys : new.item[k].on =>
         new.item[k].reserved + KeptFrom(old.preorders, k)
           = old.item[k].reserved + KeptFrom(new.preorders, k)

LEMMA GoneIsOff == ASSUME NEW m PROVE Off({s \in Invoices : Deleted(m, s)}) = Gone(m)
  BY DEF Off, Gone

LEMMA SuppliedIs ==
    ASSUME SiteInv, message # None, message.kind = "supplies", counted # None
    PROVE  Sound(Tables, Supplied(message))
<1> DEFINE m == message
           db == Listed(m)
           now == Fulfil(db)
           gone == Gone(m)
           old == Tables
           new == Supplied(m)
<1>1. Midway(db, gone, NPreorders, now)
  BY LoopIsRun
<1>2. /\ db.supply \in [Batches -> {"none", "transit", "arrived"}]
      /\ db.supply[Service] = "arrived"
      /\ db.item \in [Keys -> ItemRow]
      /\ \A k \in gone : db.item[k] = Absent
      /\ \A k \in Keys \ gone : Rewritten(k, db.item[k])
  BY ListedIs
<1>3. /\ new.supply = db.supply /\ new.item = now.item /\ new.preorders = now.preorders
      /\ Off(new.gone) = gone
      /\ old.item = item /\ old.preorders = preorders
  BY GoneIsOff DEF Supplied, Tables
<1>4. /\ item \in [Keys -> ItemRow] /\ preorders \in [PreorderIds -> PreorderRow]
      /\ OffIsAbsent(item) /\ AllKept
  BY DEF SiteInv, SiteTypeOK
<1> HIDE DEF db, now, gone, old, new
<1>5. now.item \in [Keys -> ItemRow] /\ now.preorders \in [PreorderIds -> PreorderRow]
  BY <1>1 DEF Midway
<1>6. \A k \in gone : ~now.item[k].on
  BY <1>1 DEF Midway, Absent
<1>7. OffIsAbsent(now.item)
  <2> SUFFICES ASSUME NEW k \in Keys, ~now.item[k].on PROVE now.item[k] = Absent
    BY DEF OffIsAbsent
  <2>1. db.item[k] = Absent
    <3>1. ~db.item[k].on
      BY <1>1 DEF Midway
    <3> QED  BY <1>2, <3>1 DEF Rewritten
  <2>2. ~Sells(db.item, k)
    BY <2>1 DEF Sells, Absent
  <2> QED  BY <1>1, <2>1, <2>2 DEF Midway
<1>8. \A i \in PreorderIds :
         \/ now.preorders[i] = preorders[i]
         \/ /\ now.preorders[i].state = "ready" /\ now.preorders[i].item \in Keys
            /\ now.item[now.preorders[i].item].on
  <2> SUFFICES ASSUME NEW i \in PreorderIds, now.preorders[i] # preorders[i]
               PROVE  /\ now.preorders[i].state = "ready" /\ now.preorders[i].item \in Keys
                      /\ now.item[now.preorders[i].item].on
    OBVIOUS
  <2> DEFINE k == now.preorders[i].item
  <2>1. now.preorders[i].state = "ready" /\ k \in Keys /\ Sells(db.item, k)
    BY <1>1 DEF Midway
  <2>2. db.item[k].on
    BY <1>2, <2>1 DEF Sells, Absent, Rewritten
  <2>3. now.item[k].on
    BY <1>1, <2>1, <2>2 DEF Midway
  <2> QED  BY <2>1, <2>3
<1>9. ASSUME ~lost, NEW k \in Keys, now.item[k].on
      PROVE  now.item[k].reserved + KeptFrom(preorders, k)
               = item[k].reserved + KeptFrom(now.preorders, k)
  <2>1. k \notin gone
    BY <1>6, <1>9
  <2>2. now.item[k].reserved = KeptFrom(now.preorders, k)
    BY <1>1, <1>9, <2>1 DEF Midway
  <2>3. item[k].reserved = KeptFrom(preorders, k)
    BY <1>4, <1>9 DEF AllKept
  <2>4. KeptFrom(preorders, k) \in Nat /\ KeptFrom(now.preorders, k) \in Nat
    BY <1>4, <1>5, KeptType
  <2> QED  BY <2>2, <2>3, <2>4
<1>10. Sound(old, new)
  BY <1>2, <1>3, <1>4, <1>5, <1>6, <1>7, <1>8, <1>9 DEF Sound
<1> QED  BY <1>10 DEF old, new

\* A row apply_products has looked at is there, if it was, and keeps its reserve.
LEMMA RestockedRow ==
    ASSUME SiteInv, message # None, counted # None, NEW k \in Keys
    PROVE  LET row == Restocked(message).item[k]
           IN  /\ row \in ItemRow /\ row.reserved = item[k].reserved
               /\ item[k].on => row.on
               /\ row.on \/ row = Absent
<1> DEFINE m == message
           stock == IF item[k].on THEN Less(m.qty[k], k) ELSE m.qty[k]
           live == stock > 0
           new == Entered(item[k], stock, live)
           off == Stocked(item[k], 0, FALSE)
           row == Restocked(m).item[k]
<1>1. item[k] \in ItemRow /\ (item[k].on \/ item[k] = Absent)
  BY DEF SiteInv, SiteTypeOK, OffIsAbsent
<1>2. stock \in Int /\ live \in BOOLEAN /\ FALSE \in BOOLEAN /\ 0 \in Int
  <2>1. m.qty[k] \in Int /\ counted[k] \in Nat
    BY DEF SiteInv, SiteTypeOK, MessageRow
  <2> QED  BY <2>1 DEF Less
<1>3. row \in {item[k], new, off}
  BY DEF Restocked, Entered, Stocked
<1> HIDE DEF stock, live, row
<1>4. new \in ItemRow /\ new.on /\ new.reserved = item[k].reserved
  BY <1>1, <1>2, EnteredIs
<1>5. /\ off \in ItemRow /\ off.on = item[k].on /\ off.reserved = item[k].reserved
      /\ item[k] = Absent => off = Absent
  BY <1>1, <1>2, StockedIs
<1> HIDE DEF new, off
<1>6. /\ row \in ItemRow /\ row.reserved = item[k].reserved
      /\ item[k].on => row.on
      /\ row.on \/ row = Absent
  BY <1>1, <1>3, <1>4, <1>5
<1> QED  BY <1>6 DEF row

LEMMA RestockedIs ==
    ASSUME SiteInv, message # None, counted # None
    PROVE  Sound(Tables, Restocked(message))
<1> DEFINE old == Tables
           new == Restocked(message)
<1>1. /\ new.supply = supply /\ new.preorders = preorders /\ new.gone = {}
      /\ old.item = item /\ old.preorders = preorders
      /\ new.item = [k \in Keys |-> new.item[k]]
  BY DEF Restocked, Tables
<1>2. \A k \in Keys : /\ new.item[k] \in ItemRow /\ new.item[k].reserved = item[k].reserved
                      /\ new.item[k].on \/ new.item[k] = Absent
  BY RestockedRow
<1> HIDE DEF old, new
<1>3. new.item \in [Keys -> ItemRow] /\ OffIsAbsent(new.item)
  BY <1>1, <1>2 DEF OffIsAbsent
<1>4. /\ item \in [Keys -> ItemRow] /\ preorders \in [PreorderIds -> PreorderRow]
      /\ supply \in [Batches -> {"none", "transit", "arrived"}] /\ supply[Service] = "arrived"
      /\ OffIsAbsent(item)
  BY DEF SiteInv, SiteTypeOK
<1>5. Off(new.gone) = {}
  BY <1>1 DEF Off
<1>6. \A k \in Keys : new.item[k].reserved + KeptFrom(preorders, k)
                        = item[k].reserved + KeptFrom(preorders, k)
  BY <1>2
<1>7. Sound(old, new)
  BY <1>1, <1>3, <1>4, <1>5, <1>6 DEF Sound
<1> QED  BY <1>7 DEF old, new

LEMMA OutcomeIs ==
    ASSUME SiteInv, message # None, counted # None
    PROVE  Sound(Tables, Outcome(message))
  BY SuppliedIs, RestockedIs DEF Outcome

\* An exchange under way has read the rows that are there still.
DraftInv ==
    draft # None =>
        /\ Sound(draft.old, draft.new)
        /\ \A k \in Keys : item[k].on = draft.old.item[k].on
        /\ still => draft.old = Tables /\ draft.new = Outcome(message)

-----------------------------------------------------------------------------
(* The commit of an exchange                                               *)

KeptIn(table, k, set) ==
    Total([i \in PreorderIds |-> table[i].packs],
          {i \in set : table[i].state = "ready" /\ table[i].item = k})

LEMMA KeptSplits ==
    ASSUME NEW t \in [PreorderIds -> PreorderRow], NEW k, NEW A \in SUBSET PreorderIds
    PROVE  /\ KeptFrom(t, k) = KeptIn(t, k, A) + KeptIn(t, k, PreorderIds \ A)
           /\ KeptIn(t, k, A) \in Nat /\ KeptIn(t, k, PreorderIds \ A) \in Nat
<1> DEFINE f == [i \in PreorderIds |-> t[i].packs]
           all == {i \in PreorderIds : t[i].state = "ready" /\ t[i].item = k}
           one == {i \in A : t[i].state = "ready" /\ t[i].item = k}
           two == {i \in PreorderIds \ A : t[i].state = "ready" /\ t[i].item = k}
<1>1. IsFiniteSet(all) /\ IsFiniteSet(one) /\ IsFiniteSet(two)
  BY PreordersFinite, FS_Subset
<1>2. \A i \in PreorderIds : f[i] \in Nat
  BY DEF PreorderRow
<1>3. one \in SUBSET all /\ all \ one = two
  OBVIOUS
<1>4. \A i \in all : f[i] \in Nat
  BY <1>2
<1>5. \A i \in one : f[i] \in Nat
  BY <1>2
<1>6. \A i \in two : f[i] \in Nat
  BY <1>2
<1> HIDE DEF f, all, one, two
<1>7. Total(f, all) = Total(f, one) + Total(f, all \ one)
  BY <1>1, <1>3, <1>4, TotalOfParts
<1>8. Total(f, one) \in Nat /\ Total(f, two) \in Nat
  BY <1>1, <1>5, <1>6, TotalIsNat
<1> QED  BY <1>3, <1>7, <1>8 DEF KeptFrom, KeptIn, f, all, one, two

LEMMA KeptInSame ==
    ASSUME NEW t, NEW u, NEW k, NEW A \in SUBSET PreorderIds, \A i \in A : t[i] = u[i]
    PROVE  KeptIn(t, k, A) = KeptIn(u, k, A)
<1> DEFINE f == [i \in PreorderIds |-> t[i].packs]
           g == [i \in PreorderIds |-> u[i].packs]
           set == {i \in A : t[i].state = "ready" /\ t[i].item = k}
<1>1. set = {i \in A : u[i].state = "ready" /\ u[i].item = k}
  OBVIOUS
<1>2. \A i \in set : f[i] = g[i]
  OBVIOUS
<1>3. IsFiniteSet(set)
  BY PreordersFinite, FS_Subset
<1> HIDE DEF f, g, set
<1>4. Total(f, set) = Total(g, set)
  BY <1>2, <1>3, TotalOfSame
<1> QED  BY <1>1, <1>4 DEF KeptIn, f, g, set

\* Where two tables change each on rows the other leaves alone, what is kept adds up.
LEMMA KeptAddsUp ==
    ASSUME NEW t \in [PreorderIds -> PreorderRow], NEW u \in [PreorderIds -> PreorderRow],
           NEW v \in [PreorderIds -> PreorderRow], NEW w \in [PreorderIds -> PreorderRow],
           NEW k, NEW A \in SUBSET PreorderIds,
           \A i \in A : v[i] = u[i] /\ w[i] = t[i],
           \A i \in PreorderIds \ A : t[i] = u[i] /\ w[i] = v[i]
    PROVE  KeptFrom(w, k) + KeptFrom(u, k) = KeptFrom(t, k) + KeptFrom(v, k)
<1> DEFINE B == PreorderIds \ A
<1>1. B \in SUBSET PreorderIds /\ \A i \in B : t[i] = u[i] /\ w[i] = v[i]
  OBVIOUS
<1>2. /\ KeptFrom(t, k) = KeptIn(t, k, A) + KeptIn(t, k, B)
      /\ KeptFrom(u, k) = KeptIn(u, k, A) + KeptIn(u, k, B)
      /\ KeptFrom(v, k) = KeptIn(v, k, A) + KeptIn(v, k, B)
      /\ KeptFrom(w, k) = KeptIn(w, k, A) + KeptIn(w, k, B)
      /\ KeptIn(t, k, A) \in Nat /\ KeptIn(t, k, B) \in Nat
      /\ KeptIn(u, k, A) \in Nat /\ KeptIn(u, k, B) \in Nat
      /\ KeptIn(v, k, A) \in Nat /\ KeptIn(v, k, B) \in Nat
      /\ KeptIn(w, k, A) \in Nat /\ KeptIn(w, k, B) \in Nat
  BY KeptSplits
<1> HIDE DEF B
<1>3. KeptIn(v, k, A) = KeptIn(u, k, A) /\ KeptIn(w, k, A) = KeptIn(t, k, A)
  BY KeptInSame
<1>4. KeptIn(t, k, B) = KeptIn(u, k, B) /\ KeptIn(w, k, B) = KeptIn(v, k, B)
  BY <1>1, KeptInSame
<1> QED  BY <1>2, <1>3, <1>4

\* What the commit writes into the rows.
LEMMA RowsWritten ==
    ASSUME SiteInv, DraftInv, CommitSync, NEW k \in Keys
    PROVE  LET old == draft.old.item[k]
               new == draft.new.item[k]
           IN  /\ item'[k] \in ItemRow
               /\ item'[k].on = new.on
               /\ ~new.on => item'[k] = Absent
               /\ new.on => item'[k].reserved = Column(item[k].reserved, old.reserved, new.reserved)
<1> DEFINE old == draft.old.item[k]
           new == draft.new.item[k]
           row == item[k]
<1>1. draft # None /\ Sound(draft.old, draft.new) /\ row.on = old.on /\ item'[k] = RowWritten(k)
  BY DEF CommitSync, DraftInv
<1>2. old \in ItemRow /\ new \in ItemRow /\ row \in ItemRow /\ Absent \in ItemRow
  BY <1>1 DEF Sound, SiteInv, SiteTypeOK, Absent, ItemRow
<1>3. (old.on \/ old = Absent) /\ (new.on \/ new = Absent) /\ (row.on \/ row = Absent)
  BY <1>1 DEF Sound, OffIsAbsent, SiteInv
<1> DEFINE mix == [on |-> Column(row.on, old.on, new.on),
                   stock |-> Column(row.stock, old.stock, new.stock),
                   reserved |-> Column(row.reserved, old.reserved, new.reserved),
                   active |-> Column(row.active, old.active, new.active)]
<1>4. RowWritten(k) = IF old.on /\ ~new.on THEN Absent ELSE mix
  BY DEF RowWritten
<1>5. /\ mix \in ItemRow /\ mix.on = Column(row.on, old.on, new.on)
      /\ mix.reserved = Column(row.reserved, old.reserved, new.reserved)
  BY <1>2 DEF Column, ItemRow
<1>6. row = Absent /\ old = Absent /\ new = Absent => mix = Absent
  <2>1. Column(Absent.on, Absent.on, Absent.on) = FALSE
        /\ Column(Absent.stock, Absent.stock, Absent.stock) = 0
        /\ Column(Absent.reserved, Absent.reserved, Absent.reserved) = 0
        /\ Column(Absent.active, Absent.active, Absent.active) = FALSE
    BY DEF Column, Absent
  <2> QED  BY <2>1 DEF Absent
<1> HIDE DEF old, new, row, mix
<1>7. old.on \in BOOLEAN /\ new.on \in BOOLEAN
  BY <1>2 DEF ItemRow
<1>8. CASE old.on /\ ~new.on
  <2>1. item'[k] = Absent /\ Absent.on = FALSE
    BY <1>1, <1>4, <1>8 DEF Absent
  <2> QED  BY <1>2, <1>7, <1>8, <2>1 DEF old, new
<1>9. CASE new.on
  <2>1. item'[k] = mix /\ mix.on = new.on
    BY <1>1, <1>4, <1>5, <1>7, <1>9 DEF Column
  <2> QED  BY <1>5, <1>9, <2>1 DEF old, new, row
<1>10. CASE ~old.on /\ ~new.on
  <2>1. item'[k] = mix /\ mix = Absent /\ Absent.on = FALSE
    BY <1>1, <1>3, <1>4, <1>6, <1>10 DEF Absent
  <2> QED  BY <1>2, <1>7, <1>10, <2>1 DEF old, new
<1> QED  BY <1>8, <1>9, <1>10

LEMMA CommitKeeps ==
    ASSUME SiteInv, DraftInv, CommitSync
    PROVE  SiteInv' /\ DraftInv'
<1> DEFINE old == draft.old
           new == draft.new
           off == Off(draft.new.gone)
           mix == [i \in PreorderIds |-> Column(preorders[i], old.preorders[i], new.preorders[i])]
<1>1. /\ draft # None /\ Writable /\ counted' = None /\ draft' = None
      /\ supply' = [s \in Batches |-> Column(supply[s], old.supply[s], new.supply[s])]
      /\ preorders' = [i \in PreorderIds |-> Unhooked(mix[i])]
      /\ orders' = [o \in OrderIds |-> Unhooked(orders[o])]
      /\ lost' = (lost \/ \E k \in Keys : Overwritten(k))
      /\ item' = [k \in Keys |-> item'[k]]
      /\ UNCHANGED <<onecVars, message>>
  BY DEF CommitSync
<1>2. Sound(old, new) /\ \A k \in Keys : item[k].on = old.item[k].on
  BY <1>1 DEF DraftInv
<1>3. /\ orders \in [OrderIds -> OrderRow] /\ preorders \in [PreorderIds -> PreorderRow]
      /\ item \in [Keys -> ItemRow] /\ lost \in BOOLEAN
  BY DEF SiteInv, SiteTypeOK
<1>4. mix \in [PreorderIds -> PreorderRow]
  BY <1>2, <1>3 DEF Sound, Column
<1>5. \A i \in PreorderIds :
        \/ mix[i] = preorders[i] /\ new.preorders[i] = old.preorders[i]
        \/ mix[i] = new.preorders[i] /\ preorders[i] = old.preorders[i]
  BY <1>1 DEF Column, Writable
<1>6. \A i \in PreorderIds :
        \/ mix[i] = preorders[i]
        \/ /\ mix[i].state = "ready" /\ mix[i].item \in Keys /\ new.item[mix[i].item].on
  BY <1>2, <1>5 DEF Sound
<1>7. \A i \in PreorderIds :
        /\ preorders'[i] \in PreorderRow /\ preorders'[i].state = mix[i].state
        /\ preorders'[i].packs = mix[i].packs
        /\ preorders'[i].item = IF mix[i].item \in off THEN None ELSE mix[i].item
        /\ mix[i].item \notin off => preorders'[i] = mix[i]
  <2> HIDE DEF mix
  <2> QED  BY <1>1, <1>4, UnhookedPreorder
<1>8. \A o \in OrderIds :
        /\ orders'[o] \in OrderRow
        /\ orders'[o].item = IF orders[o].item \in off THEN None ELSE orders[o].item
  BY <1>1, <1>3, UnhookedOrder
<1>9. \A k \in Keys :
        /\ item'[k] \in ItemRow /\ item'[k].on = new.item[k].on
        /\ ~new.item[k].on => item'[k] = Absent
        /\ new.item[k].on => item'[k].reserved =
             Column(item[k].reserved, old.item[k].reserved, new.item[k].reserved)
  BY RowsWritten
<1>10. \A k \in off : ~new.item[k].on
  BY <1>2 DEF Sound
<1>11. \A k \in Keys \ off : Referenced(k) => new.item[k].on
  <2> SUFFICES ASSUME NEW k \in Keys \ off, Referenced(k), ~new.item[k].on PROVE FALSE
    OBVIOUS
  <2>1. old.item[k].on
    BY <1>2 DEF SiteInv, PointedIsOn
  <2>2. k[1] \in new.gone
    BY <1>1, <2>1 DEF Writable
  <2> QED  BY <2>2 DEF Off
<1> HIDE DEF mix, off, old, new
<1>12. SiteTypeOK'
  <2>1. preorders' \in [PreorderIds -> PreorderRow] /\ orders' \in [OrderIds -> OrderRow]
    <3>1. preorders' = [i \in PreorderIds |-> preorders'[i]]
          /\ orders' = [o \in OrderIds |-> orders'[o]]
      BY <1>1
    <3> QED  BY <1>7, <1>8, <3>1
  <2>2. item' \in [Keys -> ItemRow]
    BY <1>1, <1>9
  <2>3. supply' \in [Batches -> {"none", "transit", "arrived"}] /\ supply'[Service] = "arrived"
    <3>1. Service \in Batches
      BY DEF Batches
    <3> QED  BY <1>1, <1>2, <3>1 DEF Sound, SiteInv, SiteTypeOK, Column
  <2>4. lost' \in BOOLEAN
    BY <1>1
  <2> QED  BY <1>1, <2>1, <2>2, <2>3, <2>4 DEF SiteInv, SiteTypeOK, onecVars
<1>13. PointedIsOn'
  <2> SUFFICES ASSUME NEW k \in Keys, Referenced(k)' PROVE item'[k].on
    BY DEF PointedIsOn
  <2>1. k # None
    BY NoneIsApart
  <2>2. ASSUME NEW o \in OrderIds, orders'[o].item = k PROVE new.item[k].on
    <3>1. orders[o].item = k /\ k \notin off
      BY <1>8, <2>1, <2>2
    <3> QED  BY <1>11, <3>1 DEF Referenced
  <2>3. ASSUME NEW i \in PreorderIds, preorders'[i].item = k PROVE new.item[k].on
    <3>1. mix[i].item = k /\ k \notin off
      BY <1>7, <2>1, <2>3
    <3>2. CASE mix[i] = preorders[i]
      BY <1>11, <3>1, <3>2 DEF Referenced
    <3> QED  BY <1>6, <3>1, <3>2
  <2> QED  BY <1>9, <2>2, <2>3 DEF Referenced
<1>14. WaitingIsAhead'
  <2> SUFFICES ASSUME NEW i \in PreorderIds, preorders'[i].state = "waiting",
                      preorders'[i].item # None
               PROVE  preorders'[i].item \in Invoices \X Products
    BY DEF WaitingIsAhead
  <2>1. mix[i].state = "waiting" /\ mix[i].item = preorders'[i].item
    BY <1>7
  <2>2. mix[i] = preorders[i]
    BY <1>6, <2>1
  <2> QED  BY <2>1, <2>2 DEF SiteInv, WaitingIsAhead
<1>15. OffIsAbsent(item)'
  BY <1>9 DEF OffIsAbsent
<1>16. AllKept'
  <2> SUFFICES ASSUME ~lost', NEW k \in Keys PROVE item'[k].reserved = KeptFrom(preorders', k)
    BY DEF AllKept, KeptFrom
  <2>1. k # None /\ ~lost /\ ~Overwritten(k)
    BY <1>1, NoneIsApart
  <2>2. CASE ~new.item[k].on
    <3>1. ~item'[k].on /\ item'[k].reserved = 0
      BY <1>9, <2>2 DEF Absent
    <3>2. \A i \in PreorderIds : preorders'[i].item # k
      BY <1>13, <3>1 DEF PointedIsOn, Referenced
    <3>3. KeptFrom(preorders', k) = 0
      BY <3>2, KeptNone
    <3> QED  BY <3>1, <3>3
  <2>3. CASE new.item[k].on
    <3> DEFINE A == {i \in PreorderIds : new.preorders[i] = old.preorders[i]}
    <3>1. k \notin off
      BY <1>10, <2>3
    <3>2. KeptFrom(preorders', k) = KeptFrom(mix, k)
      <4>1. \A i \in PreorderIds :
              /\ (preorders'[i].state = "ready" /\ preorders'[i].item = k)
                   <=> (mix[i].state = "ready" /\ mix[i].item = k)
              /\ preorders'[i].state = "ready" /\ preorders'[i].item = k
                   => preorders'[i].packs = mix[i].packs
        BY <1>7, <2>1, <3>1
      <4> DEFINE t == preorders'
      <4> HIDE DEF t
      <4>2. KeptFrom(t, k) = KeptFrom(mix, k)
        BY <4>1, KeptSame DEF t
      <4> QED  BY <4>2 DEF t
    <3>3. KeptFrom(mix, k) + KeptFrom(old.preorders, k)
            = KeptFrom(preorders, k) + KeptFrom(new.preorders, k)
      <4>1. \A i \in A : new.preorders[i] = old.preorders[i] /\ mix[i] = preorders[i]
        BY <1>5
      <4>2. \A i \in PreorderIds \ A : preorders[i] = old.preorders[i] /\ mix[i] = new.preorders[i]
        BY <1>5
      <4>3. /\ old.preorders \in [PreorderIds -> PreorderRow]
            /\ new.preorders \in [PreorderIds -> PreorderRow]
        BY <1>2 DEF Sound
      <4>4. A \in SUBSET PreorderIds
        OBVIOUS
      <4> DEFINE t == preorders
                 u == old.preorders
                 v == new.preorders
      <4>5. /\ t \in [PreorderIds -> PreorderRow] /\ u \in [PreorderIds -> PreorderRow]
            /\ v \in [PreorderIds -> PreorderRow]
            /\ \A i \in A : v[i] = u[i] /\ mix[i] = t[i]
            /\ \A i \in PreorderIds \ A : t[i] = u[i] /\ mix[i] = v[i]
        BY <1>3, <4>1, <4>2, <4>3
      <4> HIDE DEF A, t, u, v
      <4>6. KeptFrom(mix, k) + KeptFrom(u, k) = KeptFrom(t, k) + KeptFrom(v, k)
        BY <1>4, <4>4, <4>5, KeptAddsUp
      <4> QED  BY <4>6 DEF t, u, v
    <3>4. /\ KeptFrom(mix, k) \in Nat /\ KeptFrom(old.preorders, k) \in Nat
          /\ KeptFrom(preorders, k) \in Nat /\ KeptFrom(new.preorders, k) \in Nat
      BY <1>2, <1>3, <1>4, KeptType DEF Sound
    <3>5. new.item[k].reserved + KeptFrom(old.preorders, k)
            = old.item[k].reserved + KeptFrom(new.preorders, k)
      BY <1>2, <2>1, <2>3 DEF Sound
    <3>6. item[k].reserved = KeptFrom(preorders, k)
      BY <2>1 DEF SiteInv, AllKept
    <3>7. /\ item[k].reserved \in Nat /\ old.item[k].reserved \in Nat
          /\ new.item[k].reserved \in Nat
      BY <1>2, <1>3 DEF Sound, ItemRow
    <3>8. \/ new.item[k].reserved = old.item[k].reserved
          \/ item[k].reserved = old.item[k].reserved
      BY <2>1 DEF Overwritten, old, new
    <3>9. item'[k].reserved = IF new.item[k].reserved = old.item[k].reserved
                              THEN item[k].reserved ELSE new.item[k].reserved
      BY <1>9, <2>3 DEF Column
    <3>10. item'[k].reserved = KeptFrom(mix, k)
      <4>1. CASE new.item[k].reserved = old.item[k].reserved
        BY <3>3, <3>4, <3>5, <3>6, <3>7, <3>9, <4>1
      <4>2. CASE new.item[k].reserved # old.item[k].reserved
        BY <3>3, <3>4, <3>5, <3>6, <3>7, <3>8, <3>9, <4>2
      <4> QED  BY <4>1, <4>2
    <3> QED  BY <3>2, <3>10
  <2> QED  BY <2>2, <2>3
<1>17. DraftInv'
  BY <1>1 DEF DraftInv
<1> QED  BY <1>12, <1>13, <1>14, <1>15, <1>16, <1>17 DEF SiteInv

-----------------------------------------------------------------------------
(* The other steps                                                         *)

\* Where no preorder changes and no row leaves, only types are left to see.
LEMMA RowsRewritten ==
    ASSUME SiteInv, item' \in [Keys -> ItemRow], UNCHANGED <<preorders, lost>>,
           \A k \in Keys : /\ item'[k].reserved = item[k].reserved
                           /\ item[k].on => item'[k].on
                           /\ item'[k].on \/ item'[k] = Absent,
           \A o \in OrderIds, k \in Keys : orders'[o].item = k => orders[o].item = k \/ item[k].on
    PROVE  OffIsAbsent(item)' /\ PointedIsOn' /\ WaitingIsAhead' /\ AllKept'
<1>1. OffIsAbsent(item)'
  BY DEF OffIsAbsent
<1>2. PointedIsOn'
  BY DEF SiteInv, PointedIsOn, Referenced
<1>3. WaitingIsAhead'
  BY DEF SiteInv, WaitingIsAhead
<1>4. AllKept'
  BY DEF SiteInv, AllKept, KeptFrom
<1> QED  BY <1>1, <1>2, <1>3, <1>4

LEMMA RowsAre ==
    ASSUME SiteInv, NEW k \in Keys
    PROVE  /\ item[k] \in ItemRow /\ (item[k].on \/ item[k] = Absent)
           /\ item[k].active => item[k].on
  BY DEF SiteInv, SiteTypeOK, OffIsAbsent, Absent

LEMMA SiteBegins == ASSUME Init PROVE SiteInv
<1>1. Absent \in ItemRow /\ NoOrder \in OrderRow /\ NoPreorder \in PreorderRow
  BY DEF Absent, ItemRow, NoOrder, OrderRow, NoPreorder, PreorderRow
<1>2. Shipped \in [Keys -> Int]
  BY SyncAssumption
<1>3. /\ supply = [s \in Batches |-> IF s = Service THEN "arrived" ELSE "none"]
      /\ item = [k \in Keys |-> Absent]
      /\ orders = [o \in OrderIds |-> NoOrder]
      /\ preorders = [i \in PreorderIds |-> NoPreorder]
      /\ counted = None /\ message = None /\ documents = {} /\ dropped = {}
      /\ draft = None /\ lost = FALSE
      /\ posted = [s \in Invoices |-> "transit"] /\ books = Shipped
  BY DEF Init
<1>4. Service \in Batches
  BY DEF Batches
<1>5. SiteTypeOK
  BY <1>1, <1>2, <1>3, <1>4 DEF SiteTypeOK
<1>6. \A i \in PreorderIds : preorders[i].state = "none" /\ preorders[i].item = None
  BY <1>3 DEF NoPreorder
<1>7. \A o \in OrderIds : orders[o].item = None
  BY <1>3 DEF NoOrder
<1>8. OffIsAbsent(item) /\ WaitingIsAhead /\ PointedIsOn
  BY <1>3, <1>6, <1>7, NoneIsApart DEF OffIsAbsent, WaitingIsAhead, PointedIsOn, Referenced
<1>9. AllKept
  <2> SUFFICES ASSUME NEW k \in Keys PROVE item[k].reserved = KeptFrom(preorders, k)
    BY DEF AllKept
  <2>1. KeptFrom(preorders, k) = 0
    BY <1>6, KeptNone
  <2> QED  BY <1>3, <2>1 DEF Absent
<1> QED  BY <1>5, <1>8, <1>9 DEF SiteInv

LEMMA PendingIs == ASSUME SiteInv PROVE Pending \in [Keys -> Nat]
<1> SUFFICES ASSUME NEW k \in Keys
             PROVE  (IF Reserve THEN PacksOf({o \in OrderIds : /\ orders[o].state = "live"
                                                               /\ ~orders[o].exported
                                                               /\ orders[o].item = k})
                     ELSE 0) \in Nat
  BY DEF Pending
<1> DEFINE set == {o \in OrderIds : /\ orders[o].state = "live" /\ ~orders[o].exported
                                    /\ orders[o].item = k}
           f == [o \in set |-> orders[o].packs]
<1>1. IsFiniteSet(set)
  BY SyncAssumption, FS_Subset
<1>2. \A o \in set : f[o] \in Nat
  BY DEF SiteInv, SiteTypeOK, OrderRow
<1>3. Total(f, set) \in Nat
  BY <1>1, <1>2, TotalIsNat
<1> QED  BY <1>3 DEF PacksOf

\* What 1C does, and what begins and ends an exchange, leaves the site alone.
Aside ==
    \/ BeginSync \/ ReadTables \/ RollBack \/ SendSupplies \/ SendProducts \/ Done
    \/ \E s \in Invoices : Receive(s) \/ CancelInvoice(s)
    \/ \E o \in OrderIds : Document(o) \/ DropOrder(o)

LEMMA MessageIs ==
    ASSUME SiteInv, NEW kind \in {"supplies", "products"}, NEW listed \in SUBSET Batches,
           NEW full \in BOOLEAN, NEW odd, NEW k \in Keys
    PROVE  /\ Message(kind, listed, full, odd, k) \in MessageRow
           /\ Message(kind, listed, full, odd, k).kind = kind
           /\ Message(kind, listed, full, odd, k).listed = listed
           /\ Message(kind, listed, full, odd, k).status = posted
<1>1. listed \X Products \subseteq Keys
  BY DEF Keys
<1>2. k[1] \in Batches
  BY KeysAre
<1>3. /\ posted \in [Invoices -> {"transit", "received", "cancelled"}] /\ books \in [Keys -> Int]
      /\ documents \ dropped \in SUBSET OrderIds
  BY DEF SiteInv, SiteTypeOK
<1> DEFINE qty == [x \in Keys |-> IF books[x] > 0 THEN books[x] ELSE 0]
           known == documents \ dropped
<1>4. qty \in [Keys -> Nat] /\ known \in SUBSET OrderIds
  BY <1>3
<1>5. /\ Message(kind, listed, full, odd, k).qty = qty
      /\ Message(kind, listed, full, odd, k).known = known
  BY DEF Message
<1> HIDE DEF qty, known
<1>6. Message(kind, listed, full, odd, k) =
        [kind |-> kind, listed |-> listed, full |-> full, status |-> posted,
         qty |-> qty, known |-> known,
         given |-> (listed \X Products) \ (IF odd \in {"bad", "missing"} THEN {k} ELSE {}),
         bad |-> IF odd = "bad" THEN {k} ELSE {},
         bare |-> IF odd = "bare" THEN {k[1]} ELSE {},
         refused |-> IF odd = "refused" THEN {k[1]} ELSE {}]
  BY DEF Message, qty, known
<1> QED  BY <1>1, <1>2, <1>3, <1>4, <1>5, <1>6 DEF MessageRow, qty, known

LEMMA AsideKeeps ==
    ASSUME SiteInv, Aside
    PROVE  SiteInv'
<1>1. UNCHANGED <<siteVars, lost>>
  BY DEF Aside, BeginSync, ReadTables, RollBack, SendSupplies, SendProducts, Done, Receive,
         CancelInvoice, Document, DropOrder, siteVars
<1>2. OffIsAbsent(item)' /\ PointedIsOn' /\ WaitingIsAhead' /\ AllKept'
  <2>1. /\ item' = item /\ item \in [Keys -> ItemRow]
        /\ UNCHANGED <<preorders, orders, lost>>
    BY <1>1 DEF siteVars, SiteInv, SiteTypeOK
  <2> QED  BY <2>1, RowsAre, RowsRewritten
<1>3. SiteTypeOK'
  <2>1. CASE BeginSync
    BY <1>1, <2>1, PendingIs DEF BeginSync, SiteInv, SiteTypeOK, siteVars, onecVars
  <2>9. CASE ReadTables
    BY <1>1, <2>9 DEF ReadTables, SiteInv, SiteTypeOK, siteVars, onecVars
  <2>2. CASE RollBack
    BY <1>1, <2>2 DEF RollBack, SiteInv, SiteTypeOK, siteVars, onecVars
  <2>3. CASE Done
    BY <1>1, <2>3 DEF Done, SiteInv, SiteTypeOK, siteVars, syncVars, onecVars
  <2>4. CASE SendSupplies
    <3>1. PICK listed \in SUBSET Invoices, full \in BOOLEAN, odd \in Oddities \cup {"none"},
               k \in Keys : message' = Message("supplies", listed, full, odd, k)
      BY <2>4 DEF SendSupplies
    <3>2. listed \in SUBSET Batches
      BY DEF Batches
    <3>3. "supplies" \in {"supplies", "products"}
      OBVIOUS
    <3>4. message' \in MessageRow /\ message'.listed \subseteq Invoices
      BY <3>1, <3>2, <3>3, MessageIs
    <3>5. counted = None /\ UNCHANGED <<counted, draft, onecVars>>
      BY <2>4 DEF SendSupplies, syncVars
    <3> QED  BY <1>1, <3>4, <3>5 DEF SiteInv, SiteTypeOK, siteVars, onecVars
  <2>5. CASE SendProducts
    <3>1. PICK full \in BOOLEAN, odd \in (Oddities \ {"bare", "refused"}) \cup {"none"},
               p \in Products :
                 message' = Message("products", {Service}, full, odd, <<Service, p>>)
      BY <2>5 DEF SendProducts
    <3>2. {Service} \in SUBSET Batches /\ <<Service, p>> \in Keys
      BY DEF Batches, Keys
    <3>3. "products" \in {"supplies", "products"}
      OBVIOUS
    <3>4. message' \in MessageRow /\ message'.kind = "products"
      BY <3>1, <3>2, <3>3, MessageIs
    <3>5. counted = None /\ UNCHANGED <<counted, draft, onecVars>>
      BY <2>5 DEF SendProducts, syncVars
    <3> QED  BY <1>1, <3>4, <3>5 DEF SiteInv, SiteTypeOK, siteVars, onecVars
  <2>6. ASSUME NEW s \in Invoices, Receive(s) \/ CancelInvoice(s)
        PROVE  SiteTypeOK'
    BY <1>1, <2>6 DEF Receive, CancelInvoice, SiteInv, SiteTypeOK, siteVars, syncVars
  <2>7. ASSUME NEW o \in OrderIds, Document(o)
        PROVE  SiteTypeOK'
    <3>1. orders[o] \in OrderRow /\ books \in [Keys -> Int]
      BY DEF SiteInv, SiteTypeOK
    <3>2. books' \in [Keys -> Int]
      BY <2>7, <3>1 DEF Document, OrderRow
    <3>3. documents' \subseteq OrderIds /\ dropped' \subseteq OrderIds
      BY <2>7 DEF Document, SiteInv, SiteTypeOK
    <3>4. UNCHANGED <<counted, draft, posted, message>>
      BY <2>7 DEF Document, syncVars
    <3> QED  BY <1>1, <3>2, <3>3, <3>4 DEF SiteInv, SiteTypeOK, siteVars
  <2>8. ASSUME NEW o \in OrderIds, DropOrder(o)
        PROVE  SiteTypeOK'
    <3>1. orders[o] \in OrderRow /\ books \in [Keys -> Int]
      BY DEF SiteInv, SiteTypeOK
    <3>2. books' \in [Keys -> Int]
      BY <2>8, <3>1 DEF DropOrder, OrderRow
    <3>3. documents' \subseteq OrderIds /\ dropped' \subseteq OrderIds
      BY <2>8 DEF DropOrder, SiteInv, SiteTypeOK
    <3>4. UNCHANGED <<counted, draft, posted, message>>
      BY <2>8 DEF DropOrder, syncVars
    <3> QED  BY <1>1, <3>2, <3>3, <3>4 DEF SiteInv, SiteTypeOK, siteVars
  <2> QED  BY <2>1, <2>2, <2>3, <2>4, <2>5, <2>6, <2>7, <2>8, <2>9 DEF Aside
<1> QED  BY <1>2, <1>3 DEF SiteInv

LEMMA OneRowKeeps ==
    ASSUME SiteInv, NEW o \in OrderIds, NEW k \in Keys, NEW row \in ItemRow, NEW x \in OrderRow,
           item' = [item EXCEPT ![k] = row], orders' = [orders EXCEPT ![o] = x],
           item[k].on, row.on, row.reserved = item[k].reserved,
           x.item = orders[o].item \/ x.item = k,
           UNCHANGED <<supply, preorders, counted, draft, lost, onecVars, message>>
    PROVE  SiteInv'
<1>1. orders \in [OrderIds -> OrderRow] /\ item \in [Keys -> ItemRow]
  BY DEF SiteInv, SiteTypeOK
<1>2. orders' \in [OrderIds -> OrderRow] /\ item' \in [Keys -> ItemRow]
  BY <1>1
<1>3. SiteTypeOK'
  BY <1>2 DEF SiteInv, SiteTypeOK, onecVars
<1>4. \A j \in Keys : /\ item'[j].reserved = item[j].reserved
                      /\ item[j].on => item'[j].on
                      /\ item'[j].on \/ item'[j] = Absent
  BY <1>1, RowsAre
<1>5. \A e \in OrderIds, j \in Keys : orders'[e].item = j => orders[e].item = j \/ item[j].on
  BY <1>1
<1>6. OffIsAbsent(item)' /\ PointedIsOn' /\ WaitingIsAhead' /\ AllKept'
  BY <1>2, <1>4, <1>5, RowsRewritten
<1> QED  BY <1>3, <1>6 DEF SiteInv

\* Goods leave the shelf, or come back to it.
Sold(row, n, a) == [row EXCEPT !.stock = @ - n, !.active = a]
Back(row, n, a) == [row EXCEPT !.stock = @ + n, !.active = a]

LEMMA SoldIs ==
    ASSUME NEW r \in ItemRow, NEW n \in Nat, NEW a \in BOOLEAN
    PROVE  /\ Sold(r, n, a) \in ItemRow /\ Sold(r, n, a).on = r.on
           /\ Sold(r, n, a).stock = r.stock - n /\ Sold(r, n, a).reserved = r.reserved
           /\ Sold(r, n, a).active = a
<1>1. r.stock - n \in Int
  BY DEF ItemRow
<1>2. Sold(r, n, a) = Stocked(r, r.stock - n, a)
  BY DEF Sold, Stocked
<1> QED  BY <1>1, <1>2, StockedIs

LEMMA BackIs ==
    ASSUME NEW r \in ItemRow, NEW n \in Nat, NEW a \in BOOLEAN
    PROVE  /\ Back(r, n, a) \in ItemRow /\ Back(r, n, a).on = r.on
           /\ Back(r, n, a).stock = r.stock + n /\ Back(r, n, a).reserved = r.reserved
           /\ Back(r, n, a).active = a
<1>1. r.stock + n \in Int
  BY DEF ItemRow
<1>2. Back(r, n, a) = Stocked(r, r.stock + n, a)
  BY DEF Back, Stocked
<1> QED  BY <1>1, <1>2, StockedIs

LEMMA OrderIsOne ==
    ASSUME SiteInv, NEW o \in OrderIds, NEW k \in Keys, NEW n \in Packs, Order(o, k, n)
    PROVE  \E a \in BOOLEAN :
             /\ item' = [item EXCEPT ![k] = Sold(item[k], n, a)]
             /\ orders' = [orders EXCEPT ![o] = [state |-> "live", batch |-> k, item |-> k,
                                                 packs |-> n, exported |-> FALSE]]
<1>1. item' = [item EXCEPT ![k].stock = @ - n, ![k].active = Avail(item[k]) > n]
  BY DEF Order
<1>2. item \in [Keys -> ItemRow]
  BY DEF SiteInv, SiteTypeOK
<1>3. (Avail(item[k]) > n) \in BOOLEAN
  OBVIOUS
<1>4. item' = [item EXCEPT ![k] = Sold(item[k], n, Avail(item[k]) > n)]
  BY <1>1, <1>2 DEF Sold
<1> QED  BY <1>3, <1>4 DEF Order

LEMMA OrderKeeps ==
    ASSUME SiteInv, NEW o \in OrderIds, NEW k \in Keys, NEW n \in Packs, Order(o, k, n)
    PROVE  SiteInv'
<1> DEFINE x == [state |-> "live", batch |-> k, item |-> k, packs |-> n, exported |-> FALSE]
<1>1. PICK a \in BOOLEAN : /\ item' = [item EXCEPT ![k] = Sold(item[k], n, a)]
                           /\ orders' = [orders EXCEPT ![o] = x]
  BY OrderIsOne
<1>2. n \in Nat
  BY SyncAssumption
<1>3. x \in OrderRow /\ x.item = k
  BY <1>2 DEF OrderRow
<1>4. item[k] \in ItemRow /\ item[k].on
  BY RowsAre DEF Order
<1>5. UNCHANGED <<supply, preorders, counted, draft, lost, onecVars, message>>
  BY DEF Order, ShopActs
<1> HIDE DEF x
<1>6. /\ Sold(item[k], n, a) \in ItemRow /\ Sold(item[k], n, a).on
      /\ Sold(item[k], n, a).reserved = item[k].reserved
  BY <1>2, <1>4, SoldIs
<1> QED  BY <1>1, <1>3, <1>4, <1>5, <1>6, OneRowKeeps

\* One order changes, and no row.
LEMMA OneOrderKeeps ==
    ASSUME SiteInv, NEW o \in OrderIds, NEW x \in OrderRow, x.item = orders[o].item,
           orders' = [orders EXCEPT ![o] = x],
           UNCHANGED <<supply, item, preorders, counted, draft, lost, onecVars, message>>
    PROVE  SiteInv'
<1>1. orders \in [OrderIds -> OrderRow] /\ item \in [Keys -> ItemRow]
  BY DEF SiteInv, SiteTypeOK
<1>3. orders' \in [OrderIds -> OrderRow] /\ \A e \in OrderIds : orders'[e].item = orders[e].item
  BY <1>1
<1>4. SiteTypeOK'
  BY <1>3 DEF SiteInv, SiteTypeOK, onecVars
<1>5. item' \in [Keys -> ItemRow] /\ UNCHANGED preorders
  BY <1>1
<1>6. OffIsAbsent(item)' /\ PointedIsOn' /\ WaitingIsAhead' /\ AllKept'
  BY <1>3, <1>5, RowsAre, RowsRewritten
<1> QED  BY <1>4, <1>6 DEF SiteInv

LEMMA OrderItemIs ==
    ASSUME SiteInv, NEW o \in OrderIds
    PROVE  /\ orders[o] \in OrderRow /\ orders[o].packs \in Nat
           /\ orders[o].item # None => /\ orders[o].item \in Keys
                                       /\ item[orders[o].item] \in ItemRow
                                       /\ item[orders[o].item].on
<1>1. orders[o] \in OrderRow /\ item \in [Keys -> ItemRow]
  BY DEF SiteInv, SiteTypeOK
<1>2. orders[o].packs \in Nat /\ (orders[o].item # None => orders[o].item \in Keys)
  BY <1>1 DEF OrderRow
<1>3. orders[o].item \in Keys => item[orders[o].item].on
  BY DEF SiteInv, PointedIsOn, Referenced
<1> QED  BY <1>1, <1>2, <1>3

\* Cancelling, by staff or by 1C.
LEMMA CancelIs ==
    ASSUME SiteInv, NEW o \in OrderIds, StaffCancels(o) \/ TellDropped(o)
    PROVE  /\ orders[o].state = "live"
           /\ UNCHANGED <<supply, preorders, counted, draft, lost, onecVars, message>>
           /\ \E x \in OrderRow : /\ orders' = [orders EXCEPT ![o] = x]
                                  /\ x.state = "cancelled" /\ x.item = orders[o].item
                                  /\ x.batch = orders[o].batch /\ x.packs = orders[o].packs
                                  /\ orders[o].exported => x.exported
                                  /\ x.exported => orders[o].exported \/ o \in dropped
           /\ orders[o].item = None => item' = item
           /\ orders[o].item # None => \E a \in BOOLEAN :
                item' = [item EXCEPT ![orders[o].item] =
                           Back(item[orders[o].item], orders[o].packs, a)]
<1>1. orders[o].state = "live" /\ UNCHANGED <<supply, preorders, counted, draft, lost, onecVars, message>>
      /\ item' = Returned(o)
  BY DEF StaffCancels, TellDropped, Untold, ShopActs
<1>2. \E x \in OrderRow : /\ orders' = [orders EXCEPT ![o] = x]
                          /\ x.state = "cancelled" /\ x.item = orders[o].item
                          /\ x.batch = orders[o].batch /\ x.packs = orders[o].packs
                          /\ orders[o].exported => x.exported
                          /\ x.exported => orders[o].exported \/ o \in dropped
  <2> DEFINE x == [orders[o] EXCEPT !.state = "cancelled"]
             y == [orders[o] EXCEPT !.state = "cancelled", !.exported = TRUE]
  <2>1. orders \in [OrderIds -> OrderRow] /\ orders[o] \in OrderRow
    BY OrderItemIs DEF SiteInv, SiteTypeOK
  <2>2. CASE StaffCancels(o)
    <3>1. orders' = [orders EXCEPT ![o] = x]
      BY <2>1, <2>2 DEF StaffCancels
    <3>2. /\ x \in OrderRow /\ x.state = "cancelled" /\ x.item = orders[o].item
          /\ x.batch = orders[o].batch /\ x.packs = orders[o].packs
          /\ x.exported = orders[o].exported
      BY <2>1 DEF OrderRow
    <3> HIDE DEF x
    <3> QED  BY <3>1, <3>2
  <2>3. CASE TellDropped(o)
    <3>1. orders' = [orders EXCEPT ![o] = y] /\ o \in dropped
      BY <2>1, <2>3 DEF TellDropped, Untold
    <3>2. /\ y \in OrderRow /\ y.state = "cancelled" /\ y.item = orders[o].item
          /\ y.batch = orders[o].batch /\ y.packs = orders[o].packs /\ y.exported
      BY <2>1 DEF OrderRow
    <3> HIDE DEF y
    <3> QED  BY <3>1, <3>2
  <2> QED  BY <2>2, <2>3
<1>3. orders[o].item = None => item' = item
  BY <1>1 DEF Returned
<1>4. ASSUME orders[o].item # None
      PROVE  \E a \in BOOLEAN : item' = [item EXCEPT ![orders[o].item] =
                                           Back(item[orders[o].item], orders[o].packs, a)]
  <2> DEFINE k == orders[o].item
             back == [item[k] EXCEPT !.stock = @ + orders[o].packs]
             live == back.active \/ (Avail(back) > 0 /\ supply[k[1]] = "arrived")
  <2>1. item' = [item EXCEPT ![k] = [back EXCEPT !.active = live]]
    BY <1>1, <1>4 DEF Returned
  <2>2. back \in ItemRow
    BY <1>4, OrderItemIs DEF ItemRow
  <2>3. live \in BOOLEAN
    BY <2>2 DEF ItemRow
  <2>4. [back EXCEPT !.active = live] = Back(item[k], orders[o].packs, live)
    BY DEF Back
  <2> QED  BY <2>1, <2>3, <2>4
<1> QED  BY <1>1, <1>2, <1>3, <1>4

LEMMA CancelKeeps ==
    ASSUME SiteInv, NEW o \in OrderIds, StaffCancels(o) \/ TellDropped(o)
    PROVE  SiteInv'
<1> DEFINE k == orders[o].item
           n == orders[o].packs
<1>1. PICK x \in OrderRow : orders' = [orders EXCEPT ![o] = x] /\ x.item = k
  BY CancelIs
<1>2. UNCHANGED <<supply, preorders, counted, draft, lost, onecVars, message>>
  BY CancelIs
<1>3. CASE k = None
  BY <1>1, <1>2, <1>3, CancelIs, OneOrderKeeps
<1>4. CASE k # None
  <2>1. PICK a \in BOOLEAN : item' = [item EXCEPT ![k] = Back(item[k], n, a)]
    BY <1>4, CancelIs
  <2>2. k \in Keys /\ item[k] \in ItemRow /\ item[k].on /\ n \in Nat
    BY <1>4, OrderItemIs
  <2> HIDE DEF k, n
  <2>3. /\ Back(item[k], n, a) \in ItemRow /\ Back(item[k], n, a).on
        /\ Back(item[k], n, a).reserved = item[k].reserved
    BY <2>2, BackIs
  <2>4. x.item = orders[o].item
    BY <1>1 DEF k
  <2> QED  BY <1>1, <1>2, <2>1, <2>2, <2>3, <2>4, OneRowKeeps
<1> QED  BY <1>3, <1>4

LEMMA ResumeIs ==
    ASSUME SiteInv, NEW o \in OrderIds, StaffResumes(o)
    PROVE  /\ orders[o].state = "cancelled" /\ (ResumesAll \/ o \notin dropped)
           /\ UNCHANGED <<supply, preorders, counted, draft, lost, onecVars, message>>
           /\ \E x \in OrderRow : /\ orders' = [orders EXCEPT ![o] = x]
                                  /\ x.state = "live" /\ x.item = orders[o].item
                                  /\ x.batch = orders[o].batch /\ x.packs = orders[o].packs
                                  /\ x.exported = orders[o].exported
           /\ orders[o].item = None => item' = item
           /\ orders[o].item # None =>
                /\ orders[o].packs <= Avail(item[orders[o].item])
                /\ \E a \in BOOLEAN :
                     item' = [item EXCEPT ![orders[o].item] =
                                Sold(item[orders[o].item], orders[o].packs, a)]
<1>1. /\ orders[o].state = "cancelled" /\ (ResumesAll \/ o \notin dropped)
      /\ UNCHANGED <<supply, preorders, counted, draft, lost, onecVars, message>>
      /\ orders' = [orders EXCEPT ![o].state = "live"]
  BY DEF StaffResumes, ShopActs
<1>2. \E x \in OrderRow : /\ orders' = [orders EXCEPT ![o] = x]
                          /\ x.state = "live" /\ x.item = orders[o].item
                          /\ x.batch = orders[o].batch /\ x.packs = orders[o].packs
                          /\ x.exported = orders[o].exported
  <2> DEFINE x == [orders[o] EXCEPT !.state = "live"]
  <2>1. orders \in [OrderIds -> OrderRow] /\ orders[o] \in OrderRow
    BY OrderItemIs DEF SiteInv, SiteTypeOK
  <2>2. orders' = [orders EXCEPT ![o] = x]
    BY <1>1, <2>1
  <2>3. /\ x \in OrderRow /\ x.state = "live" /\ x.item = orders[o].item
        /\ x.batch = orders[o].batch /\ x.packs = orders[o].packs
        /\ x.exported = orders[o].exported
    BY <2>1 DEF OrderRow
  <2> HIDE DEF x
  <2> QED  BY <2>2, <2>3
<1>3. orders[o].item = None => item' = item
  BY DEF StaffResumes
<1>4. ASSUME orders[o].item # None
      PROVE  /\ orders[o].packs <= Avail(item[orders[o].item])
             /\ \E a \in BOOLEAN : item' = [item EXCEPT ![orders[o].item] =
                                              Sold(item[orders[o].item], orders[o].packs, a)]
  <2> DEFINE k == orders[o].item
             left == [item[k] EXCEPT !.stock = @ - orders[o].packs]
             live == left.active /\ Avail(left) > 0
  <2>1. item' = [item EXCEPT ![k] = [left EXCEPT !.active = live]]
        /\ orders[o].packs <= Avail(item[k])
    BY <1>4 DEF StaffResumes
  <2>2. left \in ItemRow
    BY <1>4, OrderItemIs DEF ItemRow
  <2>3. live \in BOOLEAN
    BY <2>2 DEF ItemRow
  <2>4. [left EXCEPT !.active = live] = Sold(item[k], orders[o].packs, live)
    BY DEF Sold
  <2> QED  BY <2>1, <2>3, <2>4
<1> QED  BY <1>1, <1>2, <1>3, <1>4

LEMMA ResumeKeeps ==
    ASSUME SiteInv, NEW o \in OrderIds, StaffResumes(o)
    PROVE  SiteInv'
<1> DEFINE k == orders[o].item
           n == orders[o].packs
<1>1. PICK x \in OrderRow : orders' = [orders EXCEPT ![o] = x] /\ x.item = k
  BY ResumeIs
<1>2. UNCHANGED <<supply, preorders, counted, draft, lost, onecVars, message>>
  BY ResumeIs
<1>3. CASE k = None
  BY <1>1, <1>2, <1>3, ResumeIs, OneOrderKeeps
<1>4. CASE k # None
  <2>1. PICK a \in BOOLEAN : item' = [item EXCEPT ![k] = Sold(item[k], n, a)]
    BY <1>4, ResumeIs
  <2>2. k \in Keys /\ item[k] \in ItemRow /\ item[k].on /\ n \in Nat
    BY <1>4, OrderItemIs
  <2> HIDE DEF k, n
  <2>3. /\ Sold(item[k], n, a) \in ItemRow /\ Sold(item[k], n, a).on
        /\ Sold(item[k], n, a).reserved = item[k].reserved
    BY <2>2, SoldIs
  <2>4. x.item = orders[o].item
    BY <1>1 DEF k
  <2> QED  BY <1>1, <1>2, <2>1, <2>2, <2>3, <2>4, OneRowKeeps
<1> QED  BY <1>3, <1>4

LEMMA ConfirmIs ==
    ASSUME SiteInv, NEW o \in OrderIds, Confirm(o)
    PROVE  /\ o \in documents /\ counted = None /\ (Stale \/ message = None)
           /\ UNCHANGED <<supply, item, preorders, counted, draft, lost, onecVars, message>>
           /\ \E x \in OrderRow : /\ orders' = [orders EXCEPT ![o] = x]
                                  /\ x.state = orders[o].state /\ x.item = orders[o].item
                                  /\ x.batch = orders[o].batch /\ x.packs = orders[o].packs
                                  /\ x.exported
<1> DEFINE x == [orders[o] EXCEPT !.exported = TRUE]
<1>1. orders \in [OrderIds -> OrderRow] /\ orders[o] \in OrderRow
  BY OrderItemIs DEF SiteInv, SiteTypeOK
<1>2. orders' = [orders EXCEPT ![o] = x]
  BY <1>1 DEF Confirm
<1>3. /\ x \in OrderRow /\ x.state = orders[o].state /\ x.item = orders[o].item
      /\ x.batch = orders[o].batch /\ x.packs = orders[o].packs /\ x.exported
  BY <1>1 DEF OrderRow
<1>4. /\ o \in documents /\ counted = None /\ (Stale \/ message = None)
      /\ UNCHANGED <<supply, item, preorders, counted, draft, lost, onecVars, message>>
  BY DEF Confirm, ShopActs
<1> HIDE DEF x
<1> QED  BY <1>2, <1>3, <1>4

LEMMA ConfirmKeeps ==
    ASSUME SiteInv, NEW o \in OrderIds, Confirm(o)
    PROVE  SiteInv'
<1>1. PICK x \in OrderRow : orders' = [orders EXCEPT ![o] = x] /\ x.item = orders[o].item
  BY ConfirmIs
<1>2. UNCHANGED <<supply, item, preorders, counted, draft, lost, onecVars, message>>
  BY ConfirmIs
<1> QED  BY <1>1, <1>2, OneOrderKeeps

LEMMA PreorderItemIs ==
    ASSUME SiteInv, NEW i \in PreorderIds
    PROVE  /\ preorders[i] \in PreorderRow /\ preorders[i].packs \in Nat
           /\ preorders[i].item # None => /\ preorders[i].item \in Keys
                                          /\ item[preorders[i].item] \in ItemRow
                                          /\ item[preorders[i].item].on
<1>1. preorders[i] \in PreorderRow /\ item \in [Keys -> ItemRow]
  BY DEF SiteInv, SiteTypeOK
<1>2. preorders[i].packs \in Nat /\ (preorders[i].item # None => preorders[i].item \in Keys)
  BY <1>1 DEF PreorderRow
<1>3. preorders[i].item \in Keys => item[preorders[i].item].on
  BY DEF SiteInv, PointedIsOn, Referenced
<1> QED  BY <1>1, <1>2, <1>3

GonePreorder == [NoPreorder EXCEPT !.state = "gone"]

LEMMA GoneIs == /\ GonePreorder \in PreorderRow /\ GonePreorder.state = "gone"
                /\ GonePreorder.item = None
  BY DEF GonePreorder, NoPreorder, PreorderRow

\* One preorder leaves; the row it had packs of gives them back.
LEMMA LeavingKeeps ==
    ASSUME SiteInv, NEW i \in PreorderIds, preorders' = [preorders EXCEPT ![i] = GonePreorder]
    PROVE  /\ preorders' \in [PreorderIds -> PreorderRow]
           /\ WaitingIsAhead'
           /\ \A j \in PreorderIds, k \in Keys : preorders'[j].item = k => preorders[j].item = k
           /\ \A k \in Keys :
                IF preorders[i].state = "ready" /\ preorders[i].item = k
                THEN KeptFrom(preorders, k) = KeptFrom(preorders', k) + preorders[i].packs
                ELSE KeptFrom(preorders, k) = KeptFrom(preorders', k)
<1>1. preorders \in [PreorderIds -> PreorderRow]
  BY DEF SiteInv, SiteTypeOK
<1>2. preorders' \in [PreorderIds -> PreorderRow]
  BY <1>1, GoneIs
<1>3. preorders'[i] = GonePreorder /\ \A j \in PreorderIds \ {i} : preorders'[j] = preorders[j]
  BY <1>1
<1>4. \A j \in PreorderIds, k \in Keys : preorders'[j].item = k => preorders[j].item = k
  BY <1>3, GoneIs, NoneIsApart
<1>5. WaitingIsAhead'
  BY <1>3, GoneIs DEF SiteInv, WaitingIsAhead
<1>6. ASSUME NEW k \in Keys
      PROVE  IF preorders[i].state = "ready" /\ preorders[i].item = k
             THEN KeptFrom(preorders, k) = KeptFrom(preorders', k) + preorders[i].packs
             ELSE KeptFrom(preorders, k) = KeptFrom(preorders', k)
  <2>1. CASE preorders[i].state = "ready" /\ preorders[i].item = k
    <3>1. \A j \in PreorderIds \ {i} : preorders[j] = preorders'[j]
      BY <1>3
    <3>2. ~(preorders'[i].state = "ready" /\ preorders'[i].item = k)
      BY <1>3, GoneIs
    <3> DEFINE t == preorders'
               u == preorders
    <3>4. /\ t \in [PreorderIds -> PreorderRow] /\ u \in [PreorderIds -> PreorderRow]
          /\ \A j \in PreorderIds \ {i} : u[j] = t[j]
          /\ ~(t[i].state = "ready" /\ t[i].item = k)
          /\ u[i].state = "ready" /\ u[i].item = k
      BY <1>1, <1>2, <2>1, <3>1, <3>2
    <3> HIDE DEF t, u
    <3>5. KeptFrom(u, k) = KeptFrom(t, k) + u[i].packs
      BY <3>4, KeptMore
    <3>3. KeptFrom(preorders, k) = KeptFrom(preorders', k) + preorders[i].packs
      BY <3>5 DEF t, u
    <3> QED  BY <2>1, <3>3
  <2>2. CASE ~(preorders[i].state = "ready" /\ preorders[i].item = k)
    <3>1. ~(preorders'[i].state = "ready" /\ preorders'[i].item = k)
      BY <1>3, GoneIs
    <3> DEFINE t == preorders
               u == preorders'
    <3>2. \A j \in PreorderIds :
            /\ (t[j].state = "ready" /\ t[j].item = k) <=> (u[j].state = "ready" /\ u[j].item = k)
            /\ t[j].state = "ready" /\ t[j].item = k => t[j].packs = u[j].packs
      BY <1>3, <2>2, <3>1
    <3> HIDE DEF t, u
    <3>4. KeptFrom(t, k) = KeptFrom(u, k)
      BY <3>2, KeptSame
    <3>3. KeptFrom(preorders, k) = KeptFrom(preorders', k)
      BY <3>4 DEF t, u
    <3> QED  BY <2>2, <3>3
  <2> QED  BY <2>1, <2>2
<1> QED  BY <1>2, <1>4, <1>5, <1>6

\* An order is made of what a preorder has in reserve, or of less if it was lost.
LEMMA TakeIs ==
    ASSUME SiteInv, NEW o \in OrderIds, NEW i \in PreorderIds, TakeReady(o, i)
    PROVE  LET k == preorders[i].item
               n == Moved(item[k], preorders[i].packs)
           IN  /\ k \in Keys /\ n \in Nat /\ item[k] \in ItemRow /\ item[k].on
               /\ n > 0 /\ n <= item[k].stock /\ item[k].active
               /\ ~lost => n = preorders[i].packs /\ n <= item[k].reserved
               /\ preorders[i].state = "ready" /\ orders[o].state = "none"
               /\ preorders' = [preorders EXCEPT ![i] = GonePreorder]
               /\ orders' = [orders EXCEPT ![o] = [state |-> "live", batch |-> k, item |-> k,
                                                   packs |-> n, exported |-> FALSE]]
               /\ UNCHANGED <<supply, counted, draft, lost, onecVars, message>>
               /\ \E row \in ItemRow :
                    /\ item' = [item EXCEPT ![k] = row]
                    /\ row.on /\ row.stock = item[k].stock - n
                    /\ row.reserved = Freed(item[k], n)
<1> DEFINE k == preorders[i].item
           want == preorders[i].packs
           n == Moved(item[k], want)
           r == Freed(item[k], n)
           left == [item[k] EXCEPT !.stock = @ - n, !.reserved = r]
           live == left.active /\ Avail(left) > 0
           row == [left EXCEPT !.active = live]
<1>1. k \in Keys /\ want \in Nat /\ item[k] \in ItemRow /\ item[k].on
  BY PreorderItemIs DEF TakeReady
<1>2. /\ n > 0 /\ n <= item[k].stock /\ item[k].active
      /\ preorders[i].state = "ready" /\ orders[o].state = "none"
      /\ preorders' = [preorders EXCEPT ![i] = GonePreorder]
      /\ orders' = [orders EXCEPT ![o] = [state |-> "live", batch |-> k, item |-> k,
                                          packs |-> n, exported |-> FALSE]]
      /\ UNCHANGED <<supply, counted, draft, lost, onecVars, message>>
      /\ item' = [item EXCEPT ![k] = row]
  BY DEF TakeReady, ShopActs, GonePreorder
<1>3. n \in Nat /\ r \in Nat
  BY <1>1, AvailIs DEF Moved, Freed, ItemRow
<1>4. ASSUME ~lost PROVE n = want /\ n <= item[k].reserved
  <2>1. KeptFrom(preorders, k) = KeptFrom(preorders', k) + want
    BY <1>1, <1>2, LeavingKeeps
  <2>2. KeptFrom(preorders', k) \in Nat
    BY <1>2, LeavingKeeps, KeptType
  <2>3. item[k].reserved = KeptFrom(preorders, k)
    BY <1>1, <1>4 DEF SiteInv, AllKept
  <2>4. want <= item[k].reserved
    BY <1>1, <2>1, <2>2, <2>3
  <2>5. item[k].reserved > 0
    BY <1>1, <1>2, <2>4 DEF Moved, ItemRow
  <2>6. n = want
    BY <1>1, <2>4, <2>5 DEF Moved, ItemRow
  <2> QED  BY <2>4, <2>6
<1>5. /\ left \in ItemRow /\ left.on /\ left.stock = item[k].stock - n /\ left.reserved = r
  <2> DEFINE s == item[k].stock - n
  <2>1. s \in Int
    BY <1>1, <1>3 DEF ItemRow
  <2>2. left = [item[k] EXCEPT !.stock = s, !.reserved = r]
    OBVIOUS
  <2>3. left.stock = s /\ left.reserved = r /\ left.on = item[k].on /\ left \in ItemRow
    <3> HIDE DEF s, r
    <3> QED  BY <1>1, <1>3, <2>1, <2>2 DEF ItemRow
  <2> QED  BY <1>1, <2>3
<1>6. live \in BOOLEAN
  BY <1>5 DEF ItemRow
<1> HIDE DEF left
<1>7. row = Laid(left, live)
  BY DEF Laid
<1>8. row \in ItemRow /\ row.on /\ row.stock = left.stock /\ row.reserved = left.reserved
  <2> HIDE DEF live
  <2>1. /\ Laid(left, live) \in ItemRow /\ Laid(left, live).on = left.on
        /\ Laid(left, live).stock = left.stock /\ Laid(left, live).reserved = left.reserved
    BY <1>5, <1>6, LaidIs
  <2> QED  BY <1>5, <1>7, <2>1
<1> HIDE DEF row
<1> QED  BY <1>1, <1>2, <1>3, <1>4, <1>5, <1>8

LEMMA TakeKeeps ==
    ASSUME SiteInv, NEW o \in OrderIds, NEW i \in PreorderIds, TakeReady(o, i)
    PROVE  SiteInv'
<1> DEFINE k == preorders[i].item
           n == Moved(item[k], preorders[i].packs)
           x == [state |-> "live", batch |-> k, item |-> k, packs |-> n, exported |-> FALSE]
<1>1. /\ k \in Keys /\ n \in Nat /\ item[k] \in ItemRow /\ item[k].on
      /\ ~lost => n = preorders[i].packs /\ n <= item[k].reserved
      /\ preorders[i].state = "ready"
      /\ preorders' = [preorders EXCEPT ![i] = GonePreorder]
      /\ orders' = [orders EXCEPT ![o] = x]
      /\ UNCHANGED <<supply, counted, draft, lost, onecVars, message>>
  BY TakeIs
<1>2. PICK row \in ItemRow : /\ item' = [item EXCEPT ![k] = row]
                             /\ row.on /\ row.reserved = Freed(item[k], n)
  BY TakeIs
<1>3. x \in OrderRow /\ x.item = k
  BY <1>1 DEF OrderRow
<1> HIDE DEF x
<1>4. /\ orders \in [OrderIds -> OrderRow] /\ item \in [Keys -> ItemRow]
      /\ preorders \in [PreorderIds -> PreorderRow]
  BY DEF SiteInv, SiteTypeOK
<1>5. /\ preorders' \in [PreorderIds -> PreorderRow] /\ WaitingIsAhead'
      /\ \A j \in PreorderIds, l \in Keys : preorders'[j].item = l => preorders[j].item = l
      /\ \A l \in Keys : IF l = k
                         THEN KeptFrom(preorders, l) = KeptFrom(preorders', l) + preorders[i].packs
                         ELSE KeptFrom(preorders, l) = KeptFrom(preorders', l)
  BY <1>1, LeavingKeeps
<1>6. \A l \in Keys : KeptFrom(preorders', l) \in Nat
  BY <1>5, KeptType
<1>11. ~lost => row.reserved = item[k].reserved - preorders[i].packs
  <2> HIDE DEF n
  <2> QED  BY <1>1, <1>2 DEF Freed, ItemRow
<1>12. preorders[i].packs \in Nat
  BY PreorderItemIs
<1> HIDE DEF k, n
<1>7. SiteTypeOK'
  <2>1. orders' \in [OrderIds -> OrderRow] /\ item' \in [Keys -> ItemRow]
    BY <1>1, <1>2, <1>3, <1>4
  <2> QED  BY <1>1, <1>5, <2>1 DEF SiteInv, SiteTypeOK, onecVars
<1>8. OffIsAbsent(item)'
  BY <1>1, <1>2, <1>4, RowsAre DEF OffIsAbsent
<1>9. PointedIsOn'
  <2>1. \A e \in OrderIds, l \in Keys : orders'[e].item = l => orders[e].item = l \/ l = k
    BY <1>1, <1>3, <1>4
  <2>2. \A l \in Keys : item[l].on => item'[l].on
    BY <1>2, <1>4
  <2> QED  BY <1>1, <1>5, <2>1, <2>2 DEF SiteInv, PointedIsOn, Referenced
<1>10. AllKept'
  <2> SUFFICES ASSUME ~lost', NEW l \in Keys PROVE item'[l].reserved = KeptFrom(preorders', l)
    BY DEF AllKept, KeptFrom
  <2>1. item[l].reserved = KeptFrom(preorders, l)
    BY <1>1 DEF SiteInv, AllKept
  <2>2. KeptFrom(preorders', l) \in Nat
    BY <1>6
  <2>3. CASE l = k
    <3>1. KeptFrom(preorders, l) = KeptFrom(preorders', l) + preorders[i].packs
      BY <1>5, <2>3
    <3>2. item'[l].reserved = item[l].reserved - preorders[i].packs
      BY <1>1, <1>2, <1>4, <1>11, <2>3
    <3> QED  BY <1>12, <2>1, <2>2, <3>1, <3>2
  <2>4. CASE l # k
    <3>1. KeptFrom(preorders, l) = KeptFrom(preorders', l)
      BY <1>5, <2>4
    <3>2. item'[l] = item[l]
      BY <1>2, <1>4, <2>4
    <3> QED  BY <2>1, <3>1, <3>2
  <2> QED  BY <2>3, <2>4
<1> QED  BY <1>5, <1>7, <1>8, <1>9, <1>10 DEF SiteInv

LEMMA GiveUpKeeps ==
    ASSUME SiteInv, NEW i \in PreorderIds, GiveUp(i)
    PROVE  SiteInv' /\ \A k \in Keys : item'[k].on = item[k].on
<1> DEFINE k == preorders[i].item
           n == preorders[i].packs
           had == preorders[i].state = "ready"
           r == Freed(item[k], n)
           less == [item[k] EXCEPT !.reserved = r]
<1>1. /\ orders \in [OrderIds -> OrderRow] /\ item \in [Keys -> ItemRow]
      /\ preorders \in [PreorderIds -> PreorderRow]
  BY DEF SiteInv, SiteTypeOK
<1>2. /\ preorders' = [preorders EXCEPT ![i] = GonePreorder]
      /\ item' = IF had THEN [item EXCEPT ![k] = less] ELSE item
      /\ had => k # None
      /\ UNCHANGED <<supply, orders, counted, draft, lost, onecVars, message>>
  BY DEF GiveUp, ShopActs, GonePreorder
<1>3. /\ preorders' \in [PreorderIds -> PreorderRow] /\ WaitingIsAhead'
      /\ \A j \in PreorderIds, l \in Keys : preorders'[j].item = l => preorders[j].item = l
      /\ \A l \in Keys : IF had /\ l = k THEN KeptFrom(preorders, l) = KeptFrom(preorders', l) + n
                         ELSE KeptFrom(preorders, l) = KeptFrom(preorders', l)
  BY <1>2, LeavingKeeps, NoneIsApart
<1>4. \A l \in Keys : KeptFrom(preorders', l) \in Nat
  BY <1>3, KeptType
<1>5. ~lost => \A l \in Keys : item[l].reserved = KeptFrom(preorders, l)
  BY DEF SiteInv, AllKept
<1>6. n \in Nat
  BY PreorderItemIs
<1>7. ASSUME had
      PROVE  /\ k \in Keys /\ less \in ItemRow /\ less.on /\ item[k].on
             /\ ~lost => less.reserved = KeptFrom(preorders', k)
  <2>1. k \in Keys /\ item[k] \in ItemRow /\ item[k].on
    BY <1>2, <1>7, PreorderItemIs
  <2>2. KeptFrom(preorders, k) = KeptFrom(preorders', k) + n
    BY <1>3, <1>7, <2>1
  <2>3. r \in Nat
    BY <1>6, <2>1 DEF Freed, ItemRow
  <2>6. ~lost => r = KeptFrom(preorders', k)
    BY <1>4, <1>5, <1>6, <2>1, <2>2 DEF Freed
  <2> HIDE DEF r
  <2>5. less \in ItemRow /\ less.on = item[k].on /\ less.reserved = r
    BY <2>1, <2>3 DEF ItemRow
  <2> QED  BY <2>1, <2>5, <2>6
<1> HIDE DEF k, n, r, less
<1>8. \A l \in Keys : /\ item'[l] \in ItemRow
                      /\ ~lost => item'[l].reserved = KeptFrom(preorders', l)
                      /\ item'[l].on = item[l].on
                      /\ item'[l].on \/ item'[l] = Absent
  <2> SUFFICES ASSUME NEW l \in Keys
               PROVE  /\ item'[l] \in ItemRow
                      /\ ~lost => item'[l].reserved = KeptFrom(preorders', l)
                      /\ item'[l].on = item[l].on
                      /\ item'[l].on \/ item'[l] = Absent
    OBVIOUS
  <2>1. CASE had /\ l = k
    <3>1. item'[l] = less
      BY <1>1, <1>2, <2>1
    <3>2. less \in ItemRow /\ item[k] \in ItemRow
      BY <1>1, <1>7, <2>1
    <3>3. less.on = TRUE /\ item[k].on = TRUE
      BY <1>7, <2>1, <3>2 DEF ItemRow
    <3> QED  BY <1>7, <2>1, <3>1, <3>3
  <2>2. CASE ~(had /\ l = k)
    <3>1. item'[l] = item[l]
      BY <1>1, <1>2, <2>2
    <3>2. KeptFrom(preorders, l) = KeptFrom(preorders', l)
      BY <1>3, <2>2
    <3> QED  BY <1>5, <3>1, <3>2, RowsAre
  <2> QED  BY <2>1, <2>2
<1>9. item' \in [Keys -> ItemRow]
  BY <1>1, <1>2, <1>8
<1>10. SiteTypeOK'
  BY <1>2, <1>3, <1>9 DEF SiteInv, SiteTypeOK, onecVars
<1>11. OffIsAbsent(item)' /\ PointedIsOn'
  BY <1>2, <1>3, <1>8 DEF SiteInv, OffIsAbsent, PointedIsOn, Referenced
<1>12. AllKept'
  <2> HIDE DEF had
  <2> SUFFICES ASSUME ~lost', NEW l \in Keys PROVE item'[l].reserved = KeptFrom(preorders', l)
    BY DEF AllKept, KeptFrom
  <2> QED  BY <1>2, <1>8
<1> QED  BY <1>3, <1>8, <1>10, <1>11, <1>12 DEF SiteInv

LEMMA AskForKeeps ==
    ASSUME SiteInv, NEW i \in PreorderIds, NEW k \in Keys, NEW n \in Packs, AskFor(i, k, n)
    PROVE  SiteInv'
<1> DEFINE x == [state |-> "waiting", item |-> k, packs |-> n]
<1>1. /\ preorders \in [PreorderIds -> PreorderRow] /\ item \in [Keys -> ItemRow]
      /\ supply[Service] = "arrived"
  BY DEF SiteInv, SiteTypeOK
<1>2. /\ preorders[i].state = "none" /\ supply[k[1]] = "transit" /\ item[k].on
      /\ preorders' = [preorders EXCEPT ![i] = x]
      /\ UNCHANGED <<supply, item, orders, counted, draft, lost, onecVars, message>>
  BY DEF AskFor, ShopActs
<1>3. n \in Nat
  BY SyncAssumption
<1>4. x \in PreorderRow /\ x.state = "waiting" /\ x.item = k
  BY <1>3 DEF PreorderRow
<1> HIDE DEF x
<1>5. preorders'[i] = x /\ \A j \in PreorderIds \ {i} : preorders'[j] = preorders[j]
  BY <1>1, <1>2
<1>6. preorders' \in [PreorderIds -> PreorderRow]
  BY <1>1, <1>2, <1>4
<1>7. SiteTypeOK'
  BY <1>2, <1>6 DEF SiteInv, SiteTypeOK, onecVars
<1>8. OffIsAbsent(item)' /\ PointedIsOn'
  BY <1>2, <1>4, <1>5 DEF SiteInv, OffIsAbsent, PointedIsOn, Referenced
<1>9. WaitingIsAhead'
  <2>1. k \in Invoices \X Products
    BY <1>1, <1>2, KeysAre
  <2> QED  BY <1>4, <1>5, <2>1 DEF SiteInv, WaitingIsAhead
<1>10. AllKept'
  <2> SUFFICES ASSUME ~lost', NEW l \in Keys PROVE item'[l].reserved = KeptFrom(preorders', l)
    BY DEF AllKept, KeptFrom
  <2> DEFINE t == preorders
             u == preorders'
  <2>1. \A j \in PreorderIds :
          /\ (t[j].state = "ready" /\ t[j].item = l) <=> (u[j].state = "ready" /\ u[j].item = l)
          /\ t[j].state = "ready" /\ t[j].item = l => t[j].packs = u[j].packs
    BY <1>2, <1>4, <1>5
  <2> HIDE DEF t, u
  <2>2. KeptFrom(t, l) = KeptFrom(u, l)
    BY <2>1, KeptSame
  <2>3. item[l].reserved = KeptFrom(preorders, l)
    BY <1>2 DEF SiteInv, AllKept
  <2> QED  BY <1>2, <2>2, <2>3 DEF t, u
<1> QED  BY <1>7, <1>8, <1>9, <1>10 DEF SiteInv

LEMMA CloseStaleKeeps ==
    ASSUME SiteInv, NEW s \in Invoices, CloseStale(s)
    PROVE  SiteInv'
<1>1. /\ item' = [k \in Keys |-> IF k[1] = s THEN Laid(item[k], FALSE) ELSE item[k]]
      /\ supply' = [supply EXCEPT ![s] = "arrived"]
      /\ UNCHANGED <<orders, preorders, counted, draft, lost, onecVars, message>>
  BY DEF CloseStale, ShopActs, Laid
<1>2. ASSUME NEW k \in Keys
      PROVE  /\ item'[k] \in ItemRow /\ item'[k].reserved = item[k].reserved
             /\ item[k].on => item'[k].on
             /\ item'[k].on \/ item'[k] = Absent
  <2>1. item[k] \in ItemRow /\ (item[k].on \/ item[k] = Absent) /\ FALSE \in BOOLEAN
    BY RowsAre
  <2> DEFINE off == Laid(item[k], FALSE)
  <2>2. /\ off \in ItemRow /\ off.on = item[k].on /\ off.reserved = item[k].reserved
        /\ item[k] = Absent => off = Absent
    BY <2>1, LaidIs
  <2>3. item'[k] \in {item[k], off}
    BY <1>1
  <2> HIDE DEF off
  <2> QED  BY <2>1, <2>2, <2>3
<1>3. item' \in [Keys -> ItemRow]
  BY <1>1, <1>2
<1>4. supply' \in [Batches -> {"none", "transit", "arrived"}] /\ supply'[Service] = "arrived"
  <2>1. s # Service /\ Service \in Batches
    BY SyncAssumption DEF Batches
  <2>2. supply \in [Batches -> {"none", "transit", "arrived"}] /\ supply[Service] = "arrived"
    BY DEF SiteInv, SiteTypeOK
  <2> QED  BY <1>1, <2>1, <2>2
<1>5. SiteTypeOK'
  BY <1>1, <1>3, <1>4 DEF SiteInv, SiteTypeOK, onecVars
<1>6. OffIsAbsent(item)' /\ PointedIsOn' /\ WaitingIsAhead' /\ AllKept'
  BY <1>1, <1>2, <1>3, RowsRewritten
<1> QED  BY <1>5, <1>6 DEF SiteInv

-----------------------------------------------------------------------------
(* Reserves, and who waits                                                 *)
-----------------------------------------------------------------------------
(* What the tables are does not depend on 1C                               *)

\* What apply_supplies and apply_products look at.
Frozen == UNCHANGED <<supply, item, orders, preorders, counted, message>>

LEMMA LinesStay ==
    ASSUME Frozen, NEW k
    PROVE  AfterInvoice(message, k)' = AfterInvoice(message, k)
<1>1. Referenced(k)' = Referenced(k)
  BY DEF Frozen, Referenced
<1>2. AfterLines(message, k)' = AfterLines(message, k)
  BY <1>1 DEF Frozen, AfterLines, Less
<1>3. AfterBare(message, k)' = AfterBare(message, k)
  BY DEF Frozen, AfterBare, Avail
<1>4. Deleted(message, k[1])' = Deleted(message, k[1])
  BY DEF Frozen, Deleted, WaitingOn, Accepted
<1> QED  BY <1>2, <1>3, <1>4 DEF Frozen, AfterInvoice, Accepted

LEMMA ListStays ==
    ASSUME Frozen
    PROVE  Listed(message)' = Listed(message)
<1>1. \A k \in Keys : AfterInvoice(message, k)' = AfterInvoice(message, k)
  BY LinesStay
<1>2. \A s : Closed(message, s)' = Closed(message, s)
  BY DEF Frozen, Closed, Accepted
<1>3. \A s : Deleted(message, s)' = Deleted(message, s)
  BY DEF Frozen, Deleted, WaitingOn, Accepted
<1>4. ASSUME NEW s \in Batches PROVE SupplyAfter(message, s)' = SupplyAfter(message, s)
  <2>1. \A p \in Products : <<s, p>> \in Keys
    BY DEF Keys
  <2> QED  BY <1>1, <1>3, <2>1 DEF Frozen, SupplyAfter, Accepted
<1> QED  BY <1>1, <1>2, <1>4 DEF Frozen, Listed

LEMMA LoopStays ==
    ASSUME Frozen
    PROVE  Fulfil(Listed(message))' = Fulfil(Listed(message))
<1> DEFINE db == Listed(message)
<1>1. db' = db /\ preorders' = preorders
  BY ListStays DEF Frozen
<1> HIDE DEF db
<1>2. Fulfil(db)' = Fulfil(db)
  BY <1>1 DEF Fulfil, LookAt, Fulfilled, Sources, Sells, Avail
<1> QED  BY <1>2 DEF db

LEMMA OutcomeStays ==
    ASSUME Frozen
    PROVE  Outcome(message)' = Outcome(message)
<1>1. \A s : Deleted(message, s)' = Deleted(message, s)
  BY DEF Frozen, Deleted, WaitingOn, Accepted
<1>2. Supplied(message)' = Supplied(message)
  BY <1>1, ListStays, LoopStays DEF Supplied
<1>3. Restocked(message)' = Restocked(message)
  BY DEF Frozen, Restocked, Less
<1> QED  BY <1>2, <1>3 DEF Frozen, Outcome
\* What the shop does, and orders/ack and orders/status for 1C.
ShopStep ==
    \/ \E s \in Invoices : CloseStale(s)
    \/ \E o \in OrderIds :
        \/ Confirm(o) \/ TellDropped(o) \/ StaffCancels(o) \/ StaffResumes(o)
        \/ \E k \in Keys, n \in Packs : Order(o, k, n)
        \/ \E i \in PreorderIds : TakeReady(o, i)
    \/ \E i \in PreorderIds :
        \/ GiveUp(i)
        \/ \E k \in Keys, n \in Packs : AskFor(i, k, n)

LEMMA ShopIsActing == ASSUME ShopStep PROVE ShopActs
  BY DEF ShopStep, Confirm, TellDropped, StaffCancels, StaffResumes, Order, TakeReady,
         GiveUp, AskFor, CloseStale

LEMMA ShopKeeps == ASSUME SiteInv, ShopStep PROVE SiteInv'
<1>1. ASSUME NEW s \in Invoices, CloseStale(s) PROVE SiteInv'
  BY <1>1, CloseStaleKeeps
<1>2. ASSUME NEW o \in OrderIds, Confirm(o) PROVE SiteInv'
  BY <1>2, ConfirmKeeps
<1>3. ASSUME NEW o \in OrderIds, TellDropped(o) \/ StaffCancels(o) PROVE SiteInv'
  BY <1>3, CancelKeeps
<1>4. ASSUME NEW o \in OrderIds, StaffResumes(o) PROVE SiteInv'
  BY <1>4, ResumeKeeps
<1>5. ASSUME NEW o \in OrderIds, NEW k \in Keys, NEW n \in Packs, Order(o, k, n) PROVE SiteInv'
  BY <1>5, OrderKeeps
<1>6. ASSUME NEW o \in OrderIds, NEW i \in PreorderIds, TakeReady(o, i) PROVE SiteInv'
  BY <1>6, TakeKeeps
<1>7. ASSUME NEW i \in PreorderIds, GiveUp(i) PROVE SiteInv'
  BY <1>7, GiveUpKeeps
<1>8. ASSUME NEW i \in PreorderIds, NEW k \in Keys, NEW n \in Packs, AskFor(i, k, n) PROVE SiteInv'
  BY <1>8, AskForKeeps
<1> QED  BY <1>1, <1>2, <1>3, <1>4, <1>5, <1>6, <1>7, <1>8 DEF ShopStep

\* The shop neither adds rows nor takes them away.
LEMMA ShopKeepsRows ==
    ASSUME SiteInv, ShopStep, NEW l \in Keys
    PROVE  item'[l].on = item[l].on
<1>1. item \in [Keys -> ItemRow] /\ item[l] \in ItemRow
  BY DEF SiteInv, SiteTypeOK
<1>2. ASSUME NEW k \in Keys, NEW row \in ItemRow, item' = [item EXCEPT ![k] = row],
             row.on = item[k].on
      PROVE  item'[l].on = item[l].on
  BY <1>1, <1>2
<1>3. ASSUME NEW s \in Invoices, CloseStale(s) PROVE item'[l].on = item[l].on
  <2>1. item'[l] \in {item[l], Laid(item[l], FALSE)}
    BY <1>3 DEF CloseStale, Laid
  <2>2. FALSE \in BOOLEAN
    OBVIOUS
  <2> QED  BY <1>1, <2>1, <2>2, LaidIs
<1>4. ASSUME NEW o \in OrderIds, Confirm(o) PROVE item'[l].on = item[l].on
  BY <1>4 DEF Confirm
<1>5. ASSUME NEW o \in OrderIds, TellDropped(o) \/ StaffCancels(o) PROVE item'[l].on = item[l].on
  <2>1. CASE orders[o].item = None
    BY <1>5, <2>1, CancelIs
  <2>2. CASE orders[o].item # None
    <3> DEFINE k == orders[o].item
               n == orders[o].packs
    <3>1. PICK a \in BOOLEAN : item' = [item EXCEPT ![k] = Back(item[k], n, a)]
      BY <1>5, <2>2, CancelIs
    <3>2. k \in Keys /\ item[k] \in ItemRow /\ n \in Nat
      BY <2>2, OrderItemIs
    <3> HIDE DEF k, n
    <3>3. Back(item[k], n, a) \in ItemRow /\ Back(item[k], n, a).on = item[k].on
      BY <3>2, BackIs
    <3> QED  BY <1>2, <3>1, <3>2, <3>3
  <2> QED  BY <2>1, <2>2
<1>6. ASSUME NEW o \in OrderIds, StaffResumes(o) PROVE item'[l].on = item[l].on
  <2>1. CASE orders[o].item = None
    BY <1>6, <2>1, ResumeIs
  <2>2. CASE orders[o].item # None
    <3> DEFINE k == orders[o].item
               n == orders[o].packs
    <3>1. PICK a \in BOOLEAN : item' = [item EXCEPT ![k] = Sold(item[k], n, a)]
      BY <1>6, <2>2, ResumeIs
    <3>2. k \in Keys /\ item[k] \in ItemRow /\ n \in Nat
      BY <2>2, OrderItemIs
    <3> HIDE DEF k, n
    <3>3. Sold(item[k], n, a) \in ItemRow /\ Sold(item[k], n, a).on = item[k].on
      BY <3>2, SoldIs
    <3> QED  BY <1>2, <3>1, <3>2, <3>3
  <2> QED  BY <2>1, <2>2
<1>7. ASSUME NEW o \in OrderIds, NEW k \in Keys, NEW n \in Packs, Order(o, k, n)
      PROVE  item'[l].on = item[l].on
  <2>1. PICK a \in BOOLEAN : item' = [item EXCEPT ![k] = Sold(item[k], n, a)]
    BY <1>7, OrderIsOne
  <2>2. item[k] \in ItemRow /\ n \in Nat
    BY SyncAssumption DEF SiteInv, SiteTypeOK
  <2>3. Sold(item[k], n, a) \in ItemRow /\ Sold(item[k], n, a).on = item[k].on
    BY <2>2, SoldIs
  <2> QED  BY <1>2, <2>1, <2>3
<1>8. ASSUME NEW o \in OrderIds, NEW i \in PreorderIds, TakeReady(o, i)
      PROVE  item'[l].on = item[l].on
  <2> DEFINE k == preorders[i].item
  <2>1. k \in Keys /\ item[k] \in ItemRow /\ item[k].on
    BY <1>8, TakeIs
  <2>2. PICK row \in ItemRow : item' = [item EXCEPT ![k] = row] /\ row.on
    BY <1>8, TakeIs
  <2> HIDE DEF k
  <2>3. row.on = TRUE /\ item[k].on = TRUE
    BY <2>1, <2>2 DEF ItemRow
  <2> QED  BY <1>2, <2>1, <2>2, <2>3
<1>9. ASSUME NEW i \in PreorderIds, GiveUp(i) PROVE item'[l].on = item[l].on
  BY <1>9, GiveUpKeeps
<1>10. ASSUME NEW i \in PreorderIds, NEW k \in Keys, NEW n \in Packs, AskFor(i, k, n)
       PROVE  item'[l].on = item[l].on
  BY <1>10 DEF AskFor
<1> QED  BY <1>3, <1>4, <1>5, <1>6, <1>7, <1>8, <1>9, <1>10 DEF ShopStep

-----------------------------------------------------------------------------
(* Reserves, and who waits                                                 *)

\* What an exchange is to write stays what it has read, or the shop has moved.
LEMMA SoundStays ==
    ASSUME NEW a, NEW b, lost' = lost, draft'.old = a, draft'.new = b, Sound(a, b)
    PROVE  Sound(draft.old, draft.new)'
<1> DEFINE c == draft.old
           d == draft.new
<1>1. c' = a /\ d' = b
  OBVIOUS
<1>2. /\ a.item \in [Keys -> ItemRow] /\ b.item \in [Keys -> ItemRow]
      /\ a.preorders \in [PreorderIds -> PreorderRow]
      /\ b.preorders \in [PreorderIds -> PreorderRow]
      /\ b.supply \in [Batches -> {"none", "transit", "arrived"}]
      /\ b.supply[Service] = "arrived"
      /\ \A k \in Keys : /\ a.item[k].on \/ a.item[k] = Absent
                         /\ b.item[k].on \/ b.item[k] = Absent
                         /\ k[1] \in b.gone => ~b.item[k].on
      /\ \A i \in PreorderIds :
           \/ b.preorders[i] = a.preorders[i]
           \/ /\ b.preorders[i].state = "ready" /\ b.preorders[i].item \in Keys
              /\ b.item[b.preorders[i].item].on
  BY DEF Sound, OffIsAbsent, Off
<1>3. ~lost => \A k \in Keys : b.item[k].on =>
        b.item[k].reserved + KeptFrom(a.preorders, k)
          = a.item[k].reserved + KeptFrom(b.preorders, k)
  BY DEF Sound
<1> HIDE DEF c, d
<1>4. /\ c'.item \in [Keys -> ItemRow] /\ d'.item \in [Keys -> ItemRow]
      /\ c'.preorders \in [PreorderIds -> PreorderRow]
      /\ d'.preorders \in [PreorderIds -> PreorderRow]
      /\ d'.supply \in [Batches -> {"none", "transit", "arrived"}]
      /\ d'.supply[Service] = "arrived"
      /\ \A i \in PreorderIds :
           \/ d'.preorders[i] = c'.preorders[i]
           \/ /\ d'.preorders[i].state = "ready" /\ d'.preorders[i].item \in Keys
              /\ d'.item[d'.preorders[i].item].on
  BY <1>1, <1>2
<1>5. OffIsAbsent(c'.item) /\ OffIsAbsent(d'.item) /\ \A k \in Off(d'.gone) : ~d'.item[k].on
  BY <1>1, <1>2 DEF OffIsAbsent, Off
<1>6. ~lost' => \A k \in Keys : d'.item[k].on =>
        d'.item[k].reserved + KeptFrom(c'.preorders, k)
          = c'.item[k].reserved + KeptFrom(d'.preorders, k)
  BY <1>1, <1>3
<1>7. Sound(c, d)'
  BY <1>4, <1>5, <1>6 DEF Sound
<1> QED  BY <1>7 DEF c, d

LEMMA ShopKeepsDraft ==
    ASSUME SiteInv, DraftInv, ShopStep
    PROVE  DraftInv'
<1> SUFFICES ASSUME draft' # None
             PROVE  /\ Sound(draft.old, draft.new)'
                    /\ \A k \in Keys : item'[k].on = draft'.old.item[k].on
                    /\ ~still'
  BY DEF DraftInv
<1>1. draft' = draft /\ lost' = lost /\ still' = FALSE
  BY ShopIsActing DEF ShopActs
<1>2. Sound(draft.old, draft.new) /\ \A k \in Keys : item[k].on = draft.old.item[k].on
  BY <1>1 DEF DraftInv
<1> QED  BY <1>1, <1>2, SoundStays, ShopKeepsRows

LEMMA AsideKeepsDraft ==
    ASSUME SiteInv, DraftInv, Aside
    PROVE  DraftInv'
<1>1. CASE ReadTables
  <2>1. UNCHANGED <<siteVars, counted, still, message, lost>>
        /\ draft' = [old |-> Tables, new |-> Outcome(message)]
        /\ counted # None /\ message # None
    BY <1>1 DEF ReadTables, Tables, SiteInv, SiteTypeOK
  <2>2. Frozen
    BY <2>1 DEF Frozen, siteVars
  <2>3. Tables' = Tables /\ Outcome(message)' = Outcome(message)
    BY <2>2, OutcomeStays DEF Tables, Frozen
  <2> DEFINE old == Tables
             new == Outcome(message)
  <2>4. Sound(old, new)
    BY <2>1, OutcomeIs
  <2>5. draft'.old = old /\ draft'.new = new /\ old.item = item
    BY <2>1 DEF Tables
  <2> HIDE DEF old, new
  <2>6. Sound(draft.old, draft.new)'
    BY <2>1, <2>4, <2>5, SoundStays
  <2>7. \A k \in Keys : item'[k].on = draft'.old.item[k].on
    BY <2>1, <2>5 DEF siteVars
  <2>8. draft'.old = Tables' /\ draft'.new = Outcome(message)'
    BY <2>3, <2>5 DEF old, new
  <2> QED  BY <2>6, <2>7, <2>8 DEF DraftInv
<1>2. CASE /\ UNCHANGED <<siteVars, counted, draft, still, message, lost>>
  <2>1. Frozen
    BY <1>2 DEF Frozen, siteVars
  <2>2. Tables' = Tables /\ Outcome(message)' = Outcome(message)
    BY <2>1, OutcomeStays DEF Tables, Frozen
  <2> SUFFICES ASSUME draft' # None
               PROVE  /\ Sound(draft.old, draft.new)'
                      /\ \A k \in Keys : item'[k].on = draft'.old.item[k].on
                      /\ still' => draft'.old = Tables' /\ draft'.new = Outcome(message)'
    BY DEF DraftInv
  <2>3. /\ Sound(draft.old, draft.new)
        /\ \A k \in Keys : item[k].on = draft.old.item[k].on
        /\ still => draft.old = Tables /\ draft.new = Outcome(message)
    BY <1>2 DEF DraftInv
  <2> QED  BY <1>2, <2>2, <2>3, SoundStays DEF siteVars
<1>3. CASE draft' = None
  BY <1>3 DEF DraftInv
<1>4. ReadTables \/ UNCHANGED <<siteVars, counted, draft, still, message, lost>> \/ draft' = None
  <2>1. CASE BeginSync \/ RollBack \/ SendSupplies \/ SendProducts \/ Done
    BY <2>1 DEF BeginSync, RollBack, SendSupplies, SendProducts, Done, syncVars, SiteInv, SiteTypeOK
  <2>2. ASSUME NEW s \in Invoices, Receive(s) \/ CancelInvoice(s) PROVE draft' = None
    BY <2>2 DEF Receive, CancelInvoice, syncVars, SiteInv, SiteTypeOK
  <2>3. ASSUME NEW o \in OrderIds, Document(o) \/ DropOrder(o)
        PROVE  UNCHANGED <<siteVars, counted, draft, still, message, lost>>
    BY <2>3 DEF Document, DropOrder, syncVars
  <2> QED  BY <2>1, <2>2, <2>3 DEF Aside
<1> QED  BY <1>1, <1>2, <1>3, <1>4

LEMMA StepIs == ASSUME Next PROVE Aside \/ CommitSync \/ ShopStep
  BY DEF Next, Aside, ShopStep

ReservesInv == SiteInv /\ DraftInv

LEMMA SiteBegan == ASSUME Init PROVE ReservesInv
  BY SiteBegins DEF Init, ReservesInv, DraftInv

\* Every step keeps the invariant.
LEMMA SiteStep == ASSUME ReservesInv, [Next]_vars PROVE ReservesInv'
<1>1. CASE Aside
  BY <1>1, AsideKeeps, AsideKeepsDraft DEF ReservesInv
<1>2. CASE CommitSync
  BY <1>2, CommitKeeps DEF ReservesInv
<1>3. CASE ShopStep
  BY <1>3, ShopKeeps, ShopKeepsDraft DEF ReservesInv
<1>4. CASE UNCHANGED vars
  <2>1. /\ UNCHANGED <<supply, item, orders, preorders, counted, draft, still>>
        /\ UNCHANGED <<posted, books, documents, dropped, message, lost>>
    BY <1>4 DEF vars, siteVars, syncVars, onecVars
  <2>2. SiteInv'
    BY <2>1 DEF ReservesInv, SiteInv, SiteTypeOK, OffIsAbsent, PointedIsOn, Referenced,
                WaitingIsAhead, AllKept, KeptFrom
  <2>3. Frozen
    BY <2>1 DEF Frozen
  <2>4. Tables' = Tables /\ Outcome(message)' = Outcome(message)
    BY <2>3, OutcomeStays DEF Tables, Frozen
  <2>5. DraftInv'
    <3> SUFFICES ASSUME draft' # None
                 PROVE  /\ Sound(draft.old, draft.new)'
                        /\ \A k \in Keys : item'[k].on = draft'.old.item[k].on
                        /\ still' => draft'.old = Tables' /\ draft'.new = Outcome(message)'
      BY DEF DraftInv
    <3>1. /\ Sound(draft.old, draft.new)
          /\ \A k \in Keys : item[k].on = draft.old.item[k].on
          /\ still => draft.old = Tables /\ draft.new = Outcome(message)
      BY <2>1 DEF ReservesInv, DraftInv
    <3> QED  BY <2>1, <2>4, <3>1, SoundStays
  <2> QED  BY <2>2, <2>5 DEF ReservesInv
<1> QED  BY <1>1, <1>2, <1>3, <1>4, StepIs

\* The tables, and what an exchange is about to write, are sound at every step of
\* apply_supplies, apply_products and the shop beside them.
THEOREM InvIsKept == Spec => []ReservesInv
  BY SiteBegan, SiteStep, PTL DEF Spec

\* A reserve always belongs to the preorders that have arrived on its position,
\* as long as none was overwritten (fulfil_preorders, supply_sync.py:358).
THEOREM ReservesAreOwned == Spec => []ReserveIsOwned
<1>1. ReservesInv => ReserveIsOwned
  BY KeptIs DEF ReservesInv, SiteInv, AllKept, ReserveIsOwned
<1> QED  BY <1>1, InvIsKept, PTL

-----------------------------------------------------------------------------
(* The commit of an exchange the shop has not disturbed                    *)

\* It is as if the tables were read and written at once.
Applied(m) ==
    LET new == Outcome(m)
    IN  /\ counted # None /\ message # None
        /\ supply' = new.supply /\ item' = new.item
        /\ \A i \in PreorderIds :
             /\ preorders'[i].state = new.preorders[i].state
             /\ preorders'[i].packs = new.preorders[i].packs
             /\ preorders'[i].item = IF new.preorders[i].item \in Off(new.gone) THEN None
                                     ELSE new.preorders[i].item
        /\ \A o \in OrderIds :
             /\ orders'[o].state = orders[o].state /\ orders'[o].packs = orders[o].packs
             /\ orders'[o].batch = orders[o].batch /\ orders'[o].exported = orders[o].exported
             /\ orders'[o].item = IF orders[o].item \in Off(new.gone) THEN None
                                  ELSE orders[o].item
        /\ settled' = TRUE /\ counted' = None /\ lost' = lost
        /\ UNCHANGED <<onecVars, message>>

LEMMA StillIsApplied ==
    ASSUME ReservesInv, still, CommitSync
    PROVE  Applied(message)
<1> DEFINE old == draft.old
           new == draft.new
<1>1. /\ draft # None /\ counted' = None /\ settled' = TRUE
      /\ supply' = [s \in Batches |-> Column(supply[s], old.supply[s], new.supply[s])]
      /\ item' = [k \in Keys |-> RowWritten(k)]
      /\ preorders' = [i \in PreorderIds |->
                         Unhooked(Column(preorders[i], old.preorders[i], new.preorders[i]))]
      /\ orders' = [o \in OrderIds |-> Unhooked(orders[o])]
      /\ lost' = (lost \/ \E k \in Keys : Overwritten(k))
      /\ UNCHANGED <<onecVars, message>>
  BY DEF CommitSync
<1>2. Sound(old, new) /\ old = Tables /\ new = Outcome(message)
  BY <1>1 DEF ReservesInv, DraftInv
<1>3. old.supply = supply /\ old.item = item /\ old.preorders = preorders
  BY <1>2 DEF Tables
<1>4. counted # None /\ message # None
  BY <1>1 DEF ReservesInv, SiteInv, SiteTypeOK
<1>5. /\ item \in [Keys -> ItemRow] /\ orders \in [OrderIds -> OrderRow]
      /\ preorders \in [PreorderIds -> PreorderRow] /\ OffIsAbsent(item)
      /\ supply \in [Batches -> {"none", "transit", "arrived"}] /\ lost \in BOOLEAN
  BY DEF ReservesInv, SiteInv, SiteTypeOK
<1>6. supply' = new.supply
  <2>1. supply' = [s \in Batches |-> new.supply[s]]
    BY <1>1, <1>3 DEF Column
  <2> HIDE DEF new
  <2> QED  BY <1>2, <2>1 DEF Sound
<1>7. item' = new.item
  <2>1. \A k \in Keys : RowWritten(k) = new.item[k]
    <3> SUFFICES ASSUME NEW k \in Keys PROVE RowWritten(k) = new.item[k]
      OBVIOUS
    <3> DEFINE r == item[k]
               n == new.item[k]
               mix == [on |-> n.on, stock |-> n.stock, reserved |-> n.reserved,
                       active |-> n.active]
    <3>1. RowWritten(k) = IF r.on /\ ~n.on THEN Absent ELSE mix
      BY <1>3 DEF RowWritten, Column
    <3>2. n \in ItemRow /\ (n.on \/ n = Absent)
      BY <1>2 DEF Sound, OffIsAbsent
    <3> HIDE DEF r, n
    <3>3. mix = n
      BY <3>2 DEF ItemRow
    <3> QED  BY <3>1, <3>2, <3>3 DEF n
  <2> HIDE DEF new, old
  <2>2. item' = [k \in Keys |-> new.item[k]]
    BY <1>1, <2>1
  <2> QED  BY <1>2, <2>2 DEF Sound
<1>8. \A i \in PreorderIds :
        /\ preorders'[i].state = new.preorders[i].state
        /\ preorders'[i].packs = new.preorders[i].packs
        /\ preorders'[i].item = IF new.preorders[i].item \in Off(new.gone) THEN None
                                ELSE new.preorders[i].item
  <2> SUFFICES ASSUME NEW i \in PreorderIds
               PROVE  /\ preorders'[i].state = new.preorders[i].state
                      /\ preorders'[i].packs = new.preorders[i].packs
                      /\ preorders'[i].item = IF new.preorders[i].item \in Off(new.gone) THEN None
                                              ELSE new.preorders[i].item
    OBVIOUS
  <2> DEFINE x == new.preorders[i]
  <2>1. preorders'[i] = Unhooked(x)
    BY <1>1, <1>3 DEF Column
  <2>2. x \in PreorderRow
    BY <1>2 DEF Sound
  <2> HIDE DEF x
  <2>3. /\ Unhooked(x).state = x.state /\ Unhooked(x).packs = x.packs
        /\ Unhooked(x).item = IF x.item \in Off(new.gone) THEN None ELSE x.item
    BY <2>2, UnhookedPreorder
  <2> QED  BY <2>1, <2>3 DEF x
<1>9. \A o \in OrderIds :
        /\ orders'[o].state = orders[o].state /\ orders'[o].packs = orders[o].packs
        /\ orders'[o].batch = orders[o].batch /\ orders'[o].exported = orders[o].exported
        /\ orders'[o].item = IF orders[o].item \in Off(new.gone) THEN None ELSE orders[o].item
  BY <1>1, <1>5, UnhookedOrder
<1>10. lost' = lost
  BY <1>1, <1>3, <1>5 DEF Overwritten
<1> HIDE DEF new, old
<1> QED  BY <1>1, <1>2, <1>4, <1>6, <1>7, <1>8, <1>9, <1>10 DEF Applied

\* Who waits has been looked at, and there was nothing for him.
Served ==
    \A i \in PreorderIds :
        preorders[i].state = "waiting" /\ preorders[i].item # None
        /\ supply[preorders[i].item[1]] = "arrived" =>
            /\ ~Sells(item, preorders[i].item)
            /\ ~Sells(item, <<Service, preorders[i].item[2]>>)

LEMMA SuppliesServe ==
    ASSUME SiteInv, Applied(message), message.kind = "supplies"
    PROVE  Served'
<1> DEFINE m == message
           db == Listed(m)
           now == Fulfil(db)
           new == Supplied(m)
<1>1. counted # None /\ message # None
  BY DEF Applied
<1>2. Midway(db, Gone(m), NPreorders, now)
  BY <1>1, LoopIsRun
<1>3. /\ new.supply = db.supply /\ new.item = now.item /\ new.preorders = now.preorders
      /\ new = Outcome(message)
  BY DEF Supplied, Outcome
<1> HIDE DEF db, now, new
<1>4. /\ supply' = db.supply /\ item' = now.item
      /\ \A i \in PreorderIds :
           /\ preorders'[i].state = now.preorders[i].state
           /\ preorders'[i].item # None => preorders'[i].item = now.preorders[i].item
  BY <1>3 DEF Applied
<1> SUFFICES ASSUME NEW i \in PreorderIds, preorders'[i].state = "waiting",
                    preorders'[i].item # None, supply'[preorders'[i].item[1]] = "arrived"
             PROVE  /\ ~Sells(item', preorders'[i].item)
                    /\ ~Sells(item', <<Service, preorders'[i].item[2]>>)
  BY DEF Served, Sells
<1>5. now.preorders[i] = preorders[i] /\ preorders'[i].item = preorders[i].item
  BY <1>2, <1>4 DEF Midway
<1>6. i <= NPreorders
  BY DEF PreorderIds
<1> QED  BY <1>2, <1>4, <1>5, <1>6 DEF Midway

\* Once a message with supplies is applied, and until anything else happens.
ServedWhenSettled ==
    settled => message # None /\ (message.kind = "supplies" => Served)

LEMMA SettledStep ==
    ASSUME ReservesInv, ServedWhenSettled, [Next]_vars
    PROVE  ServedWhenSettled'
<1>1. CASE CommitSync
  <2>1. CASE still
    <3>1. Applied(message) /\ SiteInv
      BY <1>1, <2>1, StillIsApplied DEF ReservesInv
    <3> QED  BY <3>1, SuppliesServe DEF ServedWhenSettled, Applied
  <2>2. CASE ~still
    BY <1>1, <2>2 DEF CommitSync, ServedWhenSettled
  <2> QED  BY <2>1, <2>2
<1>2. CASE \/ UNCHANGED <<siteVars, message, settled>>
           \/ message = None /\ UNCHANGED settled
  BY <1>2 DEF ServedWhenSettled, Served, Sells, siteVars
<1>3. CASE Aside \/ UNCHANGED vars
  <2>1. CASE Done
    BY <2>1 DEF Done, ServedWhenSettled
  <2>2. CASE BeginSync \/ ReadTables \/ RollBack \/ UNCHANGED vars
             \/ \E o \in OrderIds : Document(o) \/ DropOrder(o)
    BY <1>2, <2>2 DEF BeginSync, ReadTables, RollBack, Document, DropOrder, vars
  <2>3. CASE SendSupplies \/ SendProducts \/ \E s \in Invoices : Receive(s) \/ CancelInvoice(s)
    BY <1>2, <2>3 DEF SendSupplies, SendProducts, Receive, CancelInvoice
  <2> QED  BY <1>3, <2>1, <2>2, <2>3 DEF Aside
<1>4. CASE ShopStep
  BY <1>4, ShopIsActing DEF ShopActs, ServedWhenSettled
<1> QED  BY <1>1, <1>3, <1>4, StepIs

\* When a message with supplies is applied and the shop has stood still meanwhile,
\* nobody waits for goods that lie on the shelf (services/supply_sync.py,
\* fulfil_preorders at the end of apply_supplies).
THEOREM NobodyWaitsForTheShelf == Spec => []ArrivedAreServed
<1>1. Init => ServedWhenSettled
  BY DEF Init, ServedWhenSettled
<1>2. ServedWhenSettled => ArrivedAreServed
  BY DEF ServedWhenSettled, Served, ArrivedAreServed
<1>3. ReservesInv /\ ServedWhenSettled /\ [Next]_vars => ServedWhenSettled'
  BY SettledStep
<1> QED  BY <1>1, <1>2, <1>3, InvIsKept, PTL DEF Spec

-----------------------------------------------------------------------------
(* What 1C knows and what the site sells                                   *)

\* The packs of a set of orders.
Sum(table, set) == Total([o \in OrderIds |-> table[o].packs], set)

\* The live orders of a batch; and those of a set 1C knows of.
LiveOf(table, k) == {o \in OrderIds : table[o].state = "live" /\ table[o].batch = k}
OfBatch(table, set, k) == {o \in set : table[o].batch = k}

\* The goods of the position are in the warehouse.
Here(k) == k[1] = Service \/ posted[k[1]] # "transit"

BooksAgree ==
    \A k \in Keys :
        Withdrawn(k) \/ books[k] = Shipped[k] - Sum(orders, OfBatch(orders, documents \ dropped, k))

\* A message says what is left of a batch when the orders known then are gone.
MessageAgrees ==
    message # None =>
        /\ message.status = posted
        /\ \A o \in message.known : orders[o].state # "none"
        /\ \A k \in Keys :
             \/ Withdrawn(k) \/ message.qty[k] = 0
             \/ message.qty[k] + Sum(orders, OfBatch(orders, message.known, k)) <= Shipped[k]

DocumentsAgree ==
    /\ dropped \subseteq documents
    /\ \A o \in documents : orders[o].state # "none"

\* An order keeps the position it was made from, as long as that has not been
\* deleted with an invoice 1C has cancelled.
BatchesAgree ==
    \A o \in OrderIds : orders[o].state # "none" =>
        /\ orders[o].batch \in Keys /\ orders[o].item \in {None, orders[o].batch}
        /\ orders[o].item = None => Withdrawn(orders[o].batch)

ReceivedFirst ==
    /\ \A k \in Keys : item[k].active => Here(k)
    /\ \A o \in OrderIds : orders[o].state # "none" => Here(orders[o].batch)

\* What an exchange has counted is still so, or the shop has moved; it deletes
\* what 1C has cancelled and sells what is in the warehouse.
CountAgrees == counted # None /\ still => counted = Pending

DraftAgrees ==
    draft # None =>
        /\ \A s \in draft.new.gone : s \in Invoices /\ posted[s] = "cancelled"
        /\ \A k \in Keys : draft.new.item[k].active => Here(k)

BookInv == BooksAgree /\ MessageAgrees /\ DocumentsAgree /\ BatchesAgree /\ ReceivedFirst

LEMMA SumIsNat ==
    ASSUME NEW t \in [OrderIds -> OrderRow], NEW S \in SUBSET OrderIds
    PROVE  Sum(t, S) \in Nat
<1> DEFINE f == [o \in OrderIds |-> t[o].packs]
<1>1. IsFiniteSet(S) /\ \A o \in S : f[o] \in Nat
  BY SyncAssumption, FS_Subset DEF OrderRow
<1> QED  BY <1>1, TotalIsNat DEF Sum

LEMMA SumSame ==
    ASSUME NEW t, NEW u, NEW S \in SUBSET OrderIds, \A o \in S : t[o].packs = u[o].packs
    PROVE  Sum(t, S) = Sum(u, S)
<1> DEFINE f == [o \in OrderIds |-> t[o].packs]
           g == [o \in OrderIds |-> u[o].packs]
<1>1. IsFiniteSet(S) /\ \A o \in S : f[o] = g[o]
  BY SyncAssumption, FS_Subset
<1>2. Total(f, S) = Total(g, S)
  BY <1>1, TotalOfSame
<1> QED  BY <1>2 DEF Sum

LEMMA SumLess ==
    ASSUME NEW t \in [OrderIds -> OrderRow], NEW S \in SUBSET OrderIds, NEW T \in SUBSET S
    PROVE  Sum(t, T) <= Sum(t, S)
<1> DEFINE f == [o \in OrderIds |-> t[o].packs]
<1>1. IsFiniteSet(S) /\ \A o \in S : f[o] \in Nat
  BY SyncAssumption, FS_Subset DEF OrderRow
<1> QED  BY <1>1, TotalOfMore DEF Sum

LEMMA SumParts ==
    ASSUME NEW t \in [OrderIds -> OrderRow], NEW S \in SUBSET OrderIds, NEW T \in SUBSET S
    PROVE  Sum(t, S) = Sum(t, T) + Sum(t, S \ T)
<1> DEFINE f == [o \in OrderIds |-> t[o].packs]
<1>1. IsFiniteSet(S) /\ \A o \in S : f[o] \in Nat
  BY SyncAssumption, FS_Subset DEF OrderRow
<1> QED  BY <1>1, TotalOfParts DEF Sum

LEMMA SumWith ==
    ASSUME NEW t \in [OrderIds -> OrderRow], NEW S \in SUBSET OrderIds, NEW o \in S
    PROVE  Sum(t, S) = t[o].packs + Sum(t, S \ {o})
<1> DEFINE f == [e \in OrderIds |-> t[e].packs]
<1>1. IsFiniteSet(S) /\ \A e \in S : f[e] \in Nat
  BY SyncAssumption, FS_Subset DEF OrderRow
<1>2. Total(f, S) = f[o] + Total(f, S \ {o})
  BY <1>1, TotalOfMember
<1> QED  BY <1>2 DEF Sum

LEMMA SumOfNone == ASSUME NEW t PROVE Sum(t, {}) = 0
  BY TotalOfNone DEF Sum

LEMMA PacksAre ==
    ASSUME NEW S \in SUBSET OrderIds
    PROVE  PacksOf(S) = Sum(orders, S)
<1> DEFINE f == [o \in S |-> orders[o].packs]
           g == [o \in OrderIds |-> orders[o].packs]
<1>1. IsFiniteSet(S) /\ \A o \in S : f[o] = g[o]
  BY SyncAssumption, FS_Subset
<1>2. Total(f, S) = Total(g, S)
  BY <1>1, TotalOfSame
<1> QED  BY <1>2 DEF Sum, PacksOf

-----------------------------------------------------------------------------
(* What the shop and an exchange do to what 1C knows                       *)

\* Orders are made of what is on sale, and keep their batch and packs; they lose
\* their position with a cancelled invoice.  What is on sale is in the warehouse.
Trades ==
    /\ UNCHANGED <<onecVars, message>>
    /\ \A o \in OrderIds :
         \/ orders[o].state = "none" /\ orders'[o].state = "none"
         \/ /\ orders[o].state = "none" /\ orders'[o].state # "none"
            /\ orders'[o].batch \in Keys /\ Here(orders'[o].batch)
            /\ orders'[o].item = orders'[o].batch
         \/ /\ orders[o].state # "none" /\ orders'[o].state # "none"
            /\ orders'[o].batch = orders[o].batch /\ orders'[o].packs = orders[o].packs
            /\ \/ orders'[o].item = orders[o].item
               \/ orders'[o].item = None /\ Withdrawn(orders[o].batch)
    /\ \A k \in Keys : item'[k].active => Here(k)

\* A set of orders that are there has the same packs afterwards.
LEMMA TradesKeepSums ==
    ASSUME SiteInv, Trades, NEW S \in SUBSET OrderIds, \A o \in S : orders[o].state # "none", NEW k
    PROVE  Sum(orders, OfBatch(orders, S, k))' = Sum(orders, OfBatch(orders, S, k))
<1>1. OfBatch(orders', S, k) = OfBatch(orders, S, k) /\ OfBatch(orders, S, k) \in SUBSET OrderIds
  BY DEF Trades, OfBatch
<1>2. \A o \in OfBatch(orders, S, k) : orders'[o].packs = orders[o].packs
  BY DEF Trades, OfBatch
<1> DEFINE t == orders
           u == orders'
           T == OfBatch(orders, S, k)
<1>3. T \in SUBSET OrderIds /\ \A o \in T : u[o].packs = t[o].packs
  BY <1>1, <1>2
<1> HIDE DEF t, u, T
<1>4. Sum(u, T) = Sum(t, T)
  BY <1>3, SumSame
<1> QED  BY <1>1, <1>4 DEF t, u, T, Sum, OfBatch

LEMMA TradesFit == ASSUME SiteInv, BookInv, Trades PROVE BookInv'
<1>1. /\ orders \in [OrderIds -> OrderRow] /\ documents \subseteq OrderIds
      /\ message # None => message.known \in SUBSET OrderIds
  BY DEF SiteInv, SiteTypeOK, MessageRow
<1>2. UNCHANGED <<posted, books, documents, dropped, message>>
  BY DEF Trades, onecVars
<1>3. \A o \in OrderIds : orders[o].state # "none" => orders'[o].state # "none"
  BY DEF Trades
<1>4. \A k : Withdrawn(k)' = Withdrawn(k) /\ Here(k)' = Here(k)
  BY <1>2 DEF Withdrawn, Here
<1>5. BooksAgree'
  <2> SUFFICES ASSUME NEW k \in Keys, ~Withdrawn(k)
               PROVE  books[k] = Shipped[k] - Sum(orders, OfBatch(orders, documents \ dropped, k))'
    BY <1>2, <1>4 DEF BooksAgree, OfBatch, Sum
  <2> DEFINE S == documents \ dropped
  <2>1. S \in SUBSET OrderIds /\ S' = S /\ \A o \in S : orders[o].state # "none"
    BY <1>1, <1>2 DEF BookInv, DocumentsAgree
  <2>2. books[k] = Shipped[k] - Sum(orders, OfBatch(orders, S, k))
    BY DEF BookInv, BooksAgree
  <2> HIDE DEF S
  <2>3. Sum(orders', OfBatch(orders', S, k)) = Sum(orders, OfBatch(orders, S, k))
    BY <2>1, TradesKeepSums DEF Sum, OfBatch
  <2> QED  BY <2>1, <2>2, <2>3 DEF S, Sum, OfBatch
<1>6. MessageAgrees'
  <2> SUFFICES ASSUME message # None
               PROVE  /\ message.status = posted
                      /\ \A o \in message.known : orders'[o].state # "none"
                      /\ \A k \in Keys :
                           \/ Withdrawn(k) \/ message.qty[k] = 0
                           \/ message.qty[k] + Sum(orders', OfBatch(orders', message.known, k))
                                <= Shipped[k]
    BY <1>2, <1>4 DEF MessageAgrees, OfBatch, Sum
  <2> DEFINE S == message.known
  <2>1. S \in SUBSET OrderIds /\ \A o \in S : orders[o].state # "none"
    BY <1>1 DEF BookInv, MessageAgrees
  <2>2. /\ message.status = posted
        /\ \A k \in Keys : \/ Withdrawn(k) \/ message.qty[k] = 0
                           \/ message.qty[k] + Sum(orders, OfBatch(orders, S, k)) <= Shipped[k]
    BY DEF BookInv, MessageAgrees
  <2> HIDE DEF S
  <2>3. \A k : Sum(orders', OfBatch(orders', S, k)) = Sum(orders, OfBatch(orders, S, k))
    BY <2>1, TradesKeepSums DEF Sum, OfBatch
  <2>4. \A o \in S : orders'[o].state # "none"
    BY <1>3, <2>1
  <2> QED  BY <2>2, <2>3, <2>4 DEF S
<1>7. DocumentsAgree'
  BY <1>1, <1>2, <1>3 DEF BookInv, DocumentsAgree
<1>8. BatchesAgree'
  <2> SUFFICES ASSUME NEW o \in OrderIds, orders'[o].state # "none"
               PROVE  /\ orders'[o].batch \in Keys /\ orders'[o].item \in {None, orders'[o].batch}
                      /\ orders'[o].item = None => Withdrawn(orders'[o].batch)
    BY <1>4 DEF BatchesAgree
  <2>1. CASE orders[o].state = "none"
    <3>1. orders'[o].batch \in Keys /\ orders'[o].item = orders'[o].batch
      BY <2>1 DEF Trades
    <3> QED  BY <3>1, NoneIsApart
  <2>2. CASE orders[o].state # "none"
    <3>1. /\ orders[o].batch \in Keys /\ orders[o].item \in {None, orders[o].batch}
          /\ orders[o].item = None => Withdrawn(orders[o].batch)
      BY <2>2 DEF BookInv, BatchesAgree
    <3>2. /\ orders'[o].batch = orders[o].batch
          /\ \/ orders'[o].item = orders[o].item
             \/ orders'[o].item = None /\ Withdrawn(orders[o].batch)
      BY <2>2 DEF Trades
    <3> QED  BY <3>1, <3>2
  <2> QED  BY <2>1, <2>2
<1>9. ReceivedFirst'
  BY <1>4 DEF BookInv, ReceivedFirst, Trades
<1> QED  BY <1>5, <1>6, <1>7, <1>8, <1>9 DEF BookInv

\* One order changes, and one row or none; what it puts on sale it was made of.
LEMMA OneTrade ==
    ASSUME SiteInv, BookInv, NEW o \in OrderIds, NEW x \in OrderRow,
           orders' = [orders EXCEPT ![o] = x], UNCHANGED <<onecVars, message>>,
           \/ orders[o].state = "none" /\ x.state # "none" /\ x.batch \in Keys /\ Here(x.batch)
              /\ x.item = x.batch
           \/ orders[o].state # "none" /\ x.state # "none" /\ x.batch = orders[o].batch
              /\ x.packs = orders[o].packs /\ x.item = orders[o].item,
           \/ item' = item
           \/ \E k \in Keys, row \in ItemRow : item' = [item EXCEPT ![k] = row] /\ Here(k)
    PROVE  Trades
<1>1. orders \in [OrderIds -> OrderRow] /\ item \in [Keys -> ItemRow]
  BY DEF SiteInv, SiteTypeOK
<1>2. orders'[o] = x /\ \A e \in OrderIds \ {o} : orders'[e] = orders[e]
  BY <1>1
<1>3. \A k \in Keys : item'[k].active => Here(k)
  <2>1. \A k \in Keys : item[k].active => Here(k)
    BY DEF BookInv, ReceivedFirst
  <2>2. CASE item' = item
    BY <2>1, <2>2
  <2>3. ASSUME NEW k \in Keys, NEW row \in ItemRow, item' = [item EXCEPT ![k] = row], Here(k)
        PROVE  \A l \in Keys : item'[l].active => Here(l)
    BY <1>1, <2>1, <2>3
  <2> QED  BY <2>2, <2>3
<1> QED  BY <1>2, <1>3 DEF Trades

\* The position of an order that is there is in the warehouse.
LEMMA OrderIsHere ==
    ASSUME SiteInv, BookInv, NEW o \in OrderIds, orders[o].state # "none", orders[o].item # None
    PROVE  orders[o].item \in Keys /\ Here(orders[o].item) /\ orders[o].item = orders[o].batch
  BY DEF BookInv, BatchesAgree, ReceivedFirst

\* Whatever the shop does is such a step.
LEMMA ShopTrades == ASSUME SiteInv, BookInv, ShopStep PROVE Trades
<1>1. UNCHANGED <<onecVars, message>>
  BY ShopIsActing DEF ShopActs
<1>2. item \in [Keys -> ItemRow] /\ orders \in [OrderIds -> OrderRow]
      /\ \A k \in Keys : item[k].active => Here(k)
  BY DEF SiteInv, SiteTypeOK, BookInv, ReceivedFirst
<1>3. ASSUME UNCHANGED orders, \A k \in Keys : item'[k].active => item[k].active PROVE Trades
  BY <1>1, <1>2, <1>3 DEF Trades
<1>4. ASSUME NEW s \in Invoices, CloseStale(s) PROVE Trades
  <2>1. UNCHANGED orders
    BY <1>4 DEF CloseStale
  <2>2. ASSUME NEW k \in Keys PROVE item'[k].active => item[k].active
    <3>1. item'[k] \in {item[k], Laid(item[k], FALSE)}
      BY <1>4 DEF CloseStale, Laid
    <3>2. FALSE \in BOOLEAN /\ item[k] \in ItemRow
      BY <1>2
    <3> QED  BY <3>1, <3>2, LaidIs
  <2> QED  BY <1>3, <2>1, <2>2
<1>5. ASSUME NEW o \in OrderIds, Confirm(o) PROVE Trades
  <2>1. PICK x \in OrderRow : /\ orders' = [orders EXCEPT ![o] = x]
                              /\ x.state = orders[o].state /\ x.item = orders[o].item
                              /\ x.batch = orders[o].batch /\ x.packs = orders[o].packs
    BY <1>5, ConfirmIs
  <2>2. item' = item /\ o \in documents
    BY <1>5 DEF Confirm
  <2>3. orders[o].state # "none"
    BY <2>2 DEF BookInv, DocumentsAgree
  <2> QED  BY <1>1, <2>1, <2>2, <2>3, OneTrade
<1>6. ASSUME NEW o \in OrderIds, TellDropped(o) \/ StaffCancels(o) PROVE Trades
  <2>1. PICK x \in OrderRow : /\ orders' = [orders EXCEPT ![o] = x]
                              /\ x.state = "cancelled" /\ x.item = orders[o].item
                              /\ x.batch = orders[o].batch /\ x.packs = orders[o].packs
    BY <1>6, CancelIs
  <2>2. orders[o].state = "live"
    BY <1>6, CancelIs
  <2>3. CASE orders[o].item = None
    <3>1. item' = item
      BY <1>6, <2>3, CancelIs
    <3> QED  BY <1>1, <2>1, <2>2, <3>1, OneTrade
  <2>4. CASE orders[o].item # None
    <3> DEFINE k == orders[o].item
               n == orders[o].packs
    <3>1. PICK a \in BOOLEAN : item' = [item EXCEPT ![k] = Back(item[k], n, a)]
      BY <1>6, <2>4, CancelIs
    <3>2. k \in Keys /\ item[k] \in ItemRow /\ n \in Nat /\ Here(k)
      BY <2>2, <2>4, OrderItemIs, OrderIsHere
    <3> HIDE DEF k, n
    <3>3. Back(item[k], n, a) \in ItemRow
      BY <3>2, BackIs
    <3> QED  BY <1>1, <2>1, <2>2, <3>1, <3>2, <3>3, OneTrade
  <2> QED  BY <2>3, <2>4
<1>7. ASSUME NEW o \in OrderIds, StaffResumes(o) PROVE Trades
  <2>1. PICK x \in OrderRow : /\ orders' = [orders EXCEPT ![o] = x]
                              /\ x.state = "live" /\ x.item = orders[o].item
                              /\ x.batch = orders[o].batch /\ x.packs = orders[o].packs
    BY <1>7, ResumeIs
  <2>2. orders[o].state = "cancelled"
    BY <1>7, ResumeIs
  <2>3. CASE orders[o].item = None
    <3>1. item' = item
      BY <1>7, <2>3, ResumeIs
    <3> QED  BY <1>1, <2>1, <2>2, <3>1, OneTrade
  <2>4. CASE orders[o].item # None
    <3> DEFINE k == orders[o].item
               n == orders[o].packs
    <3>1. PICK a \in BOOLEAN : item' = [item EXCEPT ![k] = Sold(item[k], n, a)]
      BY <1>7, <2>4, ResumeIs
    <3>2. k \in Keys /\ item[k] \in ItemRow /\ n \in Nat /\ Here(k)
      BY <2>2, <2>4, OrderItemIs, OrderIsHere
    <3> HIDE DEF k, n
    <3>3. Sold(item[k], n, a) \in ItemRow
      BY <3>2, SoldIs
    <3> QED  BY <1>1, <2>1, <2>2, <3>1, <3>2, <3>3, OneTrade
  <2> QED  BY <2>3, <2>4
<1>8. ASSUME NEW o \in OrderIds, NEW k \in Keys, NEW n \in Packs, Order(o, k, n) PROVE Trades
  <2> DEFINE x == [state |-> "live", batch |-> k, item |-> k, packs |-> n, exported |-> FALSE]
  <2>1. PICK a \in BOOLEAN : /\ item' = [item EXCEPT ![k] = Sold(item[k], n, a)]
                             /\ orders' = [orders EXCEPT ![o] = x]
    BY <1>8, OrderIsOne
  <2>2. item[k] \in ItemRow /\ n \in Nat /\ orders[o].state = "none" /\ Here(k)
    BY <1>2, <1>8, SyncAssumption DEF Order
  <2>3. x \in OrderRow /\ x.state = "live" /\ x.batch = k /\ x.item = k
    BY <2>2 DEF OrderRow
  <2> HIDE DEF x
  <2>4. Sold(item[k], n, a) \in ItemRow
    BY <2>2, SoldIs
  <2> QED  BY <1>1, <2>1, <2>2, <2>3, <2>4, OneTrade
<1>9. ASSUME NEW o \in OrderIds, NEW i \in PreorderIds, TakeReady(o, i) PROVE Trades
  <2> DEFINE k == preorders[i].item
             n == Moved(item[k], preorders[i].packs)
             x == [state |-> "live", batch |-> k, item |-> k, packs |-> n, exported |-> FALSE]
  <2>1. /\ k \in Keys /\ n \in Nat /\ item[k].active /\ orders[o].state = "none"
        /\ orders' = [orders EXCEPT ![o] = x]
    BY <1>9, TakeIs
  <2>2. PICK row \in ItemRow : item' = [item EXCEPT ![k] = row]
    BY <1>9, TakeIs
  <2>3. x \in OrderRow /\ x.state = "live" /\ x.batch = k /\ x.item = k
    BY <2>1 DEF OrderRow
  <2> HIDE DEF x, n, k
  <2>4. Here(k)
    BY <1>2, <2>1
  <2> QED  BY <1>1, <2>1, <2>2, <2>3, <2>4, OneTrade
<1>10. ASSUME NEW i \in PreorderIds, GiveUp(i) PROVE Trades
  <2>1. UNCHANGED orders
    BY <1>10 DEF GiveUp
  <2>2. ASSUME NEW k \in Keys PROVE item'[k].active => item[k].active
    BY <1>2, <1>10 DEF GiveUp, ItemRow
  <2> QED  BY <1>3, <2>1, <2>2
<1>11. ASSUME NEW i \in PreorderIds, NEW k \in Keys, NEW n \in Packs, AskFor(i, k, n) PROVE Trades
  <2>1. UNCHANGED <<orders, item>>
    BY <1>11 DEF AskFor
  <2> QED  BY <1>3, <2>1
<1> QED  BY <1>4, <1>5, <1>6, <1>7, <1>8, <1>9, <1>10, <1>11 DEF ShopStep

\* And so is the commit of an exchange.
LEMMA CommitTrades ==
    ASSUME ReservesInv, BookInv, DraftAgrees, CommitSync
    PROVE  Trades
<1> DEFINE off == Off(draft.new.gone)
<1>1. /\ draft # None /\ SiteInv /\ Sound(draft.old, draft.new)
      /\ orders' = [o \in OrderIds |-> Unhooked(orders[o])]
      /\ item' = [k \in Keys |-> RowWritten(k)]
      /\ UNCHANGED <<onecVars, message>>
  BY DEF CommitSync, ReservesInv, DraftInv
<1>2. orders \in [OrderIds -> OrderRow]
  BY <1>1 DEF SiteInv, SiteTypeOK
<1>3. \A o \in OrderIds :
        /\ orders'[o].state = orders[o].state /\ orders'[o].packs = orders[o].packs
        /\ orders'[o].batch = orders[o].batch
        /\ orders'[o].item = IF orders[o].item \in off THEN None ELSE orders[o].item
  BY <1>1, <1>2, UnhookedOrder
<1>4. \A k \in off : Withdrawn(k)
  BY <1>1 DEF DraftAgrees, Off, Withdrawn
<1>5. \A o \in OrderIds : orders[o].state # "none" =>
        \/ orders'[o].item = orders[o].item
        \/ orders'[o].item = None /\ Withdrawn(orders[o].batch)
  BY <1>3, <1>4, NoneIsApart DEF BookInv, BatchesAgree, Off
<1>6. ASSUME NEW k \in Keys, item'[k].active PROVE Here(k)
  <2>1. item'[k] = RowWritten(k)
    BY <1>1
  <2>2. item[k].active => Here(k)
    BY DEF BookInv, ReceivedFirst
  <2>3. draft.new.item[k].active => Here(k)
    BY <1>1 DEF DraftAgrees
  <2> QED  BY <1>6, <2>1, <2>2, <2>3 DEF RowWritten, Column, Absent
<1> HIDE DEF off
<1> QED  BY <1>1, <1>3, <1>5, <1>6 DEF Trades

-----------------------------------------------------------------------------
(* What 1C does                                                            *)

LEMMA DocumentAgrees ==
    ASSUME SiteInv, BookInv, NEW o \in OrderIds, Document(o)
    PROVE  BooksAgree' /\ MessageAgrees' /\ DocumentsAgree'
<1> DEFINE n == orders[o].packs
           b == orders[o].batch
           live == orders[o].state = "live" /\ orders[o].item # None
<1>1. /\ orders \in [OrderIds -> OrderRow] /\ documents \subseteq OrderIds
      /\ dropped \subseteq documents /\ books \in [Keys -> Int] /\ Shipped \in [Keys -> Nat]
  BY SyncAssumption DEF SiteInv, SiteTypeOK, BookInv, DocumentsAgree
<1>2. /\ orders[o].state # "none" /\ o \notin documents
      /\ documents' = documents \cup {o}
      /\ books' = IF live THEN [books EXCEPT ![orders[o].item] = @ - n] ELSE books
      /\ dropped' = IF orders[o].state = "live" THEN dropped ELSE dropped \cup {o}
      /\ UNCHANGED <<siteVars, posted, message>>
  BY DEF Document
<1>3. UNCHANGED <<orders, posted, message>>
  BY <1>2 DEF siteVars
<1>4. MessageAgrees'
  BY <1>3 DEF BookInv, MessageAgrees, Withdrawn, OfBatch, Sum
<1>5. DocumentsAgree'
  BY <1>1, <1>2, <1>3 DEF BookInv, DocumentsAgree
<1>6. /\ orders[o].item # None => b = orders[o].item /\ b \in Keys
      /\ orders[o].item = None => Withdrawn(b)
  BY <1>2 DEF BookInv, BatchesAgree
<1>7. n \in Nat
  BY <1>1 DEF OrderRow
<1>8. BooksAgree'
  <2> SUFFICES ASSUME NEW k \in Keys, ~Withdrawn(k)
               PROVE  books'[k] = Shipped[k] - Sum(orders, OfBatch(orders, documents \ dropped, k)')
    BY <1>2, <1>3 DEF BooksAgree, Withdrawn, OfBatch, Sum
  <2> DEFINE was == OfBatch(orders, documents \ dropped, k)
             is == OfBatch(orders, documents \ dropped, k)'
  <2>1. books[k] = Shipped[k] - Sum(orders, was)
    BY DEF BookInv, BooksAgree
  <2>2. is = IF orders[o].state = "live" /\ b = k THEN was \cup {o} ELSE was
    BY <1>1, <1>2, <1>3 DEF OfBatch
  <2>3. was \in SUBSET OrderIds /\ o \notin was /\ was \cup {o} \in SUBSET OrderIds
    BY <1>1, <1>2 DEF OfBatch
  <2>4. Sum(orders, was) \in Nat
    BY <1>1, <2>3, SumIsNat
  <2> HIDE DEF was, is
  <2>5. CASE orders[o].state = "live" /\ b = k
    <3>1. live /\ orders[o].item = k
      BY <1>6, <2>5
    <3>2. books'[k] = books[k] - n
      BY <1>1, <1>2, <3>1
    <3> DEFINE more == was \cup {o}
    <3>3. o \in more /\ more \ {o} = was /\ more \in SUBSET OrderIds
      BY <2>3
    <3> HIDE DEF more
    <3>4. Sum(orders, more) = n + Sum(orders, more \ {o})
      BY <1>1, <3>3, SumWith
    <3>5. Sum(orders, more \ {o}) = Sum(orders, was)
      BY <3>3
    <3>6. is = more
      BY <2>2, <2>5 DEF more
    <3> QED  BY <1>1, <1>7, <2>1, <2>4, <3>2, <3>4, <3>5, <3>6 DEF is
  <2>6. CASE ~(orders[o].state = "live" /\ b = k)
    <3>1. books'[k] = books[k]
      BY <1>1, <1>2, <1>6, <2>6
    <3> QED  BY <2>1, <2>2, <2>6, <3>1 DEF is
  <2> QED  BY <2>5, <2>6
<1> QED  BY <1>4, <1>5, <1>8

LEMMA DropAgrees ==
    ASSUME SiteInv, BookInv, NEW o \in OrderIds, DropOrder(o)
    PROVE  BooksAgree' /\ MessageAgrees' /\ DocumentsAgree'
<1> DEFINE n == orders[o].packs
           b == orders[o].batch
<1>1. /\ orders \in [OrderIds -> OrderRow] /\ documents \subseteq OrderIds
      /\ dropped \subseteq documents /\ books \in [Keys -> Int] /\ Shipped \in [Keys -> Nat]
  BY SyncAssumption DEF SiteInv, SiteTypeOK, BookInv, DocumentsAgree
<1>2. /\ o \in documents /\ o \notin dropped
      /\ orders[o].state = "live" /\ orders[o].item # None
      /\ documents' = documents /\ dropped' = dropped \cup {o}
      /\ books' = [books EXCEPT ![orders[o].item] = @ + n]
      /\ UNCHANGED <<siteVars, posted, message>>
  BY DEF DropOrder
<1>3. UNCHANGED <<orders, posted, message>>
  BY <1>2 DEF siteVars
<1>4. MessageAgrees'
  BY <1>3 DEF BookInv, MessageAgrees, Withdrawn, OfBatch, Sum
<1>5. DocumentsAgree'
  BY <1>1, <1>2, <1>3 DEF BookInv, DocumentsAgree
<1>6. b = orders[o].item /\ b \in Keys
  BY <1>2 DEF BookInv, BatchesAgree
<1>7. n \in Nat
  BY <1>1 DEF OrderRow
<1>8. BooksAgree'
  <2> SUFFICES ASSUME NEW k \in Keys, ~Withdrawn(k)
               PROVE  books'[k] = Shipped[k] - Sum(orders, OfBatch(orders, documents \ dropped, k)')
    BY <1>2, <1>3 DEF BooksAgree, Withdrawn, OfBatch, Sum
  <2> DEFINE was == OfBatch(orders, documents \ dropped, k)
             is == OfBatch(orders, documents \ dropped, k)'
  <2>1. books[k] = Shipped[k] - Sum(orders, was)
    BY DEF BookInv, BooksAgree
  <2>2. is = was \ {o} /\ (o \in was <=> b = k)
    BY <1>1, <1>2, <1>3 DEF OfBatch
  <2>3. was \in SUBSET OrderIds /\ is \in SUBSET OrderIds
    BY <1>1, <2>2 DEF OfBatch
  <2>4. Sum(orders, was) \in Nat /\ Sum(orders, is) \in Nat
    BY <1>1, <2>3, SumIsNat
  <2> HIDE DEF was, is
  <2>5. CASE b = k
    <3>1. books'[k] = books[k] + n
      BY <1>1, <1>2, <1>6, <2>5
    <3>2. Sum(orders, was) = n + Sum(orders, was \ {o})
      BY <1>1, <2>2, <2>3, <2>5, SumWith
    <3>3. Sum(orders, was \ {o}) = Sum(orders, is)
      BY <2>2
    <3> QED  BY <1>1, <1>7, <2>1, <2>4, <3>1, <3>2, <3>3 DEF is
  <2>6. CASE b # k
    <3>1. books'[k] = books[k]
      BY <1>1, <1>2, <1>6, <2>6
    <3>2. is = was
      BY <2>2, <2>6
    <3> QED  BY <2>1, <3>1, <3>2 DEF is
  <2> QED  BY <2>5, <2>6
<1> QED  BY <1>4, <1>5, <1>8


\* A message says what 1C has in its books when it sends it.
LEMMA SendAgrees ==
    ASSUME SiteInv, BookInv, SendSupplies \/ SendProducts
    PROVE  BookInv'
<1>1. PICK kind, listed, full, odd, k :
        /\ message' = Message(kind, listed, full, odd, k)
        /\ UNCHANGED <<siteVars, onecVars>>
  <2>1. CASE SendSupplies
    BY <2>1 DEF SendSupplies
  <2>2. CASE SendProducts
    BY <2>2 DEF SendProducts
  <2> QED  BY <2>1, <2>2
<1>2. /\ message'.status = posted /\ message'.known = documents \ dropped
      /\ message'.qty = [x \in Keys |-> IF books[x] > 0 THEN books[x] ELSE 0]
  BY <1>1 DEF Message
<1>3. UNCHANGED <<item, orders, posted, books, documents, dropped>>
  BY <1>1 DEF siteVars, onecVars
<1>4. MessageAgrees'
  <2>1. \A o \in documents : orders[o].state # "none"
    BY DEF BookInv, DocumentsAgree
  <2>2. ASSUME NEW x \in Keys, ~Withdrawn(x), message'.qty[x] # 0
        PROVE  message'.qty[x] + Sum(orders, OfBatch(orders, documents \ dropped, x)) <= Shipped[x]
    <3> DEFINE S == Sum(orders, OfBatch(orders, documents \ dropped, x))
    <3>1. message'.qty[x] = books[x] /\ books[x] = Shipped[x] - S
      BY <1>2, <2>2 DEF BookInv, BooksAgree
    <3>2. S \in Nat
      <4>1. orders \in [OrderIds -> OrderRow]
            /\ OfBatch(orders, documents \ dropped, x) \in SUBSET OrderIds
        BY DEF SiteInv, SiteTypeOK, OfBatch
      <4> QED  BY <4>1, SumIsNat
    <3>3. Shipped[x] \in Nat
      BY SyncAssumption
    <3> HIDE DEF S
    <3> QED  BY <3>1, <3>2, <3>3 DEF S
  <2>3. \A x \in Keys : \/ Withdrawn(x) \/ message'.qty[x] = 0
                        \/ message'.qty[x] + Sum(orders, OfBatch(orders, message'.known, x))
                             <= Shipped[x]
    BY <1>2, <2>2
  <2> QED  BY <1>2, <1>3, <2>1, <2>3 DEF MessageAgrees, Withdrawn, OfBatch, Sum
<1>5. BooksAgree' /\ DocumentsAgree' /\ BatchesAgree' /\ ReceivedFirst'
  BY <1>3 DEF BookInv, BooksAgree, DocumentsAgree, BatchesAgree, ReceivedFirst, Withdrawn, Here,
              OfBatch, Sum
<1> QED  BY <1>4, <1>5 DEF BookInv

\* An invoice is received, or cancelled for good.
LEMMA PostingAgrees ==
    ASSUME SiteInv, BookInv, NEW s \in Invoices, Receive(s) \/ CancelInvoice(s)
    PROVE  BookInv'
<1>1. /\ message' = None
      /\ UNCHANGED <<item, orders, books, documents, dropped>>
      /\ \/ posted[s] = "transit" /\ posted' = [posted EXCEPT ![s] = "received"]
         \/ posted' = [posted EXCEPT ![s] = "cancelled"]
  BY DEF Receive, CancelInvoice, siteVars
<1>2. posted \in [Invoices -> {"transit", "received", "cancelled"}]
  BY DEF SiteInv, SiteTypeOK
<1>3. \A e \in Invoices : /\ posted[e] = "cancelled" => posted'[e] = "cancelled"
                          /\ posted[e] # "transit" => posted'[e] # "transit"
  BY <1>1, <1>2
<1>4. \A k \in Keys : (Withdrawn(k) => Withdrawn(k)') /\ (Here(k) => Here(k)')
  BY <1>3, KeysAre DEF Withdrawn, Here
<1>5. BooksAgree'
  BY <1>1, <1>4 DEF BookInv, BooksAgree, OfBatch, Sum
<1>6. MessageAgrees' /\ DocumentsAgree'
  BY <1>1 DEF BookInv, MessageAgrees, DocumentsAgree
<1>7. BatchesAgree'
  BY <1>1, <1>4 DEF BookInv, BatchesAgree
<1>8. ReceivedFirst'
  BY <1>1, <1>4 DEF BookInv, ReceivedFirst, BatchesAgree
<1> QED  BY <1>5, <1>6, <1>7, <1>8 DEF BookInv

LEMMA AsideAgrees == ASSUME SiteInv, BookInv, Aside PROVE BookInv'
<1>1. CASE \/ BeginSync \/ ReadTables \/ RollBack \/ Done
  <2>1. UNCHANGED <<item, orders, onecVars>> /\ message' \in {message, None}
    BY <1>1 DEF BeginSync, ReadTables, RollBack, Done, siteVars
  <2>2. UNCHANGED <<item, orders, posted, books, documents, dropped>>
    BY <2>1 DEF onecVars
  <2> QED  BY <2>1, <2>2 DEF BookInv, BooksAgree, MessageAgrees, DocumentsAgree, BatchesAgree,
                             ReceivedFirst, Withdrawn, Here, OfBatch, Sum
<1>2. CASE SendSupplies \/ SendProducts
  BY <1>2, SendAgrees
<1>3. ASSUME NEW s \in Invoices, Receive(s) \/ CancelInvoice(s) PROVE BookInv'
  BY <1>3, PostingAgrees
<1>4. ASSUME NEW o \in OrderIds, Document(o) \/ DropOrder(o) PROVE BookInv'
  <2>1. UNCHANGED <<item, orders, posted>>
    BY <1>4 DEF Document, DropOrder, siteVars
  <2>2. BatchesAgree' /\ ReceivedFirst'
    BY <2>1 DEF BookInv, BatchesAgree, ReceivedFirst, Withdrawn, Here
  <2> QED  BY <1>4, <2>2, DocumentAgrees, DropAgrees DEF BookInv
<1> QED  BY <1>1, <1>2, <1>3, <1>4 DEF Aside

\* What becomes of the line of a product in an accepted invoice.
LEMMA LineIs ==
    ASSUME SiteInv, message # None, counted # None, NEW k \in Keys
    PROVE  LET shelf == message.status[k[1]] = "received"
               new   == AfterLines(message, k)
           IN  IF k \in message.bad THEN new = item[k]
               ELSE \/ new.stock = 0 /\ ~new.active
                    \/ /\ new.active => shelf
                       /\ new.stock = IF shelf /\ item[k].on THEN Less(message.qty[k], k)
                                      ELSE message.qty[k]
<1> DEFINE m == message
           row == item[k]
           shelf == m.status[k[1]] = "received"
           stock == IF shelf /\ row.on THEN Less(m.qty[k], k) ELSE m.qty[k]
           given == k \in m.given /\ (m.qty[k] > 0 \/ shelf)
           new == AfterLines(m, k)
<1>1. row \in ItemRow
  BY DEF SiteInv, SiteTypeOK
<1>2. stock \in Int
  <2>1. m.qty[k] \in Int /\ counted[k] \in Nat
    BY DEF SiteInv, SiteTypeOK, MessageRow
  <2> QED  BY <2>1 DEF Less
<1>3. CASE k \in m.bad
  BY <1>3 DEF AfterLines
<1>4. CASE k \notin m.bad /\ given /\ (row.on \/ stock > 0)
  <2> DEFINE live == shelf /\ stock > 0
             put == Entered(row, stock, live)
  <2>1. new = put
    BY <1>4 DEF AfterLines, Entered
  <2>2. live \in BOOLEAN /\ (live => shelf)
    OBVIOUS
  <2> HIDE DEF stock, live
  <2>3. put.stock = stock /\ put.active = live
    BY <1>1, <1>2, <2>2, EnteredIs
  <2> HIDE DEF new, put, shelf
  <2>4. new.stock = stock /\ (new.active => shelf)
    BY <2>1, <2>2, <2>3
  <2> QED  BY <1>4, <2>4 DEF new, stock, shelf
<1>5. CASE k \notin m.bad /\ ~given /\ row.on /\ Referenced(k)
  <2>1. new = Stocked(row, 0, FALSE)
    BY <1>5 DEF AfterLines, Stocked
  <2>2. FALSE \in BOOLEAN /\ 0 \in Int
    OBVIOUS
  <2>3. Stocked(row, 0, FALSE).stock = 0 /\ Stocked(row, 0, FALSE).active = FALSE
    BY <1>1, <2>2, StockedIs
  <2>4. new.stock = 0 /\ new.active = FALSE
    BY <2>1, <2>3
  <2> QED  BY <1>5, <2>4
<1>6. CASE /\ k \notin m.bad /\ ~(given /\ (row.on \/ stock > 0))
           /\ ~(~given /\ row.on /\ Referenced(k))
  <2>1. new = Absent
    BY <1>6 DEF AfterLines
  <2> QED  BY <1>6, <2>1 DEF Absent
<1> QED  BY <1>3, <1>4, <1>5, <1>6

\* What an exchange makes of the tables: it deletes what 1C has cancelled, and
\* what it sells is in the warehouse.
LEMMA OutcomeIsHere ==
    ASSUME SiteInv, BookInv, message # None, counted # None
    PROVE  /\ \A s \in Outcome(message).gone : s \in Invoices /\ posted[s] = "cancelled"
           /\ \A k \in Keys : Outcome(message).item[k].active => Here(k)
<1> DEFINE m == message
<1>1. m.status = posted /\ \A k \in Keys : item[k].active => Here(k)
  BY DEF BookInv, MessageAgrees, ReceivedFirst
<1>2. \A s \in Outcome(m).gone : s \in Invoices /\ posted[s] = "cancelled"
  BY <1>1 DEF Outcome, Supplied, Restocked, Deleted
<1>3. ASSUME NEW k \in Keys, Outcome(m).item[k].active PROVE Here(k)
  <2>1. CASE k[1] = Service
    BY <2>1 DEF Here
  <2>2. CASE k[1] # Service /\ m.kind # "supplies"
    <3>1. Outcome(m).item[k] = item[k]
      BY <2>2 DEF Outcome, Restocked
    <3> QED  BY <1>1, <1>3, <3>1
  <2>3. CASE k[1] # Service /\ m.kind = "supplies"
    <3> DEFINE db == Listed(m)
    <3>1. Outcome(m).item[k].active = db.item[k].active
      <4>1. Midway(db, Gone(m), NPreorders, Fulfil(db))
        BY <2>3, LoopIsRun
      <4>2. Outcome(m).item = Fulfil(db).item
        BY <2>3 DEF Outcome, Supplied
      <4> HIDE DEF db
      <4> QED  BY <4>1, <4>2 DEF Midway
    <3>2. item[k] \in ItemRow /\ k[1] \in Invoices
      BY <2>3, KeysAre DEF SiteInv, SiteTypeOK
    <3>3. CASE Closed(m, k[1])
      <4>1. db.item[k] = [item[k] EXCEPT !.active = FALSE]
        BY <2>3, <3>3 DEF Listed
      <4> QED  BY <1>3, <3>1, <3>2, <4>1 DEF ItemRow
    <3>4. CASE ~Closed(m, k[1])
      <4>1. db.item[k] = AfterInvoice(m, k)
        BY <2>3, <3>4 DEF Listed
      <4>2. AfterInvoice(m, k).active
        BY <1>3, <3>1, <4>1
      <4>3. \/ AfterInvoice(m, k) = item[k]
            \/ m.status[k[1]] = "received"
        <5>1. CASE k[1] \notin Accepted(m)
          BY <5>1 DEF AfterInvoice
        <5>2. CASE k[1] \in Accepted(m) /\ m.status[k[1]] = "cancelled"
          BY <3>2, <4>2, <5>2 DEF AfterInvoice, Absent, ItemRow
        <5>3. CASE k[1] \in Accepted(m) /\ m.status[k[1]] # "cancelled" /\ k[1] \in m.bare
          BY <3>2, <4>2, <5>3 DEF AfterInvoice, AfterBare, ItemRow
        <5>4. CASE k[1] \in Accepted(m) /\ m.status[k[1]] # "cancelled" /\ k[1] \notin m.bare
          <6>1. AfterInvoice(m, k) = AfterLines(m, k)
            BY <5>4 DEF AfterInvoice
          <6> QED  BY <4>2, <6>1, LineIs
        <5> QED  BY <5>1, <5>2, <5>3, <5>4
      <4> QED  BY <1>1, <4>2, <4>3 DEF Here
    <3> QED  BY <3>3, <3>4
  <2> QED  BY <2>1, <2>2, <2>3
<1> QED  BY <1>2, <1>3

-----------------------------------------------------------------------------
(* The shelf after an exchange                                             *)

\* What stands in a position of which the message says what is left.
LEMMA OutcomeStock ==
    ASSUME SiteInv, BookInv, message # None, counted # None, NEW k \in Keys, SaysOf(message, k),
           ~Withdrawn(k)
    PROVE  \/ Outcome(message).item[k].stock = 0
           \/ item[k].on /\ Outcome(message).item[k].stock = Less(message.qty[k], k)
           \/ ~(item[k].on /\ Here(k)) /\ Outcome(message).item[k].stock = message.qty[k]
<1> DEFINE m == message
<1>1. m.status = posted /\ m \in MessageRow
  BY DEF BookInv, MessageAgrees, SiteInv, SiteTypeOK
<1>2. k \in m.given /\ k \notin m.bad
  BY DEF SaysOf
<1>3. CASE m.kind = "supplies"
  <2> DEFINE db == Listed(m)
  <2>1. Outcome(m).item[k].stock = db.item[k].stock
    <3>1. Midway(db, Gone(m), NPreorders, Fulfil(db))
      BY <1>3, LoopIsRun
    <3>2. Outcome(m).item = Fulfil(db).item
      BY <1>3 DEF Outcome, Supplied
    <3> HIDE DEF db
    <3> QED  BY <3>1, <3>2 DEF Midway
  <2>2. /\ k[1] \in Accepted(m) \ m.bare /\ k[1] \in Invoices /\ k[1] # Service
    BY <1>3, SyncAssumption DEF SaysOf, SiteInv, SiteTypeOK, Accepted
  <2>3. db.item[k] = AfterInvoice(m, k)
    BY <2>2 DEF Listed, Closed
  <2>4. m.status[k[1]] # "cancelled"
    BY <1>1, <2>2 DEF Withdrawn
  <2>5. AfterInvoice(m, k) = AfterLines(m, k)
    BY <2>2, <2>4 DEF AfterInvoice
  <2>6. (m.status[k[1]] = "received") <=> Here(k)
    <3>1. posted[k[1]] \in {"transit", "received", "cancelled"}
      BY <2>2 DEF SiteInv, SiteTypeOK
    <3> QED  BY <1>1, <2>2, <2>4, <3>1 DEF Here
  <2>7. \/ AfterLines(m, k).stock = 0
        \/ AfterLines(m, k).stock = IF m.status[k[1]] = "received" /\ item[k].on
                                    THEN Less(m.qty[k], k) ELSE m.qty[k]
    BY <1>2, LineIs
  <2> QED  BY <2>1, <2>3, <2>5, <2>6, <2>7
<1>4. CASE m.kind = "products"
  <2> DEFINE stock == IF item[k].on THEN Less(m.qty[k], k) ELSE m.qty[k]
             live == stock > 0
             new == Entered(item[k], stock, live)
  <2>1. k[1] = Service
    BY <1>4 DEF SaysOf
  <2>2. Outcome(m).item[k] = new
    BY <1>2, <1>4, <2>1 DEF Outcome, Restocked, Entered
  <2>3. item[k] \in ItemRow /\ stock \in Int /\ live \in BOOLEAN
    <3>1. m.qty[k] \in Int /\ counted[k] \in Nat
      BY DEF SiteInv, SiteTypeOK, MessageRow
    <3> QED  BY <3>1 DEF Less, SiteInv, SiteTypeOK
  <2> HIDE DEF stock, live
  <2>4. new.stock = stock
    BY <2>3, EnteredIs
  <2> QED  BY <2>2, <2>4 DEF stock
<1> QED  BY <1>1, <1>3, <1>4 DEF MessageRow

\* Orders are of a position that is there, and in the warehouse.
LEMMA NothingSoldOf ==
    ASSUME SiteInv, BookInv, NEW k \in Keys, ~(item[k].on /\ Here(k)), ~Withdrawn(k)
    PROVE  LiveOf(orders, k) = {}
<1> SUFFICES ASSUME NEW o \in OrderIds, orders[o].state = "live", orders[o].batch = k PROVE FALSE
  BY DEF LiveOf
<1>1. orders[o].item = k /\ Here(k)
  BY DEF BookInv, BatchesAgree, ReceivedFirst
<1>2. item[k].on
  BY <1>1 DEF SiteInv, PointedIsOn, Referenced
<1> QED  BY <1>1, <1>2

\* What is left in 1C's books, less the orders it does not know of, and what is
\* sold are no more than there was.
LEMMA OutcomeFits ==
    ASSUME SiteInv, BookInv, Reserve, counted = Pending, message # None, counted # None,
           NEW k \in Keys, SaysOf(message, k), KnowsOrdersOf(message, k), ~Withdrawn(k)
    PROVE  \/ Outcome(message).item[k].stock = 0
           \/ Outcome(message).item[k].stock + Sum(orders, LiveOf(orders, k)) <= Shipped[k]
<1> DEFINE n == Outcome(message).item[k].stock
           q == message.qty[k]
           L == LiveOf(orders, k)
           K == OfBatch(orders, message.known, k)
           U == {o \in OrderIds : orders[o].state = "live" /\ ~orders[o].exported
                                   /\ orders[o].item = k}
<1>1. /\ message \in MessageRow /\ orders \in [OrderIds -> OrderRow]
      /\ q \in Nat /\ Shipped[k] \in Nat /\ counted[k] \in Nat
  BY SyncAssumption DEF SiteInv, SiteTypeOK, MessageRow
<1>2. L \in SUBSET OrderIds /\ K \in SUBSET OrderIds /\ U \in SUBSET OrderIds
  BY <1>1 DEF LiveOf, OfBatch, MessageRow
<1>3. counted[k] = Sum(orders, U)
  BY <1>2, PacksAre DEF Pending
<1>4. q = 0 \/ q + Sum(orders, K) <= Shipped[k]
  BY DEF BookInv, MessageAgrees
<1>5. L \ K \subseteq U
  <2> SUFFICES ASSUME NEW o \in OrderIds, orders[o].state = "live", orders[o].batch = k,
                      o \notin message.known
               PROVE  ~orders[o].exported /\ orders[o].item = k
    BY DEF LiveOf, OfBatch
  <2>1. ~orders[o].exported
    BY DEF KnowsOrdersOf
  <2>2. orders[o].item = k
    BY DEF BookInv, BatchesAgree
  <2> QED  BY <2>1, <2>2
<1>6. \/ n = 0
      \/ item[k].on /\ n = Less(q, k)
      \/ ~(item[k].on /\ Here(k)) /\ n = q
  BY OutcomeStock
<1> HIDE DEF n, q
<1>7. CASE ~(item[k].on /\ Here(k)) /\ n = q
  <2>1. Sum(orders, L) = 0
    <3>1. L = {}
      BY <1>7, NothingSoldOf
    <3> HIDE DEF L
    <3> QED  BY <3>1, SumOfNone
  <2>2. Sum(orders, K) \in Nat
    BY <1>1, <1>2, SumIsNat
  <2> HIDE DEF K, L
  <2> QED  BY <1>1, <1>4, <1>7, <2>1, <2>2 DEF n, L
<1>8. CASE item[k].on /\ n = Less(q, k)
  <2> HIDE DEF L, K, U
  <2> DEFINE T == L \ K
             S == L \ T
  <2>1. T \in SUBSET U /\ T \in SUBSET L /\ S \in SUBSET K /\ S \in SUBSET OrderIds /\ T \in SUBSET OrderIds
    BY <1>2, <1>5
  <2>2. Sum(orders, L) = Sum(orders, T) + Sum(orders, S)
    BY <1>1, <1>2, <2>1, SumParts
  <2> HIDE DEF S, T
  <2>3. Sum(orders, S) <= Sum(orders, K)
    BY <1>1, <1>2, <2>1, SumLess
  <2>4. Sum(orders, T) <= Sum(orders, U)
    BY <1>1, <1>2, <2>1, SumLess
  <2>5. /\ Sum(orders, S) \in Nat /\ Sum(orders, T) \in Nat /\ Sum(orders, K) \in Nat
        /\ Sum(orders, U) \in Nat
    BY <1>1, <1>2, <2>1, SumIsNat
  <2>6. n = 0 \/ (n = q - counted[k] /\ q > counted[k])
    BY <1>8 DEF Less
  <2>7. n = 0 \/ n + Sum(orders, L) <= Shipped[k]
    BY <1>1, <1>3, <1>4, <2>2, <2>3, <2>4, <2>5, <2>6
  <2> QED  BY <2>7 DEF n, L
<1>9. CASE n = 0
  BY <1>9 DEF n
<1> QED  BY <1>6, <1>7, <1>8, <1>9

\* What is said, known and sold of k, with the books out of sight.
ShelfFits ==
    \A k \in Keys :
        SaysOf(message, k) /\ KnowsOrdersOf(message, k) /\ ~Withdrawn(k) =>
            item[k].stock = 0 \/ item[k].stock + Sum(orders, LiveOf(orders, k)) <= Shipped[k]

LEMMA AppliedFits ==
    ASSUME SiteInv, BookInv, Reserve, counted = Pending, Applied(message)
    PROVE  ShelfFits'
<1>1. /\ message # None /\ counted # None /\ item' = Outcome(message).item
      /\ UNCHANGED <<onecVars, message>>
      /\ \A o \in OrderIds :
           /\ orders'[o].state = orders[o].state /\ orders'[o].packs = orders[o].packs
           /\ orders'[o].batch = orders[o].batch /\ orders'[o].exported = orders[o].exported
  BY DEF Applied
<1>2. posted' = posted
  BY <1>1 DEF onecVars
<1> SUFFICES ASSUME NEW k \in Keys, SaysOf(message, k)', KnowsOrdersOf(message, k)', ~Withdrawn(k)'
             PROVE  \/ item'[k].stock = 0
                    \/ item'[k].stock + Sum(orders', LiveOf(orders', k)) <= Shipped[k]
  BY DEF ShelfFits, LiveOf, Sum
<1>3. SaysOf(message, k) /\ ~Withdrawn(k)
  BY <1>1, <1>2 DEF SaysOf, Withdrawn, Accepted
<1>4. KnowsOrdersOf(message, k)
  BY <1>1 DEF KnowsOrdersOf
<1>5. LiveOf(orders', k) = LiveOf(orders, k)
  BY <1>1 DEF LiveOf
<1> DEFINE L == LiveOf(orders, k)
           t == orders
           u == orders'
<1>6. L \in SUBSET OrderIds /\ \A o \in L : u[o].packs = t[o].packs
  BY <1>1 DEF LiveOf
<1> HIDE DEF t, u, L
<1>7. Sum(u, L) = Sum(t, L)
  BY <1>6, SumSame
<1>8. \/ Outcome(message).item[k].stock = 0
      \/ Outcome(message).item[k].stock + Sum(orders, LiveOf(orders, k)) <= Shipped[k]
  BY <1>1, <1>3, <1>4, OutcomeFits
<1> QED  BY <1>1, <1>5, <1>7, <1>8 DEF t, u, L

\* The books and an exchange under way.
BooksInv == BookInv /\ CountAgrees /\ DraftAgrees

LEMMA BooksBegin == ASSUME Init PROVE BooksInv
<1>1. /\ counted = None /\ draft = None /\ message = None /\ books = Shipped
      /\ documents = {} /\ dropped = {}
      /\ item = [k \in Keys |-> Absent] /\ orders = [o \in OrderIds |-> NoOrder]
  BY DEF Init
<1>2. BooksAgree
  <2> SUFFICES ASSUME NEW k \in Keys
               PROVE  books[k] = Shipped[k] - Sum(orders, OfBatch(orders, documents \ dropped, k))
    BY DEF BooksAgree
  <2>1. OfBatch(orders, documents \ dropped, k) = {}
    BY <1>1 DEF OfBatch
  <2> DEFINE S == OfBatch(orders, documents \ dropped, k)
  <2> HIDE DEF S
  <2>2. Sum(orders, S) = 0
    BY <2>1, SumOfNone DEF S
  <2>3. Shipped[k] \in Nat
    BY SyncAssumption
  <2> QED  BY <1>1, <2>2, <2>3 DEF S
<1>3. MessageAgrees /\ DocumentsAgree /\ CountAgrees /\ DraftAgrees
  BY <1>1 DEF MessageAgrees, DocumentsAgree, CountAgrees, DraftAgrees
<1>4. BatchesAgree /\ ReceivedFirst
  BY <1>1 DEF BatchesAgree, ReceivedFirst, NoOrder, Absent
<1> QED  BY <1>2, <1>3, <1>4 DEF BooksInv, BookInv

LEMMA CountStays ==
    ASSUME ReservesInv, CountAgrees, [Next]_vars
    PROVE  CountAgrees'
<1>1. CASE orders' = orders
  <2>1. Pending' = Pending
    BY <1>1 DEF Pending, PacksOf
  <2>2. CASE BeginSync
    BY <2>1, <2>2 DEF BeginSync, CountAgrees
  <2>3. CASE UNCHANGED <<counted, still>>
    BY <2>1, <2>3 DEF CountAgrees
  <2>4. CASE counted' = None \/ still' = FALSE
    BY <2>4 DEF CountAgrees
  <2>5. BeginSync \/ UNCHANGED <<counted, still>> \/ counted' = None \/ still' = FALSE
    <3>1. CASE Aside
      BY <3>1 DEF Aside, ReadTables, RollBack, SendSupplies, SendProducts, Done, Receive,
                  CancelInvoice, Document, DropOrder, syncVars
    <3>2. CASE CommitSync
      BY <3>2 DEF CommitSync
    <3>3. CASE ShopStep
      BY <3>3, ShopIsActing DEF ShopActs
    <3>4. CASE UNCHANGED vars
      BY <3>4 DEF vars, syncVars
    <3> QED  BY <3>1, <3>2, <3>3, <3>4, StepIs
  <2> QED  BY <2>2, <2>3, <2>4, <2>5
<1>2. CASE orders' # orders
  <2>1. CASE Aside \/ UNCHANGED vars
    <3>1. orders' = orders
      BY <2>1 DEF Aside, BeginSync, ReadTables, RollBack, SendSupplies, SendProducts, Done,
                  Receive, CancelInvoice, Document, DropOrder, siteVars, vars
    <3> QED  BY <1>2, <3>1
  <2>2. CASE CommitSync
    BY <2>2 DEF CommitSync, CountAgrees
  <2>3. CASE ShopStep
    BY <2>3, ShopIsActing DEF ShopActs, CountAgrees
  <2> QED  BY <2>1, <2>2, <2>3, StepIs
<1> QED  BY <1>1, <1>2

LEMMA DraftStays ==
    ASSUME ReservesInv, BookInv, DraftAgrees, [Next]_vars
    PROVE  DraftAgrees'
<1>1. CASE draft' = None
  BY <1>1 DEF DraftAgrees
<1>2. CASE UNCHANGED <<draft, posted>>
  BY <1>2 DEF DraftAgrees, Here
<1>3. CASE ReadTables
  <2>1. counted # None /\ posted' = posted /\ draft'.new = Outcome(message)
    BY <1>3 DEF ReadTables, onecVars
  <2>2. message # None /\ SiteInv
    BY <2>1 DEF ReservesInv, SiteInv, SiteTypeOK
  <2> DEFINE new == Outcome(message)
  <2>3. /\ \A s \in new.gone : s \in Invoices /\ posted[s] = "cancelled"
        /\ \A k \in Keys : new.item[k].active => Here(k)
    BY <2>1, <2>2, OutcomeIsHere
  <2>4. draft'.new = new
    BY <2>1
  <2> HIDE DEF new
  <2> QED  BY <2>1, <2>3, <2>4 DEF DraftAgrees, Here
<1>4. draft' = None \/ UNCHANGED <<draft, posted>> \/ ReadTables
  <2>1. CASE BeginSync \/ RollBack \/ SendSupplies \/ SendProducts \/ Done \/ UNCHANGED vars
    BY <2>1 DEF BeginSync, RollBack, SendSupplies, SendProducts, Done, syncVars, onecVars, vars
  <2>2. ASSUME NEW s \in Invoices, Receive(s) \/ CancelInvoice(s) PROVE draft' = None
    BY <2>2 DEF Receive, CancelInvoice, syncVars, ReservesInv, SiteInv, SiteTypeOK
  <2>3. ASSUME NEW o \in OrderIds, Document(o) \/ DropOrder(o) PROVE UNCHANGED <<draft, posted>>
    BY <2>3 DEF Document, DropOrder, syncVars
  <2>4. CASE CommitSync
    BY <2>4 DEF CommitSync
  <2>5. CASE ShopStep
    BY <2>5, ShopIsActing DEF ShopActs, onecVars
  <2> QED  BY <2>1, <2>2, <2>3, <2>4, <2>5, StepIs DEF Aside
<1> QED  BY <1>1, <1>2, <1>3, <1>4

LEMMA BooksStep ==
    ASSUME ReservesInv, BooksInv, [Next]_vars
    PROVE  BooksInv'
<1>1. BookInv'
  <2>1. CASE Aside
    BY <2>1, AsideAgrees DEF ReservesInv, BooksInv
  <2>2. CASE CommitSync
    BY <2>2, CommitTrades, TradesFit DEF ReservesInv, BooksInv
  <2>3. CASE ShopStep
    BY <2>3, ShopTrades, TradesFit DEF ReservesInv, BooksInv
  <2>4. CASE UNCHANGED vars
    <3>1. UNCHANGED <<item, orders, posted, books, documents, dropped, message>>
      BY <2>4 DEF vars, siteVars, onecVars
    <3> QED  BY <3>1 DEF BooksInv, BookInv, BooksAgree, MessageAgrees, DocumentsAgree,
                         BatchesAgree, ReceivedFirst, Withdrawn, Here, OfBatch, Sum
  <2> QED  BY <2>1, <2>2, <2>3, <2>4, StepIs
<1> QED  BY <1>1, CountStays, DraftStays DEF BooksInv

\* Once a message is applied, and until the shop moves.
FitsWhenSettled == settled => message # None /\ ShelfFits

LEMMA FitsStep ==
    ASSUME Reserve, ReservesInv, BooksInv, FitsWhenSettled, [Next]_vars
    PROVE  FitsWhenSettled'
<1>1. CASE CommitSync
  <2>1. CASE still
    <3>1. Applied(message) /\ SiteInv /\ BookInv
      BY <1>1, <2>1, StillIsApplied DEF ReservesInv, BooksInv
    <3>2. counted = Pending
      BY <2>1, <3>1 DEF BooksInv, CountAgrees, Applied
    <3> QED  BY <3>1, <3>2, AppliedFits DEF FitsWhenSettled, Applied
  <2>2. CASE ~still
    BY <1>1, <2>2 DEF CommitSync, FitsWhenSettled
  <2> QED  BY <2>1, <2>2
<1>2. CASE \/ UNCHANGED <<item, orders, posted, message, settled>>
           \/ message = None /\ UNCHANGED settled
  BY <1>2 DEF FitsWhenSettled, ShelfFits, SaysOf, Accepted, KnowsOrdersOf, Withdrawn, LiveOf, Sum
<1>3. CASE Aside \/ UNCHANGED vars
  <2>1. CASE Done
    BY <2>1 DEF Done, FitsWhenSettled
  <2>2. CASE BeginSync \/ ReadTables \/ RollBack \/ UNCHANGED vars
             \/ \E o \in OrderIds : Document(o) \/ DropOrder(o)
    BY <1>2, <2>2 DEF BeginSync, ReadTables, RollBack, Document, DropOrder, vars, siteVars, onecVars
  <2>3. CASE SendSupplies \/ SendProducts \/ \E s \in Invoices : Receive(s) \/ CancelInvoice(s)
    BY <1>2, <2>3 DEF SendSupplies, SendProducts, Receive, CancelInvoice
  <2> QED  BY <1>3, <2>1, <2>2, <2>3 DEF Aside
<1>4. CASE ShopStep
  BY <1>4, ShopIsActing DEF ShopActs, FitsWhenSettled
<1> QED  BY <1>1, <1>3, <1>4, StepIs

\* With the reserve for unexported orders switched on, an exchange the shop has
\* not disturbed puts right every shelf of which the message speaks, unless 1C
\* held as cancelled, or had not been told of, what is sold (services/
\* supply_sync.py and catalog_sync.py subtract pending_packs).
THEOREM ShelfIsPutRight == ASSUME Reserve PROVE Spec => []ShelfIsRight
<1>1. Init => BooksInv /\ FitsWhenSettled
  BY BooksBegin DEF Init, FitsWhenSettled
<1>2. ReservesInv /\ BooksInv /\ [Next]_vars => BooksInv'
  BY BooksStep
<1>3. ReservesInv /\ BooksInv /\ FitsWhenSettled /\ [Next]_vars => FitsWhenSettled'
  BY FitsStep
<1>4. FitsWhenSettled => ShelfIsRight
  <2> SUFFICES ASSUME FitsWhenSettled, settled, NEW k \in Keys, SaysOf(message, k),
                      KnowsOrdersOf(message, k), ~Withdrawn(k)
               PROVE  item[k].stock = 0 \/ item[k].stock + SoldOf(k) <= Shipped[k]
    BY DEF ShelfIsRight
  <2> DEFINE L == LiveOf(orders, k)
  <2>1. SoldOf(k) = PacksOf(L) /\ L \in SUBSET OrderIds
    BY DEF SoldOf, LiveOf
  <2>2. item[k].stock = 0 \/ item[k].stock + Sum(orders, L) <= Shipped[k]
    BY DEF FitsWhenSettled, ShelfFits
  <2> HIDE DEF L
  <2> QED  BY <2>1, <2>2, PacksAre
<1> QED  BY <1>1, <1>2, <1>3, <1>4, InvIsKept, PTL DEF Spec

-----------------------------------------------------------------------------
(* What a message leaves that is applied, and is repeated                  *)

\* What 1C sent of a position, less what it does not know of.
LessPending(n, k) == IF n > Pending[k] THEN n - Pending[k] ELSE 0

\* The line of a position counts.
GivenIn(k) ==
    /\ k \in message.given
    /\ message.qty[k] > 0 \/ message.status[k[1]] = "received"

\* The position is what its line says.
LineAnswered(k) ==
    LET shelf == message.status[k[1]] = "received"
        row   == item[k]
    IN  /\ GivenIn(k) /\ row.on =>
             /\ row.stock = IF shelf THEN LessPending(message.qty[k], k) ELSE message.qty[k]
             /\ row.active <=> shelf /\ row.stock > 0
        /\ GivenIn(k) /\ ~row.on => message.qty[k] <= 0
        /\ ~GivenIn(k) => row.stock = 0 /\ ~row.active

\* The position and the supply are what the message says, as far as another
\* exchange could change them.
InvoiceAnswered(k) ==
    LET m == message
        s == k[1]
    IN  IF s \notin Accepted(m)
        THEN m.full /\ Accepted(m) # {} =>
               supply[s] # "transit" /\ (supply[s] = "arrived" => ~item[k].active)
        ELSE /\ m.status[s] = "cancelled" /\ WaitingOn(s) # {} => supply[s] = "arrived"
             /\ m.status[s] = "received" /\ item[k].on => supply[s] = "arrived"
             /\ m.status[s] # "cancelled" /\ s \in m.bare =>
                  (Sells(item, k) <=> m.status[s] = "received" /\ Avail(item[k]) > 0)
             /\ m.status[s] # "cancelled" /\ s \notin m.bare /\ k \notin m.bad => LineAnswered(k)

GoodsAnswered(k) ==
    k \notin message.bad =>
        /\ k \in message.given =>
             /\ item[k].on /\ item[k].stock = LessPending(message.qty[k], k)
             /\ item[k].active <=> item[k].stock > 0
        /\ k \notin message.given /\ message.full => item[k].stock = 0 /\ ~item[k].active

Answered ==
    \A k \in Keys :
        /\ message.kind = "supplies" /\ k[1] # Service => InvoiceAnswered(k)
        /\ message.kind = "products" /\ k[1] = Service => GoodsAnswered(k)

\* An exchange is under way, and what it has counted is still so.
Counted ==
    /\ message # None /\ message.status = posted
    /\ counted # None /\ counted = Pending

\* fulfil_preorders does nothing when what is asked for is not on sale.
LEMMA IdleLoop ==
    ASSUME NEW db,
           \A i \in PreorderIds :
              preorders[i].state = "waiting" /\ preorders[i].item # None
              /\ db.supply[preorders[i].item[1]] = "arrived" =>
                 /\ ~Sells(db.item, preorders[i].item)
                 /\ ~Sells(db.item, <<Service, preorders[i].item[2]>>)
    PROVE  Fulfil(db) = FirstState(db)
<1>1. PICK g : /\ Fulfil(db) = g[NPreorders] /\ g[0] = FirstState(db)
               /\ \A n \in PreorderIds : g[n] = LookAt(db, n, g[n - 1])
  BY FulfilRuns
<1>2. NPreorders \in Nat
  BY SyncAssumption
<1>3. \A n \in PreorderIds : LookAt(db, n, FirstState(db)) = FirstState(db)
  <2> SUFFICES ASSUME NEW n \in PreorderIds PROVE LookAt(db, n, FirstState(db)) = FirstState(db)
    OBVIOUS
  <2> DEFINE p == preorders[n]
  <2>1. FirstState(db).item = db.item
    BY DEF FirstState
  <2>2. p.state = "waiting" /\ p.item # None /\ db.supply[p.item[1]] = "arrived" =>
          Sources(db.item, p.item) = {}
    BY DEF Sources
  <2> QED  BY <2>1, <2>2 DEF LookAt
<1> DEFINE Bad == {n \in 0..NPreorders : g[n] # FirstState(db)}
<1> SUFFICES ASSUME Bad # {} PROVE FALSE
  BY <1>1, <1>2
<1>4. PICK n \in Bad : \A j \in Bad : n <= j
  <2>1. Bad \in SUBSET Nat
    BY <1>2
  <2> HIDE DEF Bad
  <2> QED  BY <2>1, LeastNatural
<1>5. n # 0 /\ n \in PreorderIds /\ n - 1 \in 0..NPreorders /\ n - 1 \notin Bad
  BY <1>1, <1>2, <1>4 DEF PreorderIds
<1> QED  BY <1>1, <1>3, <1>4, <1>5

\* pending_packs as a sum over all orders.
Hanging(table, k) ==
    {o \in OrderIds : table[o].state = "live" /\ ~table[o].exported /\ table[o].item = k}

PendingIn(table, k) == IF Reserve THEN Sum(table, Hanging(table, k)) ELSE 0

LEMMA PendingIsSum ==
    ASSUME NEW k \in Keys
    PROVE  Pending[k] = PendingIn(orders, k)
<1>1. Hanging(orders, k) \in SUBSET OrderIds
  BY DEF Hanging
<1>2. PacksOf(Hanging(orders, k)) = Sum(orders, Hanging(orders, k))
  BY <1>1, PacksAre
<1> QED  BY <1>2 DEF Pending, PendingIn, Hanging

LEMMA PendingIsSumThen ==
    ASSUME NEW k \in Keys
    PROVE  Pending'[k] = PendingIn(orders', k)
<1> DEFINE u == orders'
           S == Hanging(u, k)
           f == [o \in S |-> u[o].packs]
           g == [o \in OrderIds |-> u[o].packs]
<1>1. S \in SUBSET OrderIds
  BY DEF Hanging
<1>2. IsFiniteSet(S) /\ \A o \in S : f[o] = g[o]
  BY <1>1, SyncAssumption, FS_Subset
<1>3. Total(f, S) = Total(g, S)
  <2> HIDE DEF S, u
  <2> QED  BY <1>2, TotalOfSame
<1> QED  BY <1>3 DEF Pending, PacksOf, PendingIn, Hanging, Sum

\* No order waits for a document on a position none points to.
LEMMA PendingUnpointed ==
    ASSUME NEW k \in Keys, ~Referenced(k)
    PROVE  Pending[k] = 0
<1>1. Hanging(orders, k) = {}
  BY DEF Hanging, Referenced
<1> QED  BY <1>1, PendingIsSum, SumOfNone DEF PendingIn

\* Deleting other supplies leaves the count of a position as it was.
LEMMA PendingKept ==
    ASSUME Applied(message), NEW k \in Keys, k \notin Off(Outcome(message).gone)
    PROVE  Pending'[k] = Pending[k]
<1> DEFINE t == orders
           u == orders'
<1>1. \A o \in OrderIds :
        /\ u[o].state = t[o].state /\ u[o].packs = t[o].packs /\ u[o].exported = t[o].exported
        /\ u[o].item = IF t[o].item \in Off(Outcome(message).gone) THEN None ELSE t[o].item
  BY DEF Applied
<1>2. k # None
  BY NoneIsApart
<1>3. Hanging(u, k) = Hanging(t, k) /\ Hanging(t, k) \in SUBSET OrderIds
  BY <1>1, <1>2 DEF Hanging
<1>4. \A o \in Hanging(t, k) : t[o].packs = u[o].packs
  BY <1>1, <1>3
<1>5. Sum(t, Hanging(t, k)) = Sum(u, Hanging(t, k))
  <2> HIDE DEF t, u
  <2> QED  BY <1>3, <1>4, SumSame
<1> QED  BY <1>3, <1>5, PendingIsSum, PendingIsSumThen DEF PendingIn

-----------------------------------------------------------------------------
(* A message that is repeated                                              *)

LEMMA CountIs ==
    ASSUME SiteInv, Counted
    PROVE  /\ message \in MessageRow /\ message # None /\ message.status = posted
           /\ \A k \in Keys : /\ Pending[k] \in Nat /\ message.qty[k] \in Nat
                              /\ \A n : Less(n, k) = LessPending(n, k)
<1>1. counted = Pending /\ message # None /\ message \in MessageRow /\ message.status = posted
  BY DEF Counted, SiteInv, SiteTypeOK
<1>2. Pending \in [Keys -> Nat]
  BY PendingIs
<1> QED  BY <1>1, <1>2 DEF Less, LessPending, MessageRow

\* The lines of a batch find the position as they would leave it.
LEMMA LinesRepeat ==
    ASSUME SiteInv, Counted, Answered, ~lost, message.kind = "supplies",
           NEW k \in Keys, LineAnswered(k), k \notin message.bad
    PROVE  LET row == AfterLines(message, k)
           IN  /\ row.stock = item[k].stock /\ row.reserved = item[k].reserved
               /\ row.active <=> item[k].active
<1> DEFINE m == message
           row == item[k]
           shelf == m.status[k[1]] = "received"
           stock == IF shelf /\ row.on THEN Less(m.qty[k], k) ELSE m.qty[k]
           given == k \in m.given /\ (m.qty[k] > 0 \/ shelf)
<1>1. row \in ItemRow /\ (row.on \/ row = Absent) /\ (given <=> GivenIn(k))
  BY RowsAre DEF GivenIn
<1>7. /\ given /\ row.on =>
           /\ row.stock = IF shelf THEN LessPending(m.qty[k], k) ELSE m.qty[k]
           /\ row.active <=> shelf /\ row.stock > 0
      /\ given /\ ~row.on => m.qty[k] <= 0
      /\ ~given => row.stock = 0 /\ ~row.active
  <2> HIDE DEF given
  <2> QED  BY <1>1 DEF LineAnswered
<1>2. m.qty[k] \in Int /\ Pending[k] \in Nat
  BY CountIs
<1>3. stock = (IF shelf /\ row.on THEN LessPending(m.qty[k], k) ELSE m.qty[k]) /\ stock \in Int
  BY <1>2, CountIs DEF LessPending
<1>4. CASE given /\ (row.on \/ stock > 0)
  <2>1. row.on
    BY <1>2, <1>3, <1>4, <1>7
  <2>2. row.stock = stock /\ (row.active <=> shelf /\ row.stock > 0)
    BY <1>3, <1>4, <1>7, <2>1
  <2> DEFINE live == shelf /\ stock > 0
             new == Entered(row, stock, live)
  <2>3. AfterLines(m, k) = new
    BY <1>4 DEF AfterLines, Entered
  <2>4. live \in BOOLEAN /\ (live <=> row.active)
    BY <2>2
  <2> HIDE DEF stock, live
  <2>5. new.stock = stock /\ new.reserved = row.reserved /\ new.active = live
    BY <1>1, <1>3, <2>4, EnteredIs
  <2> QED  BY <2>2, <2>3, <2>4, <2>5
<1>5. CASE ~given /\ row.on /\ Referenced(k)
  <2>1. AfterLines(m, k) = Stocked(row, 0, FALSE)
    BY <1>5 DEF AfterLines, Stocked
  <2>2. row.stock = 0 /\ ~row.active
    BY <1>5, <1>7
  <2>3. FALSE \in BOOLEAN /\ 0 \in Int
    OBVIOUS
  <2> DEFINE new == Stocked(row, 0, FALSE)
  <2>4. new.stock = 0 /\ new.reserved = row.reserved /\ new.active = FALSE
    BY <1>1, <2>3, StockedIs
  <2>5. AfterLines(m, k) = new
    BY <2>1
  <2> HIDE DEF new
  <2> QED  BY <2>2, <2>4, <2>5
<1>6. CASE ~(given /\ (row.on \/ stock > 0)) /\ ~(~given /\ row.on /\ Referenced(k))
  <2>1. AfterLines(m, k) = Absent
    BY <1>6 DEF AfterLines
  <2>2. row.stock = 0 /\ ~row.active
    <3>1. ~given \/ row = Absent
      <4> HIDE DEF given, stock
      <4> QED  BY <1>1, <1>6
    <3> QED  BY <1>7, <3>1 DEF Absent
  <2>3. row.reserved = 0
    BY <1>1, <1>6, UnpointedKeepsNothing DEF Absent
  <2> QED  BY <2>1, <2>2, <2>3 DEF Absent
<1> QED  BY <1>4, <1>5, <1>6

\* An invoice finds nothing to close, and what it is not about as it was.
LEMMA NotListedRepeats ==
    ASSUME SiteInv, Counted, Answered, ~lost, message.kind = "supplies",
           NEW k \in Keys, k[1] \in Invoices, k[1] \notin Accepted(message)
    PROVE  /\ Listed(message).item[k] = item[k]
           /\ Listed(message).supply[k[1]] = supply[k[1]]
<1> DEFINE m == message
           s == k[1]
<1>1. s # Service /\ s \in Batches
  BY SyncAssumption DEF Batches
<1>2. \A p \in Products : <<s, p>> \in Keys
  BY <1>1 DEF Keys
<1>3. \A p \in Products : InvoiceAnswered(<<s, p>>)
  BY <1>1, <1>2 DEF Answered
<1>4. ~Closed(m, s)
  <2>1. s \notin Accepted(m)
    OBVIOUS
  <2>2. k[2] \in Products
    BY KeysAre
  <2> QED  BY <1>3, <2>1, <2>2 DEF Closed, InvoiceAnswered
<1> QED  BY <1>1, <1>4 DEF Listed, AfterInvoice, SupplyAfter, Deleted

\* Nothing on offer changes by the lines of a message that is repeated.
LEMMA ListRepeats ==
    ASSUME SiteInv, Counted, Answered, ~lost, message.kind = "supplies",
           NEW k \in Keys, ~Withdrawn(k)
    PROVE  LET row == Listed(message).item[k]
           IN  /\ row.stock = item[k].stock /\ row.reserved = item[k].reserved
               /\ row.active /\ Avail(row) > 0 <=> Sells(item, k)
<1> DEFINE m == message
           s == k[1]
<1>1. /\ message \in MessageRow /\ message # None /\ message.status = posted /\ Answered
      /\ item[k] \in ItemRow
  BY CountIs, RowsAre
<1>2. CASE s = Service
  BY <1>2 DEF Listed, Sells
<1>3. CASE s # Service /\ s \notin Accepted(m)
  <2>1. s \in Invoices
    BY <1>3, KeysAre
  <2>2. Listed(m).item[k] = item[k]
    BY <1>3, <2>1, NotListedRepeats
  <2> QED  BY <2>2 DEF Sells
<1>4. CASE s # Service /\ s \in Accepted(m)
  <2>1. s \in Invoices /\ m.status[s] # "cancelled" /\ InvoiceAnswered(k)
    BY <1>1, <1>4, KeysAre DEF Withdrawn, Answered
  <2>2. Listed(m).item[k] = AfterInvoice(m, k)
    BY <1>4, <2>1 DEF Listed, Closed
  <2>3. CASE s \in m.bare
    <3> DEFINE live == m.status[s] = "received" /\ Avail(item[k]) > 0
               new == Laid(item[k], live)
    <3>1. AfterInvoice(m, k) = new
      BY <1>4, <2>1, <2>3 DEF AfterInvoice, AfterBare, Laid
    <3>2. live <=> Sells(item, k)
      BY <1>4, <2>1, <2>3 DEF InvoiceAnswered
    <3>3. live \in BOOLEAN /\ (live => Avail(item[k]) > 0)
      OBVIOUS
    <3> HIDE DEF live
    <3>4. new.stock = item[k].stock /\ new.reserved = item[k].reserved /\ new.active = live
      BY <1>1, <3>3, LaidIs
    <3> HIDE DEF new
    <3>5. Avail(new) = Avail(item[k])
      BY <3>4 DEF Avail
    <3> QED  BY <2>2, <3>1, <3>2, <3>3, <3>4, <3>5
  <2>4. CASE s \notin m.bare
    <3>1. AfterInvoice(m, k) = AfterLines(m, k)
      BY <1>4, <2>1, <2>4 DEF AfterInvoice
    <3>2. CASE k \in m.bad
      <4>1. AfterLines(m, k) = item[k]
        BY <3>2 DEF AfterLines
      <4> QED  BY <2>2, <3>1, <4>1 DEF Sells
    <3>3. CASE k \notin m.bad
      <4>1. LineAnswered(k)
        BY <1>4, <2>1, <2>4, <3>3 DEF InvoiceAnswered
      <4> DEFINE row == AfterLines(m, k)
      <4>2. /\ row.stock = item[k].stock /\ row.reserved = item[k].reserved
            /\ row.active <=> item[k].active
        BY <3>3, <4>1, LinesRepeat
      <4> HIDE DEF row
      <4>3. Avail(row) = Avail(item[k])
        BY <4>2 DEF Avail
      <4> QED  BY <2>2, <3>1, <4>2, <4>3 DEF Sells, row
    <3> QED  BY <3>2, <3>3
  <2> QED  BY <2>3, <2>4
<1> QED  BY <1>2, <1>3, <1>4

\* Whoever waits finds as little in what is listed as there was.
LEMMA NobodyToServe ==
    ASSUME SiteInv, Counted, Answered, Served, ~lost, message.kind = "supplies",
           NEW i \in PreorderIds, preorders[i].state = "waiting",
           preorders[i].item # None,
           Listed(message).supply[preorders[i].item[1]] = "arrived"
    PROVE  /\ ~Sells(Listed(message).item, preorders[i].item)
           /\ ~Sells(Listed(message).item, <<Service, preorders[i].item[2]>>)
<1> DEFINE m == message
           db == Listed(m)
           k == preorders[i].item
           s == k[1]
           other == <<Service, k[2]>>
<1>1. k \in Keys /\ s \in Invoices /\ other \in Keys /\ k \in {s} \X Products
  BY DEF SiteInv, WaitingIsAhead, Keys, Batches
<1>2. s # Service /\ s \in Batches /\ i \in WaitingOn(s)
  BY <1>1, SyncAssumption DEF Batches, WaitingOn
<1>3. item[k].on
  BY <1>1 DEF SiteInv, PointedIsOn, Referenced
<1>4. Sells(db.item, other) => Sells(item, other)
  <2>1. db.item[other] = item[other]
    BY <1>1 DEF Listed
  <2> QED  BY <2>1 DEF Sells
<1>5. /\ message # None /\ message.status = posted /\ Answered
  BY CountIs
<1>6. CASE s \notin Accepted(m)
  <2>1. db.item[k] = item[k] /\ db.supply[s] = supply[s]
    BY <1>1, <1>6, NotListedRepeats
  <2>2. ~Sells(item, k) /\ ~Sells(item, other)
    BY <2>1 DEF Served
  <2> QED  BY <1>4, <2>1, <2>2 DEF Sells
<1>7. CASE s \in Accepted(m)
  <2>1. InvoiceAnswered(k)
    BY <1>1, <1>2, <1>5 DEF Answered
  <2>2. supply[s] = "arrived"
    <3>1. CASE m.status[s] = "cancelled"
      BY <1>2, <1>7, <2>1, <3>1 DEF InvoiceAnswered
    <3>2. CASE m.status[s] # "cancelled"
      <4>1. db.supply[s] = SupplyAfter(m, s)
        BY <1>2, <1>7 DEF Listed, Closed
      <4>2. m.status[s] = "received"
        BY <1>7, <3>2, <4>1 DEF SupplyAfter, Deleted
      <4> QED  BY <1>3, <1>7, <2>1, <4>2 DEF InvoiceAnswered
    <3> QED  BY <3>1, <3>2
  <2>3. ~Sells(item, k) /\ ~Sells(item, other)
    BY <2>2 DEF Served
  <2>4. CASE m.status[s] = "cancelled"
    <3>1. ~Deleted(m, s)
      BY <1>2 DEF Deleted
    <3>2. db.item[k] = [item[k] EXCEPT !.stock = 0, !.active = FALSE]
      BY <1>1, <1>2, <1>7, <2>4, <3>1 DEF Listed, Closed, AfterInvoice
    <3>3. ~db.item[k].active
      BY <1>1, <3>2, RowsAre DEF ItemRow
    <3> QED  BY <1>4, <2>3, <3>3 DEF Sells
  <2>5. CASE m.status[s] # "cancelled"
    <3>1. ~Withdrawn(k)
      BY <1>5, <2>5 DEF Withdrawn
    <3>2. Sells(db.item, k) => Sells(item, k)
      BY <1>1, <3>1, ListRepeats DEF Sells
    <3> QED  BY <1>4, <2>3, <3>2
  <2> QED  BY <2>4, <2>5
<1> QED  BY <1>6, <1>7

LEMMA SuppliesRepeat ==
    ASSUME SiteInv, Counted, Answered, Served, ~lost, Applied(message), message.kind = "supplies",
           NEW k \in Keys, ~Withdrawn(k)
    PROVE  OnOffer(k)' = OnOffer(k)
<1> DEFINE m == message
           db == Listed(m)
<1>1. item' = Fulfil(db).item
  BY DEF Applied, Outcome, Supplied
<1>2. Fulfil(db) = FirstState(db)
  <2>1. \A i \in PreorderIds :
          preorders[i].state = "waiting" /\ preorders[i].item # None
          /\ db.supply[preorders[i].item[1]] = "arrived" =>
             /\ ~Sells(db.item, preorders[i].item)
             /\ ~Sells(db.item, <<Service, preorders[i].item[2]>>)
    BY NobodyToServe
  <2> HIDE DEF db
  <2> QED  BY <2>1, IdleLoop
<1>3. item'[k] = db.item[k]
  BY <1>1, <1>2 DEF FirstState
<1>4. /\ db.item[k].stock = item[k].stock /\ db.item[k].reserved = item[k].reserved
      /\ (db.item[k].active /\ Avail(db.item[k]) > 0) <=> Sells(item, k)
  BY ListRepeats
<1> HIDE DEF db
<1>5. Sells(item', k) <=> Sells(item, k)
  BY <1>3, <1>4 DEF Sells
<1> QED  BY <1>3, <1>4, <1>5 DEF OnOffer, Sells

LEMMA ProductsRepeat ==
    ASSUME SiteInv, Counted, Answered, Applied(message), message.kind = "products", NEW k \in Keys
    PROVE  OnOffer(k)' = OnOffer(k)
<1> DEFINE m == message
           row == item[k]
           stock == IF row.on THEN Less(m.qty[k], k) ELSE m.qty[k]
           live == stock > 0
<1>1. m.kind = "products" /\ row \in ItemRow /\ message \in MessageRow
  BY RowsAre, CountIs
<1>2. m.qty[k] \in Nat /\ Pending[k] \in Nat /\ Less(m.qty[k], k) = LessPending(m.qty[k], k)
  BY CountIs
<1>3. stock \in Int
  BY <1>2 DEF LessPending
<1>4. item'[k] = IF k[1] # Service \/ k \in m.bad THEN row
                 ELSE CASE k \in m.given -> Entered(row, stock, live)
                        [] k \notin m.given /\ m.full -> Stocked(row, 0, FALSE)
                        [] OTHER -> row
  BY DEF Applied, Outcome, Restocked, Entered, Stocked
<1>5. CASE item'[k] = row
  BY <1>5 DEF OnOffer, Sells, Avail
<1>6. CASE k[1] = Service /\ k \notin m.bad /\ k \in m.given
  <2>1. row.on /\ row.stock = LessPending(m.qty[k], k) /\ (row.active <=> row.stock > 0)
    BY <1>1, <1>6 DEF Answered, GoodsAnswered
  <2>2. stock = row.stock /\ (live <=> row.active) /\ live \in BOOLEAN
    BY <1>2, <2>1
  <2> DEFINE new == Entered(row, stock, live)
  <2>3. item'[k] = new
    BY <1>4, <1>6
  <2> HIDE DEF stock, live
  <2>4. new.stock = stock /\ new.reserved = row.reserved /\ new.active = live
    BY <1>1, <1>3, <2>2, EnteredIs
  <2> HIDE DEF new
  <2>5. Sells(item', k) <=> Sells(item, k)
    BY <2>2, <2>3, <2>4 DEF Sells, Avail
  <2> QED  BY <2>2, <2>3, <2>4, <2>5 DEF OnOffer, Sells
<1>7. CASE k[1] = Service /\ k \notin m.bad /\ k \notin m.given /\ m.full
  <2>1. row.stock = 0 /\ ~row.active
    BY <1>1, <1>7 DEF Answered, GoodsAnswered
  <2> DEFINE new == Stocked(row, 0, FALSE)
  <2>2. item'[k] = new
    BY <1>4, <1>7
  <2>3. FALSE \in BOOLEAN /\ 0 \in Int
    OBVIOUS
  <2>4. new.stock = 0 /\ new.reserved = row.reserved /\ new.active = FALSE
    BY <1>1, <2>3, StockedIs
  <2> HIDE DEF new
  <2>5. ~Sells(item', k) /\ ~Sells(item, k)
    BY <2>1, <2>2, <2>4 DEF Sells
  <2> QED  BY <2>1, <2>2, <2>4, <2>5 DEF OnOffer, Sells
<1> QED  BY <1>4, <1>5, <1>6, <1>7

-----------------------------------------------------------------------------
(* A message that is applied                                               *)

\* The lines of a batch leave a position as they say.
LEMMA LinesAnswer ==
    ASSUME SiteInv, Counted, NEW k \in Keys, k \notin message.bad
    PROVE  LET row   == AfterLines(message, k)
               shelf == message.status[k[1]] = "received"
           IN  /\ GivenIn(k) /\ row.on =>
                    /\ row.stock = IF shelf THEN LessPending(message.qty[k], k) ELSE message.qty[k]
                    /\ row.active <=> shelf /\ row.stock > 0
               /\ GivenIn(k) /\ ~row.on => message.qty[k] <= 0
               /\ ~GivenIn(k) => row.stock = 0 /\ ~row.active
<1> DEFINE m == message
           old == item[k]
           row == AfterLines(message, k)
           shelf == m.status[k[1]] = "received"
           stock == IF shelf /\ old.on THEN Less(m.qty[k], k) ELSE m.qty[k]
           given == k \in m.given /\ (m.qty[k] > 0 \/ shelf)
<1>1. old \in ItemRow /\ (given <=> GivenIn(k)) /\ (~old.on => Pending[k] = 0)
  BY RowsAre, PendingUnpointed DEF GivenIn, SiteInv, PointedIsOn
<1>2. m.qty[k] \in Int /\ Pending[k] \in Nat /\ Less(m.qty[k], k) = LessPending(m.qty[k], k)
  BY CountIs
<1>3. stock \in Int
  BY <1>2 DEF LessPending
<1>4. CASE given /\ (old.on \/ stock > 0)
  <2>1. stock = IF shelf THEN LessPending(m.qty[k], k) ELSE m.qty[k]
    BY <1>1, <1>2, <1>4 DEF LessPending
  <2> DEFINE live == shelf /\ stock > 0
             new == Entered(old, stock, live)
  <2>2. row = new
    BY <1>4 DEF AfterLines, Entered
  <2>3. live \in BOOLEAN /\ (live <=> shelf /\ stock > 0)
    OBVIOUS
  <2> HIDE DEF stock, live
  <2>4. new.on /\ new.stock = stock /\ new.active = live
    BY <1>1, <1>3, <2>3, EnteredIs
  <2> HIDE DEF new, row, given, shelf
  <2>5. /\ row.on /\ row.stock = (IF shelf THEN LessPending(m.qty[k], k) ELSE m.qty[k])
        /\ row.active <=> shelf /\ row.stock > 0
    BY <2>1, <2>2, <2>3, <2>4
  <2> QED  BY <1>1, <1>4, <2>5 DEF row, shelf
<1>5. CASE ~given /\ old.on /\ Referenced(k)
  <2> DEFINE new == Stocked(old, 0, FALSE)
  <2>1. row = new
    BY <1>5 DEF AfterLines, Stocked
  <2>2. FALSE \in BOOLEAN /\ 0 \in Int
    OBVIOUS
  <2>3. new.stock = 0 /\ new.active = FALSE
    BY <1>1, <2>2, StockedIs
  <2> HIDE DEF new, row
  <2>4. row.stock = 0 /\ ~row.active /\ ~GivenIn(k)
    BY <1>1, <1>5, <2>1, <2>3
  <2> QED  BY <2>4 DEF row
<1>6. CASE ~(given /\ (old.on \/ stock > 0)) /\ ~(~given /\ old.on /\ Referenced(k))
  <2>1. row = Absent
    BY <1>6 DEF AfterLines
  <2>2. ~row.on /\ row.stock = 0 /\ ~row.active
    BY <2>1 DEF Absent
  <2>3. given => m.qty[k] <= 0
    <3>1. given => ~old.on /\ ~(stock > 0)
      BY <1>6
    <3> QED  BY <1>2, <3>1
  <2> HIDE DEF row, given
  <2>4. GivenIn(k) => m.qty[k] <= 0
    BY <1>1, <2>3
  <2> QED  BY <2>2, <2>4 DEF row
<1> QED  BY <1>4, <1>5, <1>6


\* apply_supplies leaves every batch as the message says.
LEMMA SuppliesAnswer ==
    ASSUME SiteInv, Counted, Applied(message), message.kind = "supplies"
    PROVE  Answered'
<1> DEFINE m == message
           db == Listed(m)
           now == Fulfil(db)
           gone == Gone(m)
<1>1. /\ message' = m /\ supply' = db.supply /\ item' = now.item
      /\ \A i \in PreorderIds :
           preorders'[i].item = IF now.preorders[i].item \in gone THEN None
                                ELSE now.preorders[i].item
      /\ Off(Outcome(m).gone) = gone
  BY GoneIsOff DEF Applied, Outcome, Supplied
<1>2. message # None /\ message \in MessageRow
  BY CountIs
<1>3. Midway(db, gone, NPreorders, now)
  BY <1>2, LoopIsRun DEF Counted
<1>4. \A k \in Keys : /\ now.item[k].on = db.item[k].on /\ now.item[k].stock = db.item[k].stock
                      /\ now.item[k].active = db.item[k].active
                      /\ now.item[k].reserved >= db.item[k].reserved
                      /\ now.item[k] \in ItemRow
  <2> HIDE DEF db, now
  <2> QED  BY <1>3 DEF Midway
<1> SUFFICES ASSUME NEW k \in Keys, k[1] # Service PROVE InvoiceAnswered(k)'
  BY <1>1 DEF Answered
<1> DEFINE s == k[1]
           row == item'[k]
<1>5. s \in Invoices /\ s \in Batches /\ item[k] \in ItemRow
  BY KeysAre, RowsAre
<1>6. row \in ItemRow /\ row.on = db.item[k].on /\ row.stock = db.item[k].stock
      /\ row.active = db.item[k].active /\ row.reserved >= db.item[k].reserved
  <2> HIDE DEF now, db
  <2> QED  BY <1>1, <1>4
<1>7. CASE s \notin Accepted(m)
  <2>1. CASE Closed(m, s)
    <3>1. supply'[s] = "arrived" /\ db.item[k] = Laid(item[k], FALSE)
      BY <1>1, <1>5, <2>1 DEF Listed, Laid
    <3>2. FALSE \in BOOLEAN
      OBVIOUS
    <3>3. ~row.active
      BY <1>5, <1>6, <3>1, <3>2, LaidIs
    <3> QED  BY <1>1, <1>7, <3>1, <3>3 DEF InvoiceAnswered, Accepted
  <2>2. CASE ~Closed(m, s)
    <3>1. supply'[s] = supply[s] /\ db.item[k] = item[k]
      BY <1>1, <1>5, <1>7, <2>2 DEF Listed, SupplyAfter, Deleted, AfterInvoice
    <3>2. m.full /\ Accepted(m) # {} =>
            /\ supply[s] # "transit"
            /\ supply[s] = "arrived" => \A p \in Products : ~item[<<s, p>>].active
      BY <1>5, <1>7, <2>2 DEF Closed
    <3>3. m.full /\ Accepted(m) # {} =>
            supply[s] # "transit" /\ (supply[s] = "arrived" => ~item[k].active)
      BY <3>2, KeysAre
    <3>4. row.active = item[k].active
      BY <1>6, <3>1
    <3> QED  BY <1>1, <1>7, <3>1, <3>3, <3>4 DEF InvoiceAnswered, Accepted
  <2> QED  BY <2>1, <2>2
<1>8. CASE s \in Accepted(m)
  <2>1. supply'[s] = SupplyAfter(m, s) /\ db.item[k] = AfterInvoice(m, k)
    BY <1>1, <1>5, <1>8 DEF Listed, Closed
  <2>2. m.status[s] = "cancelled" /\ WaitingOn(s)' # {} => supply'[s] = "arrived"
    <3>1. ASSUME m.status[s] = "cancelled", Deleted(m, s), WaitingOn(s)' # {} PROVE FALSE
      <4>1. PICK i \in PreorderIds : preorders'[i].item \in {s} \X Products
        BY <3>1 DEF WaitingOn
      <4>2. preorders'[i].item \in gone
        BY <1>5, <3>1, <4>1 DEF Gone, Keys
      <4>3. None \notin gone
        BY NoneIsApart DEF Gone
      <4> HIDE DEF gone, now
      <4> QED  BY <1>1, <4>2, <4>3
    <3>2. m.status[s] = "cancelled" /\ ~Deleted(m, s) => supply'[s] = "arrived"
      BY <1>8, <2>1 DEF SupplyAfter
    <3> QED  BY <3>1, <3>2
  <2>3. m.status[s] = "received" /\ row.on => supply'[s] = "arrived"
    <3> SUFFICES ASSUME m.status[s] = "received", row.on PROVE supply'[s] = "arrived"
      OBVIOUS
    <3>1. AfterInvoice(m, <<s, k[2]>>).on /\ k[2] \in Products
      BY <1>6, <2>1, KeysAre
    <3> QED  BY <1>8, <2>1, <3>1 DEF SupplyAfter, Deleted
  <2>4. m.status[s] # "cancelled" /\ s \in m.bare =>
          (Sells(item', k) <=> m.status[s] = "received" /\ Avail(row) > 0)
    <3> SUFFICES ASSUME m.status[s] # "cancelled", s \in m.bare
                 PROVE  Sells(item', k) <=> m.status[s] = "received" /\ Avail(row) > 0
      OBVIOUS
    <3> DEFINE live == m.status[s] = "received" /\ Avail(item[k]) > 0
               new == Laid(item[k], live)
    <3>1. db.item[k] = new
      BY <1>8, <2>1 DEF AfterInvoice, AfterBare, Laid
    <3>2. live \in BOOLEAN
      OBVIOUS
    <3> HIDE DEF live
    <3>3. new.stock = item[k].stock /\ new.reserved = item[k].reserved /\ new.active = live
      BY <1>5, <3>2, LaidIs
    <3> HIDE DEF new
    <3>4. row.stock = item[k].stock /\ row.reserved >= item[k].reserved /\ row.active = live
      BY <1>6, <3>1, <3>3
    <3>5. Avail(row) > 0 => Avail(item[k]) > 0
      <4> HIDE DEF row
      <4> QED  BY <1>5, <1>6, <3>4 DEF Avail, ItemRow
    <3> QED  BY <3>4, <3>5 DEF Sells, live
  <2>5. m.status[s] # "cancelled" /\ s \notin m.bare /\ k \notin m.bad => LineAnswered(k)'
    <3> SUFFICES ASSUME m.status[s] # "cancelled", s \notin m.bare, k \notin m.bad
                 PROVE  LineAnswered(k)'
      OBVIOUS
    <3> DEFINE new == AfterLines(m, k)
               shelf == m.status[s] = "received"
    <3>1. db.item[k] = new
      BY <1>8, <2>1 DEF AfterInvoice
    <3>2. k \notin gone
      BY DEF Gone, Deleted
    <3>3. Pending'[k] = Pending[k]
      BY <1>1, <3>2, PendingKept
    <3>4. \A n : LessPending(n, k)' = LessPending(n, k)
      BY <3>3 DEF LessPending
    <3>5. GivenIn(k)' <=> GivenIn(k)
      BY <1>1 DEF GivenIn
    <3>6. /\ GivenIn(k) /\ new.on =>
               /\ new.stock = IF shelf THEN LessPending(m.qty[k], k) ELSE m.qty[k]
               /\ new.active <=> shelf /\ new.stock > 0
          /\ GivenIn(k) /\ ~new.on => m.qty[k] <= 0
          /\ ~GivenIn(k) => new.stock = 0 /\ ~new.active
      BY LinesAnswer
    <3> HIDE DEF new
    <3>7. row.on = new.on /\ row.stock = new.stock /\ row.active = new.active
      BY <1>6, <3>1
    <3> HIDE DEF db, now
    <3> QED  BY <1>1, <3>4, <3>5, <3>6, <3>7 DEF LineAnswered
  <2> HIDE DEF db, now
  <2> QED  BY <1>1, <1>8, <2>2, <2>3, <2>4, <2>5 DEF InvoiceAnswered, Accepted
<1> QED  BY <1>7, <1>8

\* apply_products leaves the goods without a batch as the message says.
LEMMA ProductsAnswer ==
    ASSUME SiteInv, Counted, Applied(message), message.kind = "products"
    PROVE  Answered'
<1> DEFINE m == message
<1>1. message' = m /\ Outcome(m) = Restocked(m) /\ item' = Restocked(m).item
  BY DEF Applied, Outcome
<1>2. message # None /\ message \in MessageRow
  BY CountIs
<1> SUFFICES ASSUME NEW k \in Keys, k[1] = Service, k \notin m.bad PROVE GoodsAnswered(k)'
  BY <1>1 DEF Answered, GoodsAnswered
<1> DEFINE row == item[k]
           stock == IF row.on THEN Less(m.qty[k], k) ELSE m.qty[k]
           live == stock > 0
<1>3. row \in ItemRow /\ (~row.on => Pending[k] = 0)
  BY RowsAre, PendingUnpointed DEF SiteInv, PointedIsOn
<1>4. m.qty[k] \in Nat /\ Pending[k] \in Nat /\ Less(m.qty[k], k) = LessPending(m.qty[k], k)
  BY CountIs
<1>5. stock = LessPending(m.qty[k], k) /\ stock \in Int
  BY <1>3, <1>4 DEF LessPending
<1>6. LessPending(m.qty[k], k)' = LessPending(m.qty[k], k)
  <2>1. Off(Outcome(m).gone) = {}
    <3> DEFINE new == Restocked(m)
    <3>1. new.gone = {}
      BY DEF Restocked
    <3> HIDE DEF new
    <3>2. Outcome(m).gone = {}
      BY <1>1, <3>1 DEF new
    <3> QED  BY <3>2 DEF Off
  <2>2. Pending'[k] = Pending[k]
    BY <2>1, PendingKept
  <2> QED  BY <1>1, <2>2 DEF LessPending
<1>7. CASE k \in m.given
  <2> DEFINE new == Entered(row, stock, live)
  <2>1. item'[k] = new
    BY <1>1, <1>7 DEF Restocked, Entered
  <2>2. live \in BOOLEAN /\ (live <=> stock > 0)
    OBVIOUS
  <2> HIDE DEF stock, live
  <2>3. new.on /\ new.stock = stock /\ new.active = live
    BY <1>3, <1>5, <2>2, EnteredIs
  <2> HIDE DEF new
  <2> QED  BY <1>1, <1>5, <1>6, <1>7, <2>1, <2>2, <2>3 DEF GoodsAnswered
<1>8. CASE k \notin m.given
  <2> DEFINE new == Stocked(row, 0, FALSE)
  <2>1. m.full => item'[k] = new
    BY <1>1, <1>8 DEF Restocked, Stocked
  <2>2. FALSE \in BOOLEAN /\ 0 \in Int
    OBVIOUS
  <2>3. new.stock = 0 /\ new.active = FALSE
    BY <1>3, <2>2, StockedIs
  <2> HIDE DEF new
  <2> QED  BY <1>1, <1>8, <2>1, <2>3 DEF GoodsAnswered
<1> QED  BY <1>7, <1>8

-----------------------------------------------------------------------------
(* The invariant of repetition                                             *)

AnsweredWhenSettled == settled => message # None /\ Answered

\* What a message says and how the site stands is all that Answered is about.
LEMMA AnsweredStays ==
    ASSUME Answered, UNCHANGED <<supply, item, orders, preorders, message>>
    PROVE  Answered'
<1>1. Pending' = Pending
  BY DEF Pending, PacksOf
<1>2. \A k : LineAnswered(k)' <=> LineAnswered(k)
  BY <1>1 DEF LineAnswered, GivenIn, LessPending
<1>3. \A k : InvoiceAnswered(k)' <=> InvoiceAnswered(k)
  BY <1>2 DEF InvoiceAnswered, WaitingOn, Sells, Accepted
<1>4. \A k : GoodsAnswered(k)' <=> GoodsAnswered(k)
  BY <1>1 DEF GoodsAnswered, LessPending
<1> QED  BY <1>3, <1>4 DEF Answered

\* What an exchange has counted when it commits, if the shop has stood still.
LEMMA StillCounts ==
    ASSUME ReservesInv, BooksInv, still, CommitSync
    PROVE  SiteInv /\ Counted /\ Applied(message) /\ message \in MessageRow
<1>1. Applied(message)
  BY StillIsApplied
<1>2. message # None /\ counted # None
  BY <1>1 DEF Applied
<1> QED  BY <1>1, <1>2 DEF ReservesInv, SiteInv, SiteTypeOK, BooksInv, BookInv, MessageAgrees,
                           CountAgrees, Counted

LEMMA AnsweredStep ==
    ASSUME ReservesInv, BooksInv, AnsweredWhenSettled, [Next]_vars
    PROVE  AnsweredWhenSettled'
<1>1. CASE CommitSync
  <2>1. CASE still
    <3>1. SiteInv /\ Counted /\ Applied(message) /\ message \in MessageRow
      BY <1>1, <2>1, StillCounts
    <3>2. message.kind \in {"supplies", "products"}
      BY <3>1 DEF MessageRow
    <3>3. Answered'
      BY <3>1, <3>2, SuppliesAnswer, ProductsAnswer
    <3> QED  BY <3>1, <3>3 DEF AnsweredWhenSettled, Applied
  <2>2. CASE ~still
    BY <1>1, <2>2 DEF CommitSync, AnsweredWhenSettled
  <2> QED  BY <2>1, <2>2
<1>2. CASE \/ UNCHANGED <<siteVars, message, settled>>
           \/ message = None /\ UNCHANGED settled
  BY <1>2, AnsweredStays DEF AnsweredWhenSettled, siteVars
<1>3. CASE Aside \/ UNCHANGED vars
  <2>1. CASE Done
    BY <2>1 DEF Done, AnsweredWhenSettled
  <2>2. CASE BeginSync \/ ReadTables \/ RollBack \/ UNCHANGED vars
             \/ \E o \in OrderIds : Document(o) \/ DropOrder(o)
    BY <1>2, <2>2 DEF BeginSync, ReadTables, RollBack, Document, DropOrder, vars
  <2>3. CASE SendSupplies \/ SendProducts \/ \E s \in Invoices : Receive(s) \/ CancelInvoice(s)
    BY <1>2, <2>3 DEF SendSupplies, SendProducts, Receive, CancelInvoice
  <2> QED  BY <1>3, <2>1, <2>2, <2>3 DEF Aside
<1>4. CASE ShopStep
  BY <1>4, ShopIsActing DEF ShopActs, AnsweredWhenSettled
<1> QED  BY <1>1, <1>3, <1>4, StepIs

\* A message 1C repeats because it got no answer changes nothing that is on
\* offer or kept, if the shop stood still both times, except for a batch 1C
\* has cancelled (services/supply_sync.py, apply_supplies;
\* services/catalog_sync.py, apply_products).
THEOREM RepetitionIsIdle == Spec => RepeatChangesNothing
<1> DEFINE Idle == settled /\ settled' /\ ~lost =>
                     \A k \in Keys : Withdrawn(k) \/ OnOffer(k)' = OnOffer(k)
<1>1. ReservesInv /\ BooksInv /\ ServedWhenSettled /\ AnsweredWhenSettled /\ [Next]_vars => Idle
  <2> SUFFICES ASSUME ReservesInv, BooksInv, ServedWhenSettled, AnsweredWhenSettled,
                      [Next]_vars, settled, settled', ~lost, NEW k \in Keys, ~Withdrawn(k)
               PROVE  OnOffer(k)' = OnOffer(k)
    OBVIOUS
  <2>1. CASE CommitSync
    <3>1. still
      BY <2>1 DEF CommitSync
    <3>2. SiteInv /\ Counted /\ Applied(message) /\ message \in MessageRow
      BY <2>1, <3>1, StillCounts
    <3>3. Answered
      BY DEF AnsweredWhenSettled
    <3>4. CASE message.kind = "supplies"
      BY <3>2, <3>3, <3>4, SuppliesRepeat DEF ServedWhenSettled
    <3>5. CASE message.kind = "products"
      BY <3>2, <3>3, <3>5, ProductsRepeat
    <3> QED  BY <3>2, <3>4, <3>5 DEF MessageRow
  <2>2. CASE UNCHANGED item
    BY <2>2 DEF OnOffer, Sells
  <2>3. CASE Aside \/ UNCHANGED vars
    BY <2>2, <2>3 DEF Aside, BeginSync, ReadTables, RollBack, SendSupplies, SendProducts, Done,
                      Receive, CancelInvoice, Document, DropOrder, vars, siteVars
  <2>4. CASE ShopStep
    BY <2>4, ShopIsActing DEF ShopActs
  <2> QED  BY <2>1, <2>3, <2>4, StepIs
<1>2. Init => BooksInv /\ ServedWhenSettled /\ AnsweredWhenSettled
  BY BooksBegin DEF Init, ServedWhenSettled, AnsweredWhenSettled
<1>3. ReservesInv /\ BooksInv /\ ServedWhenSettled /\ AnsweredWhenSettled /\ [Next]_vars
        => BooksInv' /\ ServedWhenSettled' /\ AnsweredWhenSettled'
  BY BooksStep, SettledStep, AnsweredStep
<1> QED  BY <1>1, <1>2, <1>3, InvIsKept, PTL DEF Spec, RepeatChangesNothing
=============================================================================
