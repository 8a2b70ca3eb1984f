----------------------------- MODULE Preorders -----------------------------
(***************************************************************************)
(* What customers do with preorders: add_to_preorder, remove_from_preorder *)
(* and preorder_to_cart (routers/cart.py) over preorder_service.py.        *)
(*                                                                         *)
(* Each handler reads first and writes later, in transactions of their     *)
(* own, and every response saves the whole session of its browser, cart    *)
(* included, as it was when the request began.                             *)
(***************************************************************************)
EXTENDS PreorderDB

CONSTANTS
    Threads,     \* threads that serve customers
    Devices,     \* browser sessions
    Owner,       \* Owner[d]: the customer logged in on device d
    Wishes,      \* packs a customer may ask for
    MinPacks,    \* MinPacks[i]: smallest number of packs sold of it
    Uses         \* what the customers of this instance do

ASSUME CustomersAssumption ==
    /\ Devices # {}
    /\ Owner \in [Devices -> Users]
    /\ Wishes \subseteq 1..MaxPreorder
    /\ MinPacks \in [Items -> 1..MaxPreorder]
    /\ Uses \subseteq {"add", "remove", "move"}

VARIABLES
    carts,       \* stored sessions: packs of the from_preorder lines
    step,        \* where a thread is in its handler
    device,      \* the device its request comes from, once there is one
    session,     \* request.session of its request
    wish,        \* what is to be preordered
    target,      \* id of the preorder it works on, if it has found one
    seen,        \* the Preorder object it has loaded
    shelf,       \* the SupplyItem object it has loaded
    give         \* packs it is moving to the cart

reqVars == <<step, device, session, wish, target, seen, shelf, give>>
customerVars == <<carts, reqVars>>

NoLines == [i \in Items |-> 0]
NoWish  == [item |-> 0, packs |-> 0]

CustomersInit ==
    /\ carts = [d \in Devices |-> NoLines]
    /\ step = [p \in Threads |-> "idle"]
    /\ device \in [Threads -> {CHOOSE d \in Devices : TRUE}]
    /\ session = [p \in Threads |-> NoLines]
    /\ wish = [p \in Threads |-> NoWish]
    /\ target = [p \in Threads |-> {}]
    /\ seen = [p \in Threads |-> Unused]
    /\ shelf = [p \in Threads |-> NoRow]
    /\ give = [p \in Threads |-> 0]

User(p) == Owner[device[p]]

AtMost(n, cap) == IF n > cap THEN cap ELSE n

Goes(p, to) == step' = [step EXCEPT ![p] = to]

\* A request arrives: its session is loaded.
Begin(p, d, to) ==
    /\ step[p] = "idle"
    /\ device' = [device EXCEPT ![p] = d]
    /\ session' = [session EXCEPT ![p] = carts[d]]
    /\ Goes(p, to)

\* The request is over.
Leave(p) ==
    /\ Goes(p, "idle")
    /\ device' = [device EXCEPT ![p] = CHOOSE d \in Devices : TRUE]
    /\ session' = [session EXCEPT ![p] = NoLines]
    /\ wish' = [wish EXCEPT ![p] = NoWish]
    /\ target' = [target EXCEPT ![p] = {}]
    /\ seen' = [seen EXCEPT ![p] = Unused]
    /\ shelf' = [shelf EXCEPT ![p] = NoRow]
    /\ give' = [give EXCEPT ![p] = 0]

\* The response starts: the session is saved.
Answer(p) ==
    /\ step[p] = "answering"
    /\ carts' = [carts EXCEPT ![device[p]] = session[p]]
    /\ Leave(p)
    /\ UNCHANGED <<tables, writes>>

\* The process dies, or the answer is an error page: no session is saved.
Drop(p) ==
    /\ step[p] # "idle"
    /\ Leave(p)
    /\ UNCHANGED <<tables, writes, carts>>

-----------------------------------------------------------------------------
(* add_to_preorder_route and add_preorder_to_db                            *)

IsOnTheWay(i) == IsListed(i) /\ ~rows[i].active /\ status[SupplyOf[i]] \in {"expected", "onTheWay"}

AddCheck(p) ==
    /\ "add" \in Uses
    /\ \E d \in Devices, i \in Items, packs \in Wishes :
        /\ IsOnTheWay(i)
        /\ Begin(p, d, "looking")
        /\ wish' = [wish EXCEPT ![p] =
              [item |-> i, packs |-> IF packs < MinPacks[i] THEN MinPacks[i] ELSE packs]]
    /\ UNCHANGED <<tables, writes, carts, target, seen, shelf, give>>

\* Mutant: the preorder of the batch is looked for, not that of the product.
OfWishItem(p, o) ==
    /\ Waiting(o)
    /\ preorders[o].user = User(p)
    /\ preorders[o].item = wish[p].item

\* The preorders a new wish is merged into.
OfWish(p, o) ==
    /\ Waiting(o)
    /\ preorders[o].user = User(p)
    /\ preorders[o].product = Product[wish[p].item]

AddLook(p) ==
    /\ step[p] = "looking"
    /\ \/ \E o \in PreorderIds :
            /\ OfWish(p, o)
            /\ target' = [target EXCEPT ![p] = {o}]
            /\ seen' = [seen EXCEPT ![p] = preorders[o]]
       \/ /\ \A o \in PreorderIds : ~OfWish(p, o)
          /\ UNCHANGED <<target, seen>>
    /\ Goes(p, "adding")
    /\ UNCHANGED <<tables, writes, carts, device, session, wish, shelf, give>>

\* The changed columns of the loaded preorder are written.
Merged(p, o) ==
    [preorders[o] EXCEPT
       !.qty  = IF seen[p].qty = MaxPreorder THEN @
                ELSE AtMost(seen[p].qty + wish[p].packs, MaxPreorder),
       !.item = IF seen[p].item = wish[p].item THEN @ ELSE wish[p].item]

\* Only PostgreSQL checks the foreign key.
AddWrite(p) ==
    /\ step[p] = "adding"
    /\ Database = "postgresql" => IsListed(wish[p].item)
    /\ \/ \E o \in target[p] :
            /\ Exists(o) /\ FreeOf(Unloaders, "preorder", o)
            /\ preorders' = [preorders EXCEPT ![o] = Merged(p, o)]
       \/ /\ \E o \in target[p] : ~Exists(o)      \* deleted meanwhile: rollback
          /\ UNCHANGED preorders
       \/ /\ target[p] = {}
          /\ \E o \in PreorderIds :
              /\ preorders[o] = Unused /\ FreeOf(Unloaders, "preorder", o)
              /\ preorders' = [preorders EXCEPT ![o] =
                    [user |-> User(p), product |-> Product[wish[p].item],
                     item |-> wish[p].item,
                     qty |-> AtMost(wish[p].packs, MaxPreorder), done |-> FALSE]]
    /\ Goes(p, "answering")
    /\ UNCHANGED <<rows, status, writes, carts, device, session, wish, target,
                   seen, shelf, give>>

-----------------------------------------------------------------------------
(* remove_from_preorder and remove_preorder_db                             *)

RemoveFind(p) ==
    /\ "remove" \in Uses
    /\ \E d \in Devices, o \in PreorderIds :
        /\ Waiting(o) /\ preorders[o].user = Owner[d]
        /\ Begin(p, d, "removing")
        /\ target' = [target EXCEPT ![p] = {o}]
        /\ seen' = [seen EXCEPT ![p] = preorders[o]]
    /\ UNCHANGED <<tables, writes, carts, wish, shelf, give>>

\* The preorders when that of p is deleted.
Deleted(p) == [o \in PreorderIds |-> IF o \in target[p] THEN Gone ELSE preorders[o]]

\* DELETE by id, whatever has become of the preorder since.
RemoveWrite(p) ==
    /\ step[p] = "removing"
    /\ \A o \in target[p] : FreeOf(Unloaders, "preorder", o)
    /\ preorders' = Deleted(p)
    /\ Goes(p, "answering")
    /\ UNCHANGED <<rows, status, writes, carts, device, session, wish, target,
                   seen, shelf, give>>

-----------------------------------------------------------------------------
(* preorder_to_cart and move_fulfilled_preorder_to_cart                    *)

MoveFind(p) ==
    /\ "move" \in Uses
    /\ \E d \in Devices, o \in PreorderIds :
        /\ Arrived(o) /\ preorders[o].user = Owner[d] /\ preorders[o].item # 0
        /\ Begin(p, d, "locking")
        /\ target' = [target EXCEPT ![p] = {o}]
        /\ seen' = [seen EXCEPT ![p] = preorders[o]]
    /\ UNCHANGED <<tables, writes, carts, wish, shelf, give>>

\* Packs the move takes: of the reserve if there is one, of the rest if not.
MovedPacks(r, qty) ==
    IF r.reserved > 0 THEN AtMost(r.reserved, qty) ELSE AtMost(qty, Avail(r))

\* The batch is loaded FOR UPDATE together with its product and supply.
\* SQLite knows no row locks and ignores the clause; PostgreSQL refuses it on
\* the nullable side of the outer joins that joinedload makes.
MoveLock(p) ==
    /\ step[p] = "locking"
    /\ LET i     == seen[p].item
           packs == MovedPacks(rows[i], seen[p].qty)
       IN  \/ /\ Database = "postgresql"
              /\ Goes(p, "failed")
              /\ UNCHANGED <<shelf, give>>
           \/ /\ Database = "sqlite"
              /\ IsActive(i) => packs < MinPacks[i]
              /\ Goes(p, "answering")
              /\ UNCHANGED <<shelf, give>>
           \/ /\ Database = "sqlite"
              /\ IsActive(i) /\ packs >= MinPacks[i]
              /\ Goes(p, "taking")
              /\ shelf' = [shelf EXCEPT ![p] = rows[i]]
              /\ give' = [give EXCEPT ![p] = packs]
    /\ UNCHANGED <<tables, writes, carts, device, session, wish, target, seen>>

\* Mutant: the whole reserve of the batch stays.
ReserveKept(r, packs) == r.reserved

ReserveLeft(r, packs) == IF r.reserved > packs THEN r.reserved - packs ELSE 0

\* The reserve computed from the loaded row is written if it has changed.
MoveTake(p) ==
    /\ step[p] = "taking"
    /\ LET i    == seen[p].item
           left == ReserveLeft(shelf[p], give[p])
       IN  IF left = shelf[p].reserved THEN UNCHANGED rows
           ELSE /\ IsListed(i) /\ FreeOf(Unloaders, "item", i)
                /\ rows' = [rows EXCEPT ![i].reserved = left]
    /\ Goes(p, "merging")
    /\ UNCHANGED <<status, preorders, writes, carts, device, session, wish,
                   target, seen, shelf, give>>

\* _merge_into_cart: the packs are added to the line of the batch.
MergedCart(p) == [session[p] EXCEPT ![seen[p].item] = @ + give[p]]

\* _merge_into_cart and remove_fulfilled_preorder_db
MoveMerge(p) ==
    /\ step[p] = "merging"
    /\ \A o \in target[p] : FreeOf(Unloaders, "preorder", o)
    /\ session' = [session EXCEPT ![p] = MergedCart(p)]
    /\ preorders' = Deleted(p)
    /\ Goes(p, "answering")
    /\ UNCHANGED <<rows, status, writes, carts, device, wish, target, seen, shelf, give>>

-----------------------------------------------------------------------------

CustomerStep(p) ==
    \/ AddLook(p) \/ AddWrite(p) \/ RemoveWrite(p)
    \/ MoveLock(p) \/ MoveTake(p) \/ MoveMerge(p) \/ Answer(p) \/ Drop(p)

CustomersTypeOK ==
    /\ carts \in [Devices -> [Items -> Nat]]
    /\ step \in [Threads -> {"idle", "looking", "adding", "removing", "locking",
                             "taking", "merging", "failed", "answering"}]
    /\ device \in [Threads -> Devices]
    /\ session \in [Threads -> [Items -> Nat]]
    /\ wish \in [Threads -> [item : Items, packs : 1..MaxPreorder] \cup {NoWish}]
    /\ target \in [Threads -> SUBSET PreorderIds]
    /\ seen \in [Threads -> Preorder \cup {Unused}]
    /\ shelf \in [Threads -> Row \cup {NoRow}]
    /\ give \in [Threads -> 0..MaxPreorder]
=============================================================================
