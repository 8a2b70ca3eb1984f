-------------------------------- MODULE Cart --------------------------------
(***************************************************************************)
(* The lines of a shopping cart and what the cart routes do to them.       *)
(*                                                                         *)
(* The session keeps a list of lines; two lines on the same stock position *)
(* are told apart by how they got there:                                   *)
(*   shelf  put there by add_to_cart (which merges with an existing one),  *)
(*   moved  re-pointed here by cart_page from a batch that left the shelf, *)
(*   pre    moved there from a fulfilled preorder (from_preorder).         *)
(* cart_page does not merge what it re-points, so a position may carry a   *)
(* shelf and a moved line at once.  Quantities are in packs.               *)
(***************************************************************************)
EXTENDS ShopDB

CONSTANT
    MinPacks     \* MinPacks[i]: smallest number of packs sold of it

Kinds == {"shelf", "moved", "pre"}

Line  == [Kinds -> Nat]
NoLine == [k \in Kinds |-> 0]
EmptyCart == [i \in Items |-> NoLine]

Total(l) == l["shelf"] + l["moved"] + l["pre"]

InCart(cart) == {i \in Items : Total(cart[i]) > 0}

AtMost(n, cap)   == IF n > cap THEN cap ELSE n
AtLeast(n, low)  == IF n < low THEN low ELSE n

(***************************************************************************)
(* add_to_cart: the wanted amount is cut to what is available, then raised *)
(* to the minimum; it merges into the first ordinary line of the position, *)
(* capped by what is available, or becomes a line of its own.              *)
(***************************************************************************)
AddLine(cart, i, k, want, r) ==
    LET packs == AtLeast(AtMost(want, Avail(r)), MinPacks[i])
    IN  [cart EXCEPT ![i][k] =
           IF @ > 0 THEN AtMost(@ + packs, Avail(r)) ELSE packs]

\* The line an addition merges into; a new one is a shelf line.
MergesInto(cart, i, k) ==
    \/ k \in {"shelf", "moved"} /\ cart[i][k] > 0
    \/ k = "shelf" /\ cart[i]["shelf"] + cart[i]["moved"] = 0

(***************************************************************************)
(* update_cart_item: zero removes the line; otherwise the amount is kept   *)
(* between the minimum and the limit.  A preorder line is limited by the   *)
(* whole stock, an ordinary one by what is available.                      *)
(***************************************************************************)
ResizeLine(cart, i, k, want, r) ==
    LET limit == IF k = "pre" THEN r.stock ELSE Avail(r)
    IN  [cart EXCEPT ![i][k] =
           IF want = 0 \/ limit <= 0 THEN 0
           ELSE AtMost(AtLeast(want, MinPacks[i]), limit)]

(***************************************************************************)
(* cart_page: drops preorder lines whose batch is off the shelf, cuts the  *)
(* others to what is available, and re-points the ordinary lines of an     *)
(* inactive batch to the newest batch of the product that has any left.    *)
(***************************************************************************)
Sells(db, i) == db[i].active /\ Avail(db[i]) > 0

Successor(db, i, j) ==
    /\ Product[j] = Product[i]
    /\ Sells(db, j)
    /\ \A k \in Items : Product[k] = Product[i] /\ Sells(db, k) => k <= j

\* Batches whose ordinary lines this visit re-points to batch j.
Sources(cart, db, j) ==
    {i \in Items : ~db[i].active /\ Successor(db, i, j)
                   /\ cart[i]["shelf"] + cart[i]["moved"] > 0}

Moved(cart, db, j) ==
    IF Sources(cart, db, j) = {} THEN cart[j]["moved"]
    ELSE LET i == CHOOSE i \in Sources(cart, db, j) : TRUE
         IN  cart[i]["shelf"] + cart[i]["moved"]

Visited(cart, db) ==
    [j \in Items |->
      IF ~db[j].active THEN NoLine
      ELSE [k \in Kinds |->
             CASE k = "shelf" -> AtMost(cart[j][k], Avail(db[j]))
               [] k = "moved" -> AtMost(Moved(cart, db, j), Avail(db[j]))
               [] k = "pre"   -> cart[j][k]]]

\* The model tells at most one re-pointed line per position apart.
OneMovePerPosition(cart, db) ==
    \A j \in Items : \A i \in Sources(cart, db, j) :
        /\ Sources(cart, db, j) = {i}
        /\ cart[j]["moved"] = 0
        /\ cart[i]["shelf"] = 0 \/ cart[i]["moved"] = 0
=============================================================================
