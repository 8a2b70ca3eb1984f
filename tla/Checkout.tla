------------------------------ MODULE Checkout ------------------------------
(***************************************************************************)
(* Checking out: the cart routes, checkout_page and place_order of         *)
(* routers/cart.py, served by the threads of two workers.                  *)
(*                                                                         *)
(* A request loads the whole browser session before its handler runs and   *)
(* saves the whole session when its response starts (session.py): two      *)
(* requests of one browser overwrite each other, the last one wins.        *)
(* Between the two, place_order is one database transaction that locks the *)
(* stock rows of the cart, checks and deducts, inserts the order under the *)
(* unique index on order_token and commits.  A request can die anywhere.   *)
(***************************************************************************)
EXTENDS Cart

CONSTANTS
    Workers,     \* threads that serve the shop's requests
    Sessions,    \* logged-in browser sessions
    InitRows,    \* stock rows to start from
    InitCarts,   \* carts to start from
    Routes,      \* cart routes the customers of this instance use
    Wanted       \* amounts a customer may type

ASSUME CheckoutAssumption ==
    /\ Workers \subseteq Txns
    /\ InitRows \subseteq [Items -> Row]
    /\ InitCarts \subseteq [Items -> Line]
    /\ Routes \subseteq {"add", "update", "view", "clear"}
    /\ Wanted \subseteq Nat
    /\ NoOne \notin Sessions
    /\ MinPacks \in [Items -> Nat \ {0}]

VARIABLES
    sess,     \* stored sessions: cart and order_token
    shown,    \* tokens in the checkout forms a browser has open
    minted,   \* tokens handed out so far
    pc,       \* where a thread is in its handler
    on,       \* session its request belongs to
    data,     \* request.session of its request
    form,     \* order_token field of its request
    seen,     \* stock rows place_order has loaded, under their locks
    reply     \* what the response will tell

reqVars == <<pc, on, data, form, seen, reply>>
vars    == <<dbVars, sess, shown, minted, reqVars>>

Session == [cart : [Items -> Line], token : Tokens \cup {NoToken}]

Stages == {"idle", "loaded", "locking", "inserting", "committing", "placed",
           "conflict", "reply"}

Replies == {"none", "cart", "page", "minted", "refused", "already", "placed",
            "error"}

Nothing == [i \in Items |-> NoRow]

\* place_order still has to lock these rows.
Unlocked(p) == {i \in InCart(data[p].cart) : seen[p][i] = NoRow}

ShopInit ==
    /\ sess \in [Sessions -> {[cart |-> c, token |-> NoToken] : c \in InitCarts}]
    /\ shown = [s \in Sessions |-> {}]
    /\ minted = {}
    /\ pc = [p \in Workers |-> "idle"]
    /\ on = [p \in Workers |-> NoOne]
    /\ data = [p \in Workers |-> [cart |-> EmptyCart, token |-> NoToken]]
    /\ form = [p \in Workers |-> NoToken]
    /\ seen = [p \in Workers |-> Nothing]
    /\ reply = [p \in Workers |-> "none"]

Init ==
    /\ rows \in InitRows
    /\ rowLock = [i \in Items |-> NoOne]
    /\ orders = [o \in OrderIds |-> NoOrder]
    /\ ShopInit

-----------------------------------------------------------------------------
(* Serving a request: ServerSessionMiddleware.__call__                     *)

Begin(p, s) ==
    /\ pc[p] = "idle"
    /\ pc' = [pc EXCEPT ![p] = "loaded"]
    /\ on' = [on EXCEPT ![p] = s]
    /\ data' = [data EXCEPT ![p] = sess[s]]
    /\ UNCHANGED <<dbVars, sess, shown, minted, form, seen, reply>>

\* The thread forgets its request.  The database session is closed, which
\* frees the locks a handler still held.
Forget(p) ==
    /\ rowLock' = WithoutLocksOf(p)
    /\ pc' = [pc EXCEPT ![p] = "idle"]
    /\ on' = [on EXCEPT ![p] = NoOne]
    /\ data' = [data EXCEPT ![p] = [cart |-> EmptyCart, token |-> NoToken]]
    /\ form' = [form EXCEPT ![p] = NoToken]
    /\ seen' = [seen EXCEPT ![p] = Nothing]
    /\ reply' = [reply EXCEPT ![p] = "none"]
    /\ UNCHANGED <<rows, orders, minted>>

\* The response starts: the session is saved as a whole.  A page that
\* changed nothing only prolongs it, unless it had a flash message to drop.
Finish(p) ==
    /\ pc[p] = "reply"
    /\ \/ sess' = [sess EXCEPT ![on[p]] = data[p]]
       \/ reply[p] = "page" /\ UNCHANGED sess
    /\ shown' = IF reply[p] \in {"page", "minted"}
                THEN [shown EXCEPT ![on[p]] = @ \cup {data[p].token}]
                ELSE shown
    /\ Forget(p)

\* The process dies or loses its connection: the open transaction is rolled
\* back and no response is sent, so the session is not saved.
Crash(p) ==
    /\ pc[p] # "idle"
    /\ UNCHANGED <<sess, shown>>
    /\ Forget(p)

\* The handler returns: what the response will say.
Answer(p, what) ==
    /\ pc' = [pc EXCEPT ![p] = "reply"]
    /\ reply' = [reply EXCEPT ![p] = what]

\* A cart route leaves the cart c in request.session.
PutCart(p, c) ==
    /\ data' = [data EXCEPT ![p].cart = c]
    /\ Answer(p, "cart")
    /\ UNCHANGED <<dbVars, sess, shown, minted, on, form, seen>>

-----------------------------------------------------------------------------
(* The cart routes and checkout_page                                       *)

AddToCart(p) ==
    /\ pc[p] = "loaded" /\ "add" \in Routes
    /\ \E i \in Items, k \in Kinds, want \in Wanted :
        /\ Sells(rows, i)
        /\ MergesInto(data[p].cart, i, k)
        /\ PutCart(p, AddLine(data[p].cart, i, k, want, rows[i]))

\* update_cart_item and remove_from_cart (an amount of zero).
UpdateCartItem(p) ==
    /\ pc[p] = "loaded" /\ "update" \in Routes
    /\ \E i \in Items, k \in Kinds, want \in Wanted \cup {0} :
        /\ data[p].cart[i][k] > 0
        /\ PutCart(p, ResizeLine(data[p].cart, i, k, want, rows[i]))

CartPage(p) ==
    /\ pc[p] = "loaded" /\ "view" \in Routes
    /\ OneMovePerPosition(data[p].cart, rows)
    /\ PutCart(p, Visited(data[p].cart, rows))

ClearCart(p) ==
    /\ pc[p] = "loaded" /\ "clear" \in Routes
    /\ PutCart(p, EmptyCart)

\* Any other page that shows a flash message drops it from the session, so
\* the session is saved as this request loaded it.
OtherPage(p) ==
    /\ pc[p] = "loaded"
    /\ PutCart(p, data[p].cart)

\* checkout_page mints an order token unless the session already has one.
CheckoutPage(p) ==
    /\ pc[p] = "loaded"
    /\ InCart(data[p].cart) # {}
    /\ \/ /\ data[p].token # NoToken
          /\ Answer(p, "page")
          /\ UNCHANGED <<data, minted>>
       \/ /\ data[p].token = NoToken
          /\ \E t \in Tokens \ minted :
              /\ minted' = minted \cup {t}
              /\ data' = [data EXCEPT ![p].token = t]
          /\ Answer(p, "minted")
    /\ UNCHANGED <<dbVars, sess, shown, on, form, seen>>

-----------------------------------------------------------------------------
(* place_order                                                             *)

\* An order form one of the browser's tabs has open is submitted.  The token
\* must be the one the session holds; a bad comment, date or address sends
\* the customer back.
Submit(p) ==
    /\ pc[p] = "loaded"
    /\ \E t \in shown[on[p]] :
        /\ form' = [form EXCEPT ![p] = t]
        /\ \/ /\ InCart(data[p].cart) = {}
              /\ Answer(p, "refused")
           \/ /\ InCart(data[p].cart) # {}
              /\ data[p].token # t
              /\ Answer(p, "already")
           \/ /\ InCart(data[p].cart) # {}
              /\ data[p].token = t
              /\ \/ Answer(p, "refused")
                 \/ /\ pc' = [pc EXCEPT ![p] = "locking"]
                    /\ UNCHANGED reply
    /\ UNCHANGED <<dbVars, sess, shown, minted, on, data, seen>>

\* One row of SELECT ... ORDER BY id FOR UPDATE: wait for the lock, then
\* read the row as last committed.
LockRow(p) ==
    /\ pc[p] = "locking"
    /\ \E i \in Items :
        /\ IsNext(i, Unlocked(p))
        /\ rowLock[i] = NoOne
        /\ rowLock' = [rowLock EXCEPT ![i] = p]
        /\ seen' = [seen EXCEPT ![p][i] = rows[i]]
    /\ UNCHANGED <<rows, orders, sess, shown, minted, pc, on, data, form, reply>>

\* Mutant: the stock is not checked for lines moved from a preorder.
LineFitsOnTrust(l, r) ==
    /\ l["shelf"] + l["moved"] > 0 => r.active
    /\ l["shelf"] <= Avail(r) /\ l["moved"] <= Avail(r)

\* The checks, line by line: each line alone must fit.
LineFits(l, r) ==
    /\ l["shelf"] + l["moved"] > 0 => r.active
    /\ l["shelf"] <= Avail(r) /\ l["moved"] <= Avail(r)
    /\ l["pre"] > 0 => l["pre"] <= r.stock

CartFits(p) ==
    \A i \in InCart(data[p].cart) : LineFits(data[p].cart[i], seen[p][i])

Rollback(p) ==
    /\ rowLock' = WithoutLocksOf(p)
    /\ UNCHANGED <<rows, orders>>

\* Mutant: the transaction ends between the checks and the deduction.
CheckAndRelease(p) ==
    /\ pc[p] = "locking"
    /\ Unlocked(p) = {}
    /\ \/ ~CartFits(p) /\ Answer(p, "refused")
       \/ CartFits(p) /\ pc' = [pc EXCEPT ![p] = "inserting"] /\ UNCHANGED reply
    /\ rowLock' = WithoutLocksOf(p)
    /\ UNCHANGED <<rows, orders, sess, shown, minted, on, data, form, seen>>

\* Every row is locked: check each line and, if all fit and no price has
\* changed, go on.  A refusal keeps the locks until the session is closed, a
\* changed price rolls back at once.
Check(p) ==
    /\ pc[p] = "locking"
    /\ Unlocked(p) = {}
    /\ \/ ~CartFits(p) /\ Answer(p, "refused") /\ UNCHANGED rowLock
       \/ CartFits(p)  /\ Answer(p, "refused") /\ rowLock' = WithoutLocksOf(p)
       \/ /\ CartFits(p)
          /\ pc' = [pc EXCEPT ![p] = "inserting"]
          /\ UNCHANGED <<rowLock, reply>>
    /\ UNCHANGED <<rows, orders, sess, shown, minted, on, data, form, seen>>

TokenUsed(t) == \E o \in OrderIds : Exists(o) /\ orders[o].token = t

\* Mutant: no unique index on order_token.
InsertOrderUnchecked(p) ==
    /\ pc[p] = "inserting"
    /\ pc' = [pc EXCEPT ![p] = "committing"]
    /\ UNCHANGED <<dbVars, sess, shown, minted, on, data, form, seen, reply>>

\* INSERT INTO orders: the unique index on order_token refuses a token a
\* committed order carries, and waits for an open transaction that has
\* inserted the same one.
\* Another constraint may refuse the rows as well (a product deleted since).
InsertOrder(p) ==
    /\ pc[p] = "inserting"
    /\ \A q \in Workers \ {p} : pc[q] = "committing" => form[q] # form[p]
    /\ \/ /\ pc' = [pc EXCEPT ![p] = "conflict"]
          /\ Rollback(p)
       \/ /\ ~TokenUsed(form[p])
          /\ pc' = [pc EXCEPT ![p] = "committing"]
          /\ UNCHANGED dbVars
    /\ UNCHANGED <<sess, shown, minted, on, data, form, seen, reply>>

\* What is left of a row: each line deducts its packs and takes the position
\* off the shelf when nothing is left for others.
Deducted(r, l) ==
    LET left == [r EXCEPT !.stock = @ - Total(l)]
    IN  [left EXCEPT !.active = @ /\ Avail(left) > 0]

Commit(p) ==
    /\ pc[p] = "committing"
    /\ \E o \in OrderIds : ~Exists(o)
    /\ rows' = [i \in Items |-> IF i \in InCart(data[p].cart)
                                THEN Deducted(seen[p][i], data[p].cart[i])
                                ELSE rows[i]]
    /\ orders' = [orders EXCEPT ![FreeId] =
                    [token  |-> form[p],
                     qty    |-> [i \in Items |-> Total(data[p].cart[i])],
                     status |-> "new"]]
    /\ rowLock' = WithoutLocksOf(p)
    /\ pc' = [pc EXCEPT ![p] = "placed"]
    /\ UNCHANGED <<sess, shown, minted, on, data, form, seen, reply>>

\* The order is in the database: the token is dropped and the cart emptied
\* in request.session.
EmptySession(p) ==
    data' = [data EXCEPT ![p] = [cart |-> EmptyCart, token |-> NoToken]]

Placed(p) ==
    /\ pc[p] = "placed"
    /\ EmptySession(p)
    /\ Answer(p, "placed")
    /\ UNCHANGED <<dbVars, sess, shown, minted, on, form, seen>>

\* IntegrityError: the token is looked up; an order that carries it means
\* that this form has been sent before.
Conflict(p) ==
    /\ pc[p] = "conflict"
    /\ IF TokenUsed(form[p])
       THEN EmptySession(p) /\ Answer(p, "already")
       ELSE Answer(p, "error") /\ UNCHANGED data
    /\ UNCHANGED <<dbVars, sess, shown, minted, on, form, seen>>

\* A statement fails while the rows are loaded or the order is written (the
\* transaction is rolled back), or db.refresh fails after the commit: the
\* customer reads that the order could not be placed.
Fail(p) ==
    /\ pc[p] \in {"locking", "inserting", "committing", "placed"}
    /\ Answer(p, "error")
    /\ Rollback(p)
    /\ UNCHANGED <<sess, shown, minted, on, data, form, seen>>

-----------------------------------------------------------------------------

Handle(p) ==
    \/ AddToCart(p) \/ UpdateCartItem(p) \/ CartPage(p) \/ ClearCart(p)
    \/ OtherPage(p) \/ CheckoutPage(p) \/ Submit(p)
    \/ Check(p) \/ Commit(p) \/ Placed(p) \/ Conflict(p)
    \/ Finish(p)

Next == \E p \in Workers :
            \/ \E s \in Sessions : Begin(p, s)
            \/ Handle(p)
            \/ LockRow(p)
            \/ InsertOrder(p)
            \/ Fail(p)
            \/ Crash(p)

Safety == Init /\ [][Next]_vars

\* A handler that has been called runs to its end; nothing makes it fail, so
\* an error is no way out of a wait for ever.  PostgreSQL queues the
\* sessions that wait for a row or for an index entry, so a wait that is
\* granted again and again is granted to this one too.
Fairness == \A p \in Workers :
                /\ WF_vars(Handle(p))
                /\ SF_vars(LockRow(p))
                /\ SF_vars(InsertOrder(p))

Spec == Safety /\ Fairness
-----------------------------------------------------------------------------
(* Properties                                                              *)

\* Every variable has its type.
TypeOK ==
    /\ DBTypeOK
    /\ sess \in [Sessions -> Session]
    /\ shown \in [Sessions -> SUBSET Tokens]
    /\ minted \subseteq Tokens
    /\ pc \in [Workers -> Stages]
    /\ on \in [Workers -> Sessions \cup {NoOne}]
    /\ data \in [Workers -> Session]
    /\ form \in [Workers -> Tokens \cup {NoToken}]
    /\ seen \in [Workers -> [Items -> Row \cup {NoRow}]]
    /\ reply \in [Workers -> Replies]

\* place_order decides on rows it has read under FOR UPDATE and writes back
\* what it computed from them: until the transaction ends, what a request
\* has seen of a row is still what the database holds, and the lock is its.
HeldRowsAreFresh ==
    \A p \in Workers, i \in Items :
        /\ pc[p] \in {"locking", "inserting", "committing"}
        /\ seen[p][i] # NoRow
        => rowLock[i] = p /\ seen[p][i] = rows[i]

\* A form sent twice, from two tabs, by two threads, after a crash or from a
\* session another request has brought back makes one order.
OneOrderPerToken ==
    \A o1, o2 \in OrderIds :
        /\ Exists(o1) /\ Exists(o2)
        /\ orders[o1].token # NoToken
        /\ orders[o1].token = orders[o2].token
        => o1 = o2

OneLineEach(cart) ==
    \A i \in Items, k \in Kinds : cart[i][k] > 0 => cart[i][k] = Total(cart[i])

\* An order whose cart has one line per position never takes more than there
\* was, and its ordinary lines never touch packs reserved for a preorder,
\* whatever was sold between its first look at the shelf and its commit.
SingleLineOrdersFit ==
    [][\A p \in Workers :
         pc[p] = "committing" /\ pc'[p] = "placed" /\ OneLineEach(data[p].cart)
         => \A i \in InCart(data[p].cart) :
              /\ rows'[i].stock >= 0
              /\ data[p].cart[i]["pre"] = 0 => rows'[i].reserved <= rows'[i].stock
      ]_vars

\* The stock of no position ever becomes negative.
NoOversell == \A i \in Items : rows[i].stock >= 0

\* A customer told that the order has already been placed has an order
\* placed with the form that was sent.
ToldAlreadyIsPlaced ==
    \A p \in Workers : reply[p] = "already" => TokenUsed(form[p])

\* When a form is recognised as sent before and the cart is emptied, the
\* order that exists is for the packs that were in that cart.
DuplicateIsTheSameOrder ==
    [][\A p \in Workers :
         pc[p] = "conflict" /\ pc'[p] = "reply" /\ reply'[p] = "already"
         => \E o \in OrderIds :
              /\ Exists(o) /\ orders[o].token = form[p]
              /\ orders[o].qty = [i \in Items |-> Total(data[p].cart[i])]
      ]_vars

\* Every request ends: no two checkouts wait for each other's rows, and none
\* waits for ever on a row or on an index entry.
EveryRequestEnds == \A p \in Workers : pc[p] # "idle" ~> pc[p] = "idle"

\* Each checkout is one indivisible step of the ledger.
Ledger == INSTANCE StockLedger
LedgerKept == Ledger!LedgerSpec
=============================================================================
