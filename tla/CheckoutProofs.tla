--------------------------- MODULE CheckoutProofs ---------------------------
(***************************************************************************)
(* Theorems about Checkout, for any number of positions, threads, browsers *)
(* and tokens.                                                             *)
(***************************************************************************)
EXTENDS OrderDesk, TLAPS

-----------------------------------------------------------------------------
(* What the cart operators return                                          *)

\* SupplyItem.available_stock is never negative.
LEMMA AvailType == ASSUME NEW r \in Row PROVE Avail(r) \in Nat
  BY DEF Row, Avail

LEMMA TotalType == ASSUME NEW l \in Line PROVE Total(l) \in Nat
  BY DEF Line, Kinds, Total

\* add_to_cart leaves a well-formed cart.
LEMMA AddLineType ==
  ASSUME NEW c \in [Items -> Line], NEW i \in Items, NEW k \in Kinds,
         NEW want \in Nat, NEW r \in Row
  PROVE  AddLine(c, i, k, want, r) \in [Items -> Line]
<1>1. Avail(r) \in Nat /\ MinPacks[i] \in Nat
  BY AvailType, CheckoutAssumption
<1>2. c[i] \in Line /\ c[i][k] \in Nat
  BY DEF Line
<1>3. AtMost(want, Avail(r)) \in Nat
  BY <1>1 DEF AtMost
<1>4. AtLeast(AtMost(want, Avail(r)), MinPacks[i]) \in Nat
  BY <1>1, <1>3 DEF AtLeast
<1> DEFINE packs == AtLeast(AtMost(want, Avail(r)), MinPacks[i])
           n == IF c[i][k] > 0 THEN AtMost(c[i][k] + packs, Avail(r)) ELSE packs
<1>5. n \in Nat
  <2>1. c[i][k] + packs \in Nat
    BY <1>2, <1>4
  <2> QED BY <1>1, <1>4, <2>1 DEF AtMost
<1>6. AddLine(c, i, k, want, r) = [c EXCEPT ![i] = [c[i] EXCEPT ![k] = n]]
  BY <1>2 DEF AddLine, Line
<1> HIDE DEF n
<1> QED BY <1>2, <1>5, <1>6 DEF Line

\* update_cart_item and remove_from_cart leave a well-formed cart.
LEMMA ResizeLineType ==
  ASSUME NEW c \in [Items -> Line], NEW i \in Items, NEW k \in Kinds,
         NEW want \in Nat, NEW r \in Row
  PROVE  ResizeLine(c, i, k, want, r) \in [Items -> Line]
<1> DEFINE limit == IF k = "pre" THEN r.stock ELSE Avail(r)
           n == IF want = 0 \/ limit <= 0 THEN 0
                ELSE AtMost(AtLeast(want, MinPacks[i]), limit)
<1>1. limit \in Int /\ MinPacks[i] \in Nat
  BY AvailType, CheckoutAssumption DEF Row
<1>2. AtLeast(want, MinPacks[i]) \in Nat
  BY <1>1 DEF AtLeast
<1>3. n \in Nat
  BY <1>1, <1>2 DEF AtMost
<1>4. c[i] \in Line
  OBVIOUS
<1>5. ResizeLine(c, i, k, want, r) = [c EXCEPT ![i] = [c[i] EXCEPT ![k] = n]]
  BY <1>4 DEF ResizeLine, Line
<1> HIDE DEF n
<1> QED BY <1>3, <1>4, <1>5 DEF Line

\* cart_page leaves a well-formed cart.
LEMMA VisitedType ==
  ASSUME NEW c \in [Items -> Line], NEW db \in [Items -> Row]
  PROVE  Visited(c, db) \in [Items -> Line]
<1>1. \A j \in Items : Moved(c, db, j) \in Nat
  <2> SUFFICES ASSUME NEW j \in Items PROVE Moved(c, db, j) \in Nat
    OBVIOUS
  <2>1. \A i \in Items : c[i]["shelf"] + c[i]["moved"] \in Nat /\ c[i]["moved"] \in Nat
    BY DEF Line, Kinds
  <2>2. Sources(c, db, j) \subseteq Items
    BY DEF Sources
  <2> QED BY <2>1, <2>2 DEF Moved
<1>2. \A j \in Items : Avail(db[j]) \in Nat
  BY AvailType
<1>3. \A m, n \in Nat : AtMost(m, n) \in Nat
  BY DEF AtMost
<1>4. ASSUME NEW j \in Items, NEW k \in Kinds
      PROVE  (CASE k = "shelf" -> AtMost(c[j][k], Avail(db[j]))
                [] k = "moved" -> AtMost(Moved(c, db, j), Avail(db[j]))
                [] k = "pre"   -> c[j][k]) \in Nat
  <2>1. c[j][k] \in Nat
    BY DEF Line
  <2> QED BY <1>1, <1>2, <1>3, <2>1 DEF Kinds
<1>5. NoLine \in Line
  BY DEF NoLine, Line
<1> QED BY <1>4, <1>5 DEF Visited, Line

LEMMA EmptyCartType == EmptyCart \in [Items -> Line]
  BY DEF EmptyCart, NoLine, Line

-----------------------------------------------------------------------------
(* Type correctness                                                        *)

LEMMA EmptySessionType == [cart |-> EmptyCart, token |-> NoToken] \in Session
  BY EmptyCartType DEF Session

\* Cancelling a transaction's locks leaves well-formed locks.
LEMMA WithoutLocksType ==
  ASSUME NEW p \in Workers, rowLock \in [Items -> Txns \cup {NoOne}]
  PROVE  WithoutLocksOf(p) \in [Items -> Txns \cup {NoOne}]
  BY DEF WithoutLocksOf

\* A request that ends leaves its thread well-typed.
LEMMA ForgetType ==
  ASSUME TypeOK, NEW p \in Workers, Forget(p)
  PROVE  /\ DBTypeOK'
         /\ (minted \subseteq Tokens)'
         /\ (pc \in [Workers -> Stages])'
         /\ (on \in [Workers -> Sessions \cup {NoOne}])'
         /\ (data \in [Workers -> Session])'
         /\ (form \in [Workers -> Tokens \cup {NoToken}])'
         /\ (seen \in [Workers -> [Items -> Row \cup {NoRow}]])'
         /\ (reply \in [Workers -> Replies])'
<1>1. DBTypeOK'
  BY WithoutLocksType DEF TypeOK, DBTypeOK, Forget
<1>2. Nothing \in [Items -> Row \cup {NoRow}]
  BY DEF Nothing
<1> QED BY <1>1, <1>2, EmptySessionType DEF TypeOK, Forget, Stages, Replies

\* A cart route that leaves a well-formed cart keeps the types.
LEMMA PutCartType ==
  ASSUME TypeOK, NEW p \in Workers, NEW c \in [Items -> Line], PutCart(p, c)
  PROVE  TypeOK'
<1>1. [data[p] EXCEPT !.cart = c] \in Session
  BY DEF TypeOK, Session
<1>2. data' \in [Workers -> Session]
  BY <1>1 DEF TypeOK, PutCart
<1> QED BY <1>2
    DEF TypeOK, DBTypeOK, PutCart, Answer, dbVars, Stages, Replies

\* A commit writes a well-formed database.
LEMMA CommitType ==
  ASSUME TypeOK, NEW p \in Workers, Commit(p),
         form[p] \in Tokens, Unlocked(p) = {}
  PROVE  DBTypeOK'
<1>1. data[p].cart \in [Items -> Line]
  BY DEF TypeOK, Session
<1>2. \A i \in Items : Total(data[p].cart[i]) \in Nat
  BY <1>1, TotalType
<1>3. \A i \in InCart(data[p].cart) : seen[p][i] \in Row
  BY DEF TypeOK, Unlocked, InCart
<1>4. ASSUME NEW i \in InCart(data[p].cart)
      PROVE  Deducted(seen[p][i], data[p].cart[i]) \in Row
  <2> DEFINE left == [seen[p][i] EXCEPT !.stock = @ - Total(data[p].cart[i])]
  <2>1. left \in Row
    BY <1>2, <1>3 DEF Row, InCart
  <2>2. (seen[p][i].active /\ Avail(left) > 0) \in BOOLEAN
    OBVIOUS
  <2>3. [left EXCEPT !.active = @ /\ Avail(left) > 0] \in Row
    <3> HIDE DEF left
    <3> QED BY <2>1 DEF Row
  <2> QED BY <2>3 DEF Deducted
<1>5. rows' \in [Items -> Row]
  BY <1>4 DEF Commit, TypeOK, DBTypeOK
<1>6. [token |-> form[p], qty |-> [i \in Items |-> Total(data[p].cart[i])],
       status |-> "new"] \in Order
  BY <1>2 DEF Order, Statuses
<1>7. orders' \in [OrderIds -> Order \cup {NoOrder}]
  BY <1>6 DEF Commit, TypeOK, DBTypeOK
<1>8. rowLock' \in [Items -> Txns \cup {NoOne}]
  BY WithoutLocksType DEF Commit, TypeOK, DBTypeOK
<1> QED BY <1>5, <1>7, <1>8 DEF DBTypeOK

-----------------------------------------------------------------------------
(* The inductive invariant                                                 *)

Writing == {"inserting", "committing"}

\* A transaction past its checks holds every row of its cart and carries a
\* real token.
Prepared ==
    \A p \in Workers :
        pc[p] \in Writing => form[p] \in Tokens /\ Unlocked(p) = {}

\* A transaction that waits for locks has a real token, and every request
\* belongs to a browser.
Entered ==
    \A p \in Workers :
        /\ pc[p] = "locking" => form[p] \in Tokens
        /\ pc[p] # "idle" => on[p] \in Sessions

\* Before the rows are locked none has been read.
Unread ==
    \A p \in Workers : pc[p] \in {"idle", "loaded"} =>
        \A i \in Items : seen[p][i] = NoRow

\* A response that shows a checkout form shows a token in it; there is no
\* response before the handler has returned.
Rendered ==
    \A p \in Workers :
        /\ reply[p] \in {"page", "minted"} => data[p].token \in Tokens
        /\ pc[p] # "reply" => reply[p] = "none"

\* The index entry of an uncommitted order is its own: no committed order
\* and no other open transaction has the token.
TokenReserved ==
    \A p \in Workers : pc[p] = "committing" =>
        /\ ~TokenUsed(form[p])
        /\ \A q \in Workers : pc[q] = "committing" /\ form[q] = form[p] => q = p

IInv == /\ TypeOK
        /\ Entered
        /\ Rendered
        /\ Unread
        /\ Prepared
        /\ HeldRowsAreFresh
        /\ TokenReserved
        /\ OneOrderPerToken

\* No request is being served yet, and the orders there are have different
\* tokens.
LEMMA ShopBegins ==
  ASSUME rows \in InitRows, rowLock = [i \in Items |-> NoOne],
         orders \in [OrderIds -> Order \cup {NoOrder}], OneOrderPerToken, ShopInit
  PROVE  IInv
<1> USE DEF ShopInit
<1>1. TypeOK
  <2>1. DBTypeOK
    BY CheckoutAssumption DEF DBTypeOK
  <2>2. sess \in [Sessions -> Session]
    <3>1. {[cart |-> c, token |-> NoToken] : c \in InitCarts} \subseteq Session
      BY CheckoutAssumption DEF Session
    <3> QED BY <3>1
  <2>3. data \in [Workers -> Session]
    BY EmptySessionType
  <2>4. seen \in [Workers -> [Items -> Row \cup {NoRow}]]
    BY DEF Nothing
  <2> QED BY <2>1, <2>2, <2>3, <2>4 DEF TypeOK, Stages, Replies
<1>2. /\ Entered /\ Rendered /\ Unread /\ Prepared
      /\ HeldRowsAreFresh /\ TokenReserved
  BY DEF Entered, Rendered, Unread, Nothing, Prepared, HeldRowsAreFresh, TokenReserved, Writing
<1> QED BY <1>1, <1>2 DEF IInv

LEMMA InitInv == Init => IInv
<1> SUFFICES ASSUME Init PROVE IInv
  OBVIOUS
<1>1. OneOrderPerToken
  BY DEF Init, OneOrderPerToken, Exists
<1> QED BY <1>1, ShopBegins DEF Init

\* A step after which p is in no transaction, and which touches no row, no
\* order, and nothing of the other requests, keeps the invariant.
LEMMA OutsideStep ==
  ASSUME IInv, TypeOK', NEW p \in Workers,
         rows' = rows, orders' = orders,
         pc'[p] \notin {"locking", "inserting", "committing"},
         pc'[p] # "idle" => on'[p] \in Sessions,
         reply'[p] \in {"page", "minted"} => data'[p].token \in Tokens,
         pc'[p] # "reply" => reply'[p] = "none",
         pc'[p] \in {"idle", "loaded"} => \A i \in Items : seen'[p][i] = NoRow,
         \A q \in Workers \ {p} :
            /\ pc'[q] = pc[q] /\ on'[q] = on[q] /\ data'[q] = data[q]
            /\ form'[q] = form[q] /\ seen'[q] = seen[q] /\ reply'[q] = reply[q],
         \A i \in Items : rowLock[i] # p => rowLock'[i] = rowLock[i]
  PROVE  IInv'
<1>1. Entered'
  BY DEF IInv, Entered
<1>2. Prepared'
  BY DEF IInv, Prepared, Writing, Unlocked
<1>3. HeldRowsAreFresh'
  BY DEF IInv, HeldRowsAreFresh
<1>4. TokenReserved'
  BY DEF IInv, TokenReserved, TokenUsed, Exists
<1>5. OneOrderPerToken'
  BY DEF IInv, OneOrderPerToken, Exists
<1>6. Rendered' /\ Unread'
  BY DEF IInv, Rendered, Unread
<1> QED BY <1>1, <1>2, <1>3, <1>4, <1>5, <1>6 DEF IInv

\* Freeing the locks of p frees nobody else's.
LEMMA OthersKeepLocks ==
  ASSUME NEW p, NEW i \in Items, rowLock[i] # p
  PROVE  WithoutLocksOf(p)[i] = rowLock[i]
  BY DEF WithoutLocksOf

LEMMA BeginInv ==
  ASSUME IInv, NEW p \in Workers, NEW s \in Sessions, Begin(p, s) PROVE IInv'
<1>1. TypeOK'
  BY DEF IInv, TypeOK, DBTypeOK, Begin, dbVars, Stages
<1>2. reply[p] = "none" /\ \A i \in Items : seen[p][i] = NoRow
  BY DEF IInv, Rendered, Unread, Begin
<1> QED BY <1>1, <1>2, OutsideStep DEF IInv, TypeOK, Begin, dbVars

\* The end of a request, with its response or without.
LEMMA ForgetInv ==
  ASSUME IInv, NEW p \in Workers, Forget(p),
         sess' \in [Sessions -> Session], shown' \in [Sessions -> SUBSET Tokens]
  PROVE  IInv'
<1>1. TypeOK'
  BY ForgetType DEF IInv, TypeOK
<1>2. /\ rows' = rows /\ orders' = orders /\ pc'[p] = "idle" /\ reply'[p] = "none"
      /\ \A i \in Items : seen'[p][i] = NoRow
  BY DEF Nothing, Forget, IInv, TypeOK
<1>3. \A q \in Workers \ {p} :
        /\ pc'[q] = pc[q] /\ on'[q] = on[q] /\ data'[q] = data[q]
        /\ form'[q] = form[q] /\ seen'[q] = seen[q] /\ reply'[q] = reply[q]
  BY DEF Forget, IInv, TypeOK
<1>4. \A i \in Items : rowLock[i] # p => rowLock'[i] = rowLock[i]
  BY OthersKeepLocks DEF Forget
<1> QED BY <1>1, <1>2, <1>3, <1>4, OutsideStep

LEMMA FinishInv ==
  ASSUME IInv, NEW p \in Workers, Finish(p) PROVE IInv'
<1>1. on[p] \in Sessions /\ data[p] \in Session
  BY DEF IInv, TypeOK, Entered, Finish
<1>2. sess' \in [Sessions -> Session]
  BY <1>1 DEF IInv, TypeOK, Finish
<1>3. shown' \in [Sessions -> SUBSET Tokens]
  <2>1. CASE reply[p] \in {"page", "minted"}
    <3>1. data[p].token \in Tokens
      BY <2>1 DEF IInv, Rendered
    <3> QED BY <1>1, <2>1, <3>1 DEF IInv, TypeOK, Finish
  <2>2. CASE reply[p] \notin {"page", "minted"}
    BY <2>2 DEF IInv, TypeOK, Finish
  <2> QED BY <2>1, <2>2
<1> QED BY <1>2, <1>3, ForgetInv DEF Finish

LEMMA CrashInv ==
  ASSUME IInv, NEW p \in Workers, Crash(p) PROVE IInv'
  BY ForgetInv DEF Crash, IInv, TypeOK

\* A route that only edits the cart of its request.
LEMMA PutCartInv ==
  ASSUME IInv, NEW p \in Workers, pc[p] = "loaded",
         NEW c \in [Items -> Line], PutCart(p, c)
  PROVE  IInv'
<1>1. TypeOK'
  BY PutCartType DEF IInv
<1> QED BY <1>1, OutsideStep DEF IInv, TypeOK, Entered, PutCart, Answer, dbVars

LEMMA CheckoutPageInv ==
  ASSUME IInv, NEW p \in Workers, CheckoutPage(p) PROVE IInv'
<1>1. data' \in [Workers -> Session] /\ minted' \subseteq Tokens
  <2>1. CASE data' = data /\ minted' = minted
    BY <2>1 DEF IInv, TypeOK
  <2>2. ASSUME NEW t \in Tokens, data' = [data EXCEPT ![p].token = t],
               minted' = minted \cup {t}
        PROVE  data' \in [Workers -> Session] /\ minted' \subseteq Tokens
    <3>1. [data[p] EXCEPT !.token = t] \in Session
      BY DEF IInv, TypeOK, Session
    <3> QED BY <2>2, <3>1 DEF IInv, TypeOK
  <2> QED BY <2>1, <2>2 DEF CheckoutPage
<1>2. TypeOK'
  BY <1>1 DEF IInv, TypeOK, DBTypeOK, CheckoutPage, Answer, dbVars, Stages, Replies
<1>3. data'[p].token \in Tokens
  <2>1. data[p] \in Session
    BY DEF IInv, TypeOK
  <2>2. CASE data' = data /\ data[p].token # NoToken
    BY <2>1, <2>2 DEF Session
  <2>3. CASE \E t \in Tokens : data' = [data EXCEPT ![p].token = t]
    BY <2>1, <2>3 DEF Session, IInv, TypeOK
  <2> QED BY <2>2, <2>3 DEF CheckoutPage
<1> QED BY <1>2, <1>3, OutsideStep
    DEF IInv, TypeOK, Entered, CheckoutPage, Answer, dbVars

LEMMA SubmitInv ==
  ASSUME IInv, NEW p \in Workers, Submit(p) PROVE IInv'
<1>1. PICK t \in shown[on[p]] : form' = [form EXCEPT ![p] = t]
  BY DEF Submit
<1>2. on[p] \in Sessions /\ t \in Tokens
  BY <1>1 DEF IInv, TypeOK, Entered, Submit
<1>3. TypeOK'
  BY <1>1, <1>2 DEF IInv, TypeOK, DBTypeOK, Submit, Answer, dbVars, Stages, Replies
<1>4. CASE pc'[p] # "locking"
  <2>1. pc'[p] = "reply" /\ reply'[p] \in {"refused", "already"}
    BY <1>4 DEF IInv, TypeOK, Submit, Answer
  <2> QED BY <1>1, <1>2, <1>3, <2>1, OutsideStep
      DEF IInv, TypeOK, Submit, Answer, dbVars
<1>5. CASE pc'[p] = "locking"
  <2>1. /\ pc[p] = "loaded" /\ pc' = [pc EXCEPT ![p] = "locking"]
        /\ reply' = reply
    BY <1>5 DEF IInv, TypeOK, Submit, Answer
  <2>2. /\ rows' = rows /\ orders' = orders /\ rowLock' = rowLock
        /\ on' = on /\ data' = data /\ seen' = seen
    BY DEF Submit, dbVars
  <2>3. \A i \in Items : seen[p][i] = NoRow
    BY <2>1 DEF IInv, Unread
  <2>4. Entered' /\ Rendered'
    BY <1>1, <1>2, <2>1, <2>2 DEF IInv, TypeOK, Entered, Rendered
  <2>5. Prepared' /\ TokenReserved' /\ OneOrderPerToken'
    BY <1>1, <2>1, <2>2
    DEF IInv, TypeOK, Prepared, TokenReserved, OneOrderPerToken, Writing,
        Unlocked, TokenUsed, Exists
  <2>6. HeldRowsAreFresh' /\ Unread'
    BY <2>1, <2>2, <2>3 DEF IInv, TypeOK, HeldRowsAreFresh, Unread
  <2> QED BY <1>3, <2>4, <2>5, <2>6 DEF IInv
<1> QED BY <1>4, <1>5

\* The lock was free: no other transaction has read the row under it.
LEMMA LockRowInv ==
  ASSUME IInv, NEW p \in Workers, LockRow(p) PROVE IInv'
<1>1. PICK i \in Items :
        /\ rowLock[i] = NoOne
        /\ rowLock' = [rowLock EXCEPT ![i] = p]
        /\ seen' = [seen EXCEPT ![p][i] = rows[i]]
  BY DEF LockRow
<1>2. /\ pc[p] = "locking" /\ rows' = rows /\ orders' = orders /\ pc' = pc
      /\ on' = on /\ data' = data /\ form' = form /\ reply' = reply
      /\ sess' = sess /\ shown' = shown /\ minted' = minted
  BY DEF LockRow
<1>3. /\ seen'[p] = [seen[p] EXCEPT ![i] = rows[i]]
      /\ \A q \in Workers \ {p} : seen'[q] = seen[q]
  BY <1>1 DEF IInv, TypeOK
<1>4. TypeOK'
  <2>1. rowLock' \in [Items -> Txns \cup {NoOne}]
    BY <1>1, CheckoutAssumption DEF IInv, TypeOK, DBTypeOK
  <2>2. seen' \in [Workers -> [Items -> Row \cup {NoRow}]]
    BY <1>1 DEF IInv, TypeOK, DBTypeOK
  <2> QED BY <1>2, <2>1, <2>2 DEF IInv, TypeOK, DBTypeOK
<1>5. Entered' /\ Rendered' /\ TokenReserved' /\ OneOrderPerToken'
  BY <1>2 DEF IInv, Entered, Rendered, TokenReserved, OneOrderPerToken, TokenUsed, Exists
<1>6. Prepared'
  BY <1>2, <1>3 DEF IInv, Prepared, Writing, Unlocked
<1>7. Unread'
  BY <1>2, <1>3 DEF IInv, Unread
<1>8. HeldRowsAreFresh'
  <2> SUFFICES ASSUME NEW q \in Workers, NEW j \in Items,
                      pc[q] \in {"locking", "inserting", "committing"},
                      seen'[q][j] # NoRow
               PROVE  rowLock'[j] = q /\ seen'[q][j] = rows[j]
    BY <1>2 DEF HeldRowsAreFresh
  <2>1. CASE q = p /\ j = i
    BY <1>1, <1>3, <2>1 DEF IInv, TypeOK, DBTypeOK
  <2>2. CASE ~(q = p /\ j = i)
    <3>1. seen'[q][j] = seen[q][j]
      BY <1>3, <2>2 DEF IInv, TypeOK
    <3>2. rowLock[j] = q /\ seen[q][j] = rows[j]
      BY <3>1 DEF IInv, HeldRowsAreFresh
    <3>3. j # i
      BY <1>1, <3>2, AbsentAssumption, CheckoutAssumption
    <3> QED BY <1>1, <3>1, <3>2, <3>3 DEF IInv, TypeOK, DBTypeOK
  <2> QED BY <2>1, <2>2
<1> QED BY <1>4, <1>5, <1>6, <1>7, <1>8 DEF IInv

\* The checks refuse and the request stays outside, or it goes on with every
\* row of its cart locked.
LEMMA CheckInv ==
  ASSUME IInv, NEW p \in Workers, Check(p) PROVE IInv'
<1>1. /\ pc[p] = "locking" /\ Unlocked(p) = {} /\ form[p] \in Tokens
      /\ rows' = rows /\ orders' = orders /\ sess' = sess /\ shown' = shown
      /\ minted' = minted /\ on' = on /\ data' = data /\ form' = form /\ seen' = seen
      /\ rowLock' = rowLock \/ rowLock' = WithoutLocksOf(p)
  BY DEF IInv, Entered, Check
<1>2. rowLock' \in [Items -> Txns \cup {NoOne}]
  BY <1>1, WithoutLocksType DEF IInv, TypeOK, DBTypeOK
<1>3. TypeOK'
  BY <1>1, <1>2 DEF IInv, TypeOK, DBTypeOK, Check, Answer, Stages, Replies
<1>4. \A i \in Items : rowLock[i] # p => rowLock'[i] = rowLock[i]
  BY <1>1, OthersKeepLocks
<1>5. CASE pc' = [pc EXCEPT ![p] = "reply"] /\ reply' = [reply EXCEPT ![p] = "refused"]
  BY <1>1, <1>3, <1>4, <1>5, OutsideStep DEF IInv, TypeOK, Entered
<1>6. CASE /\ pc' = [pc EXCEPT ![p] = "inserting"]
           /\ reply' = reply /\ rowLock' = rowLock
  <2>1. Entered' /\ Rendered' /\ Unread'
    BY <1>1, <1>6 DEF IInv, TypeOK, Entered, Rendered, Unread
  <2>2. Prepared'
    BY <1>1, <1>6 DEF IInv, TypeOK, Prepared, Writing, Unlocked
  <2>3. HeldRowsAreFresh'
    BY <1>1, <1>6 DEF IInv, TypeOK, HeldRowsAreFresh
  <2>4. TokenReserved' /\ OneOrderPerToken'
    BY <1>1, <1>6 DEF IInv, TypeOK, TokenReserved, OneOrderPerToken, TokenUsed, Exists
  <2> QED BY <1>3, <2>1, <2>2, <2>3, <2>4 DEF IInv
<1> QED BY <1>5, <1>6 DEF Check, Answer

\* The unique index: the token is either refused or reserved.
LEMMA InsertOrderInv ==
  ASSUME IInv, NEW p \in Workers, InsertOrder(p) PROVE IInv'
<1>1. /\ pc[p] = "inserting"
      /\ \A q \in Workers \ {p} : pc[q] = "committing" => form[q] # form[p]
      /\ sess' = sess /\ shown' = shown /\ minted' = minted /\ on' = on
      /\ data' = data /\ form' = form /\ seen' = seen /\ reply' = reply
      /\ rows' = rows /\ orders' = orders
      /\ rowLock' = rowLock \/ rowLock' = WithoutLocksOf(p)
  BY DEF InsertOrder, Rollback, dbVars
<1>2. rowLock' \in [Items -> Txns \cup {NoOne}]
  BY <1>1, WithoutLocksType DEF IInv, TypeOK, DBTypeOK
<1>3. TypeOK'
  BY <1>1, <1>2 DEF IInv, TypeOK, DBTypeOK, InsertOrder, Stages
<1>4. \A i \in Items : rowLock[i] # p => rowLock'[i] = rowLock[i]
  BY <1>1, OthersKeepLocks
<1>5. CASE pc' = [pc EXCEPT ![p] = "conflict"]
  BY <1>1, <1>3, <1>4, <1>5, OutsideStep DEF IInv, TypeOK, Entered, Rendered
<1>6. CASE /\ pc' = [pc EXCEPT ![p] = "committing"]
           /\ ~TokenUsed(form[p]) /\ rowLock' = rowLock
  <2>1. Entered' /\ Rendered' /\ Unread'
    BY <1>1, <1>6 DEF IInv, TypeOK, Entered, Rendered, Unread
  <2>2. Prepared'
    BY <1>1, <1>6 DEF IInv, TypeOK, Prepared, Writing, Unlocked
  <2>3. HeldRowsAreFresh'
    BY <1>1, <1>6 DEF IInv, TypeOK, HeldRowsAreFresh
  <2>4. TokenReserved'
    BY <1>1, <1>6 DEF IInv, TypeOK, TokenReserved, TokenUsed, Exists
  <2>5. OneOrderPerToken'
    BY <1>1 DEF IInv, OneOrderPerToken, Exists
  <2> QED BY <1>3, <2>1, <2>2, <2>3, <2>4, <2>5 DEF IInv
<1> QED BY <1>5, <1>6 DEF InsertOrder, dbVars

\* What a commit does to the database: it writes the rows it holds, from
\* what they still are, and adds one order with a token of its own.
LEMMA CommitEffect ==
  ASSUME IInv, NEW p \in Workers, Commit(p)
  PROVE  /\ FreeId \in OrderIds /\ ~Exists(FreeId)
         /\ form[p] \in Tokens /\ ~TokenUsed(form[p])
         /\ \A i \in InCart(data[p].cart) :
               /\ rowLock[i] = p
               /\ rows'[i] = Deducted(rows[i], data[p].cart[i])
         /\ \A i \in Items \ InCart(data[p].cart) : rows'[i] = rows[i]
<1>1. FreeId \in OrderIds /\ ~Exists(FreeId)
  BY DEF Commit, FreeId
<1>2. form[p] \in Tokens /\ ~TokenUsed(form[p]) /\ Unlocked(p) = {}
  BY DEF IInv, Prepared, TokenReserved, Commit, Writing
<1>3. \A i \in InCart(data[p].cart) : rowLock[i] = p /\ seen[p][i] = rows[i]
  BY <1>2 DEF IInv, HeldRowsAreFresh, Commit, Unlocked, InCart
<1> QED BY <1>1, <1>2, <1>3 DEF Commit, InCart

LEMMA CommitInv ==
  ASSUME IInv, NEW p \in Workers, Commit(p) PROVE IInv'
<1>1. /\ pc[p] = "committing" /\ pc' = [pc EXCEPT ![p] = "placed"]
      /\ sess' = sess /\ shown' = shown /\ minted' = minted /\ on' = on
      /\ data' = data /\ form' = form /\ seen' = seen /\ reply' = reply
      /\ rowLock' = WithoutLocksOf(p)
  BY DEF Commit
<1> DEFINE new == [token  |-> form[p],
                   qty    |-> [i \in Items |-> Total(data[p].cart[i])],
                   status |-> "new"]
<1>2. orders' = [orders EXCEPT ![FreeId] = new]
  BY DEF Commit
<1>3. new # NoOrder /\ new.token = form[p]
  <2>1. \A i \in Items : Total(data[p].cart[i]) \in Nat
    BY TotalType DEF IInv, TypeOK, Session
  <2>2. new \in Order
    BY <2>1, CommitEffect DEF Order, Statuses
  <2> QED BY <2>2, MarkersAssumption
<1> HIDE DEF new
<1>4. TypeOK'
  <2>1. form[p] \in Tokens /\ Unlocked(p) = {}
    BY DEF IInv, Prepared, Commit, Writing
  <2>2. DBTypeOK'
    BY <2>1, CommitType DEF IInv
  <2> QED BY <1>1, <2>2 DEF IInv, TypeOK, Stages
<1>5. Entered' /\ Rendered' /\ Unread'
  BY <1>1 DEF IInv, TypeOK, Entered, Rendered, Unread
<1>6. Prepared'
  BY <1>1 DEF IInv, TypeOK, Prepared, Writing, Unlocked
<1>7. HeldRowsAreFresh'
  <2> SUFFICES ASSUME NEW q \in Workers, NEW j \in Items,
                      pc'[q] \in {"locking", "inserting", "committing"},
                      seen[q][j] # NoRow
               PROVE  rowLock'[j] = q /\ seen[q][j] = rows'[j]
    BY <1>1 DEF HeldRowsAreFresh
  <2>1. q # p /\ pc'[q] = pc[q]
    BY <1>1 DEF IInv, TypeOK
  <2>2. rowLock[j] = q /\ seen[q][j] = rows[j]
    BY <2>1 DEF IInv, HeldRowsAreFresh
  <2>3. rows'[j] = rows[j]
    BY <2>1, <2>2, CommitEffect
  <2> QED BY <1>1, <2>1, <2>2, <2>3, OthersKeepLocks
<1>8. \A o \in OrderIds : o # FreeId => orders'[o] = orders[o]
  BY <1>2 DEF IInv, TypeOK, DBTypeOK
<1>9. orders'[FreeId] = new
  BY <1>2, CommitEffect DEF IInv, TypeOK, DBTypeOK
<1>10. TokenReserved'
  <2> SUFFICES ASSUME NEW q \in Workers, pc'[q] = "committing"
               PROVE  /\ ~TokenUsed(form[q])'
                      /\ \A r \in Workers :
                           pc'[r] = "committing" /\ form[r] = form[q] => r = q
    BY <1>1 DEF TokenReserved
  <2>1. q # p /\ pc[q] = "committing"
    BY <1>1 DEF IInv, TypeOK
  <2>2. form[q] # form[p] /\ ~TokenUsed(form[q])
    BY <1>1, <2>1 DEF IInv, TokenReserved
  <2>3. ~TokenUsed(form[q])'
    BY <1>1, <1>3, <1>8, <1>9, <2>2 DEF TokenUsed, Exists
  <2> QED BY <1>1, <2>1, <2>3 DEF IInv, TypeOK, TokenReserved
<1>11. OneOrderPerToken'
  <2>1. \A o \in OrderIds : Exists(o) => orders[o].token # new.token
    BY <1>3, CommitEffect DEF TokenUsed
  <2> QED BY <1>3, <1>8, <1>9, <2>1 DEF IInv, OneOrderPerToken, Exists
<1> QED BY <1>4, <1>5, <1>6, <1>7, <1>10, <1>11 DEF IInv

\* The order is placed, or has been before: the session is emptied.
LEMMA EmptySessionInv ==
  ASSUME IInv, NEW p \in Workers, pc[p] # "idle",
         NEW what \in Replies \ {"page", "minted"}, Answer(p, what),
         EmptySession(p) \/ data' = data,
         UNCHANGED <<dbVars, sess, shown, minted, on, form, seen>>
  PROVE  IInv'
<1>1. data' \in [Workers -> Session]
  BY EmptySessionType DEF IInv, TypeOK, EmptySession
<1>2. TypeOK'
  BY <1>1 DEF IInv, TypeOK, DBTypeOK, Answer, dbVars, Stages
<1>3. \A q \in Workers \ {p} : data'[q] = data[q]
  BY DEF EmptySession, IInv, TypeOK
<1> QED BY <1>2, <1>3, OutsideStep DEF IInv, TypeOK, Entered, Answer, dbVars

LEMMA FailInv ==
  ASSUME IInv, NEW p \in Workers, Fail(p) PROVE IInv'
<1>1. TypeOK'
  BY WithoutLocksType DEF IInv, TypeOK, DBTypeOK, Fail, Answer, Rollback, Stages, Replies
<1> QED BY <1>1, OthersKeepLocks, OutsideStep
    DEF IInv, TypeOK, Entered, Fail, Answer, Rollback

\* Every step keeps the invariant, one action at a time.
LEMMA NextInv == IInv /\ [Next]_vars => IInv'
<1> SUFFICES ASSUME IInv, [Next]_vars PROVE IInv'
  OBVIOUS
<1>1. CASE UNCHANGED vars
  BY <1>1 DEF vars, dbVars, reqVars, IInv, TypeOK, DBTypeOK, Entered, Rendered,
     Unread, Prepared, Unlocked, HeldRowsAreFresh, TokenReserved, TokenUsed,
     Exists, OneOrderPerToken
<1>2. CASE Next
  <2> PICK p \in Workers :
        \/ \E s \in Sessions : Begin(p, s)
        \/ Handle(p) \/ LockRow(p) \/ InsertOrder(p) \/ Fail(p) \/ Crash(p)
    BY <1>2 DEF Next
  <2>1. CASE \E s \in Sessions : Begin(p, s)
    BY <2>1, BeginInv
  <2>2. CASE AddToCart(p)
    <3>1. PICK i \in Items, k \in Kinds, want \in Wanted :
             PutCart(p, AddLine(data[p].cart, i, k, want, rows[i]))
      BY <2>2 DEF AddToCart
    <3>2. /\ pc[p] = "loaded" /\ data[p].cart \in [Items -> Line]
          /\ rows[i] \in Row /\ want \in Nat
      BY <2>2, CheckoutAssumption DEF AddToCart, IInv, TypeOK, DBTypeOK, Session
    <3> QED BY <3>1, <3>2, AddLineType, PutCartInv
  <2>3. CASE UpdateCartItem(p)
    <3>1. PICK i \in Items, k \in Kinds, want \in Wanted \cup {0} :
             PutCart(p, ResizeLine(data[p].cart, i, k, want, rows[i]))
      BY <2>3 DEF UpdateCartItem
    <3>2. /\ pc[p] = "loaded" /\ data[p].cart \in [Items -> Line]
          /\ rows[i] \in Row /\ want \in Nat
      BY <2>3, CheckoutAssumption DEF UpdateCartItem, IInv, TypeOK, DBTypeOK, Session
    <3> QED BY <3>1, <3>2, ResizeLineType, PutCartInv
  <2>4. CASE CartPage(p)
    <3>1. data[p].cart \in [Items -> Line] /\ rows \in [Items -> Row]
      BY DEF IInv, TypeOK, DBTypeOK, Session
    <3> QED BY <2>4, <3>1, VisitedType, PutCartInv DEF CartPage
  <2>5. CASE ClearCart(p)
    BY <2>5, EmptyCartType, PutCartInv DEF ClearCart
  <2>6. CASE OtherPage(p)
    <3>1. data[p].cart \in [Items -> Line]
      BY DEF IInv, TypeOK, Session
    <3> QED BY <2>6, <3>1, PutCartInv DEF OtherPage
  <2>7. CASE CheckoutPage(p)
    BY <2>7, CheckoutPageInv
  <2>8. CASE Submit(p)
    BY <2>8, SubmitInv
  <2>9. CASE Check(p)
    BY <2>9, CheckInv
  <2>10. CASE Commit(p)
    BY <2>10, CommitInv
  <2>11. CASE Placed(p)
    BY <2>11, EmptySessionInv DEF Placed, Replies
  <2>12. CASE Conflict(p)
    BY <2>12, EmptySessionInv DEF Conflict, Replies
  <2>13. CASE Fail(p)
    BY <2>13, FailInv
  <2>14. CASE Finish(p)
    BY <2>14, FinishInv
  <2>15. CASE LockRow(p)
    BY <2>15, LockRowInv
  <2>16. CASE InsertOrder(p)
    BY <2>16, InsertOrderInv
  <2>17. CASE Crash(p)
    BY <2>17, CrashInv
  <2> QED BY <2>1, <2>2, <2>3, <2>4, <2>5, <2>6, <2>7, <2>8, <2>9, <2>10,
             <2>11, <2>12, <2>13, <2>14, <2>15, <2>16, <2>17 DEF Handle
<1> QED BY <1>1, <1>2

LEMMA InvariantHolds == Safety => []IInv
<1>1. Init => IInv
  BY InitInv
<1>2. IInv /\ [Next]_vars => IInv'
  BY NextInv
<1> QED BY <1>1, <1>2, PTL DEF Safety

-----------------------------------------------------------------------------
(* The theorems                                                            *)

\* Every variable of a checkout keeps its type.
THEOREM TypeCorrect == Safety => []TypeOK
<1>1. IInv => TypeOK
  BY DEF IInv
<1> QED BY <1>1, InvariantHolds, PTL

\* What place_order has read under FOR UPDATE stays true until its
\* transaction ends, for any number of threads and positions.
THEOREM FreshUnderLock == Safety => []HeldRowsAreFresh
<1>1. IInv => HeldRowsAreFresh
  BY DEF IInv
<1> QED BY <1>1, InvariantHolds, PTL

\* One order per form, whatever is sent twice, lost or brought back.
THEOREM OneOrderPerForm == Safety => []OneOrderPerToken
<1>1. IInv => OneOrderPerToken
  BY DEF IInv
<1> QED BY <1>1, InvariantHolds, PTL

-----------------------------------------------------------------------------
(* Checkout implements the ledger                                          *)

\* Only a commit touches the database.
LEMMA OnlyCommitWrites ==
  ASSUME NEW p \in Workers,
         Handle(p) \/ LockRow(p) \/ InsertOrder(p) \/ Fail(p) \/ Crash(p)
  PROVE  Commit(p) \/ (rows' = rows /\ orders' = orders)
  BY DEF Handle, LockRow, InsertOrder, Crash, AddToCart, UpdateCartItem,
         CartPage, ClearCart, OtherPage, PutCart, CheckoutPage, Submit, Check, Placed,
         Conflict, Fail, Finish, Forget, Rollback, dbVars

\* A commit is one PlaceOrder step of the ledger.
LEMMA CommitIsPlaceOrder ==
  ASSUME IInv, NEW p \in Workers, Commit(p)
  PROVE  \E o \in OrderIds : Ledger!PlaceOrder(o)
<1> DEFINE new == [token  |-> form[p],
                   qty    |-> [i \in Items |-> Total(data[p].cart[i])],
                   status |-> "new"]
<1>1. orders' = [orders EXCEPT ![FreeId] = new]
  BY DEF Commit
<1>2. orders'[FreeId] = new
  BY <1>1, CommitEffect DEF IInv, TypeOK, DBTypeOK
<1>3. \A i \in Items : Total(data[p].cart[i]) \in Nat
  BY TotalType DEF IInv, TypeOK, Session
<1>4. new \in Order /\ new.token \in Tokens
  BY <1>3, CommitEffect DEF Order, Statuses
<1>5. \A o \in OrderIds : Exists(o) => orders[o].token # new.token
  BY CommitEffect DEF TokenUsed
<1>6. rows' = [i \in Items |->
                 IF orders'[FreeId].qty[i] = 0 THEN rows[i]
                 ELSE [rows[i] EXCEPT
                         !.stock  = rows[i].stock - orders'[FreeId].qty[i],
                         !.active = rows[i].active /\ Avail(rows'[i]) > 0]]
  <2> SUFFICES ASSUME NEW i \in Items
               PROVE  rows'[i] = IF new.qty[i] = 0 THEN rows[i]
                        ELSE [rows[i] EXCEPT
                                !.stock  = rows[i].stock - new.qty[i],
                                !.active = rows[i].active /\ Avail(rows'[i]) > 0]
    BY <1>2 DEF Commit
  <2>1. new.qty[i] = Total(data[p].cart[i])
    OBVIOUS
  <2>2. CASE i \notin InCart(data[p].cart)
    BY <1>3, <2>1, <2>2, CommitEffect DEF InCart
  <2>3. CASE i \in InCart(data[p].cart)
    <3>1. rows'[i] = Deducted(rows[i], data[p].cart[i]) /\ new.qty[i] # 0
      BY <2>1, <2>3, CommitEffect DEF InCart
    <3>2. rows[i] \in Row
      BY DEF IInv, TypeOK, DBTypeOK
    <3>3. Avail(rows'[i]) = Avail([rows[i] EXCEPT !.stock = @ - Total(data[p].cart[i])])
      BY <3>1, <3>2 DEF Deducted, Avail, Row
    <3> QED BY <2>1, <3>1, <3>2, <3>3 DEF Deducted, Row
  <2> QED BY <2>2, <2>3
<1> HIDE DEF new
<1>7. /\ Ledger!Items = Items /\ Ledger!Order = Order
      /\ \A o : Ledger!Exists(o) <=> Exists(o)
      /\ \A r : Ledger!Avail(r) = Avail(r)
  BY DEF Ledger!Items, Items, Ledger!Order, Order, Ledger!Statuses, Statuses,
         Ledger!Exists, Exists, Ledger!Avail, Avail
<1>8. Ledger!PlaceOrder(FreeId)
  <2>1. ~Ledger!Exists(FreeId) /\ orders'[FreeId] \in Ledger!Order
    BY <1>2, <1>4, <1>7, CommitEffect
  <2>2. /\ orders'[FreeId].token \in Tokens
        /\ orders' = [orders EXCEPT ![FreeId] = orders'[FreeId]]
        /\ \A other \in OrderIds : Ledger!Exists(other)
              => orders[other].token # orders'[FreeId].token
    BY <1>1, <1>2, <1>4, <1>5, <1>7
  <2>3. rows' = [i \in Ledger!Items |->
                   IF orders'[FreeId].qty[i] = 0 THEN rows[i]
                   ELSE [rows[i] EXCEPT
                           !.stock  = rows[i].stock - orders'[FreeId].qty[i],
                           !.active = rows[i].active /\ Ledger!Avail(rows'[i]) > 0]]
    BY <1>6, <1>7, Zenon
  <2> QED BY <2>1, <2>2, <2>3 DEF Ledger!PlaceOrder
<1> QED BY <1>8, CommitEffect

\* However requests interleave, overwrite each other's sessions and die, the
\* database changes only as if each order were placed in one step.
THEOREM CheckoutIsAtomic == Safety => LedgerKept
<1>1. IInv /\ [Next]_vars => [Ledger!LedgerNext]_<<rows, orders>>
  <2> SUFFICES ASSUME IInv, [Next]_vars, ~(rows' = rows /\ orders' = orders)
               PROVE  \E o \in OrderIds : Ledger!PlaceOrder(o)
    BY DEF Ledger!LedgerNext
  <2>1. PICK p \in Workers :
          \/ \E s \in Sessions : Begin(p, s)
          \/ Handle(p) \/ LockRow(p) \/ InsertOrder(p) \/ Fail(p) \/ Crash(p)
    BY DEF Next, vars, dbVars
  <2>2. Commit(p)
    <3>1. CASE \E s \in Sessions : Begin(p, s)
      BY <3>1 DEF Begin, dbVars
    <3>2. CASE (Handle(p) \/ LockRow(p) \/ InsertOrder(p) \/ Fail(p) \/ Crash(p))
      BY <3>2, OnlyCommitWrites
    <3> QED BY <2>1, <3>1, <3>2
  <2> QED BY <2>2, CommitIsPlaceOrder
<1> QED BY <1>1, InvariantHolds, PTL DEF Safety, LedgerKept, Ledger!LedgerSpec

-----------------------------------------------------------------------------
(* What a commit takes was there                                           *)

\* The checks made under the locks still hold at the commit.
Checked == \A p \in Workers : pc[p] \in Writing => CartFits(p)

\* A step is of one request, and leaves alone what another has decided on;
\* its own cart and rows do not change on the way from its checks on.
LEMMA StepOfOne ==
  ASSUME IInv, Next
  PROVE  \A q \in Workers : pc'[q] \in Writing =>
           /\ data'[q] = data[q] /\ seen'[q] = seen[q]
           /\ pc[q] \in Writing \/ CartFits(q)
<1> PICK p \in Workers :
      \/ \E s \in Sessions : Begin(p, s)
      \/ Handle(p) \/ LockRow(p) \/ InsertOrder(p) \/ Fail(p) \/ Crash(p)
  BY DEF Next
<1> SUFFICES ASSUME NEW q \in Workers, pc'[q] \in Writing
             PROVE  /\ data'[q] = data[q] /\ seen'[q] = seen[q]
                    /\ pc[q] \in Writing \/ CartFits(q)
  OBVIOUS
<1> USE DEF Writing, IInv, TypeOK, Answer
<1>1. CASE \E s \in Sessions : Begin(p, s)
  BY <1>1 DEF Begin
<1>2. CASE AddToCart(p) \/ UpdateCartItem(p) \/ CartPage(p) \/ ClearCart(p) \/ OtherPage(p)
  BY <1>2 DEF AddToCart, UpdateCartItem, CartPage, ClearCart, OtherPage, PutCart
<1>3. CASE CheckoutPage(p) \/ Submit(p)
  BY <1>3 DEF CheckoutPage, Submit
<1>4. CASE Check(p)
  BY <1>4 DEF Check
<1>5. CASE Commit(p) \/ Placed(p) \/ Conflict(p) \/ Fail(p)
  BY <1>5 DEF Commit, Placed, Conflict, Fail, EmptySession
<1>6. CASE Finish(p) \/ Crash(p)
  BY <1>6 DEF Finish, Crash, Forget
<1>7. CASE LockRow(p)
  <2>1. pc' = pc /\ data' = data /\ pc[p] = "locking"
    BY <1>7 DEF LockRow
  <2>2. q # p
    BY <2>1
  <2>3. seen'[q] = seen[q]
    BY <1>7, <2>2 DEF LockRow
  <2> QED BY <2>1, <2>3
<1>8. CASE InsertOrder(p)
  BY <1>8 DEF InsertOrder
<1> QED BY <1>1, <1>2, <1>3, <1>4, <1>5, <1>6, <1>7, <1>8 DEF Handle

LEMMA CheckedStep == IInv /\ Checked /\ [Next]_vars => Checked'
<1>1. CASE UNCHANGED vars
  BY <1>1 DEF vars, reqVars, Checked, CartFits
<1>2. CASE Next
  BY <1>2, StepOfOne DEF Checked, CartFits
<1> QED BY <1>1, <1>2

LEMMA CheckedHolds == Safety => []Checked
<1>1. Init => Checked
  BY DEF Init, ShopInit, Checked, Writing
<1> QED BY <1>1, CheckedStep, InvariantHolds, PTL DEF Safety

\* Only its own commit takes a request from "committing" to "placed".
LEMMA PlacedByCommit ==
  ASSUME IInv, Next, NEW p \in Workers, pc[p] = "committing", pc'[p] = "placed"
  PROVE  Commit(p)
<1> PICK q \in Workers :
      \/ \E s \in Sessions : Begin(q, s)
      \/ Handle(q) \/ LockRow(q) \/ InsertOrder(q) \/ Fail(q) \/ Crash(q)
  BY DEF Next
<1> USE DEF IInv, TypeOK, Answer
<1>1. CASE \E s \in Sessions : Begin(q, s)
  BY <1>1 DEF Begin
<1>2. CASE AddToCart(q) \/ UpdateCartItem(q) \/ CartPage(q) \/ ClearCart(q) \/ OtherPage(q)
  BY <1>2 DEF AddToCart, UpdateCartItem, CartPage, ClearCart, OtherPage, PutCart
<1>3. CASE CheckoutPage(q) \/ Submit(q) \/ Check(q)
  BY <1>3 DEF CheckoutPage, Submit, Check
<1>4. CASE Commit(q)
  <2>1. pc' = [pc EXCEPT ![q] = "placed"]
    BY <1>4 DEF Commit
  <2> QED BY <1>4, <2>1
<1>5. CASE Placed(q) \/ Conflict(q) \/ Fail(q)
  BY <1>5 DEF Placed, Conflict, Fail
<1>6. CASE Finish(q) \/ Crash(q)
  BY <1>6 DEF Finish, Crash, Forget
<1>7. CASE LockRow(q) \/ InsertOrder(q)
  BY <1>7 DEF LockRow, InsertOrder
<1> QED BY <1>1, <1>2, <1>3, <1>4, <1>5, <1>6, <1>7 DEF Handle

\* One line that fits leaves no negative stock and no broken reserve.
LEMMA LineLeaves ==
  ASSUME NEW l \in Line, NEW r \in Row, LineFits(l, r), Total(l) > 0,
         \A k \in Kinds : l[k] > 0 => l[k] = Total(l)
  PROVE  /\ Deducted(r, l).stock >= 0
         /\ l["pre"] = 0 => Deducted(r, l).reserved <= Deducted(r, l).stock
<1>1. /\ l["shelf"] \in Nat /\ l["moved"] \in Nat /\ l["pre"] \in Nat
      /\ r.stock \in Int /\ r.reserved \in Nat
  BY DEF Line, Kinds, Row
<1>2. /\ Deducted(r, l).stock = r.stock - Total(l)
      /\ Deducted(r, l).reserved = r.reserved
  BY DEF Deducted, Row
<1>3. \/ l["pre"] = Total(l)
      \/ l["pre"] = 0 /\ (l["shelf"] = Total(l) \/ l["moved"] = Total(l))
  BY <1>1 DEF Kinds, Total
<1>4. CASE l["pre"] = Total(l)
  BY <1>1, <1>2, <1>4 DEF LineFits
<1>5. CASE l["pre"] = 0 /\ (l["shelf"] = Total(l) \/ l["moved"] = Total(l))
  <2>1. Total(l) <= Avail(r)
    BY <1>5 DEF LineFits
  <2>2. Total(l) \in Nat
    BY TotalType
  <2> QED BY <1>1, <1>2, <2>1, <2>2 DEF Avail
<1> QED BY <1>3, <1>4, <1>5

\* A commit of an order with one line per position that took what was there.
Fits ==
    \A p \in Workers :
        pc[p] = "committing" /\ pc'[p] = "placed" /\ OneLineEach(data[p].cart)
        => \A i \in InCart(data[p].cart) :
             /\ rows'[i].stock >= 0
             /\ data[p].cart[i]["pre"] = 0 => rows'[i].reserved <= rows'[i].stock

LEMMA CommitsFit == IInv /\ Checked /\ [Next]_vars => [Fits]_vars
<1> SUFFICES ASSUME IInv, Checked, Next,
                    NEW p \in Workers, pc[p] = "committing", pc'[p] = "placed",
                    OneLineEach(data[p].cart), NEW i \in InCart(data[p].cart)
             PROVE  /\ rows'[i].stock >= 0
                    /\ data[p].cart[i]["pre"] = 0
                       => rows'[i].reserved <= rows'[i].stock
  BY DEF Fits
<1>1. Commit(p)
  BY PlacedByCommit
<1>2. rows'[i] = Deducted(rows[i], data[p].cart[i]) /\ i \in Items
  BY <1>1, CommitEffect DEF InCart
<1>3. seen[p][i] = rows[i]
  BY <1>1 DEF IInv, Prepared, Writing, Unlocked, HeldRowsAreFresh, InCart
<1>4. LineFits(data[p].cart[i], rows[i])
  BY <1>3 DEF Checked, CartFits, Writing
<1>5. /\ data[p].cart[i] \in Line /\ rows[i] \in Row
      /\ Total(data[p].cart[i]) > 0
      /\ \A k \in Kinds :
           data[p].cart[i][k] > 0 => data[p].cart[i][k] = Total(data[p].cart[i])
  BY <1>2 DEF IInv, TypeOK, DBTypeOK, Session, InCart, OneLineEach
<1> QED BY <1>2, <1>4, <1>5, LineLeaves

\* An order with one line per position never takes more than there was, nor
\* an ordinary line what is reserved, for any number of threads.
THEOREM OrdersFit == Safety => SingleLineOrdersFit
<1>1. [][Fits]_vars => SingleLineOrdersFit
  BY DEF Fits, SingleLineOrdersFit
<1> QED BY <1>1, CommitsFit, InvariantHolds, CheckedHolds, PTL DEF Safety

-----------------------------------------------------------------------------
(* Status changes                                                          *)

\* What order o holds of position i with status s.
Claim(o, s, i) == IF s = "cancelled" THEN 0 ELSE orders[o].qty[i]

\* A session has its order for itself.
OrderIsHeld ==
    \A e \in Staff : stage[e] # "idle" =>
        order[e] \in OrderIds /\ Exists(order[e]) /\ orderLock[order[e]] = e

\* What it has loaded of the order's positions is what the database holds.
LoadedIsCurrent ==
    \A e \in Staff : stage[e] \in {"locking", "writing"} =>
        /\ target[e] # orders[order[e]].status
        /\ \A i \in Items :
              cache[e][i] = IF i \in ItemsOf(order[e]) THEN rows[i] ELSE NoRow

\* What it has computed of a position.
Settled(e, i) ==
    /\ work[e][i] \in Row
    /\ work[e][i].reserved = rows[i].reserved
    /\ work[e][i].stock =
         rows[i].stock + Claim(order[e], orders[order[e]].status, i)
                       - Claim(order[e], target[e], i)
    /\ orders[order[e]].status = "cancelled" => work[e][i].reserved <= work[e][i].stock
    /\ /\ target[e] = "cancelled" /\ Supply[i] \in {"service", "invoice"}
       /\ Avail(work[e][i]) > 0
       => work[e][i].active

RightWork(e) ==
    \A i \in Items :
        IF i \in ItemsOf(order[e]) THEN Settled(e, i) ELSE work[e][i] = NoRow

StaffInv ==
    /\ StaffTypeOK
    /\ OrdersApart
    /\ OrderIsHeld
    /\ LoadedIsCurrent
    /\ \A e \in Staff : stage[e] = "locking" => CrossesCancelled(e)
    /\ \A e \in Staff : stage[e] = "writing" => RightWork(e)

LEMMA StaffUnlock ==
  ASSUME NEW e \in Staff, rowLock \in [Items -> Txns \cup {NoOne}]
  PROVE  WithoutLocksOf(e) \in [Items -> Txns \cup {NoOne}]
  BY DEF WithoutLocksOf

\* The types of a session that ends.
LEMMA LeaveType ==
  ASSUME StaffTypeOK, NEW e \in Staff, Leave(e), rows' \in [Items -> Row],
         orders' \in [OrderIds -> Order \cup {NoOrder}]
  PROVE  StaffTypeOK'
<1>1. rowLock' \in [Items -> Txns \cup {NoOne}]
  BY StaffUnlock DEF Leave, StaffTypeOK, DBTypeOK
<1>2. Unloaded \in Objects
  BY DEF Unloaded, Objects
<1>3. orderLock' \in [OrderIds -> Txns \cup {NoOne}]
  BY DEF Leave, StaffTypeOK
<1> QED BY <1>1, <1>2, <1>3 DEF Leave, StaffTypeOK, DBTypeOK, Statuses

\* A session that ends leaves the others what they have.
LEMMA LeaveIs ==
  ASSUME StaffTypeOK, NEW e \in Staff, Leave(e)
  PROVE  /\ stage'[e] = "idle"
         /\ \A x \in Staff \ {e} :
              /\ stage'[x] = stage[x] /\ order'[x] = order[x] /\ target'[x] = target[x]
              /\ cache'[x] = cache[x] /\ work'[x] = work[x]
         /\ \A o \in OrderIds : orderLock[o] # e => orderLock'[o] = orderLock[o]
         /\ \A i \in Items : rowLock[i] # e => rowLock'[i] = rowLock[i]
  BY DEF Leave, StaffTypeOK, WithoutLocksOf

\* One in which no session changes what another has found, or the database.
LEMMA QuietKeeps ==
  ASSUME StaffInv, NEW e \in Staff, StaffTypeOK', rows' = rows, orders' = orders,
         \A x \in Staff \ {e} :
            /\ stage'[x] = stage[x] /\ order'[x] = order[x] /\ target'[x] = target[x]
            /\ cache'[x] = cache[x] /\ work'[x] = work[x],
         \A o \in OrderIds : orderLock[o] \in Staff \ {e} => orderLock'[o] = orderLock[o],
         stage'[e] # "idle" =>
            order'[e] \in OrderIds /\ Exists(order'[e]) /\ orderLock'[order'[e]] = e,
         stage'[e] \in {"locking", "writing"} =>
            /\ target'[e] # orders[order'[e]].status
            /\ \A i \in Items :
                  cache'[e][i] = IF i \in ItemsOf(order'[e]) THEN rows[i] ELSE NoRow,
         stage'[e] = "locking" =>
            (orders[order'[e]].status = "cancelled") # (target'[e] = "cancelled"),
         stage'[e] = "writing" => RightWork(e)'
  PROVE  StaffInv'
<1>1. OrdersApart' /\ OrderIsHeld'
  BY DEF StaffInv, OrdersApart, OrderIsHeld, ItemsOf, Exists
<1>2. LoadedIsCurrent'
  BY DEF StaffInv, LoadedIsCurrent, ItemsOf
<1>3. (\A x \in Staff : stage[x] = "locking" => CrossesCancelled(x))'
  BY DEF StaffInv, CrossesCancelled
<1>4. (\A x \in Staff : stage[x] = "writing" => RightWork(x))'
  <2> SUFFICES ASSUME NEW x \in Staff, stage'[x] = "writing", x # e PROVE RightWork(x)'
    OBVIOUS
  <2> QED BY DEF StaffInv, RightWork, Settled, Claim, ItemsOf
<1> QED BY <1>1, <1>2, <1>3, <1>4 DEF StaffInv

LEMMA StaffBegins == StaffAlone /\ OrdersApart => StaffInv
<1> SUFFICES ASSUME StaffAlone, OrdersApart PROVE StaffInv
  OBVIOUS
<1>1. Unloaded \in Objects /\ "new" \in Statuses
  BY DEF Unloaded, Objects, Statuses
<1>2. StaffTypeOK
  BY <1>1 DEF StaffAlone, StaffInit, StaffTypeOK, DBTypeOK
<1> QED BY <1>2 DEF StaffAlone, StaffInit, StaffInv, OrderIsHeld, LoadedIsCurrent

LEMMA OpenKeeps ==
  ASSUME StaffInv, NEW e \in Staff, Open(e) PROVE StaffInv'
<1> PICK o \in OrderIds, s \in Statuses :
      /\ Exists(o) /\ orderLock[o] = NoOne
      /\ orderLock' = [orderLock EXCEPT ![o] = e]
      /\ order' = [order EXCEPT ![e] = o]
      /\ target' = [target EXCEPT ![e] = s]
  BY DEF Open
<1>1. /\ stage' = [stage EXCEPT ![e] = "loading"]
      /\ rows' = rows /\ orders' = orders /\ rowLock' = rowLock
      /\ cache' = cache /\ work' = work
  BY DEF Open, dbVars
<1>2. StaffTypeOK'
  BY <1>1, StatusAssumption DEF StaffInv, StaffTypeOK, DBTypeOK
<1>3. NoOne \notin Staff
  BY StatusAssumption, AbsentAssumption
<1>4. /\ stage'[e] = "loading" /\ order'[e] = o /\ orderLock'[o] = e
      /\ \A x \in OrderIds : orderLock[x] \in Staff \ {e} => orderLock'[x] = orderLock[x]
      /\ \A x \in Staff \ {e} :
            /\ stage'[x] = stage[x] /\ order'[x] = order[x] /\ target'[x] = target[x]
            /\ cache'[x] = cache[x] /\ work'[x] = work[x]
  BY <1>1, <1>3 DEF StaffInv, StaffTypeOK
<1> QED BY <1>1, <1>2, <1>4, QuietKeeps

LEMMA LoadKeeps ==
  ASSUME StaffInv, NEW e \in Staff, Load(e) PROVE StaffInv'
<1> DEFINE objects == [i \in Items |-> IF i \in ItemsOf(order[e]) THEN rows[i] ELSE NoRow]
           next == IF orders[order[e]].status = target[e] THEN "closing"
                   ELSE IF CrossesCancelled(e) THEN "locking" ELSE "writing"
<1>1. /\ cache' = [cache EXCEPT ![e] = objects] /\ work' = [work EXCEPT ![e] = objects]
      /\ stage' = [stage EXCEPT ![e] = next] /\ stage[e] = "loading"
      /\ UNCHANGED <<rows, rowLock, orders, orderLock, order, target>>
  BY DEF Load, dbVars
<1>2. /\ stage \in [Staff -> {"idle", "loading", "locking", "writing", "closing"}]
      /\ cache \in [Staff -> Objects] /\ work \in [Staff -> Objects]
      /\ rows \in [Items -> Row]
      /\ order[e] \in OrderIds /\ Exists(order[e]) /\ orderLock[order[e]] = e
  BY <1>1 DEF StaffInv, StaffTypeOK, DBTypeOK, OrderIsHeld
<1>3. objects \in Objects
  BY <1>2 DEF Objects
<1>4. \A i \in Items : objects[i] = IF i \in ItemsOf(order[e]) THEN rows[i] ELSE NoRow
  OBVIOUS
<1>5. next \in {"closing", "locking", "writing"}
  OBVIOUS
<1>6. /\ next = "locking" => /\ orders[order[e]].status # target[e]
                             /\ CrossesCancelled(e)
      /\ next = "writing" => /\ orders[order[e]].status # target[e]
                             /\ ~CrossesCancelled(e)
  OBVIOUS
<1> HIDE DEF objects, next
<1>7. StaffTypeOK'
  BY <1>1, <1>2, <1>3, <1>5 DEF StaffInv, StaffTypeOK, DBTypeOK
<1>8. /\ stage'[e] = next /\ cache'[e] = objects /\ work'[e] = objects
      /\ \A x \in Staff \ {e} :
            /\ stage'[x] = stage[x] /\ order'[x] = order[x] /\ target'[x] = target[x]
            /\ cache'[x] = cache[x] /\ work'[x] = work[x]
  BY <1>1, <1>2
<1>9. stage'[e] = "writing" => RightWork(e)'
  <2> SUFFICES ASSUME next = "writing", NEW i \in Items
               PROVE  (IF i \in ItemsOf(order[e]) THEN Settled(e, i) ELSE work[e][i] = NoRow)'
    BY <1>8 DEF RightWork
  <2>1. CASE i \notin ItemsOf(order[e])
    BY <1>1, <1>4, <1>8, <2>1 DEF ItemsOf
  <2>2. CASE i \in ItemsOf(order[e])
    <3>1. work'[e][i] = rows[i] /\ rows[i] \in Row
      BY <1>2, <1>4, <1>8, <2>2
    <3>2. /\ orders[order[e]].status # "cancelled" /\ target[e] # "cancelled"
      BY <1>6 DEF CrossesCancelled
    <3>3. orders[order[e]].qty[i] \in Nat
      BY <1>2 DEF StaffInv, StaffTypeOK, DBTypeOK, Exists, Order
    <3> QED BY <1>1, <2>2, <3>1, <3>2, <3>3 DEF Settled, Claim, ItemsOf, Row
  <2> QED BY <2>1, <2>2
<1> QED BY <1>1, <1>2, <1>4, <1>5, <1>6, <1>7, <1>8, <1>9, QuietKeeps DEF CrossesCancelled

LEMMA LockItemKeeps ==
  ASSUME StaffInv, NEW e \in Staff, LockItem(e) PROVE StaffInv'
<1>1. PICK i \in Items : rowLock' = [rowLock EXCEPT ![i] = e]
  BY DEF LockItem
<1>2. UNCHANGED <<rows, orders, staffVars>>
  BY DEF LockItem
<1>3. StaffTypeOK'
  BY <1>1, <1>2, StatusAssumption DEF StaffInv, StaffTypeOK, DBTypeOK, staffVars
<1> QED BY <1>2, <1>3 DEF staffVars, StaffInv, OrdersApart, OrderIsHeld, LoadedIsCurrent,
          RightWork, Settled, Claim, ItemsOf, Exists, CrossesCancelled

\* What a session computes is right if it is right position by position.
LEMMA ComputedKeeps ==
  ASSUME StaffInv, NEW e \in Staff, stage[e] = "locking",
         UNCHANGED <<dbVars, orderLock, order, target, cache>>,
         stage' = [stage EXCEPT ![e] = "writing"],
         NEW new \in Objects, work' = [work EXCEPT ![e] = new],
         \A i \in ItemsOf(order[e]) : work'[e][i] = new[i] => Settled(e, i)',
         \A i \in Items \ ItemsOf(order[e]) : new[i] = NoRow
  PROVE  StaffInv'
<1>1. StaffTypeOK'
  BY DEF StaffInv, StaffTypeOK, DBTypeOK, dbVars
<1>2. /\ stage'[e] = "writing" /\ work'[e] = new
      /\ \A x \in Staff \ {e} : stage'[x] = stage[x] /\ work'[x] = work[x]
  BY DEF StaffInv, StaffTypeOK
<1>3. order[e] \in OrderIds /\ Exists(order[e]) /\ orderLock[order[e]] = e
  BY DEF StaffInv, OrderIsHeld
<1>4. /\ target[e] # orders[order[e]].status
      /\ \A i \in Items : cache[e][i] = IF i \in ItemsOf(order[e]) THEN rows[i] ELSE NoRow
  BY DEF StaffInv, LoadedIsCurrent
<1>5. RightWork(e)'
  BY <1>2 DEF RightWork, ItemsOf, dbVars
<1> QED BY <1>1, <1>2, <1>3, <1>4, <1>5, QuietKeeps DEF dbVars

LEMMA ReturnKeeps ==
  ASSUME StaffInv, NEW e \in Staff, Return(e) PROVE StaffInv'
<1> DEFINE with(i) == [cache[e][i] EXCEPT !.stock = @ + orders[order[e]].qty[i]]
           back(i) == [with(i) EXCEPT !.active = BackOnShelf(i, with(i))]
           new == [i \in Items |-> IF i \in ItemsOf(order[e]) THEN back(i) ELSE NoRow]
<1>1. /\ stage[e] = "locking" /\ target[e] = "cancelled"
      /\ work' = [work EXCEPT ![e] = new] /\ stage' = [stage EXCEPT ![e] = "writing"]
      /\ UNCHANGED <<dbVars, orderLock, order, target, cache>>
  BY DEF Return
<1>2. /\ order[e] \in OrderIds /\ Exists(order[e]) /\ orders[order[e]] \in Order
      /\ orders[order[e]].status # "cancelled"
      /\ \A i \in ItemsOf(order[e]) : cache[e][i] = rows[i] /\ rows[i] \in Row
      /\ work \in [Staff -> Objects]
  BY <1>1 DEF StaffInv, OrderIsHeld, LoadedIsCurrent, StaffTypeOK, DBTypeOK, Exists, ItemsOf
<1>3. ASSUME NEW i \in ItemsOf(order[e])
      PROVE  /\ back(i) \in Row /\ back(i).reserved = rows[i].reserved
             /\ back(i).stock = rows[i].stock + orders[order[e]].qty[i]
             /\ Supply[i] \in {"service", "invoice"} /\ Avail(back(i)) > 0 => back(i).active
  <2>1. rows[i] \in Row /\ cache[e][i] = rows[i] /\ orders[order[e]].qty[i] \in Nat
    BY <1>2, <1>3 DEF Order, ItemsOf
  <2>2. /\ with(i) \in Row /\ with(i).stock = rows[i].stock + orders[order[e]].qty[i]
        /\ with(i).reserved = rows[i].reserved
    BY <2>1 DEF Row
  <2>3. BackOnShelf(i, with(i)) \in BOOLEAN
    BY <2>2 DEF BackOnShelf, Row
  <2> DEFINE b == BackOnShelf(i, with(i))
             w == with(i)
  <2>4. Supply[i] \in {"service", "invoice"} /\ Avail(w) > 0 => b
    BY DEF BackOnShelf
  <2> HIDE DEF b, w
  <2>5. LET r == [w EXCEPT !.active = b]
        IN  /\ r \in Row /\ r.reserved = w.reserved /\ r.stock = w.stock /\ r.active = b
            /\ Avail(r) = Avail(w)
    BY <2>2, <2>3 DEF Row, Avail, w, b
  <2>6. back(i) = [w EXCEPT !.active = b]
    BY DEF b, w
  <2> QED BY <2>2, <2>4, <2>5, <2>6 DEF w
<1>4. new \in Objects /\ \A i \in Items \ ItemsOf(order[e]) : new[i] = NoRow
  BY <1>3 DEF Objects
<1>5. \A i \in ItemsOf(order[e]) : new[i] = back(i) /\ i \in Items
  BY DEF ItemsOf
<1> HIDE DEF new, back
<1>6. \A i \in ItemsOf(order[e]) : work'[e][i] = new[i] => Settled(e, i)'
  <2> SUFFICES ASSUME NEW i \in ItemsOf(order[e]), work'[e][i] = new[i] PROVE Settled(e, i)'
    OBVIOUS
  <2>1. /\ rows' = rows /\ orders' = orders /\ order' = order /\ target' = target
        /\ orders[order[e]].qty[i] \in Nat /\ rows[i] \in Row
    BY <1>1, <1>2 DEF dbVars, Order, ItemsOf
  <2>2. work'[e][i] = back(i)
    BY <1>5
  <2> QED BY <1>1, <1>2, <1>3, <2>1, <2>2 DEF Settled, Claim, Row
<1> QED BY <1>1, <1>4, <1>6, ComputedKeeps

LEMMA TakeKeeps ==
  ASSUME StaffInv, NEW e \in Staff, Take(e) PROVE StaffInv'
<1> DEFINE without(i) == [cache[e][i] EXCEPT !.stock = @ - orders[order[e]].qty[i]]
           taken(i) == [without(i) EXCEPT !.active = @ /\ Avail(without(i)) > 0]
           new == [i \in Items |-> IF i \in ItemsOf(order[e]) THEN taken(i) ELSE NoRow]
<1>1. /\ stage[e] = "locking" /\ target[e] # "cancelled"
      /\ UNCHANGED <<dbVars, orderLock, order, target, cache>>
  BY DEF Take
<1>2. /\ order[e] \in OrderIds /\ Exists(order[e]) /\ orders[order[e]] \in Order
      /\ orderLock[order[e]] = e
      /\ orders[order[e]].status = "cancelled"
      /\ \A i \in ItemsOf(order[e]) : cache[e][i] = rows[i] /\ rows[i] \in Row
      /\ work \in [Staff -> Objects]
      /\ stage \in [Staff -> {"idle", "loading", "locking", "writing", "closing"}]
  BY <1>1 DEF StaffInv, OrderIsHeld, LoadedIsCurrent, StaffTypeOK, DBTypeOK, Exists, ItemsOf,
              CrossesCancelled
<1>3. CASE stage' = [stage EXCEPT ![e] = "closing"] /\ UNCHANGED work
  <2>1. StaffTypeOK'
    BY <1>1, <1>3 DEF StaffInv, StaffTypeOK, DBTypeOK, dbVars
  <2>2. stage'[e] = "closing" /\ \A x \in Staff \ {e} : stage'[x] = stage[x]
    BY <1>2, <1>3
  <2> QED BY <1>1, <1>2, <1>3, <2>1, <2>2, QuietKeeps DEF dbVars
<1>4. CASE /\ Enough(e) /\ work' = [work EXCEPT ![e] = new]
           /\ stage' = [stage EXCEPT ![e] = "writing"]
  <2>1. ASSUME NEW i \in ItemsOf(order[e])
        PROVE  /\ taken(i) \in Row /\ taken(i).reserved = rows[i].reserved
               /\ taken(i).stock = rows[i].stock - orders[order[e]].qty[i]
               /\ taken(i).reserved <= taken(i).stock
    <3>1. /\ rows[i] \in Row /\ cache[e][i] = rows[i]
          /\ orders[order[e]].qty[i] \in Nat /\ orders[order[e]].qty[i] > 0
      BY <1>2, <2>1 DEF Order, ItemsOf
    <3>2. /\ without(i) \in Row /\ without(i).stock = rows[i].stock - orders[order[e]].qty[i]
          /\ without(i).reserved = rows[i].reserved
      BY <3>1 DEF Row
    <3>3. orders[order[e]].qty[i] <= Avail(rows[i])
      BY <1>4, <2>1, <3>1 DEF Enough
    <3>4. rows[i].reserved <= rows[i].stock - orders[order[e]].qty[i]
      BY <3>1, <3>3 DEF Avail, Row
    <3> DEFINE w == without(i)
               b == w.active /\ Avail(w) > 0
    <3>5. b \in BOOLEAN
      BY <3>2, AvailType DEF Row
    <3>6. taken(i) = [w EXCEPT !.active = b]
      OBVIOUS
    <3>7. w \in Row
      BY <3>2
    <3> HIDE DEF b, w, taken
    <3>8. taken(i) \in Row /\ taken(i).reserved = w.reserved /\ taken(i).stock = w.stock
      BY <3>5, <3>6, <3>7 DEF Row
    <3> QED BY <3>2, <3>4, <3>8 DEF w
  <2>2. new \in Objects /\ \A i \in Items \ ItemsOf(order[e]) : new[i] = NoRow
    BY <2>1 DEF Objects
  <2>3. \A i \in ItemsOf(order[e]) : new[i] = taken(i) /\ i \in Items
    BY DEF ItemsOf
  <2> HIDE DEF new, taken
  <2>4. \A i \in ItemsOf(order[e]) : work'[e][i] = new[i] => Settled(e, i)'
    <3> SUFFICES ASSUME NEW i \in ItemsOf(order[e]), work'[e][i] = new[i] PROVE Settled(e, i)'
      OBVIOUS
    <3>1. /\ rows' = rows /\ orders' = orders /\ order' = order /\ target' = target
          /\ orders[order[e]].qty[i] \in Nat /\ rows[i] \in Row
      BY <1>1, <1>2 DEF dbVars, Order, ItemsOf
    <3>2. work'[e][i] = taken(i)
      BY <2>3
    <3> QED BY <1>1, <1>2, <2>1, <3>1, <3>2 DEF Settled, Claim, Row
  <2> QED BY <1>1, <1>4, <2>2, <2>4, ComputedKeeps
<1> QED BY <1>3, <1>4 DEF Take

\* A session that ends without a commit.
LEMMA EndKeeps ==
  ASSUME StaffInv, NEW e \in Staff, Close(e) \/ Lost(e) PROVE StaffInv'
<1>1. rows' = rows /\ orders' = orders /\ Leave(e)
  BY DEF Close, Lost
<1>2. StaffTypeOK'
  BY <1>1, LeaveType DEF StaffInv, StaffTypeOK, DBTypeOK
<1> QED BY <1>1, <1>2, LeaveIs, QuietKeeps DEF StaffInv

\* What a commit makes of the rows and of the order.
LEMMA CommitStatusIs ==
  ASSUME StaffInv, NEW e \in Staff, CommitStatus(e)
  PROVE  /\ rows' \in [Items -> Row]
         /\ \A i \in Items :
              IF i \in ItemsOf(order[e])
              THEN rows'[i] = work[e][i] /\ Settled(e, i)
              ELSE rows'[i] = rows[i]
         /\ orders' \in [OrderIds -> Order \cup {NoOrder}]
         /\ order[e] \in OrderIds /\ Exists(order[e]) /\ orderLock[order[e]] = e
         /\ target[e] # orders[order[e]].status
         /\ \A o \in OrderIds :
              /\ o # order[e] => orders'[o] = orders[o]
              /\ Exists(o) => Exists(o)' /\ orders'[o].qty = orders[o].qty
              /\ ~Exists(o) => ~Exists(o)'
         /\ orders'[order[e]].status = target[e]
<1>1. /\ stage[e] = "writing" /\ rows' = [i \in Items |-> Flushed(i, e)]
      /\ orders' = [orders EXCEPT ![order[e]].status = target[e]]
  BY DEF CommitStatus
<1>2. /\ order[e] \in OrderIds /\ Exists(order[e]) /\ orderLock[order[e]] = e
      /\ target[e] # orders[order[e]].status /\ target[e] \in Statuses
      /\ rows \in [Items -> Row] /\ orders \in [OrderIds -> Order \cup {NoOrder}]
      /\ orders[order[e]] \in Order
      /\ \A i \in Items : cache[e][i] = IF i \in ItemsOf(order[e]) THEN rows[i] ELSE NoRow
      /\ RightWork(e)
  BY <1>1 DEF StaffInv, StaffTypeOK, DBTypeOK, OrderIsHeld, LoadedIsCurrent, Exists
<1>3. ASSUME NEW i \in Items
      PROVE  /\ rows'[i] \in Row
             /\ IF i \in ItemsOf(order[e])
                THEN rows'[i] = work[e][i] /\ Settled(e, i)
                ELSE rows'[i] = rows[i]
  <2>1. rows'[i] = Flushed(i, e) /\ rows[i] \in Row
    BY <1>1, <1>2
  <2>2. CASE i \in ItemsOf(order[e])
    <3>1. Settled(e, i) /\ cache[e][i] = rows[i] /\ work[e][i] \in Row
      BY <1>2, <2>2 DEF RightWork, Settled
    <3>2. work[e][i] # NoRow
      BY <3>1, MarkersAssumption
    <3>3. work[e][i].reserved = rows[i].reserved
      BY <3>1 DEF Settled
    <3> DEFINE w == work[e][i]
               r == rows[i]
               f == [r EXCEPT !.stock = IF w.stock = r.stock THEN @ ELSE w.stock,
                              !.active = IF w.active = r.active THEN @ ELSE w.active]
    <3>4. Flushed(i, e) = f
      BY <3>1, <3>2 DEF Flushed
    <3>5. w \in Row /\ r \in Row /\ w.reserved = r.reserved
      BY <2>1, <3>1, <3>3
    <3> HIDE DEF w, r
    <3>6. f = w
      BY <3>5 DEF Row
    <3> QED BY <2>1, <2>2, <3>1, <3>4, <3>6 DEF w
  <2>3. CASE i \notin ItemsOf(order[e])
    BY <1>2, <2>1, <2>3 DEF Flushed, RightWork
  <2> QED BY <2>2, <2>3
<1>4. rows' \in [Items -> Row]
  BY <1>1, <1>3
<1> DEFINE new == [orders[order[e]] EXCEPT !.status = target[e]]
<1>5. /\ new \in Order /\ new.qty = orders[order[e]].qty /\ new.status = target[e]
      /\ new # NoOrder
  BY <1>2, MarkersAssumption DEF Order
<1>6. orders' = [orders EXCEPT ![order[e]] = new]
  BY <1>1
<1> HIDE DEF new
<1> QED BY <1>2, <1>3, <1>4, <1>5, <1>6 DEF Exists

LEMMA CommitStatusKeeps ==
  ASSUME StaffInv, NEW e \in Staff, CommitStatus(e) PROVE StaffInv'
<1>1. Leave(e) /\ stage[e] = "writing"
  BY DEF CommitStatus
<1>2. StaffTypeOK'
  BY <1>1, CommitStatusIs, LeaveType DEF StaffInv
<1>3. ASSUME NEW o \in OrderIds, Exists(o) PROVE ItemsOf(o)' = ItemsOf(o)
  BY <1>3, CommitStatusIs DEF ItemsOf
<1>4. OrdersApart'
  BY <1>3, CommitStatusIs DEF StaffInv, OrdersApart
\* The others have other orders, with other positions.
<1>5. ASSUME NEW x \in Staff, stage'[x] # "idle"
      PROVE  /\ x # e /\ stage[x] = stage'[x] /\ order[x] \in OrderIds /\ Exists(order[x])
             /\ order[x] # order[e] /\ orders'[order[x]] = orders[order[x]]
             /\ order'[x] = order[x] /\ target'[x] = target[x]
             /\ cache'[x] = cache[x] /\ work'[x] = work[x]
             /\ orderLock'[order[x]] = x
             /\ ItemsOf(order[x])' = ItemsOf(order[x])
             /\ \A i \in ItemsOf(order[x]) : rows'[i] = rows[i]
  <2>1. /\ x # e /\ stage[x] = stage'[x] /\ order'[x] = order[x] /\ target'[x] = target[x]
        /\ cache'[x] = cache[x] /\ work'[x] = work[x]
    BY <1>1, <1>5, LeaveIs DEF StaffInv
  <2>2. order[x] \in OrderIds /\ Exists(order[x]) /\ orderLock[order[x]] = x
    BY <1>5, <2>1 DEF StaffInv, OrderIsHeld
  <2>3. order[x] # order[e] /\ orders'[order[x]] = orders[order[x]]
    BY <2>1, <2>2, CommitStatusIs
  <2>4. orderLock'[order[x]] = x
    BY <1>1, <2>1, <2>2, LeaveIs DEF StaffInv
  <2>5. ItemsOf(order[x]) \cap ItemsOf(order[e]) = {}
    BY <2>2, <2>3, CommitStatusIs DEF StaffInv, OrdersApart
  <2>6. \A i \in ItemsOf(order[x]) : rows'[i] = rows[i]
    BY <2>5, CommitStatusIs DEF ItemsOf
  <2> QED BY <1>3, <2>1, <2>2, <2>3, <2>4, <2>6
<1>6. OrderIsHeld'
  BY <1>5, CommitStatusIs DEF OrderIsHeld
<1>7. LoadedIsCurrent'
  <2> SUFFICES ASSUME NEW x \in Staff, stage'[x] \in {"locking", "writing"}
               PROVE  (/\ target[x] # orders[order[x]].status
                       /\ \A i \in Items : cache[x][i] =
                            IF i \in ItemsOf(order[x]) THEN rows[i] ELSE NoRow)'
    BY DEF LoadedIsCurrent
  <2>1. /\ target[x] # orders[order[x]].status
        /\ \A i \in Items : cache[x][i] = IF i \in ItemsOf(order[x]) THEN rows[i] ELSE NoRow
    BY <1>5 DEF StaffInv, LoadedIsCurrent
  <2>2. ItemsOf(order[x])' = ItemsOf(order[x])
    BY <1>5 DEF ItemsOf
  <2> QED BY <1>5, <2>1, <2>2
<1>8. (\A x \in Staff : stage[x] = "locking" => CrossesCancelled(x))'
  BY <1>5 DEF StaffInv, CrossesCancelled
<1>9. (\A x \in Staff : stage[x] = "writing" => RightWork(x))'
  <2> SUFFICES ASSUME NEW x \in Staff, stage'[x] = "writing", NEW i \in Items
               PROVE  (IF i \in ItemsOf(order[x]) THEN Settled(x, i) ELSE work[x][i] = NoRow)'
    BY DEF RightWork
  <2>1. IF i \in ItemsOf(order[x]) THEN Settled(x, i) ELSE work[x][i] = NoRow
    BY <1>5 DEF StaffInv, RightWork
  <2>2. (i \in ItemsOf(order[x]))' <=> i \in ItemsOf(order[x])
    BY <1>5 DEF ItemsOf
  <2>3. CASE i \notin ItemsOf(order[x])
    BY <1>5, <2>1, <2>2, <2>3
  <2>4. CASE i \in ItemsOf(order[x])
    BY <1>5, <2>1, <2>2, <2>4 DEF Settled, Claim
  <2> QED BY <2>3, <2>4
<1> QED BY <1>2, <1>4, <1>6, <1>7, <1>8, <1>9 DEF StaffInv

LEMMA StaffStep == StaffInv /\ [StaffNext]_deskVars => StaffInv'
<1> SUFFICES ASSUME StaffInv, [StaffNext]_deskVars PROVE StaffInv'
  OBVIOUS
<1>1. CASE UNCHANGED deskVars
  BY <1>1 DEF deskVars, dbVars, staffVars, StaffInv, StaffTypeOK, DBTypeOK, OrdersApart,
     OrderIsHeld, LoadedIsCurrent, RightWork, Settled, Claim, ItemsOf, Exists, CrossesCancelled
<1>2. CASE StaffNext
  <2> PICK e \in Staff : Open(e) \/ Advance(e) \/ LockItem(e) \/ Lost(e)
    BY <1>2 DEF StaffNext
  <2>1. CASE Open(e) \/ LockItem(e)
    BY <2>1, OpenKeeps, LockItemKeeps
  <2>2. CASE Advance(e) \/ Lost(e)
    BY <2>2, LoadKeeps, ReturnKeeps, TakeKeeps, CommitStatusKeeps, EndKeeps DEF Advance
  <2> QED BY <2>1, <2>2
<1> QED BY <1>1, <1>2

LEMMA StaffInvariant == StaffSafety /\ OrdersApart => []StaffInv
<1>1. StaffAlone /\ OrdersApart => StaffInv
  BY StaffBegins
<1>2. StaffInv /\ [StaffNext]_deskVars => StaffInv'
  BY StaffStep
<1> QED BY <1>1, <1>2, PTL DEF StaffSafety

\* Only a commit changes rows and orders.
LEMMA OnlyCommitSettles ==
  ASSUME [StaffNext]_deskVars
  PROVE  (rows' = rows /\ orders' = orders) \/ \E e \in Staff : CommitStatus(e)
  BY DEF StaffNext, Advance, Open, Load, LockItem, Return, Take, Close, Lost, deskVars, dbVars

\* The order whose status crosses "cancelled" is the one that is committed.
LEMMA StatusByCommit ==
  ASSUME StaffInv, [StaffNext]_deskVars, NEW o \in OrderIds, Exists(o),
         orders'[o].status # orders[o].status
  PROVE  \E e \in Staff :
            /\ CommitStatus(e) /\ o = order[e] /\ orders'[o].status = target[e]
            /\ ItemsOf(o)' = ItemsOf(o)
            /\ \A i \in ItemsOf(o) : rows'[i] = work[e][i] /\ Settled(e, i)
<1>1. PICK e \in Staff : CommitStatus(e)
  BY OnlyCommitSettles
<1>2. o = order[e] /\ orders'[o].status = target[e]
  BY <1>1, CommitStatusIs
<1>3. ItemsOf(o)' = ItemsOf(o)
  BY <1>1, CommitStatusIs DEF ItemsOf
<1>4. \A i \in ItemsOf(o) : rows'[i] = work[e][i] /\ Settled(e, i)
  BY <1>1, <1>2, CommitStatusIs DEF ItemsOf
<1> QED BY <1>1, <1>2, <1>3, <1>4

\* Whatever staff cancels and takes back at once, be it the same order: packs
\* come back once and are taken once, as long as no two orders share a
\* position (apply_status_change).
THEOREM StockIsSettledOnce == StaffSafety /\ OrdersApart => StockFollowsOrders
<1> DEFINE Moves(o) ==
             /\ \A other \in OrderIds \ {o} : orders'[other] = orders[other]
             /\ \A i \in Items : rows'[i].stock - rows[i].stock
                                  = HeldBy(orders[o], i) - HeldBy(orders'[o], i)
<1>1. StaffInv /\ [StaffNext]_deskVars => [\E o \in OrderIds : Moves(o)]_<<rows, orders>>
  <2> SUFFICES ASSUME StaffInv, [StaffNext]_deskVars, ~(rows' = rows /\ orders' = orders)
               PROVE  \E o \in OrderIds : Moves(o)
    OBVIOUS
  <2>1. PICK e \in Staff : CommitStatus(e)
    BY OnlyCommitSettles
  <2> PICK o \in OrderIds : o = order[e]
    BY <2>1, CommitStatusIs
  <2>2. /\ o \in OrderIds /\ Exists(o) /\ orders[o] \in Order
        /\ \A other \in OrderIds \ {o} : orders'[other] = orders[other]
        /\ orders'[o].qty = orders[o].qty /\ orders'[o].status = target[e] /\ Exists(o)'
    BY <2>1, CommitStatusIs DEF StaffInv, StaffTypeOK, DBTypeOK, Exists
  <2>3. ASSUME NEW i \in Items
        PROVE  rows'[i].stock - rows[i].stock = HeldBy(orders[o], i) - HeldBy(orders'[o], i)
    <3>1. /\ HeldBy(orders[o], i) = Claim(o, orders[o].status, i)
          /\ HeldBy(orders'[o], i) = Claim(o, target[e], i)
          /\ orders[o].qty[i] \in Nat /\ rows[i].stock \in Int
      BY <2>2 DEF HeldBy, Claim, Exists, Order, Row, StaffInv, StaffTypeOK, DBTypeOK
    <3>2. CASE i \in ItemsOf(o)
      <4>1. rows'[i].stock = rows[i].stock + Claim(o, orders[o].status, i) - Claim(o, target[e], i)
        BY <2>1, <3>2, CommitStatusIs DEF Settled
      <4> QED BY <3>1, <4>1 DEF Claim
    <3>3. CASE i \notin ItemsOf(o)
      <4>1. rows'[i] = rows[i]
        BY <2>1, <3>3, CommitStatusIs
      <4>2. orders[o].qty[i] = 0
        BY <3>1, <3>3 DEF ItemsOf
      <4> QED BY <3>1, <4>1, <4>2 DEF Claim
    <3> QED BY <3>2, <3>3
  <2>4. Moves(o)
    BY <2>2, <2>3
  <2> QED BY <2>2, <2>4
<1> QED BY <1>1, StaffInvariant, PTL DEF StaffSafety, StockFollowsOrders

\* What staff takes back was on hand, and nobody's reserve (_take_stock).
THEOREM RetakenFit == StaffSafety /\ OrdersApart => RetakenOrdersFit
<1> DEFINE Fit == \A o \in OrderIds :
             /\ Exists(o) /\ orders[o].status = "cancelled"
             /\ orders'[o].status # "cancelled"
             => \A i \in ItemsOf(o) : rows'[i].reserved <= rows'[i].stock
<1>1. StaffInv /\ [StaffNext]_deskVars => [Fit]_deskVars
  BY StatusByCommit DEF Settled
<1> QED BY <1>1, StaffInvariant, PTL DEF StaffSafety, RetakenOrdersFit

\* Goods of 1C that a cancellation frees can be bought (_put_back_on_shelf).
THEOREM CancelledAreBack == StaffSafety /\ OrdersApart => CancelledGoodsAreBack
<1> DEFINE Back == \A o \in OrderIds :
             /\ Exists(o) /\ orders[o].status # "cancelled"
             /\ orders'[o].status = "cancelled"
             => \A i \in ItemsOf(o) :
                  Supply[i] \in {"service", "invoice"} /\ Avail(rows'[i]) > 0
                  => rows'[i].active
<1>1. StaffInv /\ [StaffNext]_deskVars => [Back]_deskVars
  BY StatusByCommit DEF Settled
<1> QED BY <1>1, StaffInvariant, PTL DEF StaffSafety, CancelledGoodsAreBack
-----------------------------------------------------------------------------
(* Customers and staff at once                                             *)

\* The order a session has locked exists.
OrderIsThere ==
    \A e \in Staff : stage[e] # "idle" => order[e] \in OrderIds /\ Exists(order[e])

\* A session that waits for rows has an object of each of its positions, if
\* not a current one, and of no other.
ObjectsLoaded ==
    \A e \in Staff : stage[e] = "locking" =>
        \A i \in Items : IF i \in ItemsOf(order[e]) THEN cache[e][i] \in Row
                         ELSE cache[e][i] = NoRow

\* What a session is going to write to is locked by it.
WritesAreLocked ==
    \A e \in Staff : stage[e] = "writing" =>
        \A i \in Items : work[e][i] # cache[e][i] => rowLock[i] = e

BesideInv == StaffTypeOK /\ OrderIsThere /\ ObjectsLoaded /\ WritesAreLocked

DeskInv == IInv /\ Checked /\ BesideInv

LEMMA DeskBegins == DeskInit => DeskInv
<1> SUFFICES ASSUME DeskInit PROVE DeskInv
  OBVIOUS
<1>1. orders \in [OrderIds -> Order \cup {NoOrder}] /\ OneOrderPerToken
  BY DeskAssumption DEF DeskInit, OneOrderPerToken, Exists
<1>2. IInv
  BY <1>1, ShopBegins DEF DeskInit
<1>3. Checked
  BY DEF DeskInit, ShopInit, Checked, Writing
<1>4. StaffTypeOK
  <2>1. Unloaded \in Objects /\ "new" \in Statuses
    BY DEF Unloaded, Objects, Statuses
  <2> QED BY <1>2, <2>1 DEF DeskInit, StaffInit, StaffTypeOK, IInv, TypeOK
<1>5. OrderIsThere /\ ObjectsLoaded /\ WritesAreLocked
  BY DEF DeskInit, StaffInit, OrderIsThere, ObjectsLoaded, WritesAreLocked
<1> QED BY <1>2, <1>3, <1>4, <1>5 DEF DeskInv, BesideInv

LEMMA Strangers == NoOne \notin Staff /\ \A e \in Staff : e \notin Workers
  BY StatusAssumption, AbsentAssumption, DeskAssumption

\* A step of a checkout takes no lock of staff and leaves every order there
\* is as it is.
LEMMA CheckoutSpares ==
  ASSUME IInv, [Next]_vars
  PROVE  /\ \A i \in Items : rowLock[i] \in Staff => rowLock'[i] = rowLock[i]
         /\ \A o \in OrderIds : Exists(o) => orders'[o] = orders[o]
<1>1. CASE UNCHANGED vars
  BY <1>1 DEF vars, dbVars
<1>2. CASE Next
  <2> PICK p \in Workers :
        \/ \E s \in Sessions : Begin(p, s)
        \/ Handle(p) \/ LockRow(p) \/ InsertOrder(p) \/ Fail(p) \/ Crash(p)
    BY <1>2 DEF Next
  <2>1. p \notin Staff
    BY Strangers
  <2>2. CASE \E s \in Sessions : Begin(p, s)
    BY <2>2 DEF Begin, dbVars
  <2>3. CASE Handle(p) \/ LockRow(p) \/ InsertOrder(p) \/ Fail(p) \/ Crash(p)
    <3>1. \/ rowLock' = rowLock
          \/ rowLock' = WithoutLocksOf(p)
          \/ \E i \in Items : rowLock[i] = NoOne /\ rowLock' = [rowLock EXCEPT ![i] = p]
      BY <2>3 DEF Handle, LockRow, InsertOrder, Crash, AddToCart, UpdateCartItem,
           CartPage, ClearCart, OtherPage, PutCart, CheckoutPage, Submit, Check, Commit,
           Placed, Conflict, Fail, Finish, Forget, Rollback, dbVars
    <3>2. \A i \in Items : rowLock[i] \in Staff => rowLock'[i] = rowLock[i]
      BY <2>1, <3>1, Strangers DEF WithoutLocksOf, IInv, TypeOK, DBTypeOK
    <3>3. CASE rows' = rows /\ orders' = orders
      BY <3>2, <3>3
    <3>4. CASE Commit(p)
      <4>1. /\ FreeId \in OrderIds /\ ~Exists(FreeId)
            /\ \E new : orders' = [orders EXCEPT ![FreeId] = new]
        BY <3>4, CommitEffect DEF Commit
      <4> QED BY <3>2, <4>1 DEF IInv, TypeOK, DBTypeOK
    <3> QED BY <2>3, <3>3, <3>4, OnlyCommitWrites
  <2> QED BY <2>2, <2>3
<1> QED BY <1>1, <1>2

\* What staff has loaded, locked and computed outlasts a step of a checkout.
LEMMA CheckoutBeside ==
  ASSUME DeskInv, [Next]_vars, UNCHANGED staffVars
  PROVE  DeskInv'
<1>1. IInv' /\ Checked'
  BY NextInv, CheckedStep DEF DeskInv
<1>2. UNCHANGED <<orderLock, stage, order, target, cache, work>>
  BY DEF staffVars
<1>3. StaffTypeOK'
  BY <1>1, <1>2 DEF DeskInv, BesideInv, StaffTypeOK, IInv, TypeOK
<1>4. /\ \A i \in Items : rowLock[i] \in Staff => rowLock'[i] = rowLock[i]
      /\ \A o \in OrderIds : Exists(o) => orders'[o] = orders[o]
  BY CheckoutSpares DEF DeskInv
<1>5. OrderIsThere'
  BY <1>2, <1>4 DEF DeskInv, BesideInv, OrderIsThere, Exists
<1>6. ObjectsLoaded'
  BY <1>2, <1>4 DEF DeskInv, BesideInv, OrderIsThere, ObjectsLoaded, ItemsOf
<1>7. WritesAreLocked'
  BY <1>2, <1>4 DEF DeskInv, BesideInv, WritesAreLocked
<1> QED BY <1>1, <1>3, <1>5, <1>6, <1>7 DEF DeskInv, BesideInv


\* The kinds of row and object a flush meets.
LEMMA FlushedIs ==
  ASSUME StaffTypeOK, NEW e \in Staff, NEW i \in Items
  PROVE  /\ Flushed(i, e) \in Row
         /\ work[e][i] = cache[e][i] => Flushed(i, e) = rows[i]
<1>1. /\ rows[i] \in Row /\ work[e][i] \in Row \cup {NoRow}
      /\ cache[e][i] \in Row \cup {NoRow}
  BY DEF StaffTypeOK, DBTypeOK, Objects
<1> DEFINE r == rows[i]
           n == IF work[e][i].stock = cache[e][i].stock THEN r.stock ELSE work[e][i].stock
           a == IF work[e][i].active = cache[e][i].active THEN r.active ELSE work[e][i].active
<1>2. CASE work[e][i] = NoRow
  BY <1>1, <1>2 DEF Flushed
<1>3. CASE work[e][i] # NoRow
  <2>1. n \in Int /\ a \in BOOLEAN /\ r \in Row
    BY <1>1, <1>3 DEF Row
  <2>2. Flushed(i, e) = [r EXCEPT !.stock = n, !.active = a]
    BY <1>1, <1>3 DEF Flushed, Row
  <2>3. work[e][i] = cache[e][i] => n = r.stock /\ a = r.active
    OBVIOUS
  <2> HIDE DEF n, a
  <2>4. [r EXCEPT !.stock = n, !.active = a] \in Row
    BY <2>1 DEF Row
  <2>5. [r EXCEPT !.stock = r.stock, !.active = r.active] = r
    BY <2>1 DEF Row
  <2> QED BY <2>2, <2>3, <2>4, <2>5
<1> QED BY <1>2, <1>3

\* One step of staff: what it does to the database, and what it leaves alone.
Touches(e) ==
    /\ \A i \in Items : rowLock[i] \in Txns \ {e} =>
          rowLock'[i] = rowLock[i] /\ rows'[i] = rows[i]
    /\ \A o \in OrderIds :
          /\ Exists(o)' <=> Exists(o)
          /\ Exists(o) => /\ orders'[o].token = orders[o].token
                          /\ orders'[o].qty = orders[o].qty
    /\ \A x \in Staff \ {e} :
          /\ stage'[x] = stage[x] /\ order'[x] = order[x]
          /\ cache'[x] = cache[x] /\ work'[x] = work[x]
    /\ stage'[e] # "idle" => order'[e] \in OrderIds /\ Exists(order'[e])
    /\ stage'[e] = "locking" =>
          \A i \in Items : IF i \in ItemsOf(order[e])' THEN cache'[e][i] \in Row
                           ELSE cache'[e][i] = NoRow
    /\ stage'[e] = "writing" =>
          \A i \in Items : work'[e][i] # cache'[e][i] => rowLock'[i] = e

LEMMA OpenTouches ==
  ASSUME BesideInv, NEW e \in Staff, Open(e) PROVE StaffTypeOK' /\ Touches(e)
<1> PICK o \in OrderIds, s \in Statuses :
      /\ Exists(o) /\ orderLock[o] = NoOne
      /\ orderLock' = [orderLock EXCEPT ![o] = e]
      /\ order' = [order EXCEPT ![e] = o]
      /\ target' = [target EXCEPT ![e] = s]
  BY DEF Open
<1>1. /\ stage' = [stage EXCEPT ![e] = "loading"]
      /\ rows' = rows /\ orders' = orders /\ rowLock' = rowLock
      /\ cache' = cache /\ work' = work
  BY DEF Open, dbVars
<1>2. StaffTypeOK'
  BY <1>1, StatusAssumption DEF BesideInv, StaffTypeOK, DBTypeOK
<1> QED BY <1>1, <1>2 DEF BesideInv, StaffTypeOK, Touches, Exists

LEMMA LoadTouches ==
  ASSUME BesideInv, NEW e \in Staff, Load(e) PROVE StaffTypeOK' /\ Touches(e)
<1> DEFINE objects == [i \in Items |-> IF i \in ItemsOf(order[e]) THEN rows[i] ELSE NoRow]
           next == IF orders[order[e]].status = target[e] THEN "closing"
                   ELSE IF CrossesCancelled(e) THEN "locking" ELSE "writing"
<1>1. /\ cache' = [cache EXCEPT ![e] = objects] /\ work' = [work EXCEPT ![e] = objects]
      /\ stage' = [stage EXCEPT ![e] = next] /\ stage[e] = "loading"
      /\ UNCHANGED <<rows, rowLock, orders, orderLock, order, target>>
  BY DEF Load, dbVars
<1>2. /\ order[e] \in OrderIds /\ Exists(order[e]) /\ rows \in [Items -> Row]
      /\ stage \in [Staff -> {"idle", "loading", "locking", "writing", "closing"}]
      /\ cache \in [Staff -> Objects] /\ work \in [Staff -> Objects]
  BY <1>1 DEF BesideInv, StaffTypeOK, DBTypeOK, OrderIsThere
<1>3. /\ objects \in Objects /\ next \in {"closing", "locking", "writing"}
      /\ \A i \in Items : IF i \in ItemsOf(order[e]) THEN objects[i] \in Row
                          ELSE objects[i] = NoRow
  BY <1>2 DEF Objects
<1> HIDE DEF objects, next
<1>4. StaffTypeOK'
  BY <1>1, <1>2, <1>3 DEF BesideInv, StaffTypeOK, DBTypeOK
<1>5. /\ cache'[e] = objects /\ work'[e] = objects /\ ItemsOf(order[e])' = ItemsOf(order[e])
      /\ \A x \in Staff \ {e} :
            stage'[x] = stage[x] /\ cache'[x] = cache[x] /\ work'[x] = work[x]
  BY <1>1, <1>2 DEF ItemsOf
<1> QED BY <1>1, <1>2, <1>3, <1>4, <1>5 DEF Touches, Exists

LEMMA LockItemTouches ==
  ASSUME BesideInv, NEW e \in Staff, LockItem(e) PROVE StaffTypeOK' /\ Touches(e)
<1>1. PICK i \in Items : rowLock[i] = NoOne /\ rowLock' = [rowLock EXCEPT ![i] = e]
  BY DEF LockItem
<1>2. /\ UNCHANGED <<rows, orders, orderLock, stage, order, target, cache, work>>
      /\ stage[e] = "locking"
  BY DEF LockItem, staffVars
<1>3. StaffTypeOK'
  BY <1>1, <1>2, StatusAssumption DEF BesideInv, StaffTypeOK, DBTypeOK
<1>4. \A j \in Items : rowLock[j] \in Txns => rowLock'[j] = rowLock[j]
  BY <1>1, AbsentAssumption DEF BesideInv, StaffTypeOK, DBTypeOK
<1>5. ItemsOf(order[e])' = ItemsOf(order[e])
  BY <1>2 DEF ItemsOf
<1>6. order[e] \in OrderIds /\ Exists(order[e])
  BY <1>2 DEF BesideInv, OrderIsThere
<1>7. \A j \in Items : IF j \in ItemsOf(order[e]) THEN cache[e][j] \in Row
                       ELSE cache[e][j] = NoRow
  BY <1>2 DEF BesideInv, ObjectsLoaded
<1> QED BY <1>2, <1>3, <1>4, <1>5, <1>6, <1>7 DEF Touches, Exists

\* A session that has every row it needs computes objects for these only.
LEMMA ComputedTouches ==
  ASSUME BesideInv, NEW e \in Staff, stage[e] = "locking", ToLock(e) = {},
         UNCHANGED <<dbVars, orderLock, order, target, cache>>,
         NEW new \in Objects, work' = [work EXCEPT ![e] = new],
         NEW next \in {"writing", "closing"}, stage' = [stage EXCEPT ![e] = next],
         \A i \in Items \ ItemsOf(order[e]) : next = "writing" => new[i] = NoRow
  PROVE  StaffTypeOK' /\ Touches(e)
<1>1. StaffTypeOK'
  BY DEF BesideInv, StaffTypeOK, DBTypeOK, dbVars
<1>2. /\ stage'[e] = next /\ work'[e] = new
      /\ \A x \in Staff \ {e} : stage'[x] = stage[x] /\ work'[x] = work[x]
  BY DEF BesideInv, StaffTypeOK
<1>3. order[e] \in OrderIds /\ Exists(order[e])
  BY DEF BesideInv, OrderIsThere
<1>4. \A i \in Items : i \notin ItemsOf(order[e]) => cache[e][i] = NoRow
  BY DEF BesideInv, ObjectsLoaded
<1>5. \A i \in ItemsOf(order[e]) : rowLock[i] = e
  BY DEF ToLock
<1>6. next = "writing" => \A i \in Items : new[i] # cache[e][i] => rowLock[i] = e
  BY <1>4, <1>5
<1> QED BY <1>1, <1>2, <1>3, <1>6 DEF Touches, dbVars, Exists

LEMMA ReturnTouches ==
  ASSUME BesideInv, NEW e \in Staff, Return(e) PROVE StaffTypeOK' /\ Touches(e)
<1> DEFINE with(i) == [cache[e][i] EXCEPT !.stock = @ + orders[order[e]].qty[i]]
           back(i) == [with(i) EXCEPT !.active = BackOnShelf(i, with(i))]
           new == [i \in Items |-> IF i \in ItemsOf(order[e]) THEN back(i) ELSE NoRow]
<1>1. /\ stage[e] = "locking" /\ ToLock(e) = {}
      /\ work' = [work EXCEPT ![e] = new] /\ stage' = [stage EXCEPT ![e] = "writing"]
      /\ UNCHANGED <<dbVars, orderLock, order, target, cache>>
  BY DEF Return
<1>2. orders[order[e]] \in Order
  BY <1>1 DEF BesideInv, OrderIsThere, StaffTypeOK, DBTypeOK, Exists
<1>3. ASSUME NEW i \in ItemsOf(order[e]) PROVE back(i) \in Row
  <2>1. cache[e][i] \in Row /\ orders[order[e]].qty[i] \in Nat
    BY <1>1, <1>2 DEF BesideInv, ObjectsLoaded, Order, ItemsOf
  <2> DEFINE w == with(i)
             b == BackOnShelf(i, w)
  <2>2. w \in Row
    BY <2>1 DEF Row
  <2>3. b \in BOOLEAN
    BY <2>2 DEF BackOnShelf, Row
  <2> HIDE DEF w, b
  <2>4. [w EXCEPT !.active = b] \in Row
    BY <2>2, <2>3 DEF Row
  <2> QED BY <2>4 DEF w, b
<1>4. new \in Objects /\ \A i \in Items \ ItemsOf(order[e]) : new[i] = NoRow
  BY <1>3 DEF Objects
<1> HIDE DEF new
<1> QED BY <1>1, <1>4, ComputedTouches

LEMMA TakeTouches ==
  ASSUME BesideInv, NEW e \in Staff, Take(e) PROVE StaffTypeOK' /\ Touches(e)
<1> DEFINE without(i) == [cache[e][i] EXCEPT !.stock = @ - orders[order[e]].qty[i]]
           taken(i) == [without(i) EXCEPT !.active = @ /\ Avail(without(i)) > 0]
           new == [i \in Items |-> IF i \in ItemsOf(order[e]) THEN taken(i) ELSE NoRow]
<1>1. /\ stage[e] = "locking" /\ ToLock(e) = {}
      /\ UNCHANGED <<dbVars, orderLock, order, target, cache>>
  BY DEF Take
<1>2. orders[order[e]] \in Order /\ work \in [Staff -> Objects]
  BY <1>1 DEF BesideInv, OrderIsThere, StaffTypeOK, DBTypeOK, Exists
<1>3. ASSUME NEW i \in ItemsOf(order[e]) PROVE taken(i) \in Row
  <2>1. cache[e][i] \in Row /\ orders[order[e]].qty[i] \in Nat
    BY <1>1, <1>2 DEF BesideInv, ObjectsLoaded, Order, ItemsOf
  <2> DEFINE w == without(i)
             b == w.active /\ Avail(w) > 0
  <2>2. w \in Row
    BY <2>1 DEF Row
  <2>3. b \in BOOLEAN
    OBVIOUS
  <2>4. taken(i) = [w EXCEPT !.active = b]
    OBVIOUS
  <2> HIDE DEF w, b, taken
  <2> QED BY <2>2, <2>3, <2>4 DEF Row
<1>4. new \in Objects /\ \A i \in Items \ ItemsOf(order[e]) : new[i] = NoRow
  BY <1>3 DEF Objects
<1>5. \/ stage' = [stage EXCEPT ![e] = "closing"] /\ work' = work
      \/ stage' = [stage EXCEPT ![e] = "writing"] /\ work' = [work EXCEPT ![e] = new]
  BY DEF Take
<1> HIDE DEF new
<1>6. work[e] \in Objects /\ work = [work EXCEPT ![e] = work[e]]
  BY <1>2
<1> QED BY <1>1, <1>4, <1>5, <1>6, ComputedTouches

LEMMA LeavesAlone ==
  ASSUME BesideInv, NEW e \in Staff, Leave(e), rows' \in [Items -> Row],
         \A i \in Items : rowLock[i] # e => rows'[i] = rows[i],
         orders' \in [OrderIds -> Order \cup {NoOrder}],
         \A o \in OrderIds :
            /\ Exists(o)' <=> Exists(o)
            /\ Exists(o) => /\ orders'[o].token = orders[o].token
                            /\ orders'[o].qty = orders[o].qty
  PROVE  StaffTypeOK' /\ Touches(e)
<1>1. StaffTypeOK'
  BY LeaveType DEF BesideInv
<1> QED BY <1>1, LeaveIs DEF BesideInv, Touches

LEMMA EndTouches ==
  ASSUME BesideInv, NEW e \in Staff, Close(e) \/ Lost(e)
  PROVE  StaffTypeOK' /\ Touches(e)
<1>1. Leave(e) /\ rows' = rows /\ orders' = orders
  BY DEF Close, Lost
<1> QED BY <1>1, LeavesAlone DEF BesideInv, StaffTypeOK, DBTypeOK, Exists

LEMMA CommitTouches ==
  ASSUME BesideInv, NEW e \in Staff, CommitStatus(e) PROVE StaffTypeOK' /\ Touches(e)
<1>1. /\ Leave(e) /\ stage[e] = "writing" /\ rows' = [i \in Items |-> Flushed(i, e)]
      /\ orders' = [orders EXCEPT ![order[e]].status = target[e]]
  BY DEF CommitStatus
<1>2. rows' \in [Items -> Row]
  BY <1>1, FlushedIs DEF BesideInv
<1>3. \A i \in Items : rowLock[i] # e => rows'[i] = rows[i]
  BY <1>1, FlushedIs DEF BesideInv, WritesAreLocked
<1>4. /\ order[e] \in OrderIds /\ orders[order[e]] \in Order /\ target[e] \in Statuses
      /\ orders \in [OrderIds -> Order \cup {NoOrder}] /\ Exists(order[e])
  BY <1>1 DEF BesideInv, OrderIsThere, StaffTypeOK, DBTypeOK, Exists
<1> DEFINE new == [orders[order[e]] EXCEPT !.status = target[e]]
<1>5. /\ new \in Order /\ new # NoOrder /\ new.token = orders[order[e]].token
      /\ new.qty = orders[order[e]].qty
  BY <1>4, MarkersAssumption DEF Order
<1>6. orders' = [orders EXCEPT ![order[e]] = new]
  BY <1>1
<1> HIDE DEF new
<1>7. orders' \in [OrderIds -> Order \cup {NoOrder}]
  BY <1>4, <1>5, <1>6
<1>8. \A o \in OrderIds :
        /\ Exists(o)' <=> Exists(o)
        /\ Exists(o) => /\ orders'[o].token = orders[o].token
                        /\ orders'[o].qty = orders[o].qty
  BY <1>4, <1>5, <1>6 DEF Exists
<1> QED BY <1>1, <1>2, <1>3, <1>7, <1>8, LeavesAlone

LEMMA StaffTouches ==
  ASSUME BesideInv, StaffNext PROVE StaffTypeOK' /\ \E e \in Staff : Touches(e)
<1> PICK e \in Staff : Open(e) \/ Advance(e) \/ LockItem(e) \/ Lost(e)
  BY DEF StaffNext
<1> QED BY OpenTouches, LoadTouches, LockItemTouches, ReturnTouches, TakeTouches,
           CommitTouches, EndTouches DEF Advance

\* What a checkout has read and decided on outlasts a step of staff.
LEMMA StaffBeside ==
  ASSUME DeskInv, StaffNext, UNCHANGED checkoutVars PROVE DeskInv'
<1>1. StaffTypeOK' /\ BesideInv
  BY StaffTouches DEF DeskInv
<1> PICK e \in Staff : Touches(e)
  BY StaffTouches DEF DeskInv
<1>2. UNCHANGED <<sess, shown, minted, pc, on, data, form, seen, reply>>
  BY DEF checkoutVars, reqVars
<1>3. TypeOK'
  BY <1>1, <1>2 DEF DeskInv, IInv, TypeOK, StaffTypeOK
<1>4. \A p \in Workers, i \in Items :
        rowLock[i] = p => rowLock'[i] = p /\ rows'[i] = rows[i]
  BY Strangers, CheckoutAssumption DEF Touches
<1>5. /\ \A o \in OrderIds : Exists(o)' <=> Exists(o)
      /\ \A o \in OrderIds : Exists(o) => orders'[o].token = orders[o].token
      /\ \A o \in OrderIds : Exists(o) => orders'[o].qty = orders[o].qty
  BY DEF Touches
<1>6. Entered' /\ Rendered' /\ Unread' /\ Prepared'
  BY <1>2 DEF DeskInv, IInv, Entered, Rendered, Unread, Prepared, Unlocked
<1>7. HeldRowsAreFresh'
  BY <1>2, <1>4 DEF DeskInv, IInv, HeldRowsAreFresh
<1>8. TokenReserved' /\ OneOrderPerToken'
  BY <1>2, <1>5 DEF DeskInv, IInv, TokenReserved, TokenUsed, OneOrderPerToken
<1>9. Checked'
  BY <1>2 DEF DeskInv, Checked, CartFits
<1>10. ASSUME NEW x \in Staff \ {e}
       PROVE  /\ stage'[x] = stage[x] /\ order'[x] = order[x]
              /\ cache'[x] = cache[x] /\ work'[x] = work[x]
              /\ \A i \in Items : rowLock[i] = x => rowLock'[i] = x
  BY <1>10, StatusAssumption DEF Touches
<1>11. OrderIsThere'
  BY <1>1, <1>5, <1>10 DEF BesideInv, OrderIsThere, Touches
<1>12. ObjectsLoaded'
  BY <1>1, <1>5, <1>10 DEF BesideInv, OrderIsThere, ObjectsLoaded, Touches, ItemsOf
<1>13. WritesAreLocked'
  BY <1>1, <1>10 DEF BesideInv, WritesAreLocked, Touches
<1> QED BY <1>1, <1>3, <1>6, <1>7, <1>8, <1>9, <1>11, <1>12, <1>13
        DEF DeskInv, IInv, BesideInv

LEMMA DeskStep == DeskInv /\ [DeskNext]_allVars => DeskInv'
<1> SUFFICES ASSUME DeskInv, [DeskNext]_allVars PROVE DeskInv'
  OBVIOUS
<1>1. CASE UNCHANGED allVars
  BY <1>1, CheckoutBeside DEF allVars
<1>2. CASE Next /\ UNCHANGED staffVars
  BY <1>2, CheckoutBeside
<1>3. CASE StaffNext /\ UNCHANGED checkoutVars
  BY <1>3, StaffBeside
<1> QED BY <1>1, <1>2, <1>3 DEF DeskNext

LEMMA DeskInvariant == DeskSafety => []DeskInv
  BY DeskBegins, DeskStep, PTL DEF DeskSafety

\* A status change of staff never comes between what a checkout has read under
\* its locks and what it writes, although its own objects may be stale.
THEOREM FreshBesideStaff == DeskSafety => []HeldRowsAreFresh
<1>1. DeskInv => HeldRowsAreFresh
  BY DEF DeskInv, IInv
<1> QED BY <1>1, DeskInvariant, PTL

\* One order per form while staff cancels and takes orders back, and beside
\* the orders already there.
THEOREM OneOrderBesideStaff == DeskSafety => []OneOrderPerToken
<1>1. DeskInv => OneOrderPerToken
  BY DEF DeskInv, IInv
<1> QED BY <1>1, DeskInvariant, PTL

\* What a checkout commits was there, whatever staff gave back or took at the
\* same time.
THEOREM OrdersFitBesideStaff == DeskSafety => SingleLineOrdersFit
<1>1. [][Fits]_vars => SingleLineOrdersFit
  BY DEF Fits, SingleLineOrdersFit
<1>2. DeskInv /\ [DeskNext]_allVars => [Fits]_vars
  <2> SUFFICES ASSUME DeskInv, DeskNext PROVE [Fits]_vars
    BY DEF allVars
  <2>1. CASE Next
    BY <2>1, CommitsFit DEF DeskInv
  <2>2. CASE UNCHANGED checkoutVars
    BY <2>2 DEF Fits, checkoutVars, reqVars
  <2> QED BY <2>1, <2>2 DEF DeskNext
<1> QED BY <1>1, <1>2, DeskInvariant, PTL DEF DeskSafety
=============================================================================
