----------------------------- MODULE CheckoutMC -----------------------------
(***************************************************************************)
(* Small instances of Checkout.  Positions, rows and carts are given here; *)
(* the threads, sessions and tokens are model values of each .cfg.         *)
(***************************************************************************)
EXTENDS Checkout, TLC

R(stock, reserved) ==
    [stock |-> stock, reserved |-> reserved, active |-> stock > reserved]

OnShelf(n) == [NoLine EXCEPT !["shelf"] = n]

OneRow  == {<<R(2, 1)>>}
TwoRows == {<<R(2, 0), R(2, 1)>>}
FewRows == {<<R(2, 1), R(1, 0)>>}
SinglePacks == {<<R(1, 0), R(1, 0)>>}

Empty == {EmptyCart}

\* One line per position; the last one was moved from a preorder and may
\* take the packs that are reserved.
Ordinary == {<<OnShelf(1), OnShelf(1)>>, <<OnShelf(2), NoLine>>,
             <<NoLine, [NoLine EXCEPT !["pre"] = 2]>>}
OverlapFirst == {<<OnShelf(1), OnShelf(1)>>, <<OnShelf(1), NoLine>>}
\* Of the moved position fewer packs are left than the preorder was for.
TooMany  == {<<OnShelf(1), OnShelf(1)>>, <<NoLine, [NoLine EXCEPT !["pre"] = 2]>>}
OneEach  == {<<OnShelf(1), OnShelf(1)>>}

Minimum1 == [i \in Items |-> 1]
Separate == [i \in Items |-> i]      \* every position is another product
Batches  == [i \in Items |-> 1]      \* batches of one product

\* Threads, browsers and tokens can be told apart by nothing but their use.
Alike == Permutations(Workers) \cup Permutations(Sessions) \cup Permutations(Tokens)
=============================================================================
