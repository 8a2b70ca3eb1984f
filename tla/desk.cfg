\* A customer and a member of staff on the same rows: checkouts stay sound and
\* nobody waits for ever.
SPECIFICATION DeskSpec
CONSTANTS
    NItems = 2
    OrderIds = {o1, o2, o3}
    Tokens = {t1}
    Txns = {w1, a1}
    Workers = {w1}
    Staff = {a1}
    Sessions = {s1}
    NoOne = NoOne
    NoOrder = NoOrder
    NoToken = NoToken
    NoRow = NoRow
    Product <- Separate
    MinPacks <- Minimum1
    Supply <- From1C
    MaxStock = 3
    InitRows <- Shelf
    InitCarts <- Carts
    InitOrders <- OneOld
    Routes = {}
    Wanted = {}
INVARIANTS
    HeldRowsAreFresh
PROPERTIES
    EveryRequestEnds
    EveryStatusChangeEnds
