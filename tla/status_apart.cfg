\* Two staff sessions on two orders that share no stock row; both may pick the
\* same order.
SPECIFICATION StatusSafety
CONSTANTS
    NItems = 3
    OrderIds = {o1, o2}
    Tokens = {t1}
    Txns = {a1, a2}
    Staff = {a1, a2}
    NoOne = NoOne
    NoOrder = NoOrder
    NoToken = NoToken
    NoRow = NoRow
    Product <- Separate
    Supply <- MixedSupplies
    MaxStock = 5
    InitStock <- Shelves
    InitOrders <- Disjoint
SYMMETRY Alike
PROPERTIES
    StockFollowsOrders
    RetakenOrdersFit
    CancelledGoodsAreBack
