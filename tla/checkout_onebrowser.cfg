\* One browser with several tabs: two threads overwrite its session while carts
\* are edited, forms are sent twice and requests die.
SPECIFICATION Safety
CONSTANTS
    NItems = 2
    OrderIds = {o1, o2}
    Tokens = {t1, t2}
    Txns = {w1, w2}
    Workers = {w1, w2}
    Sessions = {s1}
    NoOne = NoOne
    NoOrder = NoOrder
    NoToken = NoToken
    NoRow = NoRow
    Product <- Separate
    MinPacks <- Minimum1
    InitRows <- FewRows
    InitCarts <- TooMany
    Routes = {"add", "update", "view", "clear"}
    Wanted = {2}
SYMMETRY Alike
INVARIANTS
    OneOrderPerToken
PROPERTIES
    SingleLineOrdersFit
    LedgerKept
