\* Customers overlap with an unloading on PostgreSQL.
SPECIFICATION PreorderSafety
CONSTANTS
    NItems = 3
    Product <- SameProduct
    NoRow = NoRow
    Supplies = {"lorry", "truck", "onec"}
    SupplyOf <- FromThree
    Manual = {"lorry", "truck"}
    Service = {}
    Users = {"anna"}
    PreorderIds = {o1, o2}
    MaxPreorder = 2
    Unloaders = {c1}
    Database = "postgresql"
    Unused = Unused
    Gone = Gone
    Admins = {c1}
    Robots = {c1}
    Threads = {p1}
    Devices = {"anna"}
    Owner <- OwnDevice
    Wishes = {1}
    MinPacks <- Minimum1
    Uses = {"add", "remove", "move"}
    Overlap = TRUE
    Traffic = {"unload", "overdue", "sell"}
    EditsTo = {"expected", "onTheWay", "arrived", "unloaded"}
    Packs = {1, 2}
    MaxStock = 2
    InitRows <- TwoLorries
    InitStatus <- TwoComing
SYMMETRY Ids
INVARIANTS
    OneWaitingEach
PROPERTIES
    GoodsOf1CStay
