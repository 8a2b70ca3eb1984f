\* One request, unloading or page at a time, each may be cut off anywhere. A second
\* lorry is entered, edited and deleted beside one on its way and a batch of 1C.
SPECIFICATION PreorderSafety
CONSTANTS
    NItems = 3
    Product <- SameProduct
    NoRow = NoRow
    Supplies = {"lorry", "truck", "onec"}
    SupplyOf <- FromThree
    Manual = {"lorry", "truck"}
    Service = {"onec"}
    Users = {"anna", "boris"}
    PreorderIds = {o1, o2}
    MaxPreorder = 2
    Unloaders = {c1}
    Database = "sqlite"
    Unused = Unused
    Gone = Gone
    Admins = {c1}
    Robots = {c1}
    Threads = {p1}
    Devices = {"anna", "boris"}
    Owner <- OwnDevice
    Wishes = {1, 2}
    MinPacks <- Minimum1
    Uses = {"add", "remove", "move"}
    Overlap = FALSE
    Traffic = {"unload", "overdue", "edit", "deactivate", "sell", "enter", "recount", "delete"}
    EditsTo = {"unloaded"}
    Packs = {1}
    MaxStock = 2
    InitRows <- SlotAnd1C
    InitStatus <- OneOfThree
SYMMETRY Ids
INVARIANTS
    ReserveHasOwners
    OneSupplyOnShelf
    PreordersPointAtLines
