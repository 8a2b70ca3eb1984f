\* One product in a batch and without one; messages late, repeated, in part, without lines
\* or lacking one; the shop goes on meanwhile.
SPECIFICATION Spec
CONSTANTS
    a = a
    rose = rose
    o1 = o1
    Invoices = {a}
    Products = {rose}
    Service = service
    Shipped <- TwoInBatch
    OrderIds = {o1}
    NPreorders = 2
    Packs = {1}
    Reserve = TRUE
    Overlap = TRUE
    Stale = TRUE
    Oddities = {"bare", "missing"}
    Odd = {a}
    TellFirst = FALSE
    ResumesAll = TRUE
    None = None
INVARIANTS
    
    
    ArrivedAreServed
PROPERTY
    RepeatChangesNothing
