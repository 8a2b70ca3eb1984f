\* One request at a time: an administrator and an old customer.
SPECIFICATION Spec
CONSTANTS
    People = {olga, anna}
    Founders = {olga}
    Known = {anna}
    Requests = {r1, r2}
    Links = {l1, l2}
    Threads = {t1}
    Absent = Absent
    Nobody = Nobody
    Overlap = FALSE
SYMMETRY Ids
INVARIANTS
    JournalAgrees
    ErasedStaysShut
