\* PostgreSQL: an exchange, a file and the pages of staff at the same time.
SPECIFICATION Spec
CONSTANTS
    k1 = k1
    k2 = k2
    plain = plain
    capital = capital
    g1 = g1
    Keys = {k1, k2}
    Forms = {plain}
    Codes = {e1, e2}
    Goods = {g1}
    Sessions = {s1, s2}
    Legacy <- OldOfFirst
    Guess <- NamedFirst
    Other <- NothingElse
    Defaults <- StartSet
    Overlap = TRUE
    Postgres = TRUE
    MaxId = 3
    MaxLines = 1
    Blank = Blank
    None = None
SYMMETRY Alike
INVARIANTS
    OneEntryPerCode
PROPERTIES
    CodeIsKept
