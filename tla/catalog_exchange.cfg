\* Two exchanges and staff on the same products; goods with a name and no other key.
SPECIFICATION Spec
CONSTANTS
    g = g
    h = h
    bar = bar
    nameA = nameA
    nameB = nameB
    s1 = s1
    s2 = s2
    Goods = {g, h}
    Bars = {}
    Skus = {}
    Names = {nameA, nameB}
    Sessions = {s1, s2}
    Kinds = {"products", "supplies"}
    Staff = {"add", "edit", "delete"}
    Locked = TRUE
    MaxId = 2
    MaxRows = 2
    Stocks = {1}
    Blank = Blank
    None = None
INVARIANTS
    OneCardPerGood
    GoodsKeepApart
PROPERTIES
    CardKeepsItsGood
    BadLineKeepsStock
SYMMETRY Symmetry
