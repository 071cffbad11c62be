CONSTANTS
    Products = {p1}
    Sessions = {s1, s2}
    Editors = {}
    Operations = {"sale", "stockIn"}
    Quantities = {1}
    Costs = {1}
    CartLength = 1
    InitialStock = {1}
    ReceiptLimit = 3
    ColumnLimit = 3
    LedgerBound = 3
SPECIFICATION Spec
INVARIANT LedgerInSync
