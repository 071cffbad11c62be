CONSTANTS
    Products = {p1, p2}
    Sessions = {s1, s2}
    Editors = {}
    Operations = {"stockIn", "adjust", "revalue", "sale", "packageSale", "supplierReturn"}
    Quantities = {1, 2}
    Costs = {1, 2}
    CartLength = 2
    InitialStock = {0, 1, 2}
    ReceiptLimit = 2
    ColumnLimit = 3
    LedgerBound = 3
SPECIFICATION FamilySpec
INVARIANTS LedgerInSync
PROPERTIES ImplementsLedger RequestsEnd
