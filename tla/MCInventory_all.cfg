CONSTANTS
    Products = {p1}
    Sessions = {s1, s2}
    Editors = {e1}
    Operations = {"stockIn", "adjust", "revalue", "sale", "packageSale", "purchase", "customerReturn", "supplierReturn"}
    Quantities = {1}
    Costs = {1, 2}
    CartLength = 1
    InitialStock = {1}
    ReceiptLimit = 2
    ColumnLimit = 2
    LedgerBound = 1
SYMMETRY Symmetric
SPECIFICATION Spec
INVARIANTS TypeOK StockInRange CostWithinPrices
PROPERTIES LockedRowStable
