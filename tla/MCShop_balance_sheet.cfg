CONSTANTS
    c1 = c1
    s1 = s1
    s2 = s2
    Guest = Guest
    None = None
    Customers = {c1}
    Names = {1}
    Sessions = {s1, s2}
    Operations = {"sale", "settings"}
    Bills = {1, 2}
    Versions <- ShopVersions
    Pool = 3
    MaxSequence = 2
    LastDay = 2
    SpendLimit = 3
    MayOverlap = FALSE
    Invoices = {1, 2}
    Positions = {1, 2}
    Sold <- ShopSold
    Buyers = {c1}
    Clerks = {s1, s2}
    Openings <- ShopOpenings
    BookLedger <- ShopBookLedger
    BankLedger <- ShopBankLedger
    PurchasePositions = {1, 2, 3}
    PurchaseOf <- ShopPurchaseOf
    Quantity <- ShopQuantity
    Managers = {s1, s2}
    MaxSales = 1
    Components = {"a", "b"}
    Prices <- ShopPrices
    PackagePrices = {1, 2}
    Packages = {"p"}
    Users = {"u", "v"}
    Employees = {"e"}
    Clients = {"b1", "b2"}
    Passwords = {1, 2}
    MaxEdits = 2
    Grace = 2
    Warning = 1
    MonthLength = 2
    LastTick = 3
    Offsets = {0, 1}
    MaxSettings = 1
    MaxSleep = 1
    MaxRemoved = 0
    MaxRestarts = 1
    Requests = {"r1", "r2"}
    FileNames = {1, 2, 3, 4}
    OldArchives <- ShopArchives
    Level = 2
    MaxFailures = 2
    MaxDownloads = 1
    EditedMonth <- ShopEditedMonth
    ValuedMonth <- ShopValuedMonth
    Items = {"i1"}
    Catalogues <- ShopCatalogues
    PointsBefore = 2
    Discounts = {1, 4}
    Cash = {4, 6}
    Methods = {"CASH", "MOBILE"}
    MaxQuantity = 2
    Jobs = {"j1", "j2"}
    Devices = {"d1", "d2"}
    Chunks = 2
    MaxFaults = 2
    MaxVisits = 2
    Answers <- ShopAnswers
    Business = {"tagline"}
    TextStyles <- ShopStyles
    CategoryIds = {1, 2, 3}
    Slugs = {"a", "b"}
    Goods = {"x"}
    MaxWrites = 2
    MaxStarts = 3
SPECIFICATION Spec
INVARIANT BalanceSheetBalances
CHECK_DEADLOCK FALSE
