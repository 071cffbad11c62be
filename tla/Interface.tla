----------------------------- MODULE Interface -----------------------------
(* What the pages of the frontend ask of the API, as tables: the roles each  *)
(* controller demands, the hooks with the prefix of their cache keys, what   *)
(* the mutations do to the cache on success, and the pages with the hooks    *)
(* they use and the route's guard.                                           *)

-----------------------------------------------------------------------------
(* The controllers: whom the guards let through. Anyone is JwtAuthGuard alone,  *)
(* Admin is RolesGuard with @Roles(ADMIN).                                   *)
Anyone == {"ADMIN", "STAFF"}
Admin == {"ADMIN"}
Guarded(read, write) == [read |-> read, write |-> write]

AccountingController == Guarded(Admin, Admin)
AttendanceController == Guarded(Admin, Admin)
CategoriesController == Guarded(Anyone, Admin)
CheckoutController == [write |-> Anyone]
CustomersController == [read |-> Anyone, create |-> Anyone, update |-> Admin]
EmployeesController == Guarded(Admin, Admin)
ExpensesController == Guarded(Admin, Admin)
InventoryController == Guarded(Anyone, Admin)
LoyaltySettingsController == Guarded(Anyone, Admin)
PackagesController == Guarded(Anyone, Admin)
PayPeriodsController == [read |-> Anyone, payables |-> Admin, write |-> Admin]
ProductsController == Guarded(Anyone, Admin)
PurchasesController == Guarded(Admin, Admin)
ReportsController == [read |-> Admin]
SalaryPaymentsController == Guarded(Admin, Admin)
SalesReturnsController == [write |-> Admin]
SalonServicesController == Guarded(Anyone, Admin)
TimeTrustController == [read |-> Anyone]
TransactionsController == [read |-> Anyone]
UsersController == Guarded(Admin, Admin)

-----------------------------------------------------------------------------
(* The queries, by file of hooks: those with one prefix of their cache keys  *)
(* and one guard, by name.                                                   *)
Reads(names, prefix, roles) ==
    {[name |-> name, prefix |-> prefix, roles |-> roles] : name \in names}

AccountingQueries ==
    Reads({"accountingPeriods", "accounts", "journal", "trialBalance", "balanceSheet",
           "reconciliation"}, "accounting", AccountingController.read)
AttendanceQueries ==
    Reads({"attendance", "attendanceSummary"}, "attendance", AttendanceController.read)
CategoryQueries == Reads({"categories", "categoryTree"}, "categories", CategoriesController.read)
CustomerQueries == Reads({"customers", "customer"}, "customers", CustomersController.read)
CustomerTransactionQueries ==
    Reads({"customerTransactions"}, "customer-transactions", CustomersController.read)
DashboardQueries == Reads({"financialSummary"}, "dashboard", ReportsController.read)
EmployeeQueries == Reads({"employees", "employee"}, "employees", EmployeesController.read)
ExpenseQueries == Reads({"expenses"}, "expenses", ExpensesController.read)
InventoryQueries == Reads({"stockHistory"}, "inventory", InventoryController.read)
InventoryStatsQueries == Reads({"inventoryStats"}, "inventory-stats", InventoryController.read)
LoyaltyQueries == Reads({"loyaltySettings"}, "loyalty-settings", LoyaltySettingsController.read)
PackageQueries == Reads({"packages", "package"}, "packages", PackagesController.read)
PayrollQueries ==
    Reads({"payPeriods", "payPeriod"}, "payroll", PayPeriodsController.read)
    \cup Reads({"payables"}, "payroll", PayPeriodsController.payables)
ProductQueries == Reads({"products", "product"}, "products", ProductsController.read)
PurchaseQueries == Reads({"returnableLines"}, "purchases", PurchasesController.read)
ReportQueries ==
    Reads({"revenueTrend", "topItems", "expenseBreakdown"}, "reports", ReportsController.read)
SalaryPaymentQueries ==
    Reads({"periodPayments"}, "salary-payments", PayPeriodsController.read)
    \cup Reads({"employeePayments"}, "salary-payments", SalaryPaymentsController.read)
SalonServiceQueries == Reads({"services"}, "salon-services", SalonServicesController.read)
TimeTrustQueries == Reads({"timeTrust"}, "system", TimeTrustController.read)
TransactionQueries ==
    Reads({"transactions", "transaction"}, "transactions", TransactionsController.read)
UserQueries == Reads({"users"}, "users", UsersController.read)

Queries ==
    UNION {AccountingQueries, AttendanceQueries, CategoryQueries, CustomerQueries,
           CustomerTransactionQueries, DashboardQueries, EmployeeQueries, ExpenseQueries,
           InventoryQueries, InventoryStatsQueries, LoyaltyQueries, PackageQueries,
           PayrollQueries, ProductQueries, PurchaseQueries, ReportQueries,
           SalaryPaymentQueries, SalonServiceQueries, TimeTrustQueries, TransactionQueries,
           UserQueries}

-----------------------------------------------------------------------------
(* The mutations, by file of hooks. On success the hook invalidates the      *)
(* queries under some prefixes, or single ones by name, and may write the    *)
(* answer into an entry of the cache.                                        *)
Hooks(names, roles, prefixes, single, seeds) ==
    {[name |-> name, roles |-> roles, prefixes |-> prefixes, single |-> single,
      seeds |-> seeds] : name \in names}
Stale(hook, query) == query.prefix \in hook.prefixes \/ query.name \in hook.single
Seeded(hook, query) == query.name \in hook.seeds

AccountingMutations ==
    Hooks({"closeMonth", "reverseEntry", "createVoucher", "reconcile"},
          AccountingController.write, {"accounting"}, {}, {})
CategoryMutations ==
    Hooks({"saveCategory", "deleteCategory"}, CategoriesController.write, {"categories"}, {}, {})
CheckoutMutations ==
    Hooks({"checkout"}, CheckoutController.write, {"products", "customers", "inventory"}, {}, {})
CustomerMutations ==
    Hooks({"createCustomer"}, CustomersController.create, {"customers"}, {}, {"customer"})
    \cup Hooks({"updateCustomer"}, CustomersController.update, {"customers"}, {}, {"customer"})
EmployeeMutations ==
    Hooks({"saveEmployee", "deactivate", "uploadPhoto"}, EmployeesController.write,
          {"employees"}, {}, {"employee"})
ExpenseMutations ==
    Hooks({"saveExpense", "deleteExpense"}, ExpensesController.write, {"expenses"}, {}, {})
InventoryMutations ==
    Hooks({"adjustStock"}, InventoryController.write, {},
          {"stockHistory", "product", "products"}, {})
    \cup Hooks({"revalueCost"}, InventoryController.write, {"accounting"},
               {"product", "products"}, {})
LoyaltyMutations ==
    Hooks({"updateLoyalty"}, LoyaltySettingsController.write, {}, {}, {"loyaltySettings"})
PackageMutations ==
    Hooks({"savePackage"}, PackagesController.write, {"packages"}, {}, {"package"})
PayrollMutations ==
    Hooks({"savePeriod", "deletePeriod", "closePeriod"}, PayPeriodsController.write,
          {"payroll"}, {}, {})
    \cup Hooks({"runPayroll"}, PayPeriodsController.write,
               {"payroll", "salary-payments", "employees"}, {}, {})
    \cup Hooks({"payEmployee", "adjustAdvance"}, PayPeriodsController.write,
               {"salary-payments"}, {"payables"}, {})
ProductMutations ==
    Hooks({"saveProduct"}, ProductsController.write, {"products"}, {}, {"product"})
PurchaseMutations ==
    Hooks({"createPurchase"}, PurchasesController.write,
          {"products", "inventory", "accounting"}, {}, {})
    \cup Hooks({"supplierReturn"}, PurchasesController.write,
               {"purchases", "products", "inventory", "accounting"}, {}, {})
SalaryPaymentMutations ==
    Hooks({"createPayment"}, SalaryPaymentsController.write, {"salary-payments", "payroll"}, {}, {})
    \cup Hooks({"deletePayment"}, SalaryPaymentsController.write, {"salary-payments"}, {}, {})
SalesReturnMutations ==
    Hooks({"salesReturn"}, SalesReturnsController.write,
          {"transactions", "reports", "dashboard"}, {}, {})
SalonServiceMutations ==
    Hooks({"saveService"}, SalonServicesController.write, {"salon-services"}, {}, {})
UserMutations ==
    Hooks({"saveUser"}, UsersController.write, {"users"}, {}, {})
    \cup Hooks({"resetPassword"}, UsersController.write, {}, {}, {})

Mutations ==
    UNION {AccountingMutations, CategoryMutations, CheckoutMutations, CustomerMutations,
           EmployeeMutations, ExpenseMutations, InventoryMutations, LoyaltyMutations,
           PackageMutations, PayrollMutations, ProductMutations, PurchaseMutations,
           SalaryPaymentMutations, SalesReturnMutations, SalonServiceMutations, UserMutations}

-----------------------------------------------------------------------------
(* The pages: the queries of a page and its modals, the mutations offered    *)
(* there to anybody, and what isAdmin adds, modals only an admin can open    *)
(* included. The routes say whom they let in.                                *)
Page(name, queries, offers) ==
    [name |-> name, queries |-> queries, offers |-> offers, adminQueries |-> {}, adminOffers |-> {}]
AdminToo(page, queries, offers) ==
    [page EXCEPT !.adminQueries = queries, !.adminOffers = offers]

NewSalePage ==
    Page("pos", {"products", "services", "packages", "categoryTree", "customers",
                 "loyaltySettings"}, {"checkout", "createCustomer"})
SecurityPage == Page("security", {}, {})
ServicesPage == AdminToo(Page("parlour", {"services"}, {}), {}, {"saveService"})
CatalogPage ==
    AdminToo(Page("catalog", {"categoryTree", "products", "services"}, {}), {},
             {"saveProduct", "saveService"})
ProductDetailPage ==
    AdminToo(Page("productDetail", {"product", "stockHistory"}, {}), {"returnableLines"},
             {"saveProduct", "createPurchase", "adjustStock", "supplierReturn", "revalueCost"})
StockPage == Page("stock", {"inventoryStats", "products"}, {})
PackagesPage ==
    AdminToo(Page("packages", {"packages"}, {}), {"products", "services"}, {"savePackage"})
PackageDetailPage ==
    AdminToo(Page("packageDetail", {"package"}, {}), {"products", "services"}, {"savePackage"})
CustomersPage == Page("customers", {"customers"}, {"createCustomer"})
CustomerDetailPage ==
    AdminToo(Page("customerDetail", {"customer", "customerTransactions"}, {}), {},
             {"updateCustomer"})

DashboardPage ==
    Page("dashboard", {"financialSummary", "customers", "topItems", "expenseBreakdown",
                       "revenueTrend"}, {})
SalesReportPage ==
    AdminToo(Page("salesReport", {"transactions", "transaction"}, {}), {}, {"salesReturn"})
AccountsPage ==
    Page("accounts", {"financialSummary", "revenueTrend", "expenseBreakdown", "accounts",
                      "journal", "timeTrust", "reconciliation", "trialBalance",
                      "balanceSheet", "accountingPeriods"},
         {"createVoucher", "reverseEntry", "reconcile", "closeMonth"})
StaffPage ==
    AdminToo(Page("staff", {"employees"}, {}), {}, {"saveEmployee", "deactivate", "uploadPhoto"})
EmployeeDetailPage ==
    AdminToo(Page("employeeDetail", {"employee", "employeePayments"}, {"deletePayment"}), {},
             {"saveEmployee", "uploadPhoto", "createPayment"})
ExpenditurePage == Page("expenditure", {"expenses"}, {"saveExpense", "deleteExpense"})
PayrollPage == Page("payroll", {"timeTrust", "payPeriods"}, {"savePeriod", "deletePeriod"})
PayPeriodDetailPage ==
    Page("payPeriodDetail", {"timeTrust", "payPeriod", "payables", "periodPayments",
                             "attendance", "attendanceSummary"},
         {"closePeriod", "runPayroll", "payEmployee", "adjustAdvance"})
SettingsPage ==
    AdminToo(Page("settings", {"users", "categoryTree", "categories", "loyaltySettings"},
                  {"saveUser", "resetPassword", "saveCategory", "deleteCategory"}), {},
             {"updateLoyalty"})

OpenPages ==
    {NewSalePage, SecurityPage, ServicesPage, CatalogPage, ProductDetailPage, StockPage,
     PackagesPage, PackageDetailPage, CustomersPage, CustomerDetailPage}
AdminPages ==
    {DashboardPage, SalesReportPage, AccountsPage, StaffPage, EmployeeDetailPage,
     ExpenditurePage, PayrollPage, PayPeriodDetailPage, SettingsPage}
Pages == OpenPages \cup AdminPages

\* On screen with every page: the catalogue in the sidebar, the time warning.
Layout == {"categoryTree", "timeTrust"}
=============================================================================
