------------------------- MODULE MigrationScripts -------------------------
(* What the migrations of the database do, up and down, in the order in     *)
(* which they run. A statement is abstracted to the schema objects it       *)
(* needs, makes and drops: "table", "table.column", "table:key", "#ACCOUNT" *)
(* for a seeded row under a unique key. Types, lengths and default values   *)
(* are left out.                                                            *)
EXTENDS Integers, Sequences, FiniteSets, SequencesExt

-----------------------------------------------------------------------------
(* Statements.                                                             *)

Statement(op, makes, needs) == [op |-> op, makes |-> makes, needs |-> needs]

\* Fails when an object it makes is there already.
Make(makes, needs) == Statement("make", makes, needs)
\* Looks first, or says IF NOT EXISTS or INSERT IGNORE.
Ensure(makes, needs) == Statement("ensure", makes, needs)
\* MODIFY, UPDATE: may be repeated.
Change(needs) == Statement("change", {}, needs)
\* Copies rows in under a unique key or a CHECK that refuses them a second
\* time; makes nothing in an empty shop.
Copy(makes, needs) == Statement("copy", makes, needs)
\* Inserts lines of the journal, which have no key but their own id.
Post(needs) == Statement("post", {}, needs)
\* Inserts them only where no such line is there yet.
PostMissing(needs) == Statement("postMissing", {}, needs)
Drop(drops) == Statement("drop", {}, drops)
DropPresent(drops) == Statement("dropPresent", drops, {})

Refused == <<Statement("refuse", {}, {})>>
Migration(up, down) == [up |-> up, down |-> down]

Table(name, references) ==
    Migration(<<Make({name}, references)>>, <<Drop({name})>>)
Columns(table, columns) ==
    Migration(<<Make(columns, {table})>>, <<Drop(columns)>>)
Widen(table) == Migration(<<Change({table})>>, <<Change({table})>>)

-----------------------------------------------------------------------------
(* The migrations.                                                         *)

CreateCustomersTable == Table("customers", {})
CreateProductsTable ==
    Migration(<<Make({"products", "products.category", "products:category"}, {})>>,
              <<Drop({"products", "products.category", "products:category"})>>)
CreateServicesTable == Table("services", {})
CreateTransactionsTable == Table("transactions", {"customers"})
CreateUsersTable == Table("users", {})
CreateTransactionItemsTable ==
    Table("transaction_items", {"transactions", "products", "services"})
CreatePackagesTable == Table("packages", {})
CreatePackageItemsTable == Table("package_items", {"packages", "services", "products"})

AddPackageIdToTransactionItems ==
    Migration(<<Make({"transaction_items.package_id"}, {"transaction_items"}),
                Make({"transaction_items:fk_package"}, {"transaction_items.package_id", "packages"}),
                Make({"transaction_items:package"}, {"transaction_items.package_id"})>>,
              <<Drop({"transaction_items:fk_package"}), Drop({"transaction_items:package"}),
                Drop({"transaction_items.package_id"})>>)

CreateStockMovementsTable == Table("stock_movements", {"products"})
CreateEmployeesTable == Table("employees", {})
CreateSalaryPaymentsTable == Table("salary_payments", {"employees"})
CreateExpensesTable == Table("expenses", {})

CreateCategoriesTable ==
    Migration(<<Make({"categories"}, {}), Make({"#categories"}, {"categories"})>>,
              <<Drop({"categories", "#categories"})>>)

AddCategoryIdToProducts ==
    Migration(<<Drop({"products:category"}),
                Make({"products.category_id"}, {"products"}),
                Change({"products.category_id", "products.category", "#categories"}),
                Change({"products.category_id"}),
                Make({"products:category"}, {"products.category_id"}),
                Make({"products:fk_category"}, {"products.category_id", "categories"}),
                Drop({"products.category"})>>,
              <<Make({"products.category"}, {"products"}),
                Change({"products.category", "products.category_id", "categories"}),
                Make({"products:category"}, {"products.category"}),
                Drop({"products:fk_category"}), Drop({"products:category"}),
                Drop({"products.category_id"})>>)

AddCategoryIdToServices ==
    Migration(<<Make({"services.category_id"}, {"services"}),
                Change({"services.category_id", "#categories"}),
                Change({"services.category_id"}),
                Make({"services:category"}, {"services.category_id"}),
                Make({"services:fk_category"}, {"services.category_id", "categories"})>>,
              <<Drop({"services:fk_category"}), Drop({"services:category"}),
                Drop({"services.category_id"})>>)

AddPackageItemType == Widen("transaction_items")
CreatePayPeriodsTable == Table("pay_periods", {})

AddVatToTransactions ==
    Migration(<<Ensure({"transactions.vat_rate_percent"}, {"transactions"}),
                Ensure({"transactions.vat_minor"}, {"transactions.vat_rate_percent"})>>,
              <<Drop({"transactions.vat_minor", "transactions.vat_rate_percent"})>>)

AddPayPeriodIdToSalaryPayments ==
    Migration(<<Make({"salary_payments.pay_period_id"}, {"salary_payments"}),
                Make({"salary_payments:period"}, {"salary_payments.pay_period_id"}),
                Make({"salary_payments:fk_period"}, {"salary_payments.pay_period_id", "pay_periods"})>>,
              <<Drop({"salary_payments:fk_period"}), Drop({"salary_payments:period"}),
                Drop({"salary_payments.pay_period_id"})>>)

CreateAttendanceTable == Table("attendance_records", {"employees"})
AddDefaultPaymentMethodToEmployees == Columns("employees", {"employees.default_payment_method"})

ReplacePayPeriodsWithYearMonth ==
    Migration(<<Make({"pay_periods.year"}, {"pay_periods"}),
                Make({"pay_periods.month"}, {"pay_periods.year"}),
                Change({"pay_periods.year", "pay_periods.month"}),
                Change({"pay_periods.year"}), Change({"pay_periods.month"}),
                Make({"pay_periods:year_month"}, {"pay_periods.year", "pay_periods.month"})>>,
              <<Drop({"pay_periods:year_month"}), Drop({"pay_periods.month"}),
                Drop({"pay_periods.year"})>>)

AddPhotoUrlToEmployees == Columns("employees", {"employees.photo_url"})
AddSalaryPaymentDisbursementDetails ==
    Columns("salary_payments", {"salary_payments.disbursement"})
AddAdvanceAdjustmentPaymentType == Widen("salary_payments")
AddSalaryPaymentBonusAndOvertimeDetails ==
    Columns("salary_payments", {"salary_payments.bonus_and_overtime"})
AddEmployeeIdentityAndAddresses ==
    Columns("employees", {"employees.identity_and_addresses"})

Entries == "accounting_journal_entries"
Accounts == "accounting_accounts"
Journal == {Entries, Accounts, "accounting_journal_lines"}
\* The column, unique key and foreign key that tie an entry to its document.
Source(document) == {document \o "Source", document \o ":uq", document \o ":fk"}

CreateAccountingJournal ==
    Migration(<<Make({Accounts}, {}), Make({"#CASH", "#BANK", "#OWNER"}, {Accounts}),
                Make({Entries}, {}), Make({"accounting_journal_lines"}, {Entries, Accounts})>>,
              <<Drop({"accounting_journal_lines"}), Drop({Entries}),
                Drop({Accounts, "#CASH", "#BANK", "#OWNER"})>>)

PostExpensesToAccounting ==
    Migration(<<Change({Accounts}), Make({"#EXPENSES"}, Journal),
                Make(Source("expense"), {Entries, "expenses"}),
                Copy({"entries of expenses"}, Source("expense")),
                Post({"#EXPENSES"}), Post({"#EXPENSES", "#CASH"})>>,
              <<Change(Journal), DropPresent({"entries of expenses"}),
                Drop(Source("expense")), Drop({"#EXPENSES"}), Change({Accounts})>>)

PostSalesToAccounting ==
    Migration(<<Change({Accounts}), Make({"#SALES"}, Journal),
                Make(Source("sale"), {Entries, "transactions"}),
                Copy({"entries of sales"}, Source("sale")),
                Post({"#CASH"}), Post({"#SALES"}), Post({"#SALES", "transactions.vat_minor"})>>,
              <<Change(Journal), DropPresent({"entries of sales"}),
                Drop(Source("sale")), Drop({"#SALES"}), Change({Accounts})>>)

AddPurchasesAndCostAccounting ==
    Migration(<<Change({Accounts}), Make({"#INVENTORY"}, {Accounts}),
                Make({"purchaseSource", "purchase:uq"}, {Entries}),
                Make({"transactions.cogs"}, {"transactions"}),
                Make({"transaction_items.cogs"}, {"transaction_items"}),
                Change({"transaction_items.cogs", "products"}),
                Change({"transaction_items.cogs", "package_items", "transaction_items.package_id"}),
                Change({"transactions.cogs", "transaction_items.cogs"}),
                Post({"#INVENTORY", "saleSource"}),
                Change({"stock_movements"}),
                Make({"purchases"}, {}), Make({"purchase_lines"}, {"purchases", "products"}),
                Make({"purchase:fk"}, {"purchaseSource", "purchases"})>>,
              <<Drop({"purchase:fk"}), Change(Journal), Change(Journal), Change(Journal),
                Drop({"purchase_lines"}), Drop({"purchases"}), Change({"stock_movements"}),
                Drop({"transactions.cogs"}), Drop({"transaction_items.cogs"}),
                Drop({"purchaseSource", "purchase:uq"}), Drop({"#INVENTORY"})>>)

CompleteInventoryCostAccounting ==
    Migration(<<Change({Entries}), Ensure({"#OPENING_BALANCE_EQUITY"}, {Accounts}),
                Change({"transaction_items.cogs", "saleSource"}),
                Change({"transaction_items.cogs", "package_items"}),
                Change({"transactions.cogs", "transaction_items.cogs"}),
                PostMissing({"#INVENTORY", "saleSource"}),
                Change({"#INVENTORY"}),
                Copy({"opening entry"}, {Entries}),
                Copy({"opening lines"}, {"#OPENING_BALANCE_EQUITY"})>>,
              Refused)

PostPayrollPaymentsToAccounting ==
    Migration(<<Make(Source("salary"), {Entries, "salary_payments"}),
                Ensure({"#PAYROLL"}, {Accounts}),
                Copy({"entries of salaries"}, Source("salary") \cup {"employees"}),
                Post({"#PAYROLL", "#CASH"})>>,
              <<Change(Journal), DropPresent({"entries of salaries"}), Drop(Source("salary")),
                Drop({"#PAYROLL"})>>)

ReturnSource == {"returnSource", "return:uq"}
PostInventoryAdjustmentsToAccounting ==
    Migration(<<Make(Source("movement") \cup ReturnSource, {Entries, "stock_movements"}),
                Make({"sales_returns"}, {"transactions"}),
                Make({"sales_return_lines"}, {"sales_returns", "transaction_items", "products"}),
                Make({"return:fk"}, {"returnSource", "sales_returns"}),
                Ensure({"#SHRINKAGE"}, {Accounts})>>,
              <<Change(Journal), Change(Journal), Change(Journal), Change(Journal),
                Drop(Source("movement") \cup Source("return")), Drop({"sales_return_lines"}),
                Drop({"sales_returns"}), Drop({"#SHRINKAGE"})>>)

AddSupplierReturnsAndCostRevaluation ==
    LET columns == {"supplierReturnSource", "supplierReturn:uq", "revaluationSource", "revaluation:uq"}
        keys == {"supplierReturn:fk", "revaluation:fk"}
    IN  Migration(<<Make(columns, {Entries}), Change({"stock_movements"}),
                    Make({"supplier_returns"}, {"purchases"}),
                    Make({"supplier_return_lines"}, {"supplier_returns", "purchase_lines", "products"}),
                    Make({"inventory_cost_revaluations"}, {"products"}),
                    Make(keys, columns \cup {"supplier_returns", "inventory_cost_revaluations"}),
                    Ensure({"#VARIANCES"}, {Accounts})>>,
                  <<Change(Journal), Change(Journal), Drop(columns \cup keys),
                    Change({"stock_movements"}), Drop({"supplier_return_lines"}),
                    Drop({"supplier_returns"}), Drop({"inventory_cost_revaluations"}),
                    Drop({"#VARIANCES"})>>)

AddBankReconciliations ==
    Migration(<<Make({"reconciliations"}, {Accounts}),
                Make({"reconciliation_lines"}, {"reconciliations", "accounting_journal_lines"})>>,
              <<Drop({"reconciliation_lines"}), Drop({"reconciliations"})>>)

\* Variant with a mistake: the foreign key of the journal is not repaired.
RepairTablesOnly ==
    Migration(<<Ensure({"sales_returns"}, {"transactions"}),
                Ensure({"sales_return_lines"}, {"sales_returns", "transaction_items", "products"}),
                Ensure({"returnSource"}, {Entries}), Ensure({"return:uq"}, {"returnSource"})>>, <<>>)
RepairSalesReturnLinesTable ==
    Migration(<<Ensure({"sales_returns"}, {"transactions"}),
                Ensure({"sales_return_lines"}, {"sales_returns", "transaction_items", "products"}),
                Ensure({"returnSource"}, {Entries}),
                Ensure({"return:uq"}, {"returnSource"}),
                Ensure({"return:fk"}, {"returnSource", "sales_returns"})>>, <<>>)

AddAccountingPeriodControls ==
    Migration(<<Make({"accounting_periods"}, {}), Make(Source("reversal"), {Entries})>>, Refused)
AddAreaToCustomers == Columns("customers", {"customers.area"})
CreateLoyaltySettings ==
    Migration(<<Make({"loyalty_settings"}, {}), Make({"#loyalty"}, {"loyalty_settings"})>>,
              <<Drop({"loyalty_settings", "#loyalty"})>>)

TrackLoyaltyTransactions ==
    Migration(<<Make({"transactions.loyalty"}, {"transactions"}),
                Change({"transactions.loyalty"}),
                Make({"sales_returns.loyalty"}, {"sales_returns"}),
                Change({"sales_returns.loyalty"})>>,
              <<Drop({"sales_returns.loyalty"}), Drop({"transactions.loyalty"})>>)

SaleColumns == {"transactions.payment_method", "transactions.wallet", "transactions.payment_reference"}
\* Variant with a mistake: the columns are added without looking.
AddSalePaymentDetailsBlindly ==
    Migration([i \in 1 .. 3 |-> Make({SetToSeq(SaleColumns)[i]}, {"transactions"})]
                  \o <<Ensure({"#CARD_CLEARING"}, {Accounts})>>,
              <<DropPresent({"#CARD_CLEARING"}), DropPresent(SaleColumns)>>)
AddSalePaymentDetails ==
    Migration([i \in 1 .. 3 |-> Ensure({SetToSeq(SaleColumns)[i]}, {"transactions"})]
                  \o <<Ensure({"#CARD_CLEARING"}, {Accounts})>>,
              <<DropPresent({"#CARD_CLEARING"}), DropPresent(SaleColumns)>>)

MakeSalesReturnProductOptional == Widen("sales_return_lines")
AddCategoryIconUrl == Columns("categories", {"categories.icon_url"})

-----------------------------------------------------------------------------
(* The order: TypeORM sorts by timestamp; two timestamps occur twice, and  *)
(* those keep the order of the index file.                                 *)

Basics ==
    <<CreateCustomersTable, CreateProductsTable, CreateServicesTable, CreateTransactionsTable,
      CreateUsersTable, CreateTransactionItemsTable, CreatePackagesTable, CreatePackageItemsTable,
      AddPackageIdToTransactionItems, CreateStockMovementsTable, CreateEmployeesTable,
      CreateSalaryPaymentsTable, CreateExpensesTable>>

StaffAndCatalogue ==
    <<CreateCategoriesTable, AddCategoryIdToProducts, AddCategoryIdToServices,
      AddPackageItemType, CreatePayPeriodsTable, AddVatToTransactions,
      AddPayPeriodIdToSalaryPayments, CreateAttendanceTable, AddDefaultPaymentMethodToEmployees,
      ReplacePayPeriodsWithYearMonth, AddPhotoUrlToEmployees,
      AddSalaryPaymentDisbursementDetails, AddAdvanceAdjustmentPaymentType,
      AddSalaryPaymentBonusAndOvertimeDetails, AddEmployeeIdentityAndAddresses>>

Books ==
    <<CreateAccountingJournal, PostExpensesToAccounting, PostSalesToAccounting,
      AddPurchasesAndCostAccounting, CompleteInventoryCostAccounting,
      PostPayrollPaymentsToAccounting, PostInventoryAdjustmentsToAccounting,
      AddSupplierReturnsAndCostRevaluation, AddBankReconciliations,
      RepairSalesReturnLinesTable, AddAccountingPeriodControls>>

migrations ==
    Basics \o StaffAndCatalogue \o Books
        \o <<AddAreaToCustomers, CreateLoyaltySettings, TrackLoyaltyTransactions,
             AddSalePaymentDetails, MakeSalesReturnProductOptional, AddCategoryIconUrl>>

Repair == 38                      \* RepairSalesReturnLinesTable
ReturnTables == {35, 36, 37}      \* from where the tables exist until it runs
Guarded == {17, 19, 26, 38, 43, 44} \* migrations of statements that may be repeated

N == Len(migrations)
Copied == UNION {st.makes : st \in {st \in UNION {Range(migrations[m].up) : m \in 1 .. N} :
                                      st.op = "copy"}}
Posts == {p \in (1 .. N) \X (1 .. 13) :
             /\ p[2] \in DOMAIN migrations[p[1]].up
             /\ migrations[p[1]].up[p[2]].op \in {"post", "postMissing"}}

\* What the first n migrations make of an empty database, rows aside: what
\* the last of them to touch it makes. No migration drops what it made itself.
Made(m) == UNION {st.makes : st \in Range(migrations[m].up)} \ Copied
Dropped(m) == UNION {st.needs : st \in {st \in Range(migrations[m].up) : st.op = "drop"}} \ Made(m)
Changes == [m \in 1 .. N |-> [made |-> Made(m), dropped |-> Dropped(m)]]
After(n) ==
    UNION {Changes[m].made \ UNION {Changes[k].dropped : k \in m + 1 .. n} : m \in 1 .. n}
=============================================================================
