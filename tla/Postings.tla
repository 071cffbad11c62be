------------------------------ MODULE Postings ------------------------------
(* The journal lines that AccountingService posts for each document of the  *)
(* shop, and what the accounting statements compute from journal lines.     *)
EXTENDS Integers, FiniteSets, FiniteSetsExt, Functions

Assets == {"CASH", "BANK", "MOBILE_WALLET", "CARD_CLEARING", "INVENTORY", "EMPLOYEE_ADVANCES"}
Liabilities == {"VAT_PAYABLE", "ACCOUNTS_PAYABLE", "CARD_PAYABLE", "OTHER_PAYABLE"}
Equities == {"OWNER_CAPITAL", "OWNER_DRAWINGS"}
Gains == {"INVENTORY_ADJUSTMENT_GAIN", "SUPPLIER_RETURN_GAIN", "INVENTORY_REVALUATION_GAIN"}
Losses == {"INVENTORY_SHRINKAGE", "SUPPLIER_RETURN_LOSS", "INVENTORY_REVALUATION_LOSS"}
Revenues == {"SALES_REVENUE"} \cup Gains
Costs == {"COST_OF_GOODS_SOLD", "PAYROLL_EXPENSE", "EXPENSE_RENT"} \cup Losses
Accounts == Assets \cup Liabilities \cup Equities \cup Revenues \cup Costs

\* The account that money of each payment method goes through.
Settlement(method) ==
    CASE method = "CASH"   -> "CASH"
      [] method = "BANK"   -> "BANK"
      [] method = "MOBILE" -> "MOBILE_WALLET"
      [] method = "CREDIT" -> "ACCOUNTS_PAYABLE"
\* A card sale is collected by the acquirer; an expense on a card is owed.
Collection(method) == IF method = "CARD" THEN "CARD_CLEARING" ELSE Settlement(method)
PaidFrom(method) ==
    CASE method = "CARD"  -> "CARD_PAYABLE"
      [] method = "OTHER" -> "OTHER_PAYABLE"
      [] OTHER            -> Settlement(method)

Debit(account, amount) == [account |-> account, debit |-> amount, credit |-> 0]
Credit(account, amount) == [account |-> account, debit |-> 0, credit |-> amount]
Line == [account : Accounts, debit : Nat, credit : Nat]
Entry(debited, credited, amount) == {Debit(debited, amount), Credit(credited, amount)}

\* Only amounts above zero are posted.
Posted(lines) == {l \in lines : l.debit + l.credit > 0}

SaleLines(d) ==
    Posted({Debit(Collection(d.method), d.net + d.vat), Credit("SALES_REVENUE", d.net),
            Credit("VAT_PAYABLE", d.vat), Debit("COST_OF_GOODS_SOLD", d.cogs),
            Credit("INVENTORY", d.cogs)})

\* Variant with a mistake: the VAT of the sale is not taken back.
SalesReturnLinesNoVat(d) ==
    Posted({Debit("SALES_REVENUE", d.net), Debit("INVENTORY", d.cogs),
            Credit("COST_OF_GOODS_SOLD", d.cogs), Credit(Settlement(d.method), d.net + d.vat)})

SalesReturnLines(d) ==
    Posted({Debit("SALES_REVENUE", d.net), Debit("VAT_PAYABLE", d.vat),
            Debit("INVENTORY", d.cogs), Credit("COST_OF_GOODS_SOLD", d.cogs),
            Credit(Settlement(d.method), d.net + d.vat)})

PurchaseLines(d) == Entry("INVENTORY", Settlement(d.method), d.amount)

SupplierPaymentLines(d) == Entry("ACCOUNTS_PAYABLE", Settlement(d.method), d.amount)

\* The goods leave at average cost; what the supplier credits beside is a
\* loss or a gain.
SupplierReturnLines(d) ==
    Posted({Debit(Settlement(d.method), d.amount), Credit("INVENTORY", d.value),
            IF d.amount < d.value THEN Debit("SUPPLIER_RETURN_LOSS", d.value - d.amount)
                                  ELSE Credit("SUPPLIER_RETURN_GAIN", d.amount - d.value)})

\* d.sign tells a shortage (-1) from a surplus (1).
AdjustmentLines(d) ==
    IF d.sign < 0 THEN Posted(Entry("INVENTORY_SHRINKAGE", "INVENTORY", d.amount))
                  ELSE Posted(Entry("INVENTORY", "INVENTORY_ADJUSTMENT_GAIN", d.amount))

RevaluationLines(d) ==
    IF d.sign < 0 THEN Posted(Entry("INVENTORY_REVALUATION_LOSS", "INVENTORY", d.amount))
                  ELSE Posted(Entry("INVENTORY", "INVENTORY_REVALUATION_GAIN", d.amount))

ExpenseLines(d) == Entry("EXPENSE_RENT", PaidFrom(d.method), d.amount)

\* An advance is owed by the employee; its recovery is a salary not paid out.
SalaryLines(d) ==
    Entry(IF d.type = "ADVANCE" THEN "EMPLOYEE_ADVANCES" ELSE "PAYROLL_EXPENSE",
          IF d.type = "ADVANCE_ADJUSTMENT" THEN "EMPLOYEE_ADVANCES" ELSE Settlement(d.method),
          d.amount)

VoucherLines(d) ==
    CASE d.type = "OWNER_CONTRIBUTION" -> Entry(d.method, "OWNER_CAPITAL", d.amount)
      [] d.type = "OWNER_WITHDRAWAL"   -> Entry("OWNER_DRAWINGS", d.method, d.amount)
      [] d.type = "CASH_BANK_TRANSFER" ->
            Entry(IF d.method = "CASH" THEN "BANK" ELSE "CASH", d.method, d.amount)

\* The documents, with amounts in minor units.
Amounts == Nat \ {0}
Document ==
    [kind : {"sale"}, method : {"CASH", "CARD", "BANK", "MOBILE"}, net : Nat, vat : Nat, cogs : Nat]
    \cup [kind : {"salesReturn"}, method : {"CASH", "BANK", "MOBILE"}, net : Nat, vat : Nat, cogs : Nat]
    \cup [kind : {"purchase"}, method : {"CASH", "BANK", "MOBILE", "CREDIT"}, amount : Amounts]
    \cup [kind : {"supplierPayment"}, method : {"CASH", "BANK", "MOBILE"}, amount : Amounts]
    \cup [kind : {"supplierReturn"}, method : {"CASH", "BANK", "MOBILE", "CREDIT"}, amount : Amounts, value : Nat]
    \cup [kind : {"adjustment", "revaluation"}, sign : {-1, 1}, amount : Nat]
    \cup [kind : {"expense"}, method : {"CASH", "BANK", "CARD", "MOBILE", "OTHER"}, amount : Amounts]
    \cup [kind : {"salary"}, type : {"REGULAR", "BONUS", "OVERTIME", "ADVANCE", "ADVANCE_ADJUSTMENT"},
          method : {"CASH", "BANK", "MOBILE"}, amount : Amounts]
    \cup [kind : {"voucher"}, type : {"OWNER_CONTRIBUTION", "OWNER_WITHDRAWAL", "CASH_BANK_TRANSFER"},
          method : {"CASH", "BANK"}, amount : Amounts]

Lines(d) ==
    CASE d.kind = "sale"            -> SaleLines(d)
      [] d.kind = "salesReturn"     -> SalesReturnLines(d)
      [] d.kind = "purchase"        -> PurchaseLines(d)
      [] d.kind = "supplierPayment" -> SupplierPaymentLines(d)
      [] d.kind = "supplierReturn"  -> SupplierReturnLines(d)
      [] d.kind = "adjustment"      -> AdjustmentLines(d)
      [] d.kind = "revaluation"     -> RevaluationLines(d)
      [] d.kind = "expense"         -> ExpenseLines(d)
      [] d.kind = "salary"          -> SalaryLines(d)
      [] d.kind = "voucher"         -> VoucherLines(d)

\* reverseJournalEntry: the lines with their sides exchanged.
Opposite(lines) ==
    {[account |-> l.account, debit |-> l.credit, credit |-> l.debit] : l \in lines}

-----------------------------------------------------------------------------
(* Statements. A book is a set of records with the lines of an entry.       *)

Movement(lines, account) ==
    SumFunction([l \in lines |-> IF l.account = account THEN l.debit - l.credit ELSE 0])

\* SUM(debit) - SUM(credit) of the journal lines of an account.
NetDebit(book, account) == SumFunction([e \in book |-> Movement(e.lines, account)])
NetDebits(book, accounts) == SumFunction([a \in accounts |-> NetDebit(book, a)])

Positive(n) == IF n > 0 THEN n ELSE 0
TotalDebits(book) == SumFunction([a \in Accounts |-> Positive(NetDebit(book, a))])
TotalCredits(book) == SumFunction([a \in Accounts |-> Positive(-NetDebit(book, a))])

\* getBalanceSheet: earnings are cumulative revenue less expenses.
Earnings(book) == -NetDebits(book, Revenues) - NetDebits(book, Costs)
TotalAssets(book) == NetDebits(book, Assets)
TotalLiabilities(book) == -NetDebits(book, Liabilities)
\* Drawings are listed debit-positive among equity, and so added.
TotalEquity(book) ==
    NetDebit(book, "OWNER_DRAWINGS") - NetDebit(book, "OWNER_CAPITAL") + Earnings(book)
=============================================================================
