------------------------------ MODULE Reports ------------------------------
(* The financial summary, the revenue trend and the expense breakdown, which *)
(* are computed from the documents, next to the journal of Ledger.           *)
EXTENDS Ledger

\* The rows of one kind of document dated within a range of days.
Rows(kind, days) ==
    {e \in Book(journal) : e.reverses = None /\ e.doc.kind = kind /\ e.day \in days}
Total(rows, amount(_)) == SumFunction([e \in rows |-> amount(e.doc)])

Paid(doc) == doc.net + doc.vat
Cost(doc) == doc.cogs
Amounted(doc) == doc.amount

Between(days) == {e \in Book(journal) : e.day \in days}

\* computeInventoryGains, computeExpenses: these come from the journal.
InventoryGains(days) == -NetDebits(Between(days), Gains)
InventoryLosses(days) == NetDebits(Between(days), Losses)

\* computeRevenue: total_minor, with its VAT and net of discount, less refunds.
TotalRevenue(days) ==
    Total(Rows("sale", days), Paid) - Total(Rows("salesReturn", days), Paid) + InventoryGains(days)

ComputeCogs(days) == Total(Rows("sale", days), Cost) - Total(Rows("salesReturn", days), Cost)

\* Advances count when they are recovered, not when they are paid.
SalaryPayments(days) ==
    Total({e \in Rows("salary", days) : e.doc.type # "ADVANCE"}, Amounted)

ShopExpenses(days) == Total(Rows("expense", days), Amounted)

NetOperatingResult(days) ==
    TotalRevenue(days) - ComputeCogs(days)
        - (SalaryPayments(days) + ShopExpenses(days) + InventoryLosses(days))

\* RevenueTrendService.daily: one point for each day of the range.
TrendPoint(day) ==
    Total(Rows("sale", {day}), Paid) - Total(Rows("salesReturn", {day}), Paid)
Trend(days) == [day \in days |-> TrendPoint(day)]

\* ExpenseBreakdownService: shop categories and salaries.
BreakdownTotal(days) == ShopExpenses(days) + SalaryPayments(days)

-----------------------------------------------------------------------------
(* Properties.                                                             *)

Ranges == {a .. b : a \in Days, b \in Days} \ {{}}

\* In every range of dates without a reversal, the operating result computed
\* from the documents is the ledger's earnings plus the VAT it charged, whatever
\* documents of all kinds were posted.
ReportAgreesWithLedger ==
    \A days \in Ranges :
        LET book == Between(days)
        IN  (\A e \in book : e.reverses = None) =>
                NetOperatingResult(days) = Earnings(book) - NetDebit(book, "VAT_PAYABLE")

\* The points of the trend add up to the summary's revenue without the gains on
\* inventory; the breakdown adds up to the payroll and shop accounts (in ranges
\* without a reversal).
TrendAddsUp ==
    \A days \in Ranges :
        LET book == Between(days)
        IN  /\ SumFunction(Trend(days))
                   = TotalRevenue(days) - InventoryGains(days)
            /\ (\A e \in book : e.reverses = None) =>
                   BreakdownTotal(days) = NetDebits(book, Costs \ (Losses \cup {"COST_OF_GOODS_SOLD"}))
=============================================================================
