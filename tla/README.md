# Verification of the Dream Makeover point of sale

Dream Makeover is the point of sale of a salon: a NestJS backend over MySQL (`backend`),
a React interface (`frontend`) and an Electron shell that starts both on one machine
(`desktop`). This directory holds TLA+ models of all three: the parts in which
concurrent requests meet shared rows, in which steps fail or processes crash, in which
something is computed whose parts must add up, and in which a page relies on what it
loaded earlier. TLC checks them on small instances, and TLAPS proves the main invariants
for every instance. Source paths below are relative to `backend/src/` unless they begin
with another package.

1. [Inventory of the system](#1-inventory-of-the-system)
2. [What the database and TypeORM do](#2-what-the-database-and-typeorm-do)
3. [The modules](#3-the-modules)
4. [The runs](#4-the-runs)
5. [Fairness and deadlock](#5-fairness-and-deadlock)
6. [The proofs](#6-the-proofs)
7. [Where code and documentation disagree](#7-where-code-and-documentation-disagree)
8. [What is not modelled](#8-what-is-not-modelled)
9. [Plan](#9-plan)

## 1. Inventory of the system

All state lives in MySQL rows, except a few flags in singletons of the backend process,
files (photos, icons, dumps, the shell's settings), and the browser's cart. Components
interact through shared rows, through calls inside one transaction (`manager` is passed
along), and through two callbacks: a TypeORM subscriber on journal entries and a guard
on payroll routes.

| Component | State | Operations | Hard behaviour | What makes it correct |
|---|---|---|---|---|
| Inventory `inventory/` | `products.stock`, `purchase_cost_minor`; `stock_movements` | stockIn, adjust, revalueCost; on behalf of others applySaleMovement, receivePurchaseLine, receiveCustomerReturn, removeSupplierReturn | many writers of one row; snapshot and locking reads in one transaction; rounding of the average cost | stock in range and equal to the sum of its movements; cost within what was paid |
| Products `products/` | the same row, and its name, price, ... | create, update | find-then-save without a transaction | an edit leaves stock and cost alone |
| Purchases, supplier returns `purchases/` | purchases, lines, returns, supplier payments | create, createSupplierReturn, pay | lock order; sum of returns against the line | never more returned than bought, never more paid than owed |
| Checkout `transactions/` | transactions, items, invoice numbers | checkout | cart order of locks; a second connection inside the transaction; unique key without retry; lost response | a sale is whole or absent; numbers unique; requests end |
| Sales returns `returns/` | returns and their lines | create | cumulative floors; stock, points and money together | over any sequence of partial returns no more is refunded than was paid |
| Customers, loyalty `customers/`, `loyalty/` | points, tier, settings | checkout, return, settings update | unlocked read, later save; two settings statements | points spent once; tier fits points |
| Accounting `accounting/` | journal entries and lines, `accounting_periods` | post, upsert, remove, reverse, voucher, close, reconcile | closing against posting; event-driven check; lock upgrade | a closed month is frozen; entries balance and match documents; an entry is reversed once; statements chain |
| Expenses `expenses/` | expenses | create, update, remove | two stores kept in agreement | expense and entry agree |
| Payroll `payroll/`, `salary-payments/` | pay periods, salary payments, advances | create, close, delete, runPayroll, createSalaryPayment, adjustAdvance, advance, remove | checks before the transaction; snapshot of a long run beside reads on other connections | nobody is paid twice or more than earned; an advance is deducted once |
| Automatic pay period `payroll/automatic-pay-period.service.ts` | two flags, a timer | scheduledCheck, ensureCurrentPeriod | catch-up that must complete once, unique key races | every month gets its period while time is trusted |
| Attendance `attendance/` | one row per employee and day | upsert, upsertBulk | find-then-save; bulk without a transaction | one record per day |
| Time trust `time-trust/` | last verified time, skew, online | checkTimeSource, getStatus; guard | a failing source, a jumping clock | payroll never runs on an untrusted clock |
| Database backups `database-backups/` | database, photo and icon directories | create, restore | crash during restore; requests meanwhile | a failed restore leaves the old data |
| Packages `packages/` | packages and their items | create, update | items and prices from a snapshot, replaced while another update runs | items of one update; amounts add up |
| Categories, services `categories/`, `services/` | a tree of categories, the category of each item | create, update, remove; file an item | checks without a lock, a save that inserts again | every item is on the pages it is filed under |
| Users, employees `users/`, `employees/`, `auth/` | rows with a role, a password, a photo; tokens in browsers | edit, reset password, log in | find-then-save, outdated tokens | edits are kept; an administrator remains |
| Reports `reports/` | none | aggregates of documents | another source than the statements | agree with the journal |
| Migrations `database/` | schema, executed migrations | run at start, revert | DDL commits by itself; crash between statements | the API serves a whole schema only |
| New Sale page `frontend/.../pos/` | cart, what was loaded, printer | edit, submit, print | lost answers, stale prices, a link that drops | sold as shown; receipts whole and apart |
| Other pages `frontend/src/app/` | session, query cache | visit, submit, log in and out | answers that arrive late | what is shown belongs to the user and is not older than the user's change |
| Desktop shell `desktop/src/` | settings file, MySQL data directory, child processes | first start, start, stop | crash between changing credentials and saving them | always startable again |

## 2. What the database and TypeORM do

The handlers are only correct or incorrect relative to their libraries, so four library
behaviours are part of the models (marked external in the map):

- **Snapshots.** The default isolation, REPEATABLE READ, is not changed by any
  transaction of the backend. A plain `SELECT` reads the snapshot fixed by the
  transaction's first plain `SELECT`, plus its own writes. `FOR UPDATE` and `UPDATE`
  work on the latest committed row.
- **Locks.** `FOR UPDATE` and `UPDATE` take an exclusive row lock; inserting a row with
  a foreign key, or a duplicate key, takes a shared one on the row referred to. Locks
  last until the transaction ends. A cycle of waits is broken by rolling one transaction
  back.
- **`save(entity)`** re-reads the row by a plain `SELECT` and updates only the columns
  in which the entity differs from *that* read. No difference, no `UPDATE`, and no
  subscriber call.
- **Rollback.** An exception in the callback of `dataSource.transaction` undoes every
  statement and releases every lock.

## 3. The modules

| Module | Role |
|---|---|
| `StockLedger` | Abstract: a product's stock and its ledger move together, in one step |
| `Inventory` | The eight stock-moving handlers and the product editor |
| `AccountingPeriods` | Journal entries, their documents, and the closing of months |
| `Payroll` | Pay periods, salary payments, advances and payroll runs |
| `Sales` | Invoice numbers, customers and loyalty settings under sales and edits |
| `SalesReturns` | Partial returns of a sale: lines, refunds, points |
| `Purchasing` | What may still be sent back to a supplier |
| `Postings`, `Ledger`, `Reports` | The lines of every document; journal, reversals, bank statements; reports beside them |
| `TrustedTime` | The trusted clock, the gate of payroll, the job that opens pay periods |
| `Attendance` | The attendance editor, and what a month of records is worth |
| `Catalogue`, `Packages`, `People` | Categories and items; packages; users and employees |
| `Cart`, `Printer`, `Receipt` | The New Sale page: cart and submission, printing, what is on paper |
| `Interface`, `Terminal` | Tables of routes, roles, queries and mutations; one browser's session and cache over them |
| `Backups` | Download and restore of database and files |
| `MigrationScripts`, `Migrations` | The statements of every migration; their execution with crashes and reverts |
| `Desktop` | Start, first initialization, stop of the application |
| `Office`, `Shop` | Components beside each other, for any constants: sales returns, purchases, packages, people, trusted time, backups, attendance, the cart; and sales, ledger, printer, receipt, catalogue, terminal, desktop |
| `MCStockLedger`, `MCInventory`, `MCAccountingPeriods`, `MCPayroll`, `MCShop`, `MCMachine` | Instances for TLC |
| `Arithmetic` | Facts about quotients and sums that the proofs share |
| `InventoryProofs`, `AccountingPeriodsProofs`, `PayrollProofs`, `SalesProofs`, `LedgerProofs`, `OfficeProofs`, `ShopProofs` | Theorems |

`Ledger` extends `Postings`, `Reports` extends `Ledger`, `Migrations` uses
`MigrationScripts`, and `Terminal` extends `Interface`. `Office`, `Shop`, `MCShop` and
`MCMachine` compose components that meet only in the database or through the API and
share no variable of their models: `focus` says which component a behaviour follows, and
in `MCShop` and `MCMachine` the variables of the others are `None`. This gives one
configuration for many small instances, not interleavings of them; where components do
interact, one module holds both sides (sale and settings, clock and pay periods, page
and API, journal and statements, rows and files). The desktop application is in both:
`shop` asks what a start may rely on, `machine` that it ends.

`MCShop` extends `Shop`, and `Shop` extends `Office`. `OfficeSpec` and `ShopSpec` say of
a behaviour only what the component followed does, and leave the other variables free,
so that `MCShop`, which gives the constants their values and switches the components
that are not followed off, implements them by its shape: what is proved of `Office` and
`Shop` holds of it. The ledger is there twice, as `B` and `K`, with two sizes of its
constants (`BookLedger`, `BankLedger`), and so is attendance, as `A` and `W`: a month
that is edited (`EditedMonth`) and one that is valued (`ValuedMonth`).

**Inventory.** `row` holds the committed stock and cost, `booked` the sum of the
committed movements (the opening stock counted as one), `tx` one transaction for each
session: lines still to do, the snapshot with own writes (`view`), the rows written,
locked shared and held, the deltas booked so far. A handler is `Open` (its request, what
it reads first), then `Refer` (a line inserted, its foreign key), `Apply` or `Reject`
(lock, check, `save`, movement: one step, as all of it happens under the row's lock),
and `Commit`, or `Refuse` for whatever throws later (closed month, taken invoice
number). `LockFirst` handlers read the row first with the lock (stockIn, adjust,
revalueCost); `ReadFirst` handlers (checkout, purchase, both returns) read without one
before. The difference decides whether `save` compares with a stale read. `EditLoad`,
`EditReload`, `EditWrite` are the three database accesses of `ProductsService.update`.
Money amounts other than cost, and the document rows, are left out.

**AccountingPeriods.** `period` is the row of each month, `expense` the document and
`journal` its entry. Expenses stand for all documents, as every posting method writes
its header and lines under the same subscriber; only expenses and salary payments
rewrite or remove theirs. A request opens (`Post`, `Update`, `Remove`, `Close`), locks
its document (`LockDoc`), and for each month it touches takes the two steps of the
subscriber: `InsertPeriod` (`INSERT ...` with the duplicate ignored) and
`CheckOpen`/`CheckClosed` (`FOR UPDATE`). Header columns are month and payee, the lines
are the amount: that split is what the subscriber's trigger depends on. An update keeps
what it read of the row (`seen`) and of the header (`entry`), as `save` writes only the
columns that differ from it, while the lines are replaced whole. `overlapped` remembers
the documents of which two updates were open at once and is read by no action.

**Payroll.** `payments` are the sums of `salary_payments` by employee, type and period
(`Unfiled` is `pay_period_id` NULL), `due` what `computePayable` returns for an employee
and month, `call` the request of each session. A handler that checks and then writes is
two steps; `runPayroll` is one step for each employee between its first read and its
commit, balances from its snapshot (`seen`), periods and attendance from the latest
commit, because those go through other repositories and so other connections. `byRun`
counts salaries paid by runs and `overlapped` holds the periods of which two runs were
under way at once; no action reads them. `gone` marks a request whose
period was deleted under it; `save` then inserts the row again (`SaveClosedAgain`).
`NetDue`, `OutstandingAdvance` and `Overpaid` are `calculateBalances`. Abstractions:
what a handler reads before its transaction is one step; bonuses and overtime are left
out (they are added and paid in one piece); the worth of a month is data; the expense a
payment posts is reduced to the lock on its accounting month, which makes two inserting
runs of one period exclusive.

**Sales.** `tx` is the request of each session: a sale goes through `Begin` (settings
read outside the transaction), `Price` (customer read without a lock, reward checked),
`Number` (a second connection of the pool), `Insert` (foreign key on the customer,
unique key on the number), `SaveCustomer`, `Commit`. Edits of a customer and of the
settings are find, re-read, write, commit. `issued` are the numbers of each day,
`Midnight` changes the day. With `MayOverlap` FALSE requests of one customer come one at
a time.

**SalesReturns.** `returned` and `refunds` are sums over the rows of earlier returns;
`Lock` takes the sale's row and computes the differences of cumulative floors, `Post`
stands for stock and journal, `Finish` saves the customer and commits.

**Purchasing.** A return reads the purchase, locks it, then checks line by line against
the returns of its snapshot (`CheckLine`) and commits.

**Postings, Ledger, Reports.** A journal entry is its document and the set of lines that
`AccountingService` posts for it. Requests post, rewrite, remove, reverse and reconcile
in two steps each, the second after the locks. Reports compute from documents, so that
agreement with the lines is a property and not a definition.

**TrustedTime.** Time is counted in ticks longer than the tolerated skew; the wall clock
may be set, the monotonic one stops in sleep, the process restarts. `seen` remembers
what the last payroll request met. The job works month by month (`Ensure`), may fail at
each, and starts over.

**Attendance.** An editor keeps changes, sends bulk entries and removals at once, and
may lose any answer; the server stores day by day. The month that is valued has no
editor but every record it may have.

**Catalogue, Packages, People.** Overlapping requests over categories, packages and rows
of people, each check and each save a step, `save` as in section 2. `overlapped`,
`mingled` and `orderly` remember whether edits met.

**Cart, Printer, Receipt.** `Cart` holds the reducer's state with what the page had
loaded, against the server's later version of it; `Printer` the jobs, the links and what
was sent, chunk by chunk: each chunk goes to the printer held at that moment, on a
characteristic that answers, or on one that does not and on which a chunk may be lost
and still count as written (`Send`); `Receipt` the rows a receipt consists of and the
printer modes under which each is printed.

**Interface, Terminal.** `Interface` tabulates guards of controllers, cache keys, what
hooks invalidate, pages and their hooks; it declares no state. `Terminal` follows one
query and one mutation of these tables for two users of one browser. TanStack Query is
external and modelled as it behaves with the options of `query-client.ts`: an
invalidation fetches again what is on screen, but cancels a query under way only if its
entry has data, so that the answer to a first load, or to a query off screen, may be
older than the change and still clear the invalidation (`Refetch`).

**Backups, Migrations, Desktop.** Each step of a restore may fail and starts the
rollback. A migration is a sequence of statements; a crash leaves those done, a start
runs what is not recorded. The desktop's start is a sequence of steps over the settings
file and MySQL's data, and may crash after any of them; its child processes die with it.

## 4. The runs

Passing runs (states are distinct states):

| Run | Instance | Question and answer |
|---|---|---|
| `stock_ledger` | 2 products, 2 sessions, two families of behaviours; 82 000 states | Do concurrent stockIn, adjust and revalueCost keep stock equal to its movements, and amount to atomic moves (`StockLedger`)? Do sales, package sales and supplier returns, in carts of up to 2 lines in any order that lock in cart order and upgrade shared locks, keep the ledger in sync without overselling, with a product twice in a cart too? Does each request end? Yes: deadlocks occur and are broken. |
| `all_movements` | 1 product, all 8 handlers and an editor; 1 055 000 | Whatever stale snapshots `save` compares with, are stock and cost in range, and is a locked row stable even against the editor? Yes. |
| `closing` | 2 months, 2 sessions; 2 documents whose text is edited beside closing, or 1 whose month and amount are; 494 000 | Does closing wait for posters, is a closed month frozen, and does every request end although two posters of one month deadlock on its row? Do an entry and its document come and go together with one month and text, and agree in the amount unless two edits of the document overlapped? Yes. |
| `payroll_serial` | 1 employee, 2 months, one request at a time; 392 000 | In every order of periods, advances, payments, adjustments, runs and deletions: are payments within what was earned, and does a run settle what it pays? Yes. |
| `payroll_runs` | 2 employees, 1 month, 2 sessions that may both run the payroll; 1 040 000 | Beside payments, adjustments, attendance, closing and deleting: do runs pay each employee once unless two of them overlap, and is the period held by a run's uncommitted rows? Yes. |
| `shop` | seventeen instances of fifteen components; 1 901 000 | One question for each property, see below. All hold. |
| `machine` | migrations, sales, pay periods, desktop; 26 000 | What starts, repeats or must end, under fairness, see below. All hold. |

The properties of `shop` and `machine` are conjunctions of named parts, each stated and
explained in the module of its component:

| Property | Parts | Says |
|---|---|---|
| `NumbersConsecutive` | | invoices of a day are numbered without a gap |
| `AccountsFollowSales` | `PointsFromSpend`, `TierFitsPoints` | points and tier follow cumulative spend and redemptions (one sale of a customer at a time) |
| `ReturnsAddUp` | `ReturnedWithinSold`, `AmountsFollowQuantity`, `RefundWithinPaid`, `PointsWithinSale`, `AccountFollowsReturns` | any split into returns gives the same amounts, within the sale |
| `BooksBalance` | `OneSided`, `BooksBalance`, `ReportAgreesWithLedger`, `TrendAddsUp` | entries balance on every date, reports agree with accounts |
| `BankBookReconciles` | `ReversalCancels`, `StatementsChain`, `BankBookReconciles` | last statement and open lines give the bank account, whatever is reversed or edited |
| `ReturnedWithinPurchased` | | no purchase line goes back beyond its quantity |
| `RefusedUntilVerified`, `CatchUpLeavesNoGap` | with `NoPeriodAhead` | payroll stays refused until verified; a catch-up is complete |
| `AttendanceCounts` | `SavedMeansStored`, `PresentNeverWorse` | what is shown as saved is stored; a present day is worth no less |
| `ListedWhereFiled`, `PackageAddsUp`, `EditsKept` | with `ItemsOfOneUpdate`, `AdminRemains` | catalogue, packages, people |
| `SoldAsShown` | `AsShown`, `SalesAddUp` | the server sells at the total shown, unless what it was computed from has changed |
| `ReceiptsPrinted` | three of `Printer`, three of `Receipt` | receipts are sent whole and apart, to one printer while the page stays open, and add up on paper |
| `PagesOfTheUser` | `NeverForbidden`, `NoStrangersData`, `OwnWritesShown` | pages fit role, session and the user's own changes, of which no older answer was on its way that is not cancelled |
| `RestoredIsWhole` | `AllOrNothing`, `NamedFilesExist`, `ArchivesComplete` | everything or nothing is restored |
| `ServesWholeSchema`, `RevertsAndRecovers` | with `FailsOnlyAfterCut`, `LinesPostedOnce` | migrations complete or keep the API from serving; reverts restore; guarded ones recover |
| `StartsUnlessCut` | with `CredentialsKnown`, `NothingLeftRunning` | only an interrupted initialization keeps the application from starting |
| `RequestsAndStartsEnd`, `CurrentMonthReady` | | every request and start ends; the current month gets its period |

Five more runs each show one disagreement between the code and what the repository says
of it: see section 7.

**Bounds.** Two sessions suffice for every race listed, each of which is between two
requests; a third only lengthens lock queues. Two products and two lines are the least
that allow opposite lock orders and a product named twice. Stock starts at 0 to 2 and
the limits `ReceiptLimit` and `ColumnLimit` (2^31-1 and 2^32-1 in the code) are set to 2
and 3, so that every handler meets both ends of the range; `all_movements` uses one unit
and two costs, enough for the average to round. `LedgerBound` stops new requests once a
ledger sum, which in a diverging state need not follow the stock, has left the bound.
Two months allow an edit to move an entry between an open and a closed one; `Now` = 2
makes the first closable. In `closing` months close beside edits of the text only: an
edit of the amount changes a closed month (`amount_edit`), and so does one of a document
that another edit has moved. In Payroll `LastMonth` bounds the calendar, `Amounts` and
`Dues` are small sums in which partial, exact and excessive payments all occur, and one
advance for each employee and month is a bound named at the action. Sessions, documents
or staff are symmetric in safety runs only.

In `shop`: two requests on one customer, sale or purchase; rates, prices and discounts
at which floors lose something; one document of every kind and two entries, so that any
pair of kinds meets; three categories, of which two are roots; one or two administrators
among two users; two chunks, two printing jobs and two printers; two failing steps of a
restore (one of the restore, one of the rollback). `MaxSequence`, `SpendLimit`,
`MaxEntries`, `MaxVersion`, `MaxSales`, `MaxRows`, `MaxSaves`, `MaxFaults`, `MaxVisits`,
`MaxEdits`, `MaxWrites`, `MaxFailures`, `MaxDownloads`, `MaxSettings`, `MaxSleep`,
`MaxRestarts`, `MaxRemoved`, `LastTick` and `LastDay` bound what would go on for ever;
each is a guard of the action it bounds. In `machine` all 45 migrations run, from
nothing or from release 29, with one crash and one revert, and the application starts
three times. `Pool` is 3 with two sales: fewer sales than connections, the condition
under which requests end.

## 5. Fairness and deadlock

`FairSpec` states that a handler that can go on does. Steps that never wait (`Commit`,
`Refuse`, the end of a request) are weakly fair: Node runs each promise continuation.
Steps that wait for a row lock are strongly fair, since other requests may take and
release the lock between: InnoDB serves the waiters of a record in the order they came,
so none waits for ever. The deadlock detector is weakly fair. New requests are not fair:
nobody has to come. Without the detector `RequestsEnd` fails, as it would on a database
with detection switched off.

In `machine`, `Sales` has the same fairness; `Migrations` and `Desktop` are weakly fair
in what programs do by themselves (the desktop's includes that somebody presses
Continue). In `TrustedTime` the timer is weakly fair and the attempts to open a period
are strongly fair, month by month: they are repeated every time the timer fires, and a
database that fails every time is excluded. That payroll stays allowed is the premise of
`CurrentMonthReady`, not an assumption of fairness. Crashes, failures, edits and visits
are never fair.

Deadlock checking is on in `stock_ledger`, `all_movements` and `closing`. It is
off in Payroll's configurations, whose calendar ends and whose amounts are spent, and in
`shop` and `machine`, whose bounded instances stop: a receipt ends, a calendar runs out,
a failed start stays failed.

## 6. The proofs

Every theorem holds for all constants that meet the modules' assumptions: any number of
products, sessions, months, employees, any quantities and limits.

- **Inventory.** `TypeCorrect` and `StockStaysInRange` rest on `RangeInv`: types plus
  the range of every row *version*, committed, in a snapshot, or in an editor's hands.
  `StockInRange` alone is not inductive, because a stale version may be written back.
  `LocksExclude` and `LockedRowsStable` rest on `LockInv`: exclusion together with "a
  transaction has written only rows it holds", without which a commit could overwrite
  somebody else's row. `LedgerStaysInSync` and `InventoryImplementsLedger` assume
  lock-first handlers and no editor, the assumption whose failure the run `net_zero` and
  an edit beside a stock-in exhibit. Their invariant, `LedgerInv`, adds what every open
  transaction will install: it differs from the committed row by exactly what the
  transaction has booked, which holds because `save` compares with the very row that is
  locked. `CostStaysWithinPrices` rests on `PriceInv`, which adds to committed costs the
  cost of every row an open transaction has updated, of every line still to do and of
  every edit under way. A moving average stays between the least and the greatest unit
  cost because it is the rounded quotient of a sum that lies between their multiples.
- **AccountingPeriods.** `ClosingWaits` rests on `LockInv`: types, the months a
  transaction will write are checked or still to check (`Covered`), period rows are
  locked compatibly, a locked row exists. `JournalAgrees` holds for every kind of edit.
  `AgreeInv` says that what an update has read of row and header has one month and text,
  so that both are merged by the same columns; that it is what is committed, unless the
  document is gone or another update has met it (`Current`, `Met`); and that a document
  being created is nobody else's (`Fresh`). That amounts agree only without an overlap
  is what two edits show, one of the text and one of the amount (section 7).
  `ClosedMonthStays` assumes that edits change only the text: edits of the amount
  (`amount_edit`) and an edit beside a move (section 7) do change closed months. Its
  `DocInv` adds that an edit's snapshot may be stale in its text alone.
- **Payroll.** `TypeCorrect` and `RunsHoldPeriods` rest on `PeriodInv`: a request's
  period exists unless it is marked gone, and a run with rows in a period has not lost
  it. `RunsPayOnce` assumes nothing: any number of sessions run the payroll of any
  periods, and only a period of which two runs have met is excepted, as
  `overlapping_runs` shows it must be. `RunInv` adds that what runs have paid shows in
  the payments, that two runs of one period have met, and that otherwise an employee a
  run is yet to pay has not been paid by a run. `RunsSettlePeriods` needs types alone,
  but the proof showed that `RunSettles` has to say of *which* payments a run pays what
  remains: an advance paid between a run's reading and its commit leaves something to be
  settled. `SalariesStayWithinDue` assumes requests one at a time (two that check at
  once overpay) and that recorded attendance is not rewritten (a lower worth of a month
  paid for is an overpayment at once). Its `DueInv` adds that what a request checked
  before its transaction still holds in it (`ChecksHold`).
- **Sales.** `NumbersLeaveNoGap` rests on `NumberInv`: the committed numbers of a day
  are the first ones (`Initial`); a number that has been taken is at most one beyond
  them, although the day may have ended since (`Near`); a number inserted is not
  committed and not inserted by another sale (`Unique`). It holds for any number of
  sales, overlapping or not. Points and tiers (`AccountsOfTheShop`) are proved under
  `SteadyAccounts`: requests on one customer do not overlap (section 7 says what happens
  if they do), and all versions of the settings earn at one rate, as points are
  earned at the rate of the day and the property computes them from the spend.
  `AccountInv` says that the row a sale or edit has read is the committed one, and that
  tiers fit points except between the two statements that save settings
  (`TiersPending`).
- **SalesReturns.** `ReturnsTelescope` rests on `ReturnInv`: a sale is locked by one
  request at a time (`OneReturnAtOnce`), and a request that has the lock will add to
  each line exactly the difference between the cumulative amounts and the sums committed
  *now*. The differences telescope, so amounts depend on quantities alone; what the
  floors compute is not used. `RefundsStayWithinSale` uses it: `MoneyInv` says that the
  refund of a sale is the sum over its lines, and that points taken back stay within
  those earned; the shares of the lines are floors of quotients with one divisor, so
  their sum is at most the sale's amount and short of it by less than one unit of
  revenue and of VAT a line. `ReturnsOfTheOffice` adds the customer's row (`FollowInv`),
  for returns of one customer's sales that do not overlap (`SeparateReturns`): the row
  is read without a lock.
- **Purchasing.** `PurchasesOfTheOffice` rests on `PurchaseInv`: returns of one purchase
  exclude each other, and the snapshot a holder of the lock reads is what is committed
  of its lines (`UpToDate`), so what it checked still has room when it commits.
- **Packages.** `PackageInv`: of a package whose updates never overlapped, at most one
  is at work, it has read the committed row, and once the items are replaced the row it
  is about to save adds up over them (`UpdatesApart`). Without overlap nothing else is
  needed; of overlapping updates only `OfOne` is left, items of one of them.
- **People.** `EditInv`: of a row whose edits never met, the one at work holds the row
  as it is with its change applied (`EditsApart`). `OrderInv` adds that in good order
  one edit is at work, and that assigning its change leaves an administrator.
- **TrustedTime.** `RefusalsOfTheOffice` rests on `RefusalInv`: after a refusal there is
  a reason that does not pass by itself, a flagged skew, no trusted time, or a grace
  that has run out. `CatchUpsOfTheOffice` rests on `CatchUpInv`: trusted time is not
  ahead of real time, and a catch-up in progress has a period, or one a manager deleted,
  for every month between its start and its cursor.
- **Attendance.** `AttendanceOfTheOffice` rests on `SheetInv`, which follows a save day
  by day: a day the running save is done with is as wanted, and a request of an earlier,
  failed save is still at work only on days the editor is not sure of (`Stored`), with
  changes the editor may have sent (`Sensible`). A second editor voids this, as nothing
  in the code keeps two apart; the property says so. What a month is worth needs no
  invariant but that the month valued stays as it is: a day present adds at least as
  many half days as any other record, and the floors that follow are monotone.
- **Cart.** `CartsOfTheOffice` rests on `CartInv`: the cart submitted has something in
  it and passed the page's checks against the offers it had loaded. The server sums over
  all items what the page sums over those in the cart, and both find one tier for the
  points because the settings saved have no two tiers with one minimum (their
  validation). What the server checks again is then what the page checked, unless what
  it read has changed.
- **Backups.** `RestoresOfTheOffice` rests on `BackupInv`, for any number of requests
  and of failures at any step. It says how far a restore has come (`Forward`): which of
  database, photos and icons are the archive's already, which are the old ones, and
  which have been copied; and the same on the way back (`Backward`), which begins only
  after all copies were made. Between restores (`Traffic`) a file that is being uploaded
  is on disk and nobody names it yet, so that an archive, whose rows were read before
  its files, holds every file its rows name, and the removal of a refused upload takes
  nothing that is named.
- **Ledger and Reports.** `LedgerInv` has three parts. `JournalInv`: every entry carries
  the lines of its document or, if it is a reversal, opposites of such lines, and a
  request that has written one carries the same. Lines of each kind of document balance
  and are one-sided, which is a case for each kind; the books balance by sums over
  entries and lines, exchanged and split by account and day (`BooksOfTheLedger`), and
  the reports agree because each sums, over the same entries, what the lines of each
  kind post to the accounts reported (`ReportsOfTheLedger`). `EntryInv` says what each
  request in progress holds of the journal, and that no two hold the same entry or are
  about to write the same one: without it two reversals of one entry could not be
  excluded (`ReversalsCancel`). `BankInv` has the statements as a chain, and what the
  locks keep still while one is entered: the bank's lines from the snapshot to the
  commit, because posting to BANK waits, and the cleared lines, because an edit of a
  cleared entry is refused (`StatementsReconcile`).
- **Printer and Receipt.** `ReceiptsOfTheShop` rests on two invariants. `PrinterInv`:
  the pieces sent of a job are the chunks before the one it has reached, each once and
  in order, wherever a write fails or a link drops and is found again; and as long as
  the page stays open one job at most is under way, to which the end of what was sent
  belongs, and all its pieces went to the printer that is held (`SameInv`), since only a
  job that starts chooses one. It does not say that a chunk sent came out, nor where a
  job goes once other pages print (section 7). Once somebody has left the page and come
  back the buttons know of no job, and the promise that receipts do not mix is no longer
  made. `ReceiptInv`: each line printed so far has the modes its style asks for, which
  does not depend on the modes the line before it left, because every line begins with a
  reset. That the rows add up is a fact about the formatter: the sum of the amounts
  under given labels is additive over concatenation (`SumOfConcat`), sections without
  these labels contribute nothing, and a row left out stands for zero.
- **Catalogue.** `CatalogueOfTheShop` rests on `CatalogueInv`, which says that there are
  kinds and ranks of ids (`History`), fixed once given, such that every category has the
  kind of its id, its parent has the same kind and a smaller rank, every item has the
  kind of its category, and every request under way, though it was checked against an
  older tree, writes only what fits both. The ranks are what keeps the tree free of
  cycles when a removed category is written back by a late `save` (`Restore`). The chain
  above a category and the categories collected below one are both least closed sets;
  one holds a category if and only if the other does (`AboveIffBelow`), and the category
  of least rank in a chain is a root (`RootAbove`).
- **Terminal.** `PagesOfTheShop` rests on an invariant over all pairs of a query and a
  mutation: what is mounted or offered to a role is answered to it, which is a case for
  each page and table of `Interface` (`StaffSees` and `StaffDoes` are what open pages
  use; `RoleInv`); a query under way and what was read are the session's own, since its
  end clears both (`OwnerInv`); and whatever is still to be read or written, and an
  entry not marked for reading again, is not older than `needed`, what the user was told
  with no older answer under way (`FreshInv`). `needed` is not raised while an answer
  read before the change is on its way that no invalidation cancels: that answer is
  shown as fresh (section 7). Entries that a mutation itself writes are the exception
  named in section 8.
- **Desktop.** `StartsOfTheShop` rests on `DesktopInv`: what the settings file says of
  the database is true of it at every point at which a crash may come (`NoteInv`), those
  in memory are those in the file once read (`MemoryInv`), each phase may rely on what
  the phases before it left (`PhaseInv`), and children run only under an application
  that will stop them (`ChildrenInv`). A start finds a password that fits because the
  file says "initialized" only after the password was set; the converse need not hold,
  which is why both are tried.

`Arithmetic` holds what these proofs need of quotients and sums: bounds of floors,
splitting, exchanging, scaling and comparing sums, sums of shares. A community-module
sum over a finite set is a recursive fold, and induction over it is out of reach of the
prover; its facts are proved instead by looking at a smallest set for which they would
fail, which exists because cardinalities are natural numbers. Components that sum or
count take the operators through their instance (`R!SumFunctionOnSet`); `OfficeProofs`
begins with lemmas that these are the library's.

The theorems assume of the constants what the modules name `Parameters`, gathered in
`OfficeParameters` and `ShopParameters`, and the run `shop` checks that its constants
meet it. They are what the program gives: amounts and quantities are natural numbers and
positive where the tables and DTOs say so, the lines of a document and the components of
a package are finitely many, a discount is at most the subtotal (checkout refuses
others), settings come with their tiers in order (their validation), users and employees
have different rows, and every whole archive among the old ones holds the files its rows
name, as the release that downloaded it saw to; an answer to a checkout carries the sum
of its items, what the discounts leave of it, and a payment that covers that; the two
root categories are there from the start. The rest says that the values that stand
for nothing (`None`, `Guest`) are not data.

Proved in outline: `Init => IInv`, `IInv /\ [Next]_vars => IInv'` with one step per
action, `IInv => Inv`, and a temporal step.

**Only model-checked.** Liveness (`RequestsEnd`, `RequestsAndStartsEnd`,
`CurrentMonthReady`, `RevertsAndRecovers`), which is beyond the prover. `LedgerInSync`
for removals in carts, as the invariant proved is that of lock-first handlers.
`ServesWholeSchema`, over the statements of `MigrationScripts`, which are fixed, so that
the instance is the program's own. The types in `MCShop` and `MCMachine`, of which the
proofs state those they need, component by component.

## 7. Where code and documentation disagree

| Run | What happens |
|---|---|
| `net_zero` | Sale of q and stock-in of q at once: the sale's `save` finds the new stock equal to its snapshot and sends no `UPDATE`, but its movement is inserted. The integration test promises that stock and ledger stay in sync. |
| `amount_edit` | An edit of only the amount changes no column of the header, so the subscriber is silent and lines in a closed month are replaced, against the repository's README. |
| `overlapping_runs` | Two payroll runs list the paid employees before either commits, and both pay, against a test's title. |
| `advance_repaid` | What an adjustment settled in one month counts as arrears in the next and is paid in cash, against the note the run itself writes. |
| `balance_sheet` | After a withdrawal by the owner the balance sheet does not balance: drawings, a contra account, are listed with a positive amount and added to equity. A test of the balance sheet expects the totals to agree. |

The models reach further divergences for which no run is kept.

- Stock and months: a stock-in that commits between the two reads of a product edit is
  undone by it without a movement (`stock-movement.entity.ts`). Of two edits of one
  expense at once, of its text and of its amount, the row keeps both and the entry has
  the amount of the last one, against the comment that wants both views consistent
  (`expenses.service.ts`). An edit that began before another moved the expense checks
  the month of its snapshot, so that it may change the entry in a month closed since.
- Payroll: two salary payments checked against one balance are both saved, more than is
  due. Two adjustments at once deduct an advance twice; a payment lands in a period
  closed or deleted since it was checked.
- Customers: of two sales of one customer at once the points of one are overwritten, and
  an edit of the name that loaded the row before a sale writes the old points back,
  against the comment that loyalty fields are not editable (`customers.service.ts`). As
  many sales at once as connections wait for each other until the pool gives up. A sale
  whose answer was lost is sold twice when it is submitted again.
- Frontend: on a printer whose characteristic does not answer writes a chunk may be
  lost, and `print` resolves although it "rejects on failure"; between two chunks
  another page may connect another printer, and the rest of the receipt goes there. The
  answer to a first load, or to a query off screen, that was read before the user's
  change arrives after it and counts as fresh for the stale time, although "all
  dependent queries refresh on next access" (`checkout-hooks.ts`).
- An update of a package that overlaps another leaves amounts that do not add up. Two
  administrators may deactivate each other. An interrupted initialization of MySQL is
  never repeated by a later start. An interrupted migration without guards keeps the API
  from starting.

## 8. What is not modelled

`PROJECT.json` lists each component with its status and what is left out of it.

- **Conditions of properties.** `AccountsFollowSales` holds for one sale of a customer
  at a time, `PackageAddsUp` for updates that do not overlap, `EditsKept` for edits of
  one row that do not, `AdminRemains` in good order: the code has no lock that would
  give more. `PaidOncePerRun` and the amounts of `JournalMatchesDocuments` except what
  overlapped. `NoStrangersData` leaves out entries that a mutation in flight at logout
  writes into the cache. `OwnWritesShown` leaves out two cases in which an answer read
  before the change is not cancelled: the first load of an entry, which invalidation
  lets go on, and a query off screen, which it does not fetch again; either makes the
  entry count as fresh. `PrintedIsWhole` says what was sent, not what came out where the
  printer does not answer writes, and that one printer got it only as long as the New
  Sale page stays open.
- **Restore beside other requests.** The API goes on serving while tables are dropped;
  what is written then is lost or mixed. `Backups` lets a restore run alone, and lets
  steps fail but not the process die: nothing at startup would finish or undo the
  restore.
- **Creation** of products, packages, employees and users gives initial states; the
  filing of an item in another category, the ranking of top items, bonus and overtime,
  hashing and tokens' signatures are left out.
- **Presentation.** Forms, layout, formatting and listings; of them only what decides a
  total, a row or a button is modelled.
- **Data.** Dates are numbered days or months, money a natural number, times ticks; the
  width of columns is kept only for stock, where the code depends on it.
- **Libraries.** MySQL, TypeORM, TanStack Query, Web Bluetooth and the operating system
  are modelled as the code uses them.

## 9. Plan

What would come next, in the order in which it matters.

1. **Accounts**: an abstract specification of an account that is debited and credited
   atomically, which `Sales` implements when requests do not overlap.
2. **Restore beside requests**: the crash of a restore, and what a startup check would
  have to find.
3. **Proofs** of `ServesWholeSchema` for any list of migrations whose statements are
   guarded, and of `LedgerInSync` for removals in carts.
4. **Liveness of the editor and the printer**, given answers that arrive.
