-------------------------------- MODULE Shop --------------------------------
(* The office with sales, the ledger in one of two sizes, the printer, the   *)
(* receipt, the catalogue, the terminal and the desktop application, of      *)
(* which a behaviour again follows one component.                            *)
EXTENDS Office

\* Sales.
CONSTANTS Customers, Names, Operations, Bills, Versions, Pool, MaxSequence,
    LastDay, SpendLimit, MayOverlap
\* The ledger, once with every kind of document, and once with bank statements.
CONSTANTS BookLedger, BankLedger
\* Printer.
CONSTANTS Jobs, Devices, Chunks, MaxFaults, MaxVisits
\* Receipt: answers of checkouts, what is known of the business, and styles.
CONSTANTS Answers, Business, TextStyles
\* Catalogue.
CONSTANTS CategoryIds, Slugs, Goods
\* Terminal, and desktop application.
CONSTANTS MaxWrites, MaxStarts

VARIABLES settings, customer, redeemed, issued, today, tx
VARIABLES journal, statements, request
VARIABLES platform, link, printer, showing, printing, job, paper, faults
VARIABLES receipt, lines, modes, out
VARIABLES category, gone, item, filing
VARIABLES watched, offered, session, page, data, cache, invalid, get, write, needed, forbidden
VARIABLES file, directory, root, granted, users, app, known, mysqld, api, stop, acknowledged,
    starts

S == INSTANCE SalesProofs
B == INSTANCE LedgerProofs WITH
    Documents <- BookLedger.documents, Sessions <- BookLedger.sessions,
    Operations <- BookLedger.operations, MaxEntries <- BookLedger.entries,
    MaxVersion <- BookLedger.versions, Openings <- BookLedger.openings, LastDay <- BookLedger.days
K == INSTANCE LedgerProofs WITH
    Documents <- BankLedger.documents, Sessions <- BankLedger.sessions,
    Operations <- BankLedger.operations, MaxEntries <- BankLedger.entries,
    MaxVersion <- BankLedger.versions, Openings <- BankLedger.openings, LastDay <- BankLedger.days
H == INSTANCE Printer WITH page <- showing
X == INSTANCE Receipt WITH Responses <- Answers, Styles <- TextStyles
G == INSTANCE Catalogue WITH Ids <- CategoryIds, Items <- Goods, NoId <- 0, call <- filing
T == INSTANCE Terminal
Z == INSTANCE Desktop WITH data <- directory, settings <- known

\* What is assumed of the parameters.
ASSUME ShopParameters ==
    /\ S!Parameters /\ B!Parameters /\ K!Parameters
    /\ H!Parameters /\ X!Parameters /\ G!Parameters /\ T!Parameters /\ Z!Parameters

\* Requests on a customer that do not overlap, and one earning rate.
SteadyAccounts == MayOverlap = FALSE /\ S!OneRate

-----------------------------------------------------------------------------

salesVars == <<settings, customer, redeemed, issued, today, tx>>
ledgerVars == <<journal, statements, request>>
printerVars == <<platform, link, printer, showing, printing, job, paper, faults>>
receiptVars == <<receipt, lines, modes, out>>
catalogueVars == <<category, gone, item, filing>>
terminalVars ==
    <<watched, offered, session, page, data, cache, invalid, get, write, needed, forbidden>>
desktopVars ==
    <<file, directory, root, granted, users, app, known, mysqld, api, stop, acknowledged, starts>>
shopVars ==
    <<focus, salesVars, ledgerVars, printerVars, receiptVars, catalogueVars, terminalVars,
      desktopVars>>

ShopInit ==
    /\ focus = "sales" => S!Init
    /\ focus = "books" => B!Init
    /\ focus = "bank" => K!Init
    /\ focus = "printer" => H!Init
    /\ focus = "receipt" => X!Init
    /\ focus = "catalogue" => G!Init
    /\ focus = "terminal" => T!Init
    /\ focus = "desktop" => Z!Init

ShopNext ==
    /\ UNCHANGED focus
    /\ focus = "sales" => S!Next
    /\ focus = "books" => B!Next
    /\ focus = "bank" => K!Next
    /\ focus = "printer" => H!Next
    /\ focus = "receipt" => X!Next
    /\ focus = "catalogue" => G!Next
    /\ focus = "terminal" => T!Next
    /\ focus = "desktop" => Z!Next

ShopSpec == ShopInit /\ [][ShopNext]_shopVars

-----------------------------------------------------------------------------
(* The properties of each component, on the behaviours that follow it; each  *)
(* is stated, in words too, in the module of the component.                  *)

\* Sales: invoice numbers of a day have no gaps.
NumbersConsecutive == focus = "sales" => S!NumbersConsecutive
\* Sales: points are those earned by cumulative spend less those redeemed, and
\* with no request open, tiers fit points and settings.
AccountsFollowSales == focus = "sales" => S!PointsFromSpend /\ S!TierFitsPoints
\* Ledger: on every date lines are one-sided, the trial balance and the
\* accounting equation hold, and the reports agree with the accounts.
BooksBalance ==
    focus = "books" =>
        B!OneSided /\ B!BooksBalance /\ B!ReportAgreesWithLedger /\ B!TrendAddsUp
\* Ledger: whatever is edited, reversed and cleared meanwhile, reversals cancel
\* their entries, statements chain, and the last one with the open lines gives
\* the BANK account.
BankBookReconciles ==
    focus = "bank" => K!ReversalCancels /\ K!StatementsChain /\ K!BankBookReconciles
\* Printer and receipt: what is reported as printed was sent whole, apart from
\* other receipts, on a printer still connected; on paper no style reaches the
\* next line, rows add up, and the browser's page aligns every amount.
ReceiptsPrinted ==
    /\ focus = "printer" => H!HeldIsConnected /\ H!PrintedIsWhole /\ H!ReceiptsApart
    /\ focus = "receipt" => X!LinesKeepApart /\ X!RowsAddUp /\ X!AmountsInColumns
\* Catalogue: items are listed on the pages of the categories they are under.
ListedWhereFiled == focus = "catalogue" => G!ListedWhereFiled
\* Terminal: nothing shown or offered is refused for the role, nothing comes
\* from an earlier session, and the user's own changes show on a settled page.
PagesOfTheUser ==
    focus = "terminal" => T!NeverForbidden /\ T!NoStrangersData /\ T!OwnWritesShown
\* Desktop: only an interrupted initialization keeps a start from the window,
\* the passwords of a fresh database are read before they are lost, and the
\* application ends after its child processes.
StartsUnlessCut ==
    focus = "desktop" => Z!StartsUnlessCut /\ Z!CredentialsKnown /\ Z!NothingLeftRunning
=============================================================================
