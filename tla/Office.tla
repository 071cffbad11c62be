------------------------------- MODULE Office -------------------------------
(* Components of the shop beside sales and ledger: sales returns, purchases, *)
(* packages, people, trusted time, backups, attendance and the cart. They    *)
(* share no variable, and one behaviour follows one of them: focus says      *)
(* which. The specification says of a behaviour only what the component      *)
(* followed does, so that a shop that follows other components as well       *)
(* (MCShop) implements it.                                                   *)
EXTENDS Integers, FiniteSets, Sequences

CONSTANTS Guest, None
\* Packages, and sales: requests that may be open at once.
CONSTANT Sessions
\* Sales returns.
CONSTANTS Invoices, Positions, Sold, Buyers, Clerks, Openings
\* Purchasing.
CONSTANTS PurchasePositions, PurchaseOf, Quantity, Managers, MaxSales
\* Packages.
CONSTANTS Components, Prices, PackagePrices, Packages
\* People.
CONSTANTS Users, Employees, Clients, Passwords, MaxEdits
\* Trusted time.
CONSTANTS Grace, Warning, MonthLength, LastTick, Offsets, MaxSettings, MaxSleep,
    MaxRemoved, MaxRestarts
\* Backups.
CONSTANTS Requests, FileNames, OldArchives, Level, MaxFailures, MaxDownloads
\* Attendance: a month that is edited, and one whose worth is computed.
CONSTANTS EditedMonth, ValuedMonth
\* Cart.
CONSTANTS Items, Catalogues, PointsBefore, Discounts, Cash, Methods, MaxQuantity

VARIABLES focus
VARIABLES sale, returned, refunds, buyer, opening, call
VARIABLES received, sentBack, stock, sold, returning
VARIABLES priced, package, contents, updating, overlapped
VARIABLES person, token, editing, edits, said, mingled, orderly
VARIABLES real, offset, slept, clockSettings, asking, trusted, flagged, online, seen,
    periods, removed, caughtUp, work, running, restarts
VARIABLES db, disk, archives, used, op, failures, broken
VARIABLES attended, rowId, sheet
VARIABLES server, points, loaded, cart, paying, confirmation

R == INSTANCE SalesReturns WITH Lines <- Positions
P == INSTANCE Purchasing WITH
    Lines <- PurchasePositions, Sessions <- Managers, returned <- sentBack, tx <- returning
V == INSTANCE Packages WITH
    Amounts <- PackagePrices, row <- package, items <- contents, price <- priced, tx <- updating
Y == INSTANCE People WITH row <- person, call <- editing
Q == INSTANCE TrustedTime WITH settings <- clockSettings, job <- work
D == INSTANCE Backups WITH Names <- FileNames
A == INSTANCE Attendance WITH
    row <- attended, id <- rowId, editor <- sheet,
    LastDay <- EditedMonth.lastDay, Today <- EditedMonth.today, Joined <- EditedMonth.joined,
    Statuses <- EditedMonth.statuses, Editors <- EditedMonth.editors, Salary <- EditedMonth.salary,
    Frequency <- EditedMonth.frequency, MaxSaves <- EditedMonth.saves, MaxRows <- EditedMonth.rows
W == INSTANCE Attendance WITH
    row <- attended, id <- rowId, editor <- sheet,
    LastDay <- ValuedMonth.lastDay, Today <- ValuedMonth.today, Joined <- ValuedMonth.joined,
    Statuses <- ValuedMonth.statuses, Editors <- ValuedMonth.editors, Salary <- ValuedMonth.salary,
    Frequency <- ValuedMonth.frequency, MaxSaves <- ValuedMonth.saves, MaxRows <- ValuedMonth.rows
C == INSTANCE Cart WITH Versions <- Catalogues, Points <- PointsBefore, call <- paying

\* What is assumed of the parameters.
ASSUME OfficeParameters ==
    /\ R!Parameters /\ P!Parameters /\ V!Parameters /\ Y!Parameters /\ Q!Parameters
    /\ D!Parameters /\ A!Parameters /\ W!Parameters /\ C!Parameters

\* Returns of one customer's sales do not overlap: one request at a time, or one
\* sale for each customer.
SeparateReturns ==
    \/ \A j, k \in Clerks : j = k
    \/ \A table \in Sold : \A i, j \in Invoices :
          i # j /\ table[i].customer = table[j].customer => table[i].customer = Guest

-----------------------------------------------------------------------------

returnsVars == <<sale, returned, refunds, buyer, opening, call>>
purchasingVars == <<received, sentBack, stock, sold, returning>>
packagesVars == <<priced, package, contents, updating, overlapped>>
peopleVars == <<person, token, editing, edits, said, mingled, orderly>>
clockVars ==
    <<real, offset, slept, clockSettings, asking, trusted, flagged, online, seen, periods,
      removed, caughtUp, work, running, restarts>>
backupsVars == <<db, disk, archives, used, op, failures, broken>>
attendanceVars == <<attended, rowId, sheet>>
cartVars == <<server, points, loaded, cart, paying, confirmation>>
officeVars ==
    <<focus, returnsVars, purchasingVars, packagesVars, peopleVars, clockVars, backupsVars,
      attendanceVars, cartVars>>

OfficeInit ==
    /\ focus = "returns" => R!Init
    /\ focus = "purchasing" => P!Init
    /\ focus = "packages" => V!Init
    /\ focus = "people" => Y!Init
    /\ focus = "clock" => Q!Init
    /\ focus = "backups" => D!Init
    /\ focus = "editor" => A!Init
    /\ focus = "worth" => W!Init
    /\ focus = "cart" => C!Init

\* The month whose worth is computed is as it is.
OfficeNext ==
    /\ UNCHANGED focus
    /\ focus = "returns" => R!Next
    /\ focus = "purchasing" => P!Next
    /\ focus = "packages" => V!Next
    /\ focus = "people" => Y!Next
    /\ focus = "clock" => Q!Next
    /\ focus = "backups" => D!Next
    /\ focus = "editor" => A!Next
    /\ focus = "worth" => UNCHANGED attendanceVars
    /\ focus = "cart" => C!Next

OfficeSpec == OfficeInit /\ [][OfficeNext]_officeVars

-----------------------------------------------------------------------------
(* The properties of each component, on the behaviours that follow it; each  *)
(* is stated, in words too, in the module of the component.                  *)

\* Sales returns: however pieces and requests are split, lines, refunds and
\* points stay within the sale, depend only on what came back, and are what the
\* customer's row follows.
ReturnsAddUp ==
    focus = "returns" =>
        /\ R!ReturnedWithinSold /\ R!AmountsFollowQuantity /\ R!RefundWithinPaid
        /\ R!PointsWithinSale /\ R!AccountFollowsReturns
\* Purchasing: no purchase line is sent back beyond its quantity.
ReturnedWithinPurchased == focus = "purchasing" => P!ReturnedWithinPurchased
\* Packages: the items of a package are those of one update, and without
\* overlapping updates its amounts add up.
PackageAddsUp == focus = "packages" => V!ItemsOfOneUpdate /\ V!PackageAddsUp
\* People: edits of a row that do not overlap are all kept, and in good order
\* an active administrator remains.
EditsKept == focus = "people" => Y!EditsKept /\ Y!AdminRemains
\* Backups: a restore replaces everything or nothing; files that rows name are
\* on disk between restores, and in the archives.
RestoredIsWhole ==
    focus = "backups" => D!AllOrNothing /\ D!NamedFilesExist /\ D!ArchivesComplete
\* TrustedTime: payroll stays refused until time is verified again.
RefusedUntilVerified == [][focus = "clock" => Q!StaysRefused]_officeVars
\* TrustedTime: a catch-up that ends leaves no month without its period, and
\* none works on a month that has not begun.
CatchUpLeavesNoGap == [][focus = "clock" => Q!NoGapAfter /\ Q!NoPeriodAhead']_officeVars
\* Attendance: what the editor shows as saved is on record, and a day present
\* is worth no less than any other record of it.
AttendanceCounts ==
    /\ focus = "editor" => A!SavedMeansStored
    /\ focus = "worth" => W!PresentNeverWorse
\* Cart: the server sells at the total and the change shown, and the money of
\* every sale made adds up.
SoldAsShown == [][focus = "cart" => C!AsShown /\ C!SalesAddUp']_officeVars
=============================================================================
