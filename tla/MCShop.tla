------------------------------- MODULE MCShop -------------------------------
(* Small instances of the components of the shop that meet only in the       *)
(* database or through the API. They share no variable, so one behaviour     *)
(* follows one component: focus says which, and the others are switched off. *)
(* The components of Shop come first; they are followed as ShopSpec says.    *)
EXTENDS Shop

CONSTANTS c1, s1, s2

-----------------------------------------------------------------------------
(* Sales: a customer and guests, two requests, two versions of the settings. *)

Tier(minimum, redeem, discount) ==
    [minimum |-> minimum, redeem |-> redeem, discount |-> discount]
Rules(tiers) == [spend |-> 2, points |-> 1, tiers |-> tiers]

ShopVersions == {Rules(<<Tier(0, 1, 1), Tier(2, 2, 1)>>), Rules(<<Tier(0, 1, 1), Tier(1, 1, 1)>>)}

-----------------------------------------------------------------------------
(* SalesReturns: a product and a service at a discount with VAT and points,  *)
(* and a free product with a package, at no price or fully discounted.       *)

Item(kind, quantity, price, cost) ==
    [kind |-> kind, quantity |-> quantity, price |-> price, cost |-> cost]
Bought == [items |-> <<Item("product", 3, 5, 2), Item("service", 2, 3, 0)>>,
           discount |-> 3, vat |-> 1, earned |-> 3, redeemed |-> 2, customer |-> c1]
Free(price) ==
    [items |-> <<Item("product", 2, 0, 1), Item("package", 2, price, 0)>>,
     discount |-> price, vat |-> 0, earned |-> 0, redeemed |-> 0, customer |-> Guest]

ShopSold == {<<Bought, Free(price)>> : price \in {0, 2}}
ShopOpenings == {[spend |-> 9, points |-> 3], [spend |-> 16, points |-> 0]}

-----------------------------------------------------------------------------
(* Books: every kind of document with the amounts at which lines appear and  *)
(* vanish, one at a time. Bank: two expenses, edited, reversed and cleared   *)
(* by two requests at once.                                                  *)

Bit == {0, 1}
EveryKind ==
    [kind : {"sale"}, method : {"CARD"}, net : {0, 2}, vat : Bit, cogs : Bit]
    \cup [kind : {"salesReturn"}, method : {"CASH"}, net : {0, 2}, vat : Bit, cogs : Bit]
    \cup [kind : {"purchase"}, method : {"MOBILE", "CREDIT"}, amount : {1}]
    \cup [kind : {"supplierPayment"}, method : {"BANK"}, amount : {1}]
    \cup [kind : {"supplierReturn"}, method : {"CREDIT"}, amount : {1}, value : 0 .. 2]
    \cup [kind : {"adjustment", "revaluation"}, sign : {-1, 1}, amount : Bit]
    \cup [kind : {"expense"}, method : {"CARD", "OTHER"}, amount : {1}]
    \cup [kind : {"salary"}, type : {"REGULAR", "ADVANCE", "ADVANCE_ADJUSTMENT"},
          method : {"BANK"}, amount : {1}]
    \cup [kind : {"voucher"}, method : {"CASH"}, amount : {1},
          type : {"OWNER_CONTRIBUTION", "OWNER_WITHDRAWAL", "CASH_BANK_TRANSFER"}]
Expense(method, amount) == [kind |-> "expense", method |-> method, amount |-> amount]

ShopBookLedger ==
    [documents |-> EveryKind, sessions |-> {s1}, operations |-> {"post", "reverse"},
     entries |-> 2, versions |-> 1, openings |-> {}, days |-> 2]

ShopBankLedger ==
    [documents |-> {Expense("BANK", 1), Expense("CASH", 2)}, sessions |-> {s1, s2},
     operations |-> {"post", "rewrite", "remove", "reverse", "reconcile"},
     entries |-> 2, versions |-> 2, openings |-> {1}, days |-> 2]

-----------------------------------------------------------------------------
(* Purchasing: one purchase with two lines, one with one, two returns at     *)
(* once. TrustedTime: clocks that are set, stop and lock payroll, and a      *)
(* month that ends. Packages: two components, one of which changes its       *)
(* price. People: two users, an employee, two browsers, two edits.           *)

ShopPurchaseOf == <<"a", "a", "b">>
ShopQuantity == <<2, 1, 1>>
ShopPrices == [a |-> {1, 2}, b |-> {1}]

(* Attendance: two days with an editor that saves twice, and every record    *)
(* of a month of four days, the employee joining on the second; these        *)
(* records are states to compute from, and no editor changes them.           *)

ShopEditedMonth ==
    [lastDay |-> 2, today |-> 2, joined |-> 1, statuses |-> {"PRESENT"}, editors |-> {"e1"},
     salary |-> 7, frequency |-> "MONTHLY", saves |-> 2, rows |-> 2]

ShopValuedMonth ==
    [lastDay |-> 4, today |-> 4, joined |-> 2,
     statuses |-> {"PRESENT", "HALF_DAY", "LEAVE", "ABSENT"}, editors |-> {"e1"},
     salary |-> 7, frequency |-> "MONTHLY", saves |-> 0, rows |-> 1]

(* Backups: two requests, a whole archive of this release and a damaged one  *)
(* of an earlier release, two failing steps.                                 *)

Old(level, whole, photos, icons) ==
    [whole |-> whole,
     db |-> [level |-> level, names |-> [photos |-> photos, icons |-> icons]],
     files |-> [photos |-> {1}, icons |-> icons]]

ShopArchives == {Old(1, TRUE, {1}, {2}), Old(2, FALSE, {1}, {})}

-----------------------------------------------------------------------------
(* Cart: one item whose price, stock and the tiers change once.              *)

Offer(minimum, redeem, discount) ==
    [minimum |-> minimum, redeem |-> redeem, discount |-> discount]
Catalogue(price, stocked, tiers) ==
    [items |-> [i \in {"i1"} |-> [price |-> price, stock |-> stocked]], tiers |-> tiers]

ShopCatalogues ==
    <<Catalogue(3, 2, {Offer(0, 1, 1), Offer(2, 1, 2)}),
      Catalogue(2, 1, {Offer(2, 1, 2), Offer(0, 0, 0)})>>

(* Printer: two jobs of two chunks, two printers within reach.               *)

(* Receipt: receipts of one or two items with and without every row, and     *)
(* every pair of styles.                                                     *)

Answer(items, manual, reward, named, extra) ==
    LET subtotal == IF Len(items) = 1 THEN items[1] ELSE items[1] + items[2]
        total == subtotal - manual - reward
    IN  [items |-> items, subtotal |-> subtotal, manual |-> manual, reward |-> reward,
         total |-> total, cash |-> total + extra, change |-> extra, customer |-> named,
         phone |-> named, reference |-> named, earned |-> IF named THEN 1 ELSE 0, redeemed |-> reward]

ShopAnswers ==
    {Answer(items, manual, reward, named, extra) :
        items \in {<<2>>, <<2, 3>>}, manual \in Bit, reward \in Bit, named \in BOOLEAN, extra \in Bit}
ShopStyles ==
    [align : {"left", "center"}, bold : BOOLEAN, large : BOOLEAN, medium : BOOLEAN, inverse : BOOLEAN]

(* Catalogue: a root of each kind and one more category. Terminal: every     *)
(* query with every mutation worth watching with it. Desktop: three starts.  *)

-----------------------------------------------------------------------------
\* Customers' accounts follow what is sold and returned only then.
ASSUME AccountsMayFollow == SteadyAccounts /\ SeparateReturns

vars ==
    <<focus, salesVars, returnsVars, ledgerVars, purchasingVars, attendanceVars, backupsVars,
      clockVars, cartVars, printerVars, receiptVars, catalogueVars, packagesVars, peopleVars, terminalVars,
      desktopVars>>

SalesOff ==
    settings = None /\ customer = None /\ redeemed = None /\ issued = None /\ today = None /\ tx = None
ReturnsOff ==
    sale = None /\ returned = None /\ refunds = None /\ buyer = None /\ opening = None /\ call = None
LedgerOff == journal = None /\ statements = None /\ request = None
PurchasingOff ==
    received = None /\ sentBack = None /\ stock = None /\ sold = None /\ returning = None
AttendanceOff == attended = None /\ rowId = None /\ sheet = None
BackupsOff ==
    /\ db = None /\ disk = None /\ archives = None /\ used = None /\ op = None
    /\ failures = None /\ broken = None
ClockOff ==
    /\ real = None /\ offset = None /\ slept = None /\ clockSettings = None /\ asking = None
    /\ trusted = None /\ flagged = None /\ online = None /\ seen = None /\ periods = None
    /\ removed = None /\ caughtUp = None /\ work = None /\ running = None /\ restarts = None
CartOff ==
    /\ server = None /\ points = None /\ loaded = None /\ cart = None /\ paying = None
    /\ confirmation = None
PrinterOff ==
    /\ platform = None /\ link = None /\ printer = None /\ showing = None /\ printing = None
    /\ job = None /\ paper = None /\ faults = None
ReceiptOff == receipt = None /\ lines = None /\ modes = None /\ out = None
CatalogueOff == category = None /\ gone = None /\ item = None /\ filing = None
PackagesOff ==
    priced = None /\ package = None /\ contents = None /\ updating = None /\ overlapped = None
PeopleOff ==
    /\ person = None /\ token = None /\ editing = None /\ edits = None /\ said = None
    /\ mingled = None /\ orderly = None
TerminalOff ==
    /\ watched = None /\ offered = None /\ session = None /\ page = None /\ data = None
    /\ cache = None /\ invalid = None /\ get = None /\ write = None /\ needed = None
    /\ forbidden = None
DesktopOff ==
    /\ file = None /\ directory = None /\ root = None /\ granted = None /\ users = None
    /\ app = None /\ known = None /\ mysqld = None /\ api = None /\ stop = None
    /\ acknowledged = None /\ starts = None

\* Components not followed stay as they are.
OffUnless(names, Off) == focus \in names \/ Off
OthersOff ==
    /\ OffUnless({"sales"}, SalesOff) /\ OffUnless({"returns"}, ReturnsOff)
    /\ OffUnless({"books", "bank"}, LedgerOff) /\ OffUnless({"purchasing"}, PurchasingOff)
    /\ OffUnless({"editor", "worth"}, AttendanceOff) /\ OffUnless({"backups"}, BackupsOff)
    /\ OffUnless({"clock"}, ClockOff)
    /\ OffUnless({"cart"}, CartOff) /\ OffUnless({"printer"}, PrinterOff)
    /\ OffUnless({"catalogue"}, CatalogueOff) /\ OffUnless({"packages"}, PackagesOff)
    /\ OffUnless({"people"}, PeopleOff)
    /\ OffUnless({"receipt"}, ReceiptOff) /\ OffUnless({"terminal"}, TerminalOff)
    /\ OffUnless({"desktop"}, DesktopOff)

Init ==
    \/ focus = "sales" /\ S!Init /\ OthersOff
    \/ focus = "returns" /\ R!Init /\ OthersOff
    \/ focus = "books" /\ B!Init /\ OthersOff
    \/ focus = "bank" /\ K!Init /\ OthersOff
    \/ focus = "purchasing" /\ P!Init /\ OthersOff
    \/ focus = "editor" /\ A!Init /\ OthersOff
    \/ focus = "worth" /\ W!Init /\ OthersOff
    \/ focus = "backups" /\ D!Init /\ OthersOff
    \/ focus = "clock" /\ Q!Init /\ OthersOff
    \/ focus = "cart" /\ C!Init /\ OthersOff
    \/ focus = "printer" /\ H!Init /\ OthersOff
    \/ focus = "receipt" /\ X!Init /\ OthersOff
    \/ focus = "catalogue" /\ G!Init /\ OthersOff
    \/ focus = "packages" /\ V!Init /\ OthersOff
    \/ focus = "people" /\ Y!Init /\ OthersOff
    \/ focus = "terminal" /\ T!Init /\ OthersOff
    \/ focus = "desktop" /\ Z!Init /\ OthersOff

Unless(names, theirs) == IF focus \in names THEN TRUE ELSE UNCHANGED theirs
OthersRest ==
    /\ UNCHANGED focus
    /\ Unless({"sales"}, salesVars) /\ Unless({"returns"}, returnsVars)
    /\ Unless({"books", "bank"}, ledgerVars) /\ Unless({"purchasing"}, purchasingVars)
    /\ Unless({"editor", "worth"}, attendanceVars) /\ Unless({"backups"}, backupsVars)
    /\ Unless({"clock"}, clockVars)
    /\ Unless({"cart"}, cartVars) /\ Unless({"printer"}, printerVars)
    /\ Unless({"catalogue"}, catalogueVars) /\ Unless({"packages"}, packagesVars)
    /\ Unless({"people"}, peopleVars)
    /\ Unless({"receipt"}, receiptVars) /\ Unless({"terminal"}, terminalVars)
    /\ Unless({"desktop"}, desktopVars)

Next ==
    \/ focus = "sales" /\ S!Next /\ OthersRest
    \/ focus = "returns" /\ R!Next /\ OthersRest
    \/ focus = "books" /\ B!Next /\ OthersRest
    \/ focus = "bank" /\ K!Next /\ OthersRest
    \/ focus = "purchasing" /\ P!Next /\ OthersRest
    \/ focus = "editor" /\ A!Next /\ OthersRest
    \/ focus = "backups" /\ D!Next /\ OthersRest
    \/ focus = "clock" /\ Q!Next /\ OthersRest
    \/ focus = "cart" /\ C!Next /\ OthersRest
    \/ focus = "printer" /\ H!Next /\ OthersRest
    \/ focus = "receipt" /\ X!Next /\ OthersRest
    \/ focus = "catalogue" /\ G!Next /\ OthersRest
    \/ focus = "packages" /\ V!Next /\ OthersRest
    \/ focus = "people" /\ Y!Next /\ OthersRest
    \/ focus = "terminal" /\ T!Next /\ OthersRest
    \/ focus = "desktop" /\ Z!Next /\ OthersRest

Spec == Init /\ [][Next]_vars

-----------------------------------------------------------------------------
(* The properties of each component, on the behaviours that follow it; each  *)
(* is stated, in words too, in the module of the component.                  *)

\* Every component keeps its types.
TypeOK ==
    CASE focus = "sales" -> S!TypeOK
      [] focus = "returns" -> R!TypeOK
      [] focus = "books" -> B!TypeOK
      [] focus = "bank" -> K!TypeOK
      [] focus = "purchasing" -> P!TypeOK
      [] focus = "editor" -> A!TypeOK
      [] focus = "worth" -> W!TypeOK
      [] focus = "backups" -> D!TypeOK
      [] focus = "clock" -> Q!TypeOK
      [] focus = "cart" -> C!TypeOK
      [] focus = "printer" -> H!TypeOK
      [] focus = "receipt" -> X!TypeOK
      [] focus = "catalogue" -> G!TypeOK
      [] focus = "packages" -> V!TypeOK
      [] focus = "people" -> Y!TypeOK
      [] focus = "terminal" -> T!TypeOK
      [] focus = "desktop" -> Z!TypeOK

\* Ledger: the balance sheet returned balances.
BalanceSheetBalances == focus = "books" => B!BalanceSheetBalances
=============================================================================
