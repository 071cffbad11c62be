------------------------------ MODULE Receipt -------------------------------
(* What a receipt says and how it comes out: the rows made from the answer   *)
(* to a checkout, the printer's encoder, which keeps alignment, weight, size *)
(* and inversion from line to line, and the browser's page, which aligns a   *)
(* row in columns by the label it begins with.                               *)
EXTENDS Integers, Sequences, Functions

CONSTANTS
    Responses,      \* answers of checkouts
    Business,       \* what is known of the business: subset of "tagline", "phone"
    Styles          \* styles of the pairs of lines printed besides receipts

\* An answer: amounts are not negative, the subtotal is that of the items, the
\* total what the discounts leave of it, and the payment covers the total
\* (checkout.service.ts:226).
Wellformed(r) ==
    /\ r.items \in Seq(Nat)
    /\ {r.manual, r.reward, r.cash, r.change, r.earned, r.redeemed} \subseteq Nat
    /\ {r.subtotal, r.total} \subseteq Nat
    /\ {r.customer, r.phone, r.reference} \subseteq BOOLEAN
    /\ r.subtotal = SumFunction(r.items)
    /\ r.total = r.subtotal - r.manual - r.reward
    /\ r.cash >= r.total /\ r.change = r.cash - r.total
Parameters ==
    /\ \A r \in Responses : Wellformed(r)
    /\ Styles \subseteq [align : {"left", "center"}, bold : BOOLEAN, large : BOOLEAN,
                         medium : BOOLEAN, inverse : BOOLEAN]

VARIABLES
    receipt,        \* the answer printed, or <<>> when only the lines count
    lines,          \* lines to print
    modes,          \* modes of the encoder
    out             \* modes with which each line so far was printed

vars == <<receipt, lines, modes, out>>

-----------------------------------------------------------------------------
(* Lines (receipt-printer.ts): labels without their spaces.                  *)

Style(align, bold, large, medium, inverse) ==
    [align |-> align, bold |-> bold, large |-> large, medium |-> medium, inverse |-> inverse]
Plain == Style("left", FALSE, FALSE, FALSE, FALSE)
Bold == [Plain EXCEPT !.bold = TRUE]
Centered == [Plain EXCEPT !.align = "center"]
Line(label, amount, style) == [label |-> label, amount |-> amount, style |-> style, image |-> FALSE]
NoText == "none"
Text(style) == <<Line(NoText, 0, style)>>
Row(label, amount) == <<Line(label, amount, Plain)>>
BoldRow(label, amount) == <<Line(label, amount, Bold)>>
When(condition, rows) == IF condition THEN rows ELSE <<>>
Divider == <<Line("divider", 0, Plain)>>
Image == [label |-> NoText, amount |-> 0, style |-> Centered, image |-> TRUE]

-----------------------------------------------------------------------------
(* build-receipt-data.ts and receipt-formatter.ts                            *)

ShowsLoyalty(r) == r.customer /\ (r.earned > 0 \/ r.redeemed > 0)

Header ==
    Text(Style("center", TRUE, TRUE, FALSE, FALSE)) \o Text([Bold EXCEPT !.align = "center"])
    \o When("tagline" \in Business, Text(Centered)) \o Text(Centered)
    \o When("phone" \in Business, Text(Centered)) \o Divider

Transaction(r) ==
    Row("InvoiceNo", 0) \o Row("Date", 0) \o Row("Time", 0) \o Row("CustomerName", 0)
    \o When(r.customer /\ r.phone, Row("MobileNo", 0)) \o Divider

ItemTable(r) ==
    BoldRow("SL", 0) \o Divider
    \o (IF r.items = <<>> THEN Text(Centered)
        ELSE [n \in 1 .. Len(r.items) |-> Line("item", r.items[n], Plain)])
    \o Divider

Totals(r) ==
    BoldRow("Subtotal", r.subtotal)
    \o When(r.manual > 0, Row("Discount", r.manual))
    \o When(r.reward > 0, Row("RewardDiscount", r.reward))
    \o BoldRow("TotalAmount", r.total) \o Row("PaidAmount", r.cash)
    \o Row("DueAmount", IF r.total > r.cash THEN r.total - r.cash ELSE 0)
    \o Row("Change", r.change) \o Divider

Footer(r) ==
    Row("PaymentMethod", 0) \o When(r.reference, Row("Reference", 0)) \o Row("StaffName", 0)
    \o When(ShowsLoyalty(r),
            When(r.earned > 0, Row("PointsEarned", r.earned))
            \o When(r.redeemed > 0, Row("PointsRedeemed", r.redeemed))
            \o Row("TotalPoints", 0) \o Row("Tier", 0) \o Divider)
    \o Divider \o Text(Plain) \o Text([Bold EXCEPT !.align = "center"]) \o Divider

FormatReceipt(r) == Header \o Transaction(r) \o ItemTable(r) \o Totals(r) \o Footer(r)

-----------------------------------------------------------------------------
(* The page printed by the browser: how a row is laid out.                   *)

TOTAL_LABELS == {"Subtotal", "Discount", "RewardDiscount", "TotalAmount", "PaidAmount",
                 "DueAmount", "Change"}
DETAIL_LABELS == {"InvoiceNo", "Date", "Time", "CustomerName", "MobileNo", "PaymentMethod",
                  "Reference", "StaffName", "PointsEarned", "PointsRedeemed", "TotalPoints", "Tier"}

Layout(line) ==
    CASE line.label = "divider" -> "divider"
      [] line.label \in {"SL", "item"} -> "columns"
      [] line.label \in TOTAL_LABELS \cup DETAIL_LABELS -> "columns"
      [] OTHER -> "text"

-----------------------------------------------------------------------------
(* The encoder of the Bluetooth printer (appendLine)                         *)

Normal == [align |-> "left", bold |-> FALSE, size |-> 1, inverse |-> FALSE]

Reset == Normal

\* A line with the modes it is printed with and those it leaves behind.
Printed(line, printed, left) ==
    /\ out' = Append(out, printed)
    /\ modes' = left
    /\ UNCHANGED <<receipt, lines>>

\* Both kinds of picture are centred or drawn as asked, and leave the line left.
AppendImage(line) ==
    line.image /\ Printed(line, [Reset EXCEPT !.align = "center"], Reset)

AppendMediumText(line) ==
    /\ ~line.image /\ line.style.medium
    /\ Printed(line, [Reset EXCEPT !.align = line.style.align, !.bold = line.style.bold], Reset)

AppendText(line) ==
    /\ ~line.image /\ ~line.style.medium
    /\ LET now == [Reset EXCEPT !.align = line.style.align,
                                !.bold = line.style.bold \/ Reset.bold,
                                !.size = IF line.style.large THEN 2 ELSE Reset.size,
                                !.inverse = line.style.inverse \/ Reset.inverse]
       IN  Printed(line, now, [now EXCEPT !.bold = FALSE, !.inverse = FALSE])

-----------------------------------------------------------------------------
Init ==
    /\ \/ \E r \in Responses : receipt = <<r>> /\ lines = FormatReceipt(r)
       \/ /\ receipt = <<>>
          /\ lines \in {<<a, b>> : a, b \in {Image} \cup {Line(NoText, 0, style) : style \in Styles}}
    /\ modes = Normal /\ out = <<>>

AppendLine ==
    /\ Len(out) < Len(lines)
    /\ LET line == lines[Len(out) + 1]
       IN  AppendImage(line) \/ AppendMediumText(line) \/ AppendText(line)

Next == AppendLine
Spec == Init /\ [][Next]_vars

-----------------------------------------------------------------------------
\* The variables are of their types.
TypeOK ==
    /\ Len(out) <= Len(lines)
    /\ modes.size \in 1 .. 2 /\ modes.bold = FALSE /\ modes.inverse = FALSE

\* Every line is printed with its own style, whatever the line before it was
\* (web-bluetooth-printer.ts:205 "so lines do not bleed into one another").
Asked(line) ==
    LET style == line.style
    IN  [align |-> style.align, bold |-> style.bold,
         size |-> IF style.large /\ ~style.medium THEN 2 ELSE 1,
         inverse |-> style.inverse /\ ~style.medium]
LinesKeepApart == \A n \in 1 .. Len(out) : out[n] = Asked(lines[n])

\* The rows on paper add up for the customer who reads them: items to the
\* subtotal, discounts to the total, payment less change to the total, though
\* rows of no amount are left out (receipt-formatter.ts:188).
Amount(labels) ==
    SumFunction([n \in 1 .. Len(out) |-> IF lines[n].label \in labels THEN lines[n].amount ELSE 0])
RowsAddUp ==
    receipt # <<>> /\ Len(out) = Len(lines) =>
        /\ Amount({"item"}) = Amount({"Subtotal"})
        /\ Amount({"Subtotal"}) - Amount({"Discount", "RewardDiscount"}) = Amount({"TotalAmount"})
        /\ Amount({"PaidAmount", "DueAmount"}) - Amount({"Change"}) = Amount({"TotalAmount"})

\* The browser's page aligns every row of a receipt that has an amount: the
\* labels of the formatter are those the page knows
\* (browser-receipt-printer.ts:3).
AmountsInColumns ==
    \A n \in 1 .. Len(out) : lines[n].label # NoText => Layout(lines[n]) # "text"
=============================================================================
