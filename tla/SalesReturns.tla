---------------------------- MODULE SalesReturns ----------------------------
(* Partial returns of sales: refunds and costs by cumulative floors, the    *)
(* points taken back and restored, and the customer's row, with requests    *)
(* that return lines of one sale, or sales of one customer, at once.        *)
EXTENDS Integers, FiniteSets, Functions

CONSTANTS
    Invoices,    \* sales that may be returned
    Lines,       \* lines of a sale
    Sold,        \* the possible transactions tables, with their items
    Buyers,      \* customers
    Clerks,      \* requests that may be open at once
    Openings,    \* spend and points of a customer before the returns
    Guest

\* An item: kind, quantity, price of the line, cost of the line.
Item == [kind : {"product", "service", "package"}, quantity : Nat \ {0}, price : Nat, cost : Nat]
\* A sale: its items and what checkout computed for it.
Invoice == [items : [Lines -> Item], discount : Nat, vat : Nat,
            earned : Nat, redeemed : Nat, customer : Buyers \cup {Guest}]
Subtotal(x) == SumFunction([l \in Lines |-> x.items[l].price])
\* What is assumed of the parameters.
Parameters ==
    /\ Guest \notin Buyers
    /\ Sold \subseteq [Invoices -> Invoice]
    /\ Openings \subseteq [spend : Nat, points : Nat]
    /\ IsFiniteSet(Invoices) /\ IsFiniteSet(Lines) /\ Lines # {}
    /\ \A table \in Sold, i \in Invoices : table[i].discount <= Subtotal(table[i])

VARIABLES
    sale,       \* transactions rows; no action changes them
    returned,   \* by sale and line, the sums over its sales_return_lines
    refunds,    \* by sale, the sums over its sales_returns
    buyer,      \* committed customers rows
    opening,    \* the customers rows as they were
    call        \* the request of each clerk

vars == <<sale, returned, refunds, buyer, opening, call>>

Net(x) == Subtotal(x) - x.discount
Total(x) == Net(x) + x.vat
Sum(f) == SumFunction(f)

Nothing == [quantity |-> 0, gross |-> 0, revenue |-> 0, vat |-> 0, cogs |-> 0]
NoReturns == [refund |-> 0, cogs |-> 0, removed |-> 0, restored |-> 0]
Idle == [pc |-> "idle"]

Init ==
    /\ sale \in Sold
    /\ returned = [i \in Invoices |-> [l \in Lines |-> Nothing]]
    /\ refunds = [i \in Invoices |-> NoReturns]
    /\ opening \in [Buyers -> Openings]
    /\ buyer = opening
    /\ call = [k \in Clerks |-> Idle]

-----------------------------------------------------------------------------
(* The figures of a return.                                                *)

\* Math.round of a quotient of naturals.
Rounded(a, b) == (2 * a + b) \div (2 * b)

\* What q returned pieces of a line amount to, over all its returns.
Cumulative(x, l, q) ==
    LET item  == x.items[l]
        gross == (item.price * q) \div item.quantity
    IN  [quantity |-> q, gross |-> gross,
         revenue |-> (gross * Net(x)) \div Subtotal(x),
         vat |-> (gross * x.vat) \div Subtotal(x),
         cogs |-> IF item.kind = "product" THEN Rounded(item.cost * q, item.quantity) ELSE 0]

Minus(a, b) == [f \in DOMAIN a |-> a[f] - b[f]]
Plus(a, b) == [f \in DOMAIN a |-> a[f] + b[f]]

\* Variant with a mistake: every return rounds for itself.
SelectedAlone(x, prior, quantity) ==
    [l \in DOMAIN quantity |-> Cumulative(x, l, quantity[l])]

\* The lines of one return: the cumulative amounts less the earlier returns'.
Selected(x, prior, quantity) ==
    [l \in DOMAIN quantity |->
        Minus(Cumulative(x, l, prior[l].quantity + quantity[l]), prior[l])]

\* Variant with a mistake: a difference below zero is kept.
PositiveOrNot(n) == n

Positive(n) == IF n > 0 THEN n ELSE 0

\* Points in proportion to the refunds so far, less those already moved.
Share(points, x, refund, prior) ==
    Positive((IF Total(x) > 0 THEN (points * refund) \div Total(x) ELSE 0) - prior)

\* The sales_returns row.
Figures(x, sums, lines) ==
    LET refund == Sum([l \in DOMAIN lines |-> lines[l].revenue + lines[l].vat])
    IN  [refund   |-> refund,
         cogs     |-> Sum([l \in DOMAIN lines |-> lines[l].cogs]),
         removed  |-> Share(x.earned, x, sums.refund + refund, sums.removed),
         restored |-> Share(x.redeemed, x, sums.refund + refund, sums.restored)]

\* The customer's row after a return, computed from the row the request read.
AfterReturn(row, figures) ==
    [spend  |-> Positive(row.spend - figures.refund),
     points |-> Positive(row.points - figures.removed) + figures.restored]

-----------------------------------------------------------------------------
(* SalesReturnsService.create.                                             *)

Request(k) ==
    /\ call[k].pc = "idle"
    /\ \E i \in Invoices, L \in (SUBSET Lines) \ {{}} :
       \E quantity \in [L -> 1 .. 2] :
         call' = [call EXCEPT ![k] = [pc |-> "asked", invoice |-> i, quantity |-> quantity]]
    /\ UNCHANGED <<sale, returned, refunds, buyer, opening>>

Locks(k, i) == call[k].pc \in {"locked", "posted"} /\ call[k].invoice = i

\* SELECT ... FOR UPDATE of the sale is granted.
CanLock(k) ==
    /\ call[k].pc = "asked"
    /\ \A j \in Clerks \ {k} : ~Locks(j, call[k].invoice)

\* Packages are not returned, nor more than is left of a line; a sale with
\* subtotal zero has no share to compute (0/0).
Returnable(x, prior, quantity) ==
    /\ Subtotal(x) > 0
    /\ \A l \in DOMAIN quantity :
         /\ x.items[l].kind # "package"
         /\ quantity[l] <= x.items[l].quantity - prior[l].quantity

\* The plain reads after the lock fix the snapshot, also of the customer.
Lock(k) ==
    LET i == call[k].invoice
        quantity == call[k].quantity
    IN  /\ CanLock(k)
        /\ Returnable(sale[i], returned[i], quantity)
        /\ LET lines == Selected(sale[i], returned[i], quantity)
           IN call' = [call EXCEPT ![k] =
                [pc |-> "locked", invoice |-> i, lines |-> lines,
                 figures |-> Figures(sale[i], refunds[i], lines), seen |-> buyer]]
        /\ UNCHANGED <<sale, returned, refunds, buyer, opening>>

Release(k) ==
    /\ call' = [call EXCEPT ![k] = Idle]
    /\ UNCHANGED <<sale, returned, refunds, buyer, opening>>

Refuse(k) ==
    /\ CanLock(k)
    /\ ~Returnable(sale[call[k].invoice], returned[call[k].invoice], call[k].quantity)
    /\ Release(k)

\* Stock is received and the entry posted, by Inventory and Accounting.
Post(k) ==
    /\ call[k].pc = "locked"
    /\ call' = [call EXCEPT ![k].pc = "posted"]
    /\ UNCHANGED <<sale, returned, refunds, buyer, opening>>

\* The month is closed, or the stock beyond its range: all is undone.
Fail(k) == call[k].pc = "locked" /\ Release(k)

\* save(customer): a column equal to the snapshot's is not sent.
SavedBuyer(row, seen, new) ==
    [f \in DOMAIN row |-> IF new[f] = seen[f] THEN row[f] ELSE new[f]]

\* The customer is saved and the transaction commits.
Finish(k) ==
    LET i == call[k].invoice
        c == sale[i].customer
        lines == call[k].lines
    IN  /\ call[k].pc = "posted"
        /\ returned' = [returned EXCEPT ![i] = [l \in Lines |->
                IF l \in DOMAIN lines THEN Plus(@[l], lines[l]) ELSE @[l]]]
        /\ refunds' = [refunds EXCEPT ![i] = Plus(@, call[k].figures)]
        /\ buyer' = [b \in Buyers |->
                IF b = c
                THEN SavedBuyer(buyer[b], call[k].seen[b],
                                AfterReturn(call[k].seen[b], call[k].figures))
                ELSE buyer[b]]
        /\ call' = [call EXCEPT ![k] = Idle]
        /\ UNCHANGED <<sale, opening>>

Next == \E k \in Clerks : Request(k) \/ Lock(k) \/ Refuse(k) \/ Post(k) \/ Fail(k) \/ Finish(k)

Spec == Init /\ [][Next]_vars

-----------------------------------------------------------------------------
(* Properties.                                                             *)

Amounts == [quantity : Nat, gross : Nat, revenue : Nat, vat : Nat, cogs : Nat]

\* The variables keep their types: no amount of any return is negative.
TypeOK ==
    /\ sale \in Sold
    /\ returned \in [Invoices -> [Lines -> Amounts]]
    /\ refunds \in [Invoices -> [refund : Nat, cogs : Nat, removed : Nat, restored : Nat]]
    /\ buyer \in [Buyers -> [spend : Nat, points : Nat]]
    /\ \A k \in Clerks : call[k].pc \in {"locked", "posted"} =>
          call[k].lines \in [DOMAIN call[k].lines -> Amounts]

\* No line is returned beyond its quantity, whatever requests are open at once.
ReturnedWithinSold ==
    \A i \in Invoices, l \in Lines :
        returned[i][l].quantity <= sale[i].items[l].quantity

\* What has been refunded and taken back into stock for a line depends only on
\* how many pieces came back, not on how they were split into returns.
AmountsFollowQuantity ==
    \A i \in Invoices, l \in Lines :
        returned[i][l].quantity > 0 =>
            returned[i][l] = Cumulative(sale[i], l, returned[i][l].quantity)

Complete(i) == \A l \in Lines : returned[i][l].quantity = sale[i].items[l].quantity

\* The refunds of a sale never exceed what was paid, and when everything has
\* come back they lack less than one minor unit for each line and rate.
RefundWithinPaid ==
    \A i \in Invoices :
        /\ refunds[i].refund <= Total(sale[i])
        /\ Complete(i) => Total(sale[i]) - refunds[i].refund < 2 * Cardinality(Lines)

\* Returns never take back more points than the sale earned nor restore more
\* than it redeemed, in whatever portions they come.
PointsWithinSale ==
    \A i \in Invoices :
        /\ refunds[i].removed <= sale[i].earned
        /\ refunds[i].restored <= sale[i].redeemed

Of(c, f) ==
    SumFunction([i \in Invoices |-> IF sale[i].customer = c THEN refunds[i][f] ELSE 0])

\* A customer's spend falls by what was refunded, and points by those removed
\* less those restored (one sale for each customer, points still there).
AccountFollowsReturns ==
    \A c \in Buyers :
        /\ opening[c].spend >= Of(c, "refund") =>
               buyer[c].spend = opening[c].spend - Of(c, "refund")
        /\ buyer[c].points >= opening[c].points - Of(c, "removed") + Of(c, "restored")
=============================================================================
