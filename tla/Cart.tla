-------------------------------- MODULE Cart --------------------------------
(* The New Sale page and the checkout it submits to. The page computes the   *)
(* totals the cashier reads from prices and points it loaded earlier; the    *)
(* request carries no prices, and the server computes them again from what   *)
(* it holds by then. The cart stays editable while a request is under way,   *)
(* and an answer may be lost on its way back.                                *)
EXTENDS Integers, Sequences, FiniteSets, Functions

CONSTANTS
    Items,          \* products, services and packages
    Versions,       \* what the server holds, one version after another: of each
                    \* item its price and available pieces, and the tiers
    Points,         \* points of the customer at first
    Discounts,      \* amounts typed as a discount
    Cash,           \* amounts typed as cash received
    Methods,        \* payment methods tried: "CASH", "MOBILE" and others
    MaxQuantity,    \* bound on the pieces of a line
    None

\* A version: the price and the available pieces of each item, and the tiers.
Offering == [items : [Items -> [price : Nat, stock : Nat]],
             tiers : SUBSET [minimum : Nat, redeem : Nat, discount : Nat]]
\* What is assumed of the parameters; the tiers of a version differ in their
\* minimum.
Parameters ==
    /\ IsFiniteSet(Items) /\ Points \in Nat /\ Discounts \cup Cash \subseteq Nat
    /\ None \notin Int /\ Versions \in Seq(Offering) \ {<<>>}
    /\ \A v \in DOMAIN Versions : \A t, u \in Versions[v].tiers : t.minimum = u.minimum => t = u

VARIABLES
    server,         \* the version the server is at
    points,         \* the customer's points on the server
    loaded,         \* version and points in the page's query cache
    cart,           \* CartState
    call,           \* request under way: the cart submitted and its answer
                    \* (None, <<>> for a refusal, <<sale>>), or None
    confirmation    \* the sale shown as completed, or None

vars == <<server, points, loaded, cart, call, confirmation>>

-----------------------------------------------------------------------------
(* The cart and its totals (use-cart.ts)                                     *)

INITIAL_STATE ==
    [items |-> [i \in Items |-> [price |-> 0, quantity |-> 0]],
     points |-> None, discount |-> 0, redeem |-> FALSE, reward |-> 0,
     cash |-> 0, method |-> "CASH", provider |-> FALSE]

In(c) == {i \in Items : c.items[i].quantity > 0}
Least(a, b) == IF a <= b THEN a ELSE b
Most(a, b) == IF a >= b THEN a ELSE b

Subtotal(c) == SumFunction([i \in In(c) |-> c.items[i].price * c.items[i].quantity])
RedemptionAffordable(c) == ~c.redeem \/ c.reward <= Subtotal(c)
Redeems(c) == c.redeem /\ RedemptionAffordable(c)
RewardDiscount(c) == IF Redeems(c) THEN c.reward ELSE 0
\* Variant with a mistake: the discount is not kept within the subtotal.
DiscountAsTyped(c) == c.discount
Discount(c) == Least(c.discount, Most(0, Subtotal(c) - RewardDiscount(c)))
Total(c) == Subtotal(c) - Discount(c) - RewardDiscount(c)
Change(c) == IF c.method = "CASH" /\ c.cash >= Total(c) THEN c.cash - Total(c) ELSE 0

\* The tier of so many points, and what it offers: the first, from the
\* highest, whose minimum is reached.
ActiveTier(p, tiers) ==
    {t \in tiers : t.minimum <= p /\ \A u \in tiers : u.minimum <= p => u.minimum <= t.minimum}
Offers(p, tiers) == {t \in ActiveTier(p, tiers) : t.redeem > 0 /\ t.discount > 0 /\ p >= t.redeem}
RewardOffer(c) == IF c.points = None THEN {} ELSE Offers(c.points, Versions[loaded.version].tiers)

-----------------------------------------------------------------------------
(* What the cashier does. The confirmation covers the page until it is       *)
(* closed; while a request is under way the page can still be edited, here   *)
(* by one edit.                                                              *)

Editable == confirmation = None /\ (call # None => cart = call.cart)
Edit(c) == cart' = c /\ UNCHANGED <<server, points, loaded, call, confirmation>>

SetItem(i, price, quantity) == [cart EXCEPT !.items[i] = [price |-> price, quantity |-> quantity]]

\* An item is shown enabled while the page knows of pieces of it.
Shown(i) == Versions[loaded.version].items[i].stock > 0

\* An item that is in the cart already keeps the price it was added at.
Add(i) ==
    /\ Editable /\ Shown(i)
    /\ cart.items[i].quantity < MaxQuantity
    /\ \/ /\ i \in In(cart)
          /\ Edit(SetItem(i, cart.items[i].price, cart.items[i].quantity + 1))
       \/ /\ i \notin In(cart)
          /\ Edit(SetItem(i, Versions[loaded.version].items[i].price, 1))

SetQuantity(i) ==
    /\ Editable /\ i \in In(cart)
    /\ \/ Edit(SetItem(i, 0, 0))
       \/ \E q \in 1 .. MaxQuantity : Edit(SetItem(i, cart.items[i].price, q))

WithCustomer(p) == [cart EXCEPT !.points = p, !.redeem = FALSE, !.reward = 0]
SetCustomer == Editable /\ Edit(WithCustomer(loaded.points))

ClearCustomer == Editable /\ cart.points # None /\ Edit(WithCustomer(None))

SetDiscount == Editable /\ \E d \in Discounts : Edit([cart EXCEPT !.discount = d])
SetCash == Editable /\ cart.method = "CASH" /\ \E m \in Cash : Edit([cart EXCEPT !.cash = m])

\* The button shows while there is an offer; it needs a cart that can bear it.
SetRewardRedemption ==
    /\ Editable
    /\ \E offer \in RewardOffer(cart) :
        \/ cart.redeem /\ Edit([cart EXCEPT !.redeem = FALSE, !.reward = 0])
        \/ /\ ~cart.redeem
           /\ Subtotal(cart) - Discount(cart) >= offer.discount
           /\ Edit([cart EXCEPT !.redeem = TRUE, !.reward = offer.discount])

\* The provider chosen for a mobile wallet stays when the method changes.
SetPayment ==
    /\ Editable
    /\ \/ \E m \in Methods : Edit([cart EXCEPT !.method = m])
       \/ cart.method = "MOBILE" /\ \E p \in BOOLEAN : Edit([cart EXCEPT !.provider = p])

ClearCart == Editable /\ In(cart) # {} /\ Edit(INITIAL_STATE)

-----------------------------------------------------------------------------
(* Submission, checkout and answer                                           *)

CanSubmit ==
    /\ In(cart) # {}
    /\ cart.method = "CASH" => cart.cash >= Total(cart)
    /\ cart.method = "MOBILE" => cart.provider
    /\ RedemptionAffordable(cart)

BuildCheckoutRequest(c) ==
    [quantity |-> [i \in Items |-> c.items[i].quantity],
     discount |-> Discount(c),
     cash |-> IF c.method = "CASH" THEN c.cash ELSE Total(c),
     method |-> c.method,
     provider |-> c.method = "MOBILE" /\ c.provider,
     redeem |-> Redeems(c),
     customer |-> c.points # None]

HandleSubmit ==
    /\ call = None /\ confirmation = None /\ CanSubmit
    /\ call' = [cart |-> cart, answer |-> None]
    /\ UNCHANGED <<server, points, loaded, cart, confirmation>>

\* The sale the server makes of a request.
SaleOf(r) ==
    LET held == Versions[server]
        subtotal == SumFunction([i \in Items |-> held.items[i].price * r.quantity[i]])
        tier == CHOOSE t \in ActiveTier(points, held.tiers) : TRUE
        reward == IF r.redeem THEN tier.discount ELSE 0
        total == subtotal - r.discount - reward
        cash == IF r.method = "CASH" THEN r.cash ELSE total
    IN  [subtotal |-> subtotal, discount |-> r.discount, reward |-> reward,
         redeemed |-> IF r.redeem THEN tier.redeem ELSE 0, total |-> total,
         cash |-> cash, change |-> cash - total, method |-> r.method, provider |-> r.provider]

Accepted(r) ==
    LET sale == SaleOf(r) IN
    /\ \A i \in Items : r.quantity[i] <= Versions[server].items[i].stock
    /\ sale.discount <= sale.subtotal
    /\ r.redeem => r.customer /\ Offers(points, Versions[server].tiers) # {}
                   /\ sale.reward <= sale.subtotal - r.discount
    /\ r.provider = (r.method = "MOBILE")
    /\ r.method = "CASH" => r.cash >= sale.total

Checkout ==
    /\ call # None /\ call.answer = None
    /\ LET r == BuildCheckoutRequest(call.cart) IN
       \/ /\ Accepted(r)
          /\ points' = points - SaleOf(r).redeemed
          /\ call' = [call EXCEPT !.answer = <<SaleOf(r)>>]
       \/ /\ ~Accepted(r)
          /\ call' = [call EXCEPT !.answer = <<>>]
          /\ UNCHANGED points
    /\ UNCHANGED <<server, loaded, cart, confirmation>>

Succeed ==
    /\ call # None /\ call.answer \notin {None, <<>>}
    /\ confirmation' = call.answer[1]
    /\ cart' = INITIAL_STATE
    /\ call' = None
    /\ UNCHANGED <<server, points, loaded>>

\* A refusal, or an answer that never arrives: the cart stays as it is.
Fail ==
    /\ call # None /\ call.answer # None
    /\ call' = None
    /\ UNCHANGED <<server, points, loaded, cart, confirmation>>

Close ==
    /\ confirmation # None
    /\ confirmation' = None
    /\ UNCHANGED <<server, points, loaded, cart, call>>

-----------------------------------------------------------------------------
(* The shop changes prices, stock and tiers; the page loads them again.      *)

ChangeCatalogue ==
    /\ server < Len(Versions)
    /\ server' = server + 1
    /\ UNCHANGED <<points, loaded, cart, call, confirmation>>

Refetch ==
    /\ loaded # [version |-> server, points |-> points]
    /\ loaded' = [version |-> server, points |-> points]
    /\ UNCHANGED <<server, points, cart, call, confirmation>>

-----------------------------------------------------------------------------
Init ==
    /\ server = 1 /\ points = Points
    /\ loaded = [version |-> 1, points |-> Points]
    /\ cart = INITIAL_STATE
    /\ call = None /\ confirmation = None

Cashier ==
    \/ \E i \in Items : Add(i) \/ SetQuantity(i)
    \/ SetCustomer \/ ClearCustomer \/ SetDiscount \/ SetCash
    \/ SetRewardRedemption \/ SetPayment \/ ClearCart \/ Close
    \/ HandleSubmit

Next == Cashier \/ Checkout \/ Succeed \/ Fail \/ ChangeCatalogue \/ Refetch

Spec == Init /\ [][Next]_vars

-----------------------------------------------------------------------------
\* The variables are of their types.
TypeOK ==
    /\ server \in 1 .. Len(Versions) /\ points \in 0 .. Points
    /\ loaded \in [version : 1 .. server, points : points .. Points]
    /\ cart.points \in {None} \cup 0 .. Points
    /\ \A i \in Items : cart.items[i].quantity \in 0 .. MaxQuantity
    /\ cart.discount \in Discounts \cup {0} /\ cart.cash \in Cash \cup {0}
    /\ cart.redeem => cart.points # None

\* The money of every sale made adds up, whatever the page had loaded: nothing is
\* paid out, and cash less change is the total (checkout.service.ts:189-241).
SalesAddUp ==
    call # None /\ call.answer \notin {None, <<>>} =>
        LET sale == call.answer[1] IN
        /\ sale.total >= 0 /\ sale.change >= 0
        /\ sale.total = sale.subtotal - sale.discount - sale.reward
        /\ sale.cash - sale.change = sale.total
        /\ sale.provider = (sale.method = "MOBILE")

\* What the page computed still holds on the server: its prices, enough
\* stock, and the reward it offered.
StillHolds(c) ==
    /\ \A i \in In(c) :
        /\ c.items[i].price = Versions[server].items[i].price
        /\ c.items[i].quantity <= Versions[server].items[i].stock
    /\ Redeems(c) => \E t \in Offers(points, Versions[server].tiers) : t.discount = c.reward

\* A sale that the page lets the cashier complete is accepted, at the total
\* and the change shown, unless what it was computed from has changed
\* (use-cart.ts:206 against checkout.service.ts:189).
AsShown ==
    call # None /\ call.answer = None /\ StillHolds(call.cart) /\ call' # call =>
        /\ call'.answer # <<>>
        /\ call'.answer[1].total = Total(call.cart)
        /\ call'.answer[1].change = Change(call.cart)
SoldAsShown == [][AsShown]_vars
=============================================================================
