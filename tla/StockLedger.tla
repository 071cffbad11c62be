---------------------------- MODULE StockLedger ----------------------------
(***************************************************************************)
(* What the inventory promises, with no transactions, locks or snapshots:  *)
(* every stock is a natural number, and one step changes the stock of any  *)
(* set of products and the sums of their movements by the same amounts.    *)
(***************************************************************************)
EXTENDS Integers

CONSTANT Products
VARIABLES stock, booked

Init ==
    /\ stock \in [Products -> Nat]
    /\ booked = stock

Move ==
    /\ \A p \in Products : stock'[p] - stock[p] = booked'[p] - booked[p]
    /\ stock' \in [Products -> Nat]
    /\ booked' \in [Products -> Int]

Spec == Init /\ [][Move]_<<stock, booked>>
=============================================================================
