----------------------------- MODULE Purchasing -----------------------------
(* Purchases and the returns to their suppliers: the sum of the returns of a *)
(* purchase line against its quantity, and the listing a manager chooses     *)
(* from. Stock and cost of the products have their own model (Inventory);    *)
(* here the stock only decides whether a return goes through.                *)
EXTENDS Integers, FiniteSets, FiniteSetsExt

CONSTANTS
    Lines,        \* purchase lines
    PurchaseOf,   \* purchase of each line
    Quantity,     \* quantity of each line
    Sessions,
    MaxSales,     \* bound on the pieces sold
    None

\* What is assumed of the parameters.
Parameters == Quantity \in [Lines -> Nat]

VARIABLES
    received,     \* purchases committed
    returned,     \* sum of the committed supplier return lines of each line
    stock,        \* of the product all lines are of
    sold,
    tx            \* the return of each session

vars == <<received, returned, stock, sold, tx>>

Purchases == {PurchaseOf[l] : l \in Lines}
LinesOf(p) == {l \in Lines : PurchaseOf[l] = p}
Total(f, S) == FoldSet(LAMBDA l, sum : sum + f[l], 0, S)

\* pc: "idle", "open", "locked" (the purchase is), "checked". wanted: quantity
\* by line; todo: lines still to check; locked: lines locked; seen: the
\* snapshot, fixed by the first read without a lock.
Idle == [pc |-> "idle", purchase |-> None, wanted |-> <<>>, todo |-> {}, locked |-> {}, seen |-> None]

Init ==
    /\ received = {} /\ returned = [l \in Lines |-> 0]
    /\ stock = 0 /\ sold = 0
    /\ tx = [s \in Sessions |-> Idle]

\* create: the lines and their stock in one transaction.
Create(p) ==
    /\ p \notin received
    /\ received' = received \cup {p}
    /\ stock' = stock + Total(Quantity, LinesOf(p))
    /\ UNCHANGED <<returned, sold, tx>>

\* A sale takes a piece meanwhile.
Sell ==
    /\ stock > 0 /\ sold < MaxSales
    /\ stock' = stock - 1 /\ sold' = sold + 1
    /\ UNCHANGED <<received, returned, tx>>

Put(s, state) ==
    /\ tx' = [tx EXCEPT ![s] = state]
    /\ UNCHANGED <<received, returned, stock, sold>>

-----------------------------------------------------------------------------
(* createSupplierReturn.                                                     *)

\* findReturnableLines, from which the request is chosen: what its two reads,
\* without a transaction, leave of a line.
Returnable(l) ==
    IF PurchaseOf[l] \in received THEN Quantity[l] - returned[l] ELSE 0

\* A request names a line once. What it was chosen from may be stale by now.
Open(s) ==
    /\ tx[s].pc = "idle"
    /\ \E p \in received, chosen \in SUBSET {l \in Lines : Returnable(l) > 0} :
        /\ chosen # {} /\ chosen \subseteq LinesOf(p)
        /\ \E n \in 1 .. Max({Quantity[l] : l \in chosen}) :
             Put(s, [Idle EXCEPT !.pc = "open", !.purchase = p, !.todo = chosen,
                                 !.wanted = [l \in chosen |-> Min({n, Returnable(l)})]])

\* Variant with a mistake: the purchase is read without a lock.
ReadPurchase(s) ==
    /\ tx[s].pc = "open"
    /\ Put(s, [tx[s] EXCEPT !.pc = "locked", !.seen = returned])

\* The purchase is read with a lock, which fixes no snapshot.
LockPurchase(s) ==
    /\ tx[s].pc = "open"
    /\ \A t \in Sessions \ {s} :
          ~(tx[t].pc \in {"locked", "checked"} /\ tx[t].purchase = tx[s].purchase)
    /\ Put(s, [tx[s] EXCEPT !.pc = "locked"])

\* Each line is locked, then its earlier returns are read without a lock.
CheckLine(s) ==
    /\ tx[s].pc = "locked"
    /\ \E l \in tx[s].todo :
        /\ \A t \in Sessions \ {s} : l \notin tx[t].locked
        /\ LET seen == IF tx[s].seen = None THEN returned ELSE tx[s].seen
               rest == tx[s].todo \ {l}
           IN  IF tx[s].wanted[l] > Quantity[l] - seen[l]
               THEN Put(s, Idle)
               ELSE Put(s, [tx[s] EXCEPT !.seen = seen, !.todo = rest, !.locked = @ \cup {l},
                                         !.pc = IF rest = {} THEN "checked" ELSE "locked"])

\* The return and its lines are saved, the stock taken, the entry posted.
Commit(s) ==
    LET w == tx[s].wanted
    IN  /\ tx[s].pc = "checked"
        /\ Total(w, DOMAIN w) <= stock
        /\ returned' = [l \in Lines |-> IF l \in DOMAIN w THEN returned[l] + w[l] ELSE returned[l]]
        /\ stock' = stock - Total(w, DOMAIN w)
        /\ tx' = [tx EXCEPT ![s] = Idle]
        /\ UNCHANGED <<received, sold>>

\* Too little stock, a closed month, a deadlock: nothing remains.
Rollback(s) == tx[s].pc # "idle" /\ Put(s, Idle)

Next ==
    \/ \E p \in Purchases : Create(p)
    \/ Sell
    \/ \E s \in Sessions :
         Open(s) \/ LockPurchase(s) \/ CheckLine(s) \/ Commit(s) \/ Rollback(s)

Spec == Init /\ [][Next]_vars

-----------------------------------------------------------------------------
(* Properties.                                                               *)

\* The variables keep their types.
TypeOK ==
    /\ received \subseteq Purchases
    /\ returned \in [Lines -> Nat]
    /\ stock \in Nat /\ sold \in 0 .. MaxSales
    /\ \A s \in Sessions : tx[s].todo \cup tx[s].locked \subseteq DOMAIN tx[s].wanted

\* No purchase line is ever returned beyond its quantity, by returns of one or
\* several of its lines at once, although each reads the earlier returns
\* without a lock: the lock on the purchase comes before the snapshot.
ReturnedWithinPurchased == \A l \in Lines : returned[l] <= Quantity[l]
=============================================================================
