----------------------------- MODULE OfficeProofs -----------------------------
(***************************************************************************)
(* The office keeps what its components promise, for all values of the     *)
(* parameters. Each component has its lemmas first, up to an invariant     *)
(* that its steps preserve: sales returns, purchases, packages, people,    *)
(* trusted time, backups, attendance, the cart. One theorem for each       *)
(* property of the office comes last.                                      *)
(***************************************************************************)
EXTENDS Office, Arithmetic, TLAPS

-----------------------------------------------------------------------------
(* Sets are counted and summed alike in every module.                       *)

LEMMA SetsOfReturns ==
    /\ \A S : R!IsFiniteSet(S) = IsFiniteSet(S) /\ R!Cardinality(S) = Cardinality(S)
    /\ \A f, S : R!SumFunctionOnSet(f, S) = SumFunctionOnSet(f, S)
BY DEF R!IsFiniteSet, IsFiniteSet, R!Cardinality, Cardinality, R!SumFunctionOnSet, SumFunctionOnSet,
    R!FoldFunctionOnSet, FoldFunctionOnSet, R!MapThenFoldSet, MapThenFoldSet

LEMMA SetsOfPackages ==
    /\ \A S : V!IsFiniteSet(S) = IsFiniteSet(S) /\ V!Cardinality(S) = Cardinality(S)
    /\ \A f, S : V!SumFunctionOnSet(f, S) = SumFunctionOnSet(f, S)
BY DEF V!IsFiniteSet, IsFiniteSet, V!Cardinality, Cardinality, V!SumFunctionOnSet, SumFunctionOnSet,
    V!FoldFunctionOnSet, FoldFunctionOnSet, V!MapThenFoldSet, MapThenFoldSet

LEMMA SetsOfAttendance ==
    \A S : W!IsFiniteSet(S) = IsFiniteSet(S) /\ W!Cardinality(S) = Cardinality(S)
BY DEF W!IsFiniteSet, IsFiniteSet, W!Cardinality, Cardinality

LEMMA SetsOfCart ==
    /\ \A S : C!IsFiniteSet(S) = IsFiniteSet(S)
    /\ \A f, S : C!SumFunctionOnSet(f, S) = SumFunctionOnSet(f, S)
BY DEF C!IsFiniteSet, IsFiniteSet, C!SumFunctionOnSet, SumFunctionOnSet,
    C!FoldFunctionOnSet, FoldFunctionOnSet, C!MapThenFoldSet, MapThenFoldSet

-----------------------------------------------------------------------------
(* Sales returns: amounts.                                                  *)

Sums == [quantity : Int, gross : Int, revenue : Int, vat : Int, cogs : Int]

LEMMA CumulativeType ==
    ASSUME NEW x \in R!Invoice, R!Subtotal(x) \in Nat, R!Subtotal(x) > 0,
           NEW l \in Positions, NEW q \in Nat
    PROVE  R!Cumulative(x, l, q) \in Sums /\ R!Cumulative(x, l, q).quantity = q
<1> DEFINE item == x.items[l]
           gross == (item.price * q) \div item.quantity
<1>1. item.price \in Nat /\ item.cost \in Nat /\ item.quantity \in Nat \ {0}
      /\ x.discount \in Nat /\ x.vat \in Nat
    BY DEF R!Invoice, R!Item
<1> HIDE DEF item
<1>2. item.price * q \in Int /\ item.cost * q \in Int
    BY <1>1
<1>3. gross \in Int
    BY <1>1, <1>2
<1> HIDE DEF gross
<1>4. gross * R!Net(x) \in Int /\ gross * x.vat \in Int
    BY <1>1, <1>3 DEF R!Net
<1>5. (gross * R!Net(x)) \div R!Subtotal(x) \in Int /\ (gross * x.vat) \div R!Subtotal(x) \in Int
    BY <1>4
<1>6. R!Rounded(item.cost * q, item.quantity) \in Int
    BY <1>1, <1>2 DEF R!Rounded
<1> DEFINE cogs == IF item.kind = "product" THEN R!Rounded(item.cost * q, item.quantity) ELSE 0
<1>7. cogs \in Int
    BY <1>6
<1> HIDE DEF cogs
<1>8. R!Cumulative(x, l, q) =
          [quantity |-> q, gross |-> gross,
           revenue |-> (gross * R!Net(x)) \div R!Subtotal(x),
           vat |-> (gross * x.vat) \div R!Subtotal(x), cogs |-> cogs]
    BY DEF R!Cumulative, gross, item, cogs
<1> QED
    BY <1>3, <1>5, <1>7, <1>8 DEF Sums

\* The difference to what was returned before, added to it, is the whole.
LEMMA SumOfDifference ==
    ASSUME NEW r \in Sums, NEW c \in Sums
    PROVE  /\ R!Minus(c, r) \in Sums
           /\ R!Minus(c, r).quantity = c.quantity - r.quantity
           /\ R!Plus(r, R!Minus(c, r)) = c
<1>1. R!Minus(c, r) = [quantity |-> c.quantity - r.quantity, gross |-> c.gross - r.gross,
                     revenue |-> c.revenue - r.revenue, vat |-> c.vat - r.vat,
                     cogs |-> c.cogs - r.cogs]
    BY DEF R!Minus, Sums
<1>2. R!Minus(c, r) \in Sums
    BY <1>1 DEF Sums
<1>3. R!Plus(r, R!Minus(c, r)) =
          [quantity |-> r.quantity + (c.quantity - r.quantity), gross |-> r.gross + (c.gross - r.gross),
           revenue |-> r.revenue + (c.revenue - r.revenue), vat |-> r.vat + (c.vat - r.vat),
           cogs |-> r.cogs + (c.cogs - r.cogs)]
    BY <1>1 DEF R!Plus, Sums
<1>4. R!Plus(r, R!Minus(c, r)) =
          [quantity |-> c.quantity, gross |-> c.gross, revenue |-> c.revenue,
           vat |-> c.vat, cogs |-> c.cogs]
    BY <1>3 DEF Sums
<1>5. c = [quantity |-> c.quantity, gross |-> c.gross, revenue |-> c.revenue,
           vat |-> c.vat, cogs |-> c.cogs]
    BY DEF Sums
<1> QED
    BY <1>1, <1>2, <1>4, <1>5

-----------------------------------------------------------------------------
(* The inductive invariant.                                                *)

Refunding(c) == c.pc \in {"locked", "posted"}

\* A request names lines of a sale, and pieces of each.
Asked(c) ==
    c.pc = "asked" =>
        /\ c.invoice \in Invoices
        /\ DOMAIN c.quantity \subseteq Positions
        /\ \A l \in DOMAIN c.quantity : c.quantity[l] \in Nat \ {0}

\* What a request with the lock is going to add to a line.
Difference(i, l, n) ==
    R!Minus(R!Cumulative(sale[i], l, returned[i][l].quantity + n), returned[i][l])

\* A request with the lock will add some pieces that are left of each line, at
\* what they amount to beyond the returns that are committed now.
Selecting(c) ==
    Refunding(c) =>
        /\ c.invoice \in Invoices
        /\ R!Subtotal(sale[c.invoice]) > 0
        /\ DOMAIN c.lines \subseteq Positions
        /\ \A l \in DOMAIN c.lines : \E n \in Nat \ {0} :
              /\ returned[c.invoice][l].quantity + n <= sale[c.invoice].items[l].quantity
              /\ c.lines[l] = Difference(c.invoice, l, n)

\* The lock on the sale.
OneReturnAtOnce ==
    \A j, k \in Clerks :
        j # k /\ Refunding(call[j]) /\ Refunding(call[k]) => call[j].invoice # call[k].invoice

Typed ==
    /\ sale \in Sold
    /\ returned = [i \in Invoices |-> [l \in Positions |-> returned[i][l]]]
    /\ \A i \in Invoices, l \in Positions :
          returned[i][l] \in Sums /\ returned[i][l].quantity \in Nat
    /\ call = [k \in Clerks |-> call[k]]

ReturnInv ==
    /\ Typed
    /\ \A k \in Clerks : Asked(call[k]) /\ Selecting(call[k])
    /\ OneReturnAtOnce
    /\ R!ReturnedWithinSold
    /\ R!AmountsFollowQuantity

LEMMA SubtotalType ==
    ASSUME IsFiniteSet(Positions), NEW x \in R!Invoice
    PROVE  R!Subtotal(x) \in Nat
<1> DEFINE f == [l \in Positions |-> x.items[l].price]
<1>1. \A l \in Positions : f[l] \in Nat
    BY DEF R!Invoice, R!Item
<1>2. R!Subtotal(x) = SumFunctionOnSet(f, Positions)
    BY SetsOfReturns DEF R!Subtotal, R!SumFunction
<1> HIDE DEF f
<1> QED
    BY <1>1, <1>2, SumNat

LEMMA SaleType ==
    ASSUME R!Parameters, Typed, NEW i \in Invoices
    PROVE  /\ sale[i] \in R!Invoice /\ R!Subtotal(sale[i]) \in Nat
           /\ sale[i].discount <= R!Subtotal(sale[i])
           /\ \A l \in Positions : sale[i].items[l].quantity \in Nat \ {0}
<1>1. sale[i] \in R!Invoice /\ sale[i].discount <= R!Subtotal(sale[i])
    BY SetsOfReturns DEF R!Parameters, Typed
<1>3. R!Subtotal(sale[i]) \in Nat
    BY <1>1, SubtotalType, SetsOfReturns DEF R!Parameters
<1>2. ASSUME NEW l \in Positions PROVE sale[i].items[l].quantity \in Nat \ {0}
    BY <1>1 DEF R!Invoice, R!Item
<1> QED
    BY <1>1, <1>2, <1>3

LEMMA IdleCall == R!Idle.pc = "idle"
BY DEF R!Idle

-----------------------------------------------------------------------------
(* Steps.                                                                  *)

LEMMA InitReturns == ASSUME R!Parameters, R!Init PROVE ReturnInv
<1>1. \A i \in Invoices, l \in Positions : returned[i][l] = R!Nothing
    BY DEF R!Init
<1>2. R!Nothing \in Sums /\ R!Nothing.quantity = 0
    BY DEF R!Nothing, Sums
<1>3. Typed
    BY <1>1, <1>2 DEF R!Init, Typed
<1>4. \A k \in Clerks : Asked(call[k]) /\ Selecting(call[k]) /\ ~Refunding(call[k])
    BY IdleCall DEF R!Init, Asked, Selecting, Refunding
<1>5. R!ReturnedWithinSold
    BY <1>1, <1>2, <1>3, SaleType DEF R!ReturnedWithinSold
<1>6. R!AmountsFollowQuantity
    BY <1>1, <1>2 DEF R!AmountsFollowQuantity
<1> QED
    BY <1>3, <1>4, <1>5, <1>6 DEF ReturnInv, OneReturnAtOnce

\* A request that changes while nothing is committed.
LEMMA CallStep ==
    ASSUME R!Parameters, ReturnInv, NEW k \in Clerks, NEW c,
           call' = [call EXCEPT ![k] = c], UNCHANGED <<sale, returned>>,
           Asked(c), Selecting(c),
           Refunding(c) => \A j \in Clerks \ {k} :
               Refunding(call[j]) => call[j].invoice # c.invoice
    PROVE  ReturnInv'
<1>1. \A j \in Clerks : call'[j] = IF j = k THEN c ELSE call[j]
    BY DEF ReturnInv, Typed
<1>2. Typed'
    BY <1>1 DEF ReturnInv, Typed
<1>3. \A j \in Clerks : Asked(call'[j]) /\ Selecting(call'[j])
    BY <1>1 DEF ReturnInv
<1>4. (\A j \in Clerks : Asked(call[j]) /\ Selecting(call[j]))'
    BY <1>3 DEF Asked, Selecting, Refunding, Difference
<1>5. OneReturnAtOnce'
    BY <1>1 DEF ReturnInv, OneReturnAtOnce, Refunding
<1>6. R!ReturnedWithinSold' /\ R!AmountsFollowQuantity'
    BY DEF ReturnInv, R!ReturnedWithinSold, R!AmountsFollowQuantity
<1> QED
    BY <1>2, <1>4, <1>5, <1>6 DEF ReturnInv

LEMMA ReleaseStep ==
    ASSUME R!Parameters, ReturnInv, NEW k \in Clerks,
           call' = [call EXCEPT ![k] = R!Idle], UNCHANGED <<sale, returned>>
    PROVE  ReturnInv'
<1>1. Asked(R!Idle) /\ Selecting(R!Idle) /\ ~Refunding(R!Idle)
    BY IdleCall DEF Asked, Selecting, Refunding
<1> QED
    BY <1>1, CallStep

LEMMA AskReturnStep ==
    ASSUME R!Parameters, ReturnInv, NEW k \in Clerks, R!Request(k)
    PROVE  ReturnInv'
<1>1. PICK i \in Invoices, L \in (SUBSET Positions) \ {{}} : \E quantity \in [L -> 1 .. 2] :
         call' = [call EXCEPT ![k] = [pc |-> "asked", invoice |-> i, quantity |-> quantity]]
    BY DEF R!Request
<1>2. PICK quantity \in [L -> 1 .. 2] :
         call' = [call EXCEPT ![k] = [pc |-> "asked", invoice |-> i, quantity |-> quantity]]
    BY <1>1
<1> DEFINE c == [pc |-> "asked", invoice |-> i, quantity |-> quantity]
<1>3. Asked(c) /\ Selecting(c) /\ ~Refunding(c)
    BY <1>1 DEF Asked, Selecting, Refunding
<1>4. UNCHANGED <<sale, returned>>
    BY DEF R!Request
<1> QED
    BY <1>2, <1>3, <1>4, CallStep

LEMMA LockSaleStep ==
    ASSUME R!Parameters, ReturnInv, NEW k \in Clerks, R!Lock(k)
    PROVE  ReturnInv'
<1> DEFINE i == call[k].invoice
           quantity == call[k].quantity
           lines == R!Selected(sale[i], returned[i], quantity)
           c == [pc |-> "locked", invoice |-> i, lines |-> lines,
                 figures |-> R!Figures(sale[i], refunds[i], lines), seen |-> buyer]
<1>1. /\ R!CanLock(k) /\ R!Returnable(sale[i], returned[i], quantity)
      /\ call' = [call EXCEPT ![k] = c] /\ UNCHANGED <<sale, returned>>
    BY DEF R!Lock
<1>2. /\ i \in Invoices /\ DOMAIN quantity \subseteq Positions
      /\ \A l \in DOMAIN quantity : quantity[l] \in Nat \ {0}
    BY <1>1 DEF R!CanLock, ReturnInv, Asked
<1>3. /\ DOMAIN lines = DOMAIN quantity
      /\ \A l \in DOMAIN quantity : lines[l] = Difference(i, l, quantity[l])
    BY DEF R!Selected, Difference
<1>4. ASSUME NEW l \in DOMAIN quantity
      PROVE  returned[i][l].quantity + quantity[l] <= sale[i].items[l].quantity
    <2>1. quantity[l] <= sale[i].items[l].quantity - returned[i][l].quantity
        BY <1>1, <1>4 DEF R!Returnable
    <2>2. sale[i].items[l].quantity \in Nat /\ returned[i][l].quantity \in Nat /\ quantity[l] \in Nat
        BY <1>2, <1>4, SaleType DEF ReturnInv, Typed
    <2> QED
        BY <2>1, <2>2
<1>5. R!Subtotal(sale[i]) > 0
    BY <1>1 DEF R!Returnable
<1> HIDE DEF lines
<1>6. c.pc = "locked" /\ c.invoice = i /\ c.lines = lines
    OBVIOUS
<1> HIDE DEF c
<1>7. Asked(c)
    BY <1>6 DEF Asked
<1>8. Selecting(c)
    BY <1>2, <1>3, <1>4, <1>5, <1>6 DEF Selecting
<1>9. \A j \in Clerks \ {k} : Refunding(call[j]) => call[j].invoice # c.invoice
    BY <1>1, <1>6 DEF R!CanLock, R!Locks, Refunding
<1> QED
    BY <1>1, <1>7, <1>8, <1>9, CallStep

LEMMA PostStep ==
    ASSUME R!Parameters, ReturnInv, NEW k \in Clerks, R!Post(k)
    PROVE  ReturnInv'
<1>1. /\ call[k].pc = "locked" /\ call' = [call EXCEPT ![k].pc = "posted"]
      /\ UNCHANGED <<sale, returned>>
    BY DEF R!Post
<1> DEFINE c == [call[k] EXCEPT !.pc = "posted"]
<1>2. call' = [call EXCEPT ![k] = c]
    BY <1>1
<1>3. c.invoice = call[k].invoice /\ c.lines = call[k].lines
    OBVIOUS
<1>4. c.pc # "asked"
    BY <1>1
<1> HIDE DEF c
<1>5. Asked(c)
    BY <1>4 DEF Asked
<1>6. Refunding(call[k]) /\ Selecting(call[k])
    BY <1>1 DEF ReturnInv, Refunding
<1>7. Selecting(c)
    BY <1>3, <1>6 DEF Selecting
<1>8. \A j \in Clerks \ {k} : Refunding(call[j]) => call[j].invoice # c.invoice
    BY <1>3, <1>6 DEF ReturnInv, OneReturnAtOnce
<1> QED
    BY <1>1, <1>2, <1>5, <1>7, <1>8, CallStep

\* The differences are added to the very sums they were taken from: nobody
\* else has returned anything of the sale since it was locked.
LEMMA FinishStep ==
    ASSUME R!Parameters, ReturnInv, NEW k \in Clerks, R!Finish(k)
    PROVE  ReturnInv'
<1> DEFINE i == call[k].invoice
           lines == call[k].lines
<1>1. /\ call[k].pc = "posted" /\ UNCHANGED sale
      /\ call' = [call EXCEPT ![k] = R!Idle]
      /\ returned' = [returned EXCEPT ![i] = [l \in Positions |->
              IF l \in DOMAIN lines THEN R!Plus(@[l], lines[l]) ELSE @[l]]]
    BY DEF R!Finish
<1>2. Refunding(call[k]) /\ Selecting(call[k])
    BY <1>1 DEF ReturnInv, Refunding
<1>3. i \in Invoices /\ R!Subtotal(sale[i]) > 0 /\ DOMAIN lines \subseteq Positions
    BY <1>2 DEF Selecting
<1>4. \A j \in Invoices, l \in Positions :
          returned'[j][l] = IF j = i /\ l \in DOMAIN lines
                            THEN R!Plus(returned[i][l], lines[l]) ELSE returned[j][l]
    BY <1>1, <1>3 DEF ReturnInv, Typed
<1>5. ASSUME NEW l \in DOMAIN lines
      PROVE  /\ returned'[i][l] \in Sums
             /\ returned'[i][l].quantity \in Nat
             /\ returned'[i][l].quantity <= sale[i].items[l].quantity
             /\ returned'[i][l] = R!Cumulative(sale[i], l, returned'[i][l].quantity)
    <2>1. PICK n \in Nat \ {0} :
              /\ returned[i][l].quantity + n <= sale[i].items[l].quantity
              /\ lines[l] = Difference(i, l, n)
        BY <1>2, <1>5 DEF Selecting
    <2>2. l \in Positions /\ returned[i][l] \in Sums /\ returned[i][l].quantity \in Nat
        BY <1>3, <1>5 DEF ReturnInv, Typed
    <2> DEFINE q == returned[i][l].quantity + n
    <2>3. q \in Nat
        BY <2>2
    <2> HIDE DEF q
    <2>4. R!Cumulative(sale[i], l, q) \in Sums /\ R!Cumulative(sale[i], l, q).quantity = q
        BY <1>3, <2>2, <2>3, SaleType, CumulativeType DEF ReturnInv
    <2>5. lines[l] = R!Minus(R!Cumulative(sale[i], l, q), returned[i][l])
        BY <2>1 DEF Difference, q
    <2>6. R!Plus(returned[i][l], lines[l]) = R!Cumulative(sale[i], l, q)
        BY <2>2, <2>4, <2>5, SumOfDifference
    <2>7. returned'[i][l] = R!Cumulative(sale[i], l, q)
        BY <1>3, <1>4, <1>5, <2>2, <2>6
    <2> QED
        BY <2>1, <2>3, <2>4, <2>7 DEF q
<1>6. Typed'
    <2>1. ASSUME NEW j \in Invoices, NEW l \in Positions
          PROVE  returned'[j][l] \in Sums /\ returned'[j][l].quantity \in Nat
        BY <1>4, <1>5 DEF ReturnInv, Typed
    <2>2. returned' = [j \in Invoices |-> [l \in Positions |-> returned'[j][l]]]
        BY <1>1, <1>3 DEF ReturnInv, Typed
    <2>3. call' = [j \in Clerks |-> call'[j]] /\ sale' \in Sold
        BY <1>1 DEF ReturnInv, Typed
    <2> QED
        BY <2>1, <2>2, <2>3 DEF Typed
<1>7. R!ReturnedWithinSold'
    <2>1. ASSUME NEW j \in Invoices, NEW l \in Positions
          PROVE  returned'[j][l].quantity <= sale[j].items[l].quantity
        <3>1. CASE j = i /\ l \in DOMAIN lines
            BY <1>5, <3>1
        <3>2. CASE ~(j = i /\ l \in DOMAIN lines)
            BY <1>4, <3>2 DEF ReturnInv, R!ReturnedWithinSold
        <3> QED
            BY <3>1, <3>2
    <2>2. sale' = sale
        BY <1>1
    <2> QED
        BY <2>1, <2>2 DEF R!ReturnedWithinSold
<1>8. R!AmountsFollowQuantity'
    <2>1. ASSUME NEW j \in Invoices, NEW l \in Positions, returned'[j][l].quantity > 0
          PROVE  returned'[j][l] = R!Cumulative(sale[j], l, returned'[j][l].quantity)
        <3>1. CASE j = i /\ l \in DOMAIN lines
            BY <1>5, <3>1
        <3>2. CASE ~(j = i /\ l \in DOMAIN lines)
            BY <1>4, <2>1, <3>2 DEF ReturnInv, R!AmountsFollowQuantity
        <3> QED
            BY <3>1, <3>2
    <2>2. sale' = sale
        BY <1>1
    <2> QED
        BY <2>1, <2>2 DEF R!AmountsFollowQuantity
<1>9. \A j \in Clerks : call'[j] = IF j = k THEN R!Idle ELSE call[j]
    BY <1>1 DEF ReturnInv, Typed
<1>10. \A j \in Clerks : Asked(call'[j]) /\ ~Refunding(R!Idle)
    BY <1>9, IdleCall DEF ReturnInv, Asked, Refunding
<1>11. ASSUME NEW j \in Clerks, Refunding(call'[j])
       PROVE  j # k /\ call'[j] = call[j] /\ call[j].invoice \in Invoices /\ call[j].invoice # i
    <2>1. j # k /\ call'[j] = call[j]
        BY <1>9, <1>10, <1>11
    <2>2. Refunding(call[j]) /\ Selecting(call[j])
        BY <1>11, <2>1 DEF ReturnInv
    <2>3. call[j].invoice # i
        BY <1>2, <2>1, <2>2 DEF ReturnInv, OneReturnAtOnce
    <2> QED
        BY <2>1, <2>2, <2>3 DEF Selecting
<1>12. ASSUME NEW j \in Clerks PROVE Selecting(call[j])'
    <2> SUFFICES ASSUME Refunding(call'[j]) PROVE Selecting(call[j])'
        BY DEF Selecting, Refunding
    <2>1. call'[j] = call[j] /\ Selecting(call[j]) /\ Refunding(call[j])
        BY <1>11 DEF ReturnInv
    <2>2. \A l \in Positions : returned'[call[j].invoice][l] = returned[call[j].invoice][l]
        BY <1>4, <1>11
    <2>3. sale' = sale
        BY <1>1
    <2> DEFINE v == call[j].invoice
    <2>4. ASSUME NEW l \in DOMAIN call[j].lines
          PROVE  \E n \in Nat \ {0} :
              /\ returned'[v][l].quantity + n <= sale'[v].items[l].quantity
              /\ call[j].lines[l] = R!Minus(R!Cumulative(sale'[v], l, returned'[v][l].quantity + n),
                                          returned'[v][l])
        <3>1. returned'[v][l] = returned[v][l]
            BY <2>1, <2>2, <2>4 DEF Selecting
        <3> QED
            BY <2>1, <2>3, <2>4, <3>1 DEF Selecting, Difference
    <2>5. v \in Invoices /\ R!Subtotal(sale'[v]) > 0 /\ DOMAIN call[j].lines \subseteq Positions
        BY <2>1, <2>3 DEF Selecting
    <2> QED
        BY <2>1, <2>4, <2>5 DEF Selecting, Difference
<1>13. OneReturnAtOnce'
    BY <1>11 DEF ReturnInv, OneReturnAtOnce, Refunding
<1>14. \A j \in Clerks : Asked(call[j])'
    BY <1>10 DEF Asked
<1> QED
    BY <1>6, <1>7, <1>8, <1>12, <1>13, <1>14 DEF ReturnInv

\* Every step keeps the invariant.
LEMMA NextReturn ==
    ASSUME R!Parameters, ReturnInv, [R!Next]_R!vars
    PROVE  ReturnInv'
<1>1. ASSUME NEW k \in Clerks, R!Refuse(k) \/ R!Fail(k) PROVE ReturnInv'
    BY <1>1, ReleaseStep DEF R!Refuse, R!Fail, R!Release
<1>2. ASSUME NEW k \in Clerks, R!Request(k) \/ R!Lock(k) \/ R!Post(k) \/ R!Finish(k) PROVE ReturnInv'
    BY <1>2, AskReturnStep, LockSaleStep, PostStep, FinishStep
<1>3. CASE UNCHANGED R!vars
    <2>1. UNCHANGED <<sale, returned, call>>
        BY <1>3 DEF R!vars
    <2>2. Typed' /\ OneReturnAtOnce' /\ R!ReturnedWithinSold' /\ R!AmountsFollowQuantity'
        BY <2>1 DEF ReturnInv, Typed, OneReturnAtOnce, Refunding, R!ReturnedWithinSold, R!AmountsFollowQuantity
    <2>3. (\A k \in Clerks : Asked(call[k]) /\ Selecting(call[k]))'
        BY <2>1 DEF ReturnInv, Asked, Selecting, Refunding, Difference
    <2> QED
        BY <2>2, <2>3 DEF ReturnInv
<1> QED
    BY <1>1, <1>2, <1>3 DEF R!Next

-----------------------------------------------------------------------------
\* SalesReturnsService.create shares the lock on the sale out to one request at
\* a time: the sums of the returned lines stay within the lines sold, and are a
\* function of the pieces returned, whatever the split into returns.
THEOREM ReturnsTelescope ==
    ASSUME R!Parameters PROVE R!Spec => []R!ReturnedWithinSold /\ []R!AmountsFollowQuantity
<1>1. R!Init => ReturnInv
    BY InitReturns
<1>2. ReturnInv /\ [R!Next]_R!vars => ReturnInv'
    BY NextReturn
<1>3. ReturnInv => R!ReturnedWithinSold /\ R!AmountsFollowQuantity
    BY DEF ReturnInv
<1> QED
    BY <1>1, <1>2, <1>3, PTL DEF R!Spec

-----------------------------------------------------------------------------
(* Money: refunds and points stay within the sale, and no amount is         *)
(* negative.                                                                *)

Gross(x, l, q) == (x.items[l].price * q) \div x.items[l].quantity

\* The pieces of an invoice that the amounts are computed from.
LEMMA InvoiceParts ==
    ASSUME NEW x \in R!Invoice, R!Subtotal(x) \in Nat, x.discount <= R!Subtotal(x), NEW l \in Positions
    PROVE  /\ x.items[l].price \in Nat /\ x.items[l].cost \in Nat
           /\ x.items[l].quantity \in Nat /\ x.items[l].quantity > 0
           /\ R!Net(x) \in Nat /\ x.vat \in Nat /\ R!Total(x) \in Nat
           /\ x.earned \in Nat /\ x.redeemed \in Nat
<1>1. /\ x.items[l].price \in Nat /\ x.items[l].cost \in Nat
      /\ x.items[l].quantity \in Nat /\ x.items[l].quantity > 0
      /\ x.discount \in Nat /\ x.vat \in Nat /\ x.earned \in Nat /\ x.redeemed \in Nat
    BY DEF R!Invoice, R!Item
<1>2. R!Net(x) \in Nat
    BY <1>1 DEF R!Net
<1> QED
    BY <1>1, <1>2 DEF R!Total

\* More pieces amount to no less, in every figure.
LEMMA CumulativeGrows ==
    ASSUME NEW x \in R!Invoice, R!Subtotal(x) \in Nat, R!Subtotal(x) > 0, x.discount <= R!Subtotal(x),
           NEW l \in Positions, NEW q \in Nat, NEW r \in Nat, q <= r
    PROVE  /\ R!Cumulative(x, l, q) \in R!Amounts /\ R!Cumulative(x, l, r) \in R!Amounts
           /\ \A f \in {"quantity", "gross", "revenue", "vat", "cogs"} :
                 R!Cumulative(x, l, q)[f] <= R!Cumulative(x, l, r)[f]
<1> DEFINE item == x.items[l]
           p == item.price
           n == item.quantity
           k == item.cost
           s == R!Subtotal(x)
           m == R!Net(x)
           v == x.vat
           a == (p * q) \div n
           b == (p * r) \div n
           c == R!Cumulative(x, l, q)
           d == R!Cumulative(x, l, r)
<1>1. p \in Nat /\ k \in Nat /\ n \in Nat /\ n > 0 /\ s \in Nat /\ s > 0 /\ m \in Nat /\ v \in Nat
    BY InvoiceParts
<1> HIDE DEF p, n, k, s, m, v
<1>2. a \in Nat /\ b \in Nat /\ a <= b
    <2>1. p * q \in Nat /\ p * r \in Nat
        BY <1>1
    <2>2. p * q <= p * r
        BY <1>1, Z3
    <2> QED
        BY <1>1, <2>1, <2>2, QuotientMonotone
<1> HIDE DEF a, b
<1>3. (a * m) \div s \in Nat /\ (b * m) \div s \in Nat /\ (a * m) \div s <= (b * m) \div s
    <2>1. a * m \in Nat /\ b * m \in Nat
        BY <1>1, <1>2
    <2>2. a * m <= b * m
        BY <1>1, <1>2, Z3
    <2> QED
        BY <1>1, <2>1, <2>2, QuotientMonotone
<1>4. (a * v) \div s \in Nat /\ (b * v) \div s \in Nat /\ (a * v) \div s <= (b * v) \div s
    <2>1. a * v \in Nat /\ b * v \in Nat
        BY <1>1, <1>2
    <2>2. a * v <= b * v
        BY <1>1, <1>2, Z3
    <2> QED
        BY <1>1, <2>1, <2>2, QuotientMonotone
<1>5. R!Rounded(k * q, n) \in Nat /\ R!Rounded(k * r, n) \in Nat /\ R!Rounded(k * q, n) <= R!Rounded(k * r, n)
    <2>1. k * q \in Nat /\ k * r \in Nat
        BY <1>1
    <2>2. k * q <= k * r
        BY <1>1, Z3
    <2>3. /\ 2 * (k * q) + n \in Nat /\ 2 * (k * r) + n \in Nat /\ 2 * n \in Nat /\ 2 * n > 0
          /\ 2 * (k * q) + n <= 2 * (k * r) + n
        BY <1>1, <2>1, <2>2
    <2> QED
        BY <2>3, QuotientMonotone DEF R!Rounded
<1>6. /\ c = [quantity |-> q, gross |-> a, revenue |-> (a * m) \div s, vat |-> (a * v) \div s,
              cogs |-> IF item.kind = "product" THEN R!Rounded(k * q, n) ELSE 0]
      /\ d = [quantity |-> r, gross |-> b, revenue |-> (b * m) \div s, vat |-> (b * v) \div s,
              cogs |-> IF item.kind = "product" THEN R!Rounded(k * r, n) ELSE 0]
    BY DEF R!Cumulative, a, b, m, s, v, p, n, k
<1>7. /\ c.quantity \in Nat /\ c.gross \in Nat /\ c.revenue \in Nat /\ c.vat \in Nat /\ c.cogs \in Nat
      /\ d.quantity \in Nat /\ d.gross \in Nat /\ d.revenue \in Nat /\ d.vat \in Nat /\ d.cogs \in Nat
      /\ c.quantity <= d.quantity /\ c.gross <= d.gross /\ c.revenue <= d.revenue
      /\ c.vat <= d.vat /\ c.cogs <= d.cogs
    <2>1. /\ c.quantity = q /\ c.gross = a /\ c.revenue = (a * m) \div s /\ c.vat = (a * v) \div s
          /\ d.quantity = r /\ d.gross = b /\ d.revenue = (b * m) \div s /\ d.vat = (b * v) \div s
        BY <1>6
    <2>2. /\ c.cogs = IF item.kind = "product" THEN R!Rounded(k * q, n) ELSE 0
          /\ d.cogs = IF item.kind = "product" THEN R!Rounded(k * r, n) ELSE 0
        BY <1>6
    <2> HIDE DEF c, d
    <2>3. c.cogs \in Nat /\ d.cogs \in Nat /\ c.cogs <= d.cogs
        BY <1>5, <2>2
    <2> QED
        BY <1>2, <1>3, <1>4, <2>1, <2>3
<1>8. /\ c = [quantity |-> c.quantity, gross |-> c.gross, revenue |-> c.revenue, vat |-> c.vat,
              cogs |-> c.cogs]
      /\ d = [quantity |-> d.quantity, gross |-> d.gross, revenue |-> d.revenue, vat |-> d.vat,
              cogs |-> d.cogs]
    BY <1>6
<1> HIDE DEF c, d
<1>9. c \in R!Amounts /\ d \in R!Amounts
    BY <1>7, <1>8 DEF R!Amounts
<1> QED
    BY <1>7, <1>9 DEF c, d

\* The shares of a line never exceed the line's part of the sale, and lack less
\* than one minor unit of it once all its pieces have come back.
LEMMA LineShares ==
    ASSUME NEW x \in R!Invoice, R!Subtotal(x) \in Nat, R!Subtotal(x) > 0, x.discount <= R!Subtotal(x),
           NEW l \in Positions, NEW q \in Nat, q <= x.items[l].quantity
    PROVE  LET c == R!Cumulative(x, l, q)
               p == x.items[l].price
           IN  /\ R!Subtotal(x) * c.revenue <= R!Net(x) * p
               /\ R!Subtotal(x) * c.vat <= x.vat * p
               /\ q = x.items[l].quantity =>
                    /\ R!Net(x) * p < R!Subtotal(x) * (c.revenue + 1)
                    /\ x.vat * p < R!Subtotal(x) * (c.vat + 1)
<1> DEFINE p == x.items[l].price
           n == x.items[l].quantity
           s == R!Subtotal(x)
           m == R!Net(x)
           v == x.vat
           a == (p * q) \div n
           c == R!Cumulative(x, l, q)
<1>1. p \in Nat /\ n \in Nat /\ n > 0 /\ s \in Nat /\ s > 0 /\ m \in Nat /\ v \in Nat /\ q <= n
    BY InvoiceParts
<1>2. c.revenue = (a * m) \div s /\ c.vat = (a * v) \div s
    BY DEF R!Cumulative
<1> HIDE DEF p, n, s, m, v, c
<1>3. a \in Nat /\ a <= p /\ (q = n => a = p)
    <2>1. p * q \in Nat /\ p * q < (p + 1) * n
        <3>1. p * q <= p * n
            BY <1>1, Z3
        <3>2. (p + 1) * n = p * n + n /\ p * n \in Nat /\ p * q \in Nat
            BY <1>1
        <3> QED
            BY <1>1, <3>1, <3>2
    <2>2. a <= p
        BY <1>1, <2>1, QuotientBounds
    <2>3. q = n => p <= a
        BY <1>1, <2>1, QuotientBounds
    <2>4. a \in Nat
        BY <1>1, <2>1, QuotientMonotone
    <2> QED
        BY <1>1, <2>2, <2>3, <2>4
<1> HIDE DEF a
\* For the net amount and for the VAT alike.
<1>4. ASSUME NEW k \in Nat
      PROVE  /\ s * ((a * k) \div s) <= k * p
             /\ q = n => k * p < s * (((a * k) \div s) + 1)
    <2> DEFINE t == (a * k) \div s
    <2>1. a * k \in Nat /\ a * k <= k * p /\ (q = n => a * k = k * p) /\ k * p \in Nat
        <3>1. a * k <= p * k
            BY <1>1, <1>3, Z3
        <3>2. a * k \in Nat /\ p * k = k * p /\ k * p \in Nat
            BY <1>1, <1>3
        <3> QED
            BY <1>3, <3>1, <3>2
    <2>2. t \in Nat /\ s * t <= a * k /\ a * k < s * (t + 1)
        <3> DEFINE w == a * k
        <3>1. w \in Nat
            BY <2>1
        <3> HIDE DEF w
        <3>2. (w \div s) \in Nat /\ s * (w \div s) <= w /\ w < s * (w \div s) + s
            BY <1>1, <3>1, Z3
        <3>3. s * ((w \div s) + 1) = s * (w \div s) + s
            BY <1>1, <3>2
        <3> QED
            BY <3>2, <3>3 DEF w
    <2> HIDE DEF t
    <2>3. s * t <= k * p
        <3>1. s * t \in Nat
            BY <1>1, <2>2
        <3> QED
            BY <2>1, <2>2, <3>1
    <2>4. ASSUME q = n PROVE k * p < s * (t + 1)
        BY <2>1, <2>2, <2>4
    <2> QED
        BY <2>3, <2>4 DEF t
<1>5. /\ s * c.revenue <= m * p /\ (q = n => m * p < s * (c.revenue + 1))
      /\ s * c.vat <= v * p /\ (q = n => v * p < s * (c.vat + 1))
    BY <1>1, <1>2, <1>4
<1> QED
    BY <1>5 DEF c, p, s, m, v, n

\* The returned lines of a sale: each is what its pieces amount to.
Entitled(x, r) ==
    \A l \in Positions :
        /\ r[l] \in R!Amounts /\ r[l].quantity <= x.items[l].quantity
        /\ r[l].quantity = 0 => r[l] = R!Nothing
        /\ r[l].quantity > 0 => R!Subtotal(x) > 0 /\ r[l] = R!Cumulative(x, l, r[l].quantity)

Refunded(r) == SumFunctionOnSet([l \in Positions |-> r[l].revenue + r[l].vat], Positions)

LEMMA RefundBounds ==
    ASSUME R!Parameters, NEW x \in R!Invoice, x.discount <= R!Subtotal(x), NEW r, Entitled(x, r)
    PROVE  /\ Refunded(r) \in Nat /\ Refunded(r) <= R!Total(x)
           /\ (\A l \in Positions : r[l].quantity = x.items[l].quantity) =>
                  R!Total(x) - Refunded(r) < 2 * Cardinality(Positions)
<1> DEFINE p == [l \in Positions |-> x.items[l].price]
           f == [l \in Positions |-> r[l].revenue]
           g == [l \in Positions |-> r[l].vat]
           h == [l \in Positions |-> r[l].revenue + r[l].vat]
           s == R!Subtotal(x)
           m == R!Net(x)
           v == x.vat
           Whole == \A l \in Positions : r[l].quantity = x.items[l].quantity
<1>1. IsFiniteSet(Positions) /\ Positions # {} /\ s \in Nat
    BY SubtotalType, SetsOfReturns DEF R!Parameters
<1>2. m \in Nat /\ v \in Nat /\ R!Total(x) = m + v
    <2>1. PICK l \in Positions : TRUE
        BY <1>1
    <2> QED
        BY <1>1, <2>1, InvoiceParts DEF R!Total
<1>3. \A l \in Positions :
          /\ r[l].quantity \in Nat /\ r[l].revenue \in Nat /\ r[l].vat \in Nat
          /\ x.items[l].price \in Nat /\ x.items[l].quantity \in Nat /\ x.items[l].quantity > 0
    <2> TAKE l \in Positions
    <2>1. r[l] \in R!Amounts
        BY DEF Entitled
    <2> QED
        BY <1>1, <2>1, InvoiceParts DEF R!Amounts
<1>4. s = SumFunctionOnSet(p, Positions)
    BY SetsOfReturns DEF R!Subtotal, R!SumFunction
<1>5. Refunded(r) = SumFunctionOnSet(h, Positions)
    BY DEF Refunded
<1>6. /\ \A l \in Positions : p[l] = x.items[l].price
      /\ \A l \in Positions : f[l] = r[l].revenue /\ g[l] = r[l].vat /\ h[l] = f[l] + g[l]
    OBVIOUS
<1> HIDE DEF p, f, g, h
<1>7. CASE s = 0
    <2>1. \A l \in Positions : r[l] = R!Nothing
        BY <1>3, <1>7 DEF Entitled
    <2>2. \A l \in Positions : h[l] = 0
        BY <1>6, <2>1 DEF R!Nothing
    <2>3. Refunded(r) = 0
        BY <1>1, <1>5, <2>2, SumZero
    <2>4. ~Whole
        <3>1. PICK l \in Positions : TRUE
            BY <1>1
        <3>2. r[l].quantity = 0
            BY <2>1 DEF R!Nothing
        <3> QED
            BY <1>3, <3>2
    <2> HIDE DEF m, v, Whole
    <2>5. 0 <= R!Total(x)
        BY <1>2
    <2> QED
        BY <2>3, <2>4, <2>5 DEF Whole
<1>8. CASE s > 0
    <2> HIDE DEF s, m, v
    <2>1. ASSUME NEW l \in Positions
          PROVE  /\ s * f[l] <= m * p[l] /\ s * g[l] <= v * p[l]
                 /\ Whole => m * p[l] < s * (f[l] + 1) /\ v * p[l] < s * (g[l] + 1)
        <3>1. CASE r[l].quantity = 0
            <4>1. f[l] = 0 /\ g[l] = 0 /\ ~Whole
                BY <1>3, <1>6, <3>1 DEF Entitled, R!Nothing
            <4>2. s * 0 = 0 /\ 0 <= m * p[l] /\ 0 <= v * p[l]
                BY <1>1, <1>2, <1>3, <1>6
            <4> HIDE DEF Whole
            <4> QED
                BY <4>1, <4>2
        <3>2. CASE r[l].quantity > 0
            <4> DEFINE q == r[l].quantity
            <4>1. /\ q \in Nat /\ q <= x.items[l].quantity
                  /\ r[l] = R!Cumulative(x, l, q)
                BY <1>3, <3>2 DEF Entitled
            <4> HIDE DEF q
            <4>2. /\ s * r[l].revenue <= m * x.items[l].price
                  /\ s * r[l].vat <= v * x.items[l].price
                  /\ q = x.items[l].quantity =>
                       /\ m * x.items[l].price < s * (r[l].revenue + 1)
                       /\ v * x.items[l].price < s * (r[l].vat + 1)
                BY <1>1, <1>8, <4>1, LineShares DEF s, m, v
            <4>3. Whole => q = x.items[l].quantity
                BY DEF q
            <4> HIDE DEF Whole
            <4> QED
                BY <1>6, <4>2, <4>3
        <3> QED
            BY <1>3, <3>1, <3>2
    <2>2. \A l \in Positions : p[l] \in Nat /\ f[l] \in Nat /\ g[l] \in Nat
        BY <1>3, <1>6
    <2> HIDE DEF Whole
    <2> DEFINE a == SumFunctionOnSet(f, Positions)
               b == SumFunctionOnSet(g, Positions)
    <2>3. a \in Nat /\ b \in Nat
        BY <1>1, <2>2, SumNat
    <2>4. SumFunctionOnSet(h, Positions) = a + b
        BY <1>1, <1>6, <2>2, SumPlus
    <2>5. /\ a <= m /\ (Whole => m - a < Cardinality(Positions))
        <3>1. SumFunctionOnSet(p, Positions) > 0
            BY <1>4, <1>8
        <3>2. \A l \in Positions : SumFunctionOnSet(p, Positions) * f[l] <= m * p[l]
            BY <1>4, <2>1
        <3>3. Whole => \A l \in Positions : m * p[l] < SumFunctionOnSet(p, Positions) * (f[l] + 1)
            BY <1>4, <2>1
        <3>4. a <= m
            BY <1>1, <1>2, <2>2, <3>1, <3>2, SharesBelow
        <3> QED
            BY <1>1, <1>2, <2>2, <3>1, <3>3, <3>4, SharesAbove
    <2>6. /\ b <= v /\ (Whole => v - b < Cardinality(Positions))
        <3>1. SumFunctionOnSet(p, Positions) > 0
            BY <1>4, <1>8
        <3>2. \A l \in Positions : SumFunctionOnSet(p, Positions) * g[l] <= v * p[l]
            BY <1>4, <2>1
        <3>3. Whole => \A l \in Positions : v * p[l] < SumFunctionOnSet(p, Positions) * (g[l] + 1)
            BY <1>4, <2>1
        <3>4. b <= v
            BY <1>1, <1>2, <2>2, <3>1, <3>2, SharesBelow
        <3> QED
            BY <1>1, <1>2, <2>2, <3>1, <3>3, <3>4, SharesAbove
    <2>7. Cardinality(Positions) \in Nat
        BY <1>1, FS_CardinalityType
    <2> DEFINE n == Cardinality(Positions)
               w == Refunded(r)
    <2>8. w = a + b /\ n \in Nat /\ (Whole => m - a < n /\ v - b < n)
        BY <1>5, <2>4, <2>5, <2>6, <2>7
    <2> HIDE DEF a, b, n, w
    <2>9. w \in Nat /\ w <= m + v /\ (Whole => (m + v) - w < 2 * n)
        BY <1>2, <2>3, <2>5, <2>6, <2>8
    <2> QED
        BY <1>2, <2>9 DEF n, w, Whole
<1> QED
    BY <1>1, <1>7, <1>8

\* Points moved in proportion never exceed the points of the sale.
LEMMA ShareBounds ==
    ASSUME NEW x, R!Total(x) \in Nat, NEW given \in Nat, NEW refund \in Nat, refund <= R!Total(x),
           NEW prior \in Nat, prior <= given
    PROVE  /\ R!Share(given, x, refund, prior) \in Nat
           /\ prior + R!Share(given, x, refund, prior) <= given
<1> DEFINE t == IF R!Total(x) > 0 THEN (given * refund) \div R!Total(x) ELSE 0
<1>1. t \in Nat /\ t <= given
    <2>1. CASE R!Total(x) > 0
        <3> DEFINE n == R!Total(x)
        <3>1. n \in Nat /\ n > 0 /\ refund <= n
            BY <2>1
        <3> HIDE DEF n
        <3>2. given * refund \in Nat /\ given * refund < (given + 1) * n
            <4>1. given * refund <= given * n
                BY <3>1, Z3
            <4>2. (given + 1) * n = given * n + n /\ given * n \in Nat /\ given * refund \in Nat
                BY <3>1
            <4> QED
                BY <3>1, <4>1, <4>2
        <3>3. (given * refund) \div n \in Nat /\ (given * refund) \div n <= given
            BY <3>1, <3>2, QuotientBounds, QuotientMonotone
        <3> QED
            BY <2>1, <3>3 DEF n
    <2>2. CASE ~(R!Total(x) > 0)
        BY <2>2
    <2> QED
        BY <2>1, <2>2
<1>2. R!Share(given, x, refund, prior) = R!Positive(t - prior)
    BY DEF R!Share
<1> HIDE DEF t
<1> QED
    BY <1>1, <1>2 DEF R!Positive

\* A line's part of a return is not negative.
LEMMA PartAmounts ==
    ASSUME NEW x \in R!Invoice, R!Subtotal(x) \in Nat, R!Subtotal(x) > 0, x.discount <= R!Subtotal(x),
           NEW l \in Positions, NEW r \in R!Amounts, NEW n \in Nat,
           r = R!Nothing \/ r = R!Cumulative(x, l, r.quantity)
    PROVE  R!Minus(R!Cumulative(x, l, r.quantity + n), r) \in R!Amounts
<1> DEFINE c == R!Cumulative(x, l, r.quantity + n)
<1>1. r.quantity \in Nat /\ r.quantity + n \in Nat /\ r.quantity <= r.quantity + n
    BY DEF R!Amounts
<1>2. /\ c \in R!Amounts
      /\ \A f \in {"quantity", "gross", "revenue", "vat", "cogs"} :
            R!Cumulative(x, l, r.quantity)[f] <= c[f]
    BY <1>1, CumulativeGrows
<1> HIDE DEF c
<1>3. /\ c.quantity \in Nat /\ c.gross \in Nat /\ c.revenue \in Nat /\ c.vat \in Nat /\ c.cogs \in Nat
      /\ r.quantity \in Nat /\ r.gross \in Nat /\ r.revenue \in Nat /\ r.vat \in Nat /\ r.cogs \in Nat
      /\ DOMAIN c = {"quantity", "gross", "revenue", "vat", "cogs"}
    BY <1>2 DEF R!Amounts
<1>4. /\ r.quantity <= c.quantity /\ r.gross <= c.gross /\ r.revenue <= c.revenue
      /\ r.vat <= c.vat /\ r.cogs <= c.cogs
    <2>1. CASE r = R!Nothing
        BY <1>3, <2>1 DEF R!Nothing
    <2>2. CASE r = R!Cumulative(x, l, r.quantity)
        BY <1>2, <2>2
    <2> QED
        BY <2>1, <2>2
<1>5. R!Minus(c, r) = [quantity |-> c.quantity - r.quantity, gross |-> c.gross - r.gross,
                     revenue |-> c.revenue - r.revenue, vat |-> c.vat - r.vat,
                     cogs |-> c.cogs - r.cogs]
    BY <1>3 DEF R!Minus
<1>6. /\ c.quantity - r.quantity \in Nat /\ c.gross - r.gross \in Nat
      /\ c.revenue - r.revenue \in Nat /\ c.vat - r.vat \in Nat /\ c.cogs - r.cogs \in Nat
    BY <1>3, <1>4
<1>7. R!Minus(c, r) \in R!Amounts
    BY <1>5, <1>6 DEF R!Amounts
<1> QED
    BY <1>7 DEF c

Account == [spend : Nat, points : Nat]
Refunds == [refund : Nat, cogs : Nat, removed : Nat, restored : Nat]

\* The figures of a request that has locked its sale are still those of the
\* sale's refunds and lines.
Counted(c) ==
    Refunding(c) =>
        /\ c.lines \in [DOMAIN c.lines -> R!Amounts]
        /\ c.figures = R!Figures(sale[c.invoice], refunds[c.invoice], c.lines)
        /\ c.seen \in [Buyers -> Account]

MoneyInv ==
    /\ ReturnInv
    /\ returned \in [Invoices -> [Positions -> R!Amounts]]
    /\ refunds \in [Invoices -> Refunds]
    /\ buyer \in [Buyers -> Account]
    /\ \A i \in Invoices :
         /\ Entitled(sale[i], returned[i])
         /\ refunds[i].refund = Refunded(returned[i])
    /\ R!PointsWithinSale
    /\ \A k \in Clerks : Counted(call[k])

\* The figures of a return: what they add up to, and how far the points go.
LEMMA FiguresBounds ==
    ASSUME R!Parameters, NEW x, R!Total(x) \in Nat, x.earned \in Nat, x.redeemed \in Nat,
           NEW sums \in Refunds, sums.removed <= x.earned, sums.restored <= x.redeemed,
           NEW chosen, chosen \subseteq Positions, NEW lines \in [chosen -> R!Amounts],
           sums.refund + SumFunctionOnSet([l \in chosen |-> lines[l].revenue + lines[l].vat], chosen)
               <= R!Total(x)
    PROVE  LET figures == R!Figures(x, sums, lines)
           IN  /\ figures \in Refunds
               /\ figures.refund = SumFunctionOnSet([l \in chosen |-> lines[l].revenue + lines[l].vat], chosen)
               /\ sums.removed + figures.removed <= x.earned
               /\ sums.restored + figures.restored <= x.redeemed
<1> DEFINE d == [l \in chosen |-> lines[l].revenue + lines[l].vat]
           e == [l \in chosen |-> lines[l].cogs]
           refund == SumFunctionOnSet(d, chosen)
           cogs == SumFunctionOnSet(e, chosen)
           taken == R!Share(x.earned, x, sums.refund + refund, sums.removed)
           restored == R!Share(x.redeemed, x, sums.refund + refund, sums.restored)
<1>1. IsFiniteSet(chosen)
    BY FS_Subset, SetsOfReturns DEF R!Parameters
<1>2. \A l \in chosen : d[l] \in Nat /\ e[l] \in Nat
    <2> SUFFICES ASSUME NEW l \in chosen PROVE d[l] \in Nat /\ e[l] \in Nat
        OBVIOUS
    <2>1. lines[l] \in R!Amounts
        OBVIOUS
    <2>2. lines[l].revenue \in Nat /\ lines[l].vat \in Nat /\ lines[l].cogs \in Nat
        BY <2>1 DEF R!Amounts
    <2> QED
        BY <2>2
<1>3. R!Figures(x, sums, lines) =
          [refund |-> refund, cogs |-> cogs, removed |-> taken, restored |-> restored]
    <2>1. DOMAIN lines = chosen /\ DOMAIN d = chosen /\ DOMAIN e = chosen
        OBVIOUS
    <2>2. R!Sum(d) = refund /\ R!Sum(e) = cogs
        BY <2>1, SetsOfReturns DEF R!Sum, R!SumFunction
    <2> QED
        BY <2>1, <2>2 DEF R!Figures
<1> HIDE DEF d, e
<1>4. refund \in Nat /\ cogs \in Nat
    BY <1>1, <1>2, SumNat
<1> HIDE DEF refund, cogs
<1>5. /\ sums.refund \in Nat /\ sums.removed \in Nat /\ sums.restored \in Nat
      /\ sums.refund + refund \in Nat /\ sums.refund + refund <= R!Total(x)
    BY <1>4 DEF Refunds, refund, d
<1>6. taken \in Nat /\ sums.removed + taken <= x.earned
    BY <1>5, ShareBounds
<1>7. restored \in Nat /\ sums.restored + restored <= x.redeemed
    BY <1>5, ShareBounds
<1> HIDE DEF taken, restored
<1> DEFINE figures == R!Figures(x, sums, lines)
<1>8. /\ figures \in Refunds /\ figures.refund = refund
      /\ figures.removed = taken /\ figures.restored = restored
    BY <1>3, <1>4, <1>6, <1>7 DEF Refunds
<1> QED
    BY <1>6, <1>7, <1>8 DEF refund, d

\* Every sale that may be returned has its total and points.
LEMMA SaleParts ==
    ASSUME R!Parameters, Typed, NEW i \in Invoices
    PROVE  /\ sale[i] \in R!Invoice /\ sale[i].discount <= R!Subtotal(sale[i])
           /\ R!Subtotal(sale[i]) \in Nat /\ R!Total(sale[i]) \in Nat
           /\ sale[i].earned \in Nat /\ sale[i].redeemed \in Nat
<1>1. PICK l \in Positions : TRUE
    BY SetsOfReturns DEF R!Parameters
<1> QED
    BY <1>1, SaleType, InvoiceParts

\* A request that changes while nothing is committed.
LEMMA CallMoney ==
    ASSUME MoneyInv, ReturnInv', NEW k \in Clerks, NEW c, call' = [call EXCEPT ![k] = c],
           UNCHANGED <<sale, returned, refunds, buyer>>, Counted(c)
    PROVE  MoneyInv'
<1>1. \A j \in Clerks : call'[j] = IF j = k THEN c ELSE call[j]
    BY DEF MoneyInv, ReturnInv, Typed
<1>2. \A j \in Clerks : Counted(call'[j])
    BY <1>1 DEF MoneyInv
<1>3. \A j \in Clerks : Counted(call[j])'
    BY <1>2 DEF Counted, Refunding
<1> QED
    BY <1>3 DEF MoneyInv, R!PointsWithinSale

LEMMA ReleaseMoney ==
    ASSUME MoneyInv, ReturnInv', NEW k \in Clerks, NEW c, c.pc \notin {"locked", "posted"},
           call' = [call EXCEPT ![k] = c], UNCHANGED <<sale, returned, refunds, buyer>>
    PROVE  MoneyInv'
BY CallMoney DEF Counted, Refunding

LEMMA LockMoney ==
    ASSUME R!Parameters, MoneyInv, ReturnInv', NEW k \in Clerks, R!Lock(k)
    PROVE  MoneyInv'
<1> DEFINE i == call[k].invoice
           quantity == call[k].quantity
           lines == R!Selected(sale[i], returned[i], quantity)
           figures == R!Figures(sale[i], refunds[i], lines)
           c == [pc |-> "locked", invoice |-> i, lines |-> lines, figures |-> figures, seen |-> buyer]
<1>1. /\ call[k].pc = "asked" /\ R!Returnable(sale[i], returned[i], quantity)
      /\ call' = [call EXCEPT ![k] = c] /\ UNCHANGED <<sale, returned, refunds, buyer>>
    BY DEF R!Lock, R!CanLock
<1>2. /\ i \in Invoices /\ DOMAIN quantity \subseteq Positions
      /\ \A l \in DOMAIN quantity : quantity[l] \in Nat
    BY <1>1 DEF MoneyInv, ReturnInv, Asked
<1>3. R!Subtotal(sale[i]) > 0
    BY <1>1 DEF R!Returnable
<1>4. lines \in [DOMAIN quantity -> R!Amounts]
    <2> SUFFICES ASSUME NEW l \in DOMAIN quantity
                 PROVE  R!Minus(R!Cumulative(sale[i], l, returned[i][l].quantity + quantity[l]),
                              returned[i][l]) \in R!Amounts
        BY DEF R!Selected
    <2>1. /\ sale[i] \in R!Invoice /\ R!Subtotal(sale[i]) \in Nat
          /\ sale[i].discount <= R!Subtotal(sale[i])
        BY <1>2, SaleParts DEF MoneyInv, ReturnInv
    <2>2. l \in Positions /\ returned[i][l] \in R!Amounts /\ quantity[l] \in Nat
        BY <1>2 DEF MoneyInv
    <2>3. returned[i][l] = R!Nothing \/ returned[i][l] = R!Cumulative(sale[i], l, returned[i][l].quantity)
        <3>1. returned[i][l].quantity \in Nat
            BY <2>2 DEF R!Amounts
        <3>2. returned[i][l].quantity = 0 \/ returned[i][l].quantity > 0
            BY <3>1
        <3> QED
            BY <1>2, <2>2, <3>2 DEF MoneyInv, Entitled
    <2> QED
        BY <1>3, <2>1, <2>2, <2>3, PartAmounts
<1>5. buyer \in [Buyers -> Account]
    BY DEF MoneyInv
<1> HIDE DEF lines, figures
<1>6. c.lines = lines /\ c.figures = figures /\ c.seen = buyer /\ c.invoice = i
    OBVIOUS
<1>7. c.lines \in [DOMAIN c.lines -> R!Amounts]
    BY <1>4, <1>6
<1> HIDE DEF c
<1>8. Counted(c)
    BY <1>5, <1>6, <1>7 DEF Counted, figures
<1> QED
    BY <1>1, <1>8, CallMoney

LEMMA PostMoney ==
    ASSUME MoneyInv, ReturnInv', NEW k \in Clerks, R!Post(k)
    PROVE  MoneyInv'
<1> DEFINE c == [call[k] EXCEPT !.pc = "posted"]
<1>1. /\ call' = [call EXCEPT ![k] = c] /\ UNCHANGED <<sale, returned, refunds, buyer>>
      /\ Refunding(call[k]) /\ Counted(call[k])
    BY DEF R!Post, Refunding, MoneyInv
<1>2. /\ c.lines = call[k].lines /\ c.figures = call[k].figures
      /\ c.seen = call[k].seen /\ c.invoice = call[k].invoice
    OBVIOUS
<1> HIDE DEF c
<1>3. Counted(c)
    BY <1>1, <1>2 DEF Counted
<1> QED
    BY <1>1, <1>3, CallMoney

\* The saved columns of the customer are amounts.
LEMMA SavedAccount ==
    ASSUME NEW row \in Account, NEW then \in Account, NEW figures \in Refunds
    PROVE  R!SavedBuyer(row, then, R!AfterReturn(then, figures)) \in Account
<1> DEFINE new == R!AfterReturn(then, figures)
           saved == [f \in DOMAIN row |-> IF new[f] = then[f] THEN row[f] ELSE new[f]]
<1>1. /\ row.spend \in Nat /\ row.points \in Nat /\ then.spend \in Nat /\ then.points \in Nat
      /\ figures.refund \in Nat /\ figures.removed \in Nat /\ figures.restored \in Nat
      /\ DOMAIN row = {"spend", "points"}
    BY DEF Account, Refunds
<1>2. R!Positive(then.spend - figures.refund) \in Nat /\ R!Positive(then.points - figures.removed) \in Nat
    BY <1>1 DEF R!Positive
<1>3. new.spend \in Nat /\ new.points \in Nat
    BY <1>1, <1>2 DEF R!AfterReturn
<1> HIDE DEF new
<1>4. saved.spend \in Nat /\ saved.points \in Nat
    BY <1>1, <1>3
<1>5. saved = [spend |-> saved.spend, points |-> saved.points]
    BY <1>1
<1> HIDE DEF saved
<1>6. saved \in Account
    BY <1>4, <1>5 DEF Account
<1> QED
    BY <1>6 DEF saved, new, R!SavedBuyer

LEMMA FinishMoney ==
    ASSUME R!Parameters, MoneyInv, ReturnInv', NEW k \in Clerks, R!Finish(k)
    PROVE  MoneyInv'
<1> DEFINE i == call[k].invoice
           x == sale[i]
           lines == call[k].lines
           chosen == DOMAIN lines
           figures == call[k].figures
           then == call[k].seen
<1>1. /\ call[k].pc = "posted" /\ UNCHANGED sale
      /\ call' = [call EXCEPT ![k] = R!Idle]
      /\ returned' = [returned EXCEPT ![i] = [l \in Positions |->
              IF l \in chosen THEN R!Plus(@[l], lines[l]) ELSE @[l]]]
      /\ refunds' = [refunds EXCEPT ![i] = R!Plus(@, figures)]
      /\ buyer' = [b \in Buyers |->
              IF b = x.customer THEN R!SavedBuyer(buyer[b], then[b], R!AfterReturn(then[b], figures))
              ELSE buyer[b]]
    BY DEF R!Finish
<1>2. Refunding(call[k]) /\ Selecting(call[k]) /\ Counted(call[k])
    BY <1>1 DEF MoneyInv, ReturnInv, Refunding
<1>3. /\ i \in Invoices /\ R!Subtotal(x) > 0 /\ chosen \subseteq Positions
      /\ lines \in [chosen -> R!Amounts] /\ figures = R!Figures(x, refunds[i], lines)
      /\ then \in [Buyers -> Account]
    BY <1>2 DEF Selecting, Counted
<1>4. /\ x \in R!Invoice /\ x.discount <= R!Subtotal(x) /\ R!Subtotal(x) \in Nat /\ R!Total(x) \in Nat
      /\ x.earned \in Nat /\ x.redeemed \in Nat
    BY <1>3, SaleParts DEF MoneyInv, ReturnInv
<1>5. /\ \A j \in Invoices \ {i} : returned'[j] = returned[j] /\ refunds'[j] = refunds[j]
      /\ returned'[i] = [l \in Positions |->
              IF l \in chosen THEN R!Plus(returned[i][l], lines[l]) ELSE returned[i][l]]
      /\ refunds'[i] = R!Plus(refunds[i], figures)
    BY <1>1, <1>3 DEF MoneyInv
\* The lines after the return.
<1>6. ASSUME NEW l \in Positions
      PROVE  /\ returned[i][l] \in R!Amounts /\ returned'[i][l] \in R!Amounts
             /\ returned'[i][l].quantity <= x.items[l].quantity
             /\ returned'[i][l].quantity = 0 => returned'[i][l] = R!Nothing
             /\ returned'[i][l].quantity > 0 =>
                   returned'[i][l] = R!Cumulative(x, l, returned'[i][l].quantity)
             /\ returned'[i][l].revenue + returned'[i][l].vat =
                   IF l \in chosen THEN (returned[i][l].revenue + returned[i][l].vat)
                                     + (lines[l].revenue + lines[l].vat)
                   ELSE returned[i][l].revenue + returned[i][l].vat
    <2>1. returned[i][l] \in R!Amounts
        BY <1>3, <1>6 DEF MoneyInv
    <2>2. /\ returned'[i][l].quantity <= x.items[l].quantity
          /\ returned'[i][l].quantity > 0 =>
                 returned'[i][l] = R!Cumulative(x, l, returned'[i][l].quantity)
        BY <1>1, <1>3, <1>6 DEF ReturnInv, R!ReturnedWithinSold, R!AmountsFollowQuantity
    <2>3. CASE l \in chosen
        <3>1. lines[l] \in R!Amounts
            BY <1>3, <2>3
        <3> DEFINE r == returned[i][l]
                   d == lines[l]
        <3>2. /\ r.quantity \in Nat /\ r.gross \in Nat /\ r.revenue \in Nat /\ r.vat \in Nat
              /\ r.cogs \in Nat /\ d.quantity \in Nat /\ d.gross \in Nat /\ d.revenue \in Nat
              /\ d.vat \in Nat /\ d.cogs \in Nat
              /\ DOMAIN r = {"quantity", "gross", "revenue", "vat", "cogs"}
            BY <2>1, <3>1 DEF R!Amounts
        <3>3. returned'[i][l] = R!Plus(r, d)
            BY <1>5, <1>6, <2>3
        <3> HIDE DEF r, d
        <3>4. R!Plus(r, d) = [quantity |-> r.quantity + d.quantity, gross |-> r.gross + d.gross,
                            revenue |-> r.revenue + d.revenue, vat |-> r.vat + d.vat,
                            cogs |-> r.cogs + d.cogs]
            BY <3>2 DEF R!Plus
        <3>5. R!Plus(r, d) \in R!Amounts
            BY <3>2, <3>4 DEF R!Amounts
        <3>6. /\ returned'[i][l].revenue = r.revenue + d.revenue
              /\ returned'[i][l].vat = r.vat + d.vat
              /\ returned'[i][l].quantity = r.quantity + d.quantity
            BY <3>3, <3>4
        <3>7. d.quantity > 0
            <4>1. PICK n \in Nat \ {0} : d = Difference(i, l, n)
                BY <1>2, <2>3 DEF Selecting, d
            <4>2. d.quantity = n
                <5>1. r.quantity + n \in Nat
                    BY <3>2
                <5>2. DOMAIN R!Cumulative(x, l, r.quantity + n)
                        = {"quantity", "gross", "revenue", "vat", "cogs"}
                      /\ R!Cumulative(x, l, r.quantity + n).quantity = r.quantity + n
                    BY DEF R!Cumulative
                <5>3. R!Minus(R!Cumulative(x, l, r.quantity + n), r).quantity
                        = (r.quantity + n) - r.quantity
                    BY <5>2 DEF R!Minus
                <5>4. d = R!Minus(R!Cumulative(x, l, r.quantity + n), r)
                    BY <4>1 DEF Difference, r
                <5> QED
                    BY <3>2, <5>3, <5>4
            <4> QED
                BY <4>2
        <3>8. returned'[i][l].quantity # 0
            BY <3>2, <3>6, <3>7
        <3>9. (r.revenue + d.revenue) + (r.vat + d.vat) = (r.revenue + r.vat) + (d.revenue + d.vat)
            BY <3>2
        <3> QED
            BY <2>1, <2>2, <2>3, <3>3, <3>5, <3>6, <3>8, <3>9 DEF r, d
    <2>4. CASE l \notin chosen
        <3>1. returned'[i][l] = returned[i][l]
            BY <1>5, <1>6, <2>4
        <3>2. returned[i][l].quantity = 0 => returned[i][l] = R!Nothing
            BY <1>3, <1>6 DEF MoneyInv, Entitled
        <3> QED
            BY <2>1, <2>2, <2>4, <3>1, <3>2
    <2> QED
        BY <2>3, <2>4
<1>7. Entitled(x, returned'[i])
    BY <1>3, <1>6 DEF Entitled
<1>8. ASSUME NEW j \in Invoices PROVE Entitled(sale[j], returned'[j])
    BY <1>5, <1>7, <1>8 DEF MoneyInv
\* What the sale has refunded after the return.
<1> DEFINE d == [l \in chosen |-> lines[l].revenue + lines[l].vat]
           f == [l \in Positions |-> returned[i][l].revenue + returned[i][l].vat]
           g == [l \in Positions |-> returned'[i][l].revenue + returned'[i][l].vat]
<1>9. Refunded(returned'[i]) = Refunded(returned[i]) + SumFunctionOnSet(d, chosen)
    <2>1. \A l \in Positions : f[l] \in Int
        <3> SUFFICES ASSUME NEW l \in Positions PROVE f[l] \in Int
            OBVIOUS
        <3>1. returned[i][l].revenue \in Nat /\ returned[i][l].vat \in Nat
            BY <1>6 DEF R!Amounts
        <3> QED
            BY <3>1
    <2>2. \A l \in chosen : d[l] \in Int
        <3> SUFFICES ASSUME NEW l \in chosen PROVE d[l] \in Int
            OBVIOUS
        <3>1. lines[l] \in R!Amounts
            BY <1>3
        <3>2. lines[l].revenue \in Nat /\ lines[l].vat \in Nat
            BY <3>1 DEF R!Amounts
        <3> QED
            BY <3>2
    <2>3. \A l \in Positions : g[l] = IF l \in chosen THEN f[l] + d[l] ELSE f[l]
        BY <1>6
    <2>4. Refunded(returned'[i]) = SumFunctionOnSet(g, Positions)
            /\ Refunded(returned[i]) = SumFunctionOnSet(f, Positions)
        BY DEF Refunded
    <2>5. IsFiniteSet(Positions)
        BY SetsOfReturns DEF R!Parameters
    <2> HIDE DEF d, f, g, chosen
    <2> QED
        BY <1>3, <2>1, <2>2, <2>3, <2>4, <2>5, SumAdd
<1>10. refunds[i] \in Refunds /\ refunds[i].refund = Refunded(returned[i])
    BY <1>3 DEF MoneyInv
<1>11. refunds[i].refund + SumFunctionOnSet(d, chosen) <= R!Total(x)
    BY <1>4, <1>7, <1>9, <1>10, RefundBounds
<1>12. /\ figures \in Refunds /\ figures.refund = SumFunctionOnSet(d, chosen)
       /\ refunds[i].removed + figures.removed <= x.earned
       /\ refunds[i].restored + figures.restored <= x.redeemed
    <2>1. refunds[i].removed <= x.earned /\ refunds[i].restored <= x.redeemed
        BY <1>3 DEF MoneyInv, R!PointsWithinSale
    <2> HIDE DEF chosen, x
    <2> QED
        BY <1>3, <1>4, <1>10, <1>11, <2>1, FiguresBounds
<1> HIDE DEF d, f, g, figures, then
<1>13. /\ refunds'[i] \in Refunds /\ refunds'[i].refund = Refunded(returned'[i])
       /\ refunds'[i].removed <= x.earned /\ refunds'[i].restored <= x.redeemed
    <2> DEFINE r == refunds[i]
    <2>1. /\ r.refund \in Nat /\ r.cogs \in Nat /\ r.removed \in Nat /\ r.restored \in Nat
          /\ figures.refund \in Nat /\ figures.cogs \in Nat /\ figures.removed \in Nat
          /\ figures.restored \in Nat /\ DOMAIN r = {"refund", "cogs", "removed", "restored"}
        BY <1>10, <1>12 DEF Refunds
    <2>2. refunds'[i] = R!Plus(r, figures)
        BY <1>5
    <2> HIDE DEF r
    <2>3. R!Plus(r, figures) = [refund |-> r.refund + figures.refund, cogs |-> r.cogs + figures.cogs,
                              removed |-> r.removed + figures.removed,
                              restored |-> r.restored + figures.restored]
        BY <2>1 DEF R!Plus
    <2>4. R!Plus(r, figures) \in Refunds
        BY <2>1, <2>3 DEF Refunds
    <2>5. /\ refunds'[i].refund = r.refund + figures.refund
          /\ refunds'[i].removed = r.removed + figures.removed
          /\ refunds'[i].restored = r.restored + figures.restored
        BY <2>2, <2>3
    <2> QED
        BY <1>9, <1>10, <1>12, <2>2, <2>4, <2>5 DEF r
<1>14. returned' \in [Invoices -> [Positions -> R!Amounts]]
    <2>1. returned'[i] \in [Positions -> R!Amounts]
        BY <1>5, <1>6
    <2> QED
        BY <1>1, <1>3, <1>5, <2>1 DEF MoneyInv
<1>15. refunds' \in [Invoices -> Refunds]
    BY <1>1, <1>3, <1>13, <1>5 DEF MoneyInv
<1>16. buyer' \in [Buyers -> Account]
    <2> SUFFICES ASSUME NEW b \in Buyers
                 PROVE  (IF b = x.customer
                         THEN R!SavedBuyer(buyer[b], then[b], R!AfterReturn(then[b], figures))
                         ELSE buyer[b]) \in Account
        BY <1>1
    <2>1. buyer[b] \in Account /\ then[b] \in Account
        BY <1>3 DEF MoneyInv
    <2> QED
        BY <1>12, <2>1, SavedAccount
<1>17. R!PointsWithinSale'
    <2> SUFFICES ASSUME NEW j \in Invoices
                 PROVE  refunds'[j].removed <= sale[j].earned /\ refunds'[j].restored <= sale[j].redeemed
        BY <1>1 DEF R!PointsWithinSale
    <2>1. CASE j = i
        BY <1>13, <2>1
    <2>2. CASE j # i
        BY <1>5, <2>2 DEF MoneyInv, R!PointsWithinSale
    <2> QED
        BY <2>1, <2>2
<1>18. ASSUME NEW j \in Invoices
       PROVE  Entitled(sale[j], returned[j])' /\ refunds'[j].refund = Refunded(returned[j])'
    <2>1. refunds'[j].refund = Refunded(returned'[j])
        BY <1>5, <1>13, <1>18 DEF MoneyInv
    <2>2. Entitled(sale[j], returned[j])'
        <3>1. Entitled(sale'[j], returned'[j])
            BY <1>1, <1>8
        <3> QED
            BY <3>1 DEF Entitled
    <2> QED
        BY <2>1, <2>2 DEF Refunded
<1>19. ASSUME NEW j \in Clerks PROVE Counted(call[j])'
    <2>1. call'[j] = IF j = k THEN R!Idle ELSE call[j]
        BY <1>1 DEF MoneyInv, ReturnInv, Typed
    <2>2. CASE j = k
        BY <2>1, <2>2, IdleCall DEF Counted, Refunding
    <2>3. CASE j # k
        <3> SUFFICES ASSUME Refunding(call[j]) PROVE Counted(call[j])'
            BY <2>1, <2>3 DEF Counted, Refunding
        <3>1. Counted(call[j]) /\ Selecting(call[j]) /\ call[j].invoice # i
            BY <1>2, <2>3 DEF MoneyInv, ReturnInv, OneReturnAtOnce
        <3>2. call[j].invoice \in Invoices
            BY <3>1 DEF Selecting
        <3>3. refunds'[call[j].invoice] = refunds[call[j].invoice]
            BY <1>5, <3>1, <3>2
        <3> QED
            BY <1>1, <2>1, <2>3, <3>1, <3>3 DEF Counted
    <2> QED
        BY <2>2, <2>3
<1> QED
    BY <1>14, <1>15, <1>16, <1>17, <1>18, <1>19 DEF MoneyInv

LEMMA NextMoney ==
    ASSUME R!Parameters, MoneyInv, [R!Next]_R!vars
    PROVE  MoneyInv'
<1>1. ReturnInv'
    BY NextReturn DEF MoneyInv
<1>2. ASSUME NEW k \in Clerks, R!Request(k) PROVE MoneyInv'
    <2>1. PICK c : /\ c.pc = "asked" /\ call' = [call EXCEPT ![k] = c]
                   /\ UNCHANGED <<sale, returned, refunds, buyer>>
        <3>1. PICK i \in Invoices, L \in (SUBSET Positions) \ {{}} : \E quantity \in [L -> 1 .. 2] :
                 call' = [call EXCEPT ![k] = [pc |-> "asked", invoice |-> i, quantity |-> quantity]]
            BY <1>2 DEF R!Request
        <3>2. PICK quantity \in [L -> 1 .. 2] :
                 call' = [call EXCEPT ![k] = [pc |-> "asked", invoice |-> i, quantity |-> quantity]]
            BY <3>1
        <3>3. [pc |-> "asked", invoice |-> i, quantity |-> quantity].pc = "asked"
            OBVIOUS
        <3> QED
            BY <1>2, <3>2, <3>3 DEF R!Request
    <2> QED
        BY <1>1, <2>1, ReleaseMoney
<1>3. ASSUME NEW k \in Clerks, R!Refuse(k) \/ R!Fail(k) PROVE MoneyInv'
    <2>1. call' = [call EXCEPT ![k] = R!Idle] /\ UNCHANGED <<sale, returned, refunds, buyer>>
        BY <1>3 DEF R!Refuse, R!Fail, R!Release
    <2> QED
        BY <1>1, <2>1, IdleCall, ReleaseMoney
<1>4. ASSUME NEW k \in Clerks, R!Lock(k) \/ R!Post(k) \/ R!Finish(k) PROVE MoneyInv'
    BY <1>1, <1>4, LockMoney, PostMoney, FinishMoney
<1>5. CASE UNCHANGED R!vars
    <2>1. UNCHANGED <<sale, returned, refunds, buyer, call>>
        BY <1>5 DEF R!vars
    <2>2. \A k \in Clerks : Counted(call[k])'
        BY <2>1 DEF MoneyInv, Counted, Refunding
    <2> QED
        BY <1>1, <2>1, <2>2 DEF MoneyInv, R!PointsWithinSale
<1> QED
    BY <1>1, <1>2, <1>3, <1>4, <1>5 DEF R!Next

LEMMA InitMoney == ASSUME R!Parameters, R!Init PROVE MoneyInv
<1>1. ReturnInv
    BY InitReturns
<1>2. /\ returned = [i \in Invoices |-> [l \in Positions |-> R!Nothing]]
      /\ refunds = [i \in Invoices |-> R!NoReturns]
      /\ opening \in [Buyers -> Openings] /\ buyer = opening
      /\ call = [k \in Clerks |-> R!Idle]
    BY DEF R!Init
<1>3. R!Nothing \in R!Amounts /\ R!Nothing.quantity = 0 /\ R!Nothing.revenue + R!Nothing.vat = 0
    BY DEF R!Nothing, R!Amounts
<1>4. /\ R!NoReturns \in Refunds
      /\ R!NoReturns.refund = 0 /\ R!NoReturns.removed = 0 /\ R!NoReturns.restored = 0
    BY DEF R!NoReturns, Refunds
<1>5. ASSUME NEW i \in Invoices
      PROVE  /\ Entitled(sale[i], returned[i])
             /\ refunds[i].refund = Refunded(returned[i])
             /\ refunds[i].removed <= sale[i].earned /\ refunds[i].restored <= sale[i].redeemed
    <2>1. \A l \in Positions : returned[i][l] = R!Nothing
        BY <1>2
    <2>2. Entitled(sale[i], returned[i])
        <3>1. \A l \in Positions : sale[i].items[l].quantity \in Nat
            BY <1>1, SaleType DEF ReturnInv
        <3> QED
            BY <1>3, <2>1, <3>1 DEF Entitled
    <2>3. Refunded(returned[i]) = 0
        <3> DEFINE f == [l \in Positions |-> returned[i][l].revenue + returned[i][l].vat]
        <3>1. \A l \in Positions : f[l] = 0
            BY <1>3, <2>1
        <3>2. IsFiniteSet(Positions)
            BY SetsOfReturns DEF R!Parameters
        <3>3. Refunded(returned[i]) = SumFunctionOnSet(f, Positions)
            BY DEF Refunded
        <3> HIDE DEF f
        <3> QED
            BY <3>1, <3>2, <3>3, SumZero
    <2>4. sale[i].earned \in Nat /\ sale[i].redeemed \in Nat
        BY <1>1, SaleParts DEF ReturnInv
    <2> QED
        BY <1>2, <1>4, <2>2, <2>3, <2>4
<1>6. \A k \in Clerks : Counted(call[k])
    BY <1>2, IdleCall DEF Counted, Refunding
<1>7. buyer \in [Buyers -> Account]
    BY <1>2, SetsOfReturns DEF R!Parameters, Account
<1> QED
    BY <1>1, <1>2, <1>3, <1>4, <1>5, <1>6, <1>7 DEF MoneyInv, R!PointsWithinSale

\* Refunds never exceed what was paid, and a complete return leaves less than
\* a minor unit for each line and rate.
LEMMA MoneyWithin == ASSUME R!Parameters, MoneyInv PROVE R!RefundWithinPaid
<1> SUFFICES ASSUME NEW i \in Invoices
             PROVE  /\ refunds[i].refund <= R!Total(sale[i])
                    /\ R!Complete(i) => R!Total(sale[i]) - refunds[i].refund < 2 * Cardinality(Positions)
    BY SetsOfReturns DEF R!RefundWithinPaid
<1>1. sale[i] \in R!Invoice /\ sale[i].discount <= R!Subtotal(sale[i])
    BY SaleParts DEF MoneyInv, ReturnInv
<1>2. Entitled(sale[i], returned[i]) /\ refunds[i].refund = Refunded(returned[i])
    BY DEF MoneyInv
<1> QED
    BY <1>1, <1>2, RefundBounds DEF R!Complete

\* The sums of the sales_returns rows of a sale stay within its amount, and the
\* points moved within the points earned and redeemed (SalesReturnsService),
\* for every split of the pieces into returns, and every price, discount and VAT.
THEOREM RefundsStayWithinSale ==
    ASSUME R!Parameters PROVE R!Spec => [](R!RefundWithinPaid /\ R!PointsWithinSale)
<1>1. R!Init => MoneyInv
    BY InitMoney
<1>2. MoneyInv /\ [R!Next]_R!vars => MoneyInv'
    BY NextMoney
<1>3. MoneyInv => R!RefundWithinPaid /\ R!PointsWithinSale
    BY MoneyWithin DEF MoneyInv
<1> QED
    BY <1>1, <1>2, <1>3, PTL DEF R!Spec

\* No amount of a return is negative, whatever is rounded: neither the lines
\* written nor the sums kept, nor what is left of a customer's spend and points.
THEOREM ReturnsTypeCorrect == ASSUME R!Parameters PROVE R!Spec => []R!TypeOK
<1>1. R!Init => MoneyInv
    BY InitMoney
<1>2. MoneyInv /\ [R!Next]_R!vars => MoneyInv'
    BY NextMoney
<1>3. MoneyInv => R!TypeOK
    BY DEF MoneyInv, ReturnInv, Typed, Counted, Refunding, R!TypeOK, Account, Refunds
<1> QED
    BY <1>1, <1>2, <1>3, PTL DEF R!Spec

-----------------------------------------------------------------------------
(* Accounts: a customer's row follows the returns, as long as no two         *)
(* requests return sales of one customer at once.                            *)

\* A request that has locked its sale knows the customer's row.
Knows(c) ==
    LET b == sale[c.invoice].customer
    IN  Refunding(c) /\ b # Guest => c.seen[b] = buyer[b]

FollowInv ==
    /\ MoneyInv
    /\ opening \in [Buyers -> Account]
    /\ \A k \in Clerks : Knows(call[k])
    /\ R!AccountFollowsReturns

\* The sums that the figures of a return are taken from are amounts.
LEMMA FiguresType ==
    ASSUME R!Parameters, NEW x, R!Total(x) \in Nat, x.earned \in Nat, x.redeemed \in Nat,
           NEW sums \in Refunds, NEW chosen, chosen \subseteq Positions, NEW lines \in [chosen -> R!Amounts]
    PROVE  R!Figures(x, sums, lines) \in Refunds
<1> DEFINE d == [l \in chosen |-> lines[l].revenue + lines[l].vat]
           e == [l \in chosen |-> lines[l].cogs]
           refund == R!Sum(d)
           cogs == R!Sum(e)
           total == sums.refund + refund
<1>1. IsFiniteSet(chosen)
    BY FS_Subset, SetsOfReturns DEF R!Parameters
<1>2. \A l \in chosen : d[l] \in Nat /\ e[l] \in Nat
    <2> SUFFICES ASSUME NEW l \in chosen PROVE d[l] \in Nat /\ e[l] \in Nat
        OBVIOUS
    <2>1. lines[l] \in R!Amounts
        OBVIOUS
    <2>2. lines[l].revenue \in Nat /\ lines[l].vat \in Nat /\ lines[l].cogs \in Nat
        BY <2>1 DEF R!Amounts
    <2> QED
        BY <2>2
<1>3. DOMAIN d = chosen /\ DOMAIN e = chosen /\ DOMAIN lines = chosen
    OBVIOUS
<1>4. R!Figures(x, sums, lines) =
          [refund |-> refund, cogs |-> cogs,
           removed |-> R!Share(x.earned, x, total, sums.removed),
           restored |-> R!Share(x.redeemed, x, total, sums.restored)]
    BY <1>3 DEF R!Figures
<1> HIDE DEF d, e
<1>5. refund \in Nat /\ cogs \in Nat
    BY <1>1, <1>2, <1>3, SumNat, SetsOfReturns DEF R!Sum, R!SumFunction
<1> HIDE DEF refund, cogs
<1>6. total \in Nat /\ sums.removed \in Nat /\ sums.restored \in Nat
    BY <1>5 DEF Refunds
<1> HIDE DEF total
<1>7. ASSUME NEW given \in Nat, NEW prior \in Nat
      PROVE  R!Share(given, x, total, prior) \in Nat
    <2> DEFINE t == IF R!Total(x) > 0 THEN (given * total) \div R!Total(x) ELSE 0
    <2>1. given * total \in Nat
        BY <1>6
    <2>2. R!Total(x) > 0 => (given * total) \div R!Total(x) \in Nat
        BY <2>1, QuotientMonotone
    <2>3. t \in Nat
        BY <2>2
    <2> HIDE DEF t
    <2>4. R!Positive(t - prior) \in Nat
        BY <2>3 DEF R!Positive
    <2> QED
        BY <2>4 DEF R!Share, t
<1>8. R!Share(x.earned, x, total, sums.removed) \in Nat
      /\ R!Share(x.redeemed, x, total, sums.restored) \in Nat
    BY <1>6, <1>7
<1> QED
    BY <1>4, <1>5, <1>8 DEF Refunds

\* The row saved by a request whose snapshot is the committed row.
LEMMA SavedFresh ==
    ASSUME NEW row \in Account, NEW figures \in Refunds
    PROVE  LET new == R!SavedBuyer(row, row, R!AfterReturn(row, figures))
           IN  /\ new.spend = R!Positive(row.spend - figures.refund)
               /\ new.points = R!Positive(row.points - figures.removed) + figures.restored
<1> DEFINE after == R!AfterReturn(row, figures)
<1>1. DOMAIN row = {"spend", "points"}
    BY DEF Account
<1>2. /\ after.spend = R!Positive(row.spend - figures.refund)
      /\ after.points = R!Positive(row.points - figures.removed) + figures.restored
    BY DEF R!AfterReturn
<1> HIDE DEF after
<1>3. \A f \in DOMAIN row : R!SavedBuyer(row, row, after)[f] = after[f]
    BY DEF R!SavedBuyer
<1> QED
    BY <1>1, <1>2, <1>3 DEF after

\* A return of one sale changes its customer's sums, and nobody else's.
LEMMA OfChanges ==
    ASSUME R!Parameters, MoneyInv, NEW i \in Invoices, NEW figures \in Refunds,
           UNCHANGED sale, refunds' = [refunds EXCEPT ![i] = R!Plus(@, figures)],
           NEW c, NEW f \in {"refund", "removed", "restored"}
    PROVE  /\ R!Of(c, f) \in Nat
           /\ R!Of(c, f)' = R!Of(c, f) + (IF sale[i].customer = c THEN figures[f] ELSE 0)
<1> DEFINE a == [j \in Invoices |-> IF sale[j].customer = c THEN refunds[j][f] ELSE 0]
           b == [j \in Invoices |-> IF sale[j].customer = c THEN refunds'[j][f] ELSE 0]
           d == IF sale[i].customer = c THEN figures[f] ELSE 0
<1>1. \A j \in Invoices : refunds[j] \in Refunds
    BY DEF MoneyInv
<1>2. \A j \in Invoices : refunds[j][f] \in Nat /\ f \in DOMAIN refunds[j]
    BY <1>1 DEF Refunds
<1>3. figures[f] \in Nat
    BY DEF Refunds
<1>4. \A j \in Invoices : refunds'[j][f] = IF j = i THEN refunds[j][f] + figures[f] ELSE refunds[j][f]
    BY <1>1, <1>2 DEF MoneyInv, R!Plus
<1>5. \A j \in Invoices : a[j] \in Nat
    BY <1>2
<1>6. d \in Int /\ \A j \in Invoices : b[j] = IF j = i THEN a[j] + d ELSE a[j]
    BY <1>2, <1>3, <1>4
<1>7. IsFiniteSet(Invoices)
    BY SetsOfReturns DEF R!Parameters
<1>8. DOMAIN a = Invoices /\ DOMAIN b = Invoices
    OBVIOUS
<1>9. R!Of(c, f) = SumFunctionOnSet(a, Invoices) /\ R!Of(c, f)' = SumFunctionOnSet(b, Invoices)
    BY <1>8, SetsOfReturns DEF R!Of, R!SumFunction
<1> HIDE DEF a, b, d
<1>10. SumFunctionOnSet(b, Invoices) = SumFunctionOnSet(a, Invoices) + d
    BY <1>5, <1>6, <1>7, SumChange
<1>11. SumFunctionOnSet(a, Invoices) \in Nat
    BY <1>5, <1>7, SumNat
<1> QED
    BY <1>9, <1>10, <1>11 DEF d

\* A step that leaves the committed rows alone.
LEMMA CallFollows ==
    ASSUME FollowInv, MoneyInv', UNCHANGED <<sale, refunds, buyer, opening>>,
           \A k \in Clerks : Knows(call'[k])
    PROVE  FollowInv'
<1>1. \A k \in Clerks : Knows(call[k])'
    BY DEF Knows, Refunding
<1>2. \A c, f : R!Of(c, f)' = R!Of(c, f)
    BY DEF R!Of
<1>3. R!AccountFollowsReturns'
    BY <1>2 DEF FollowInv, R!AccountFollowsReturns
<1> QED
    BY <1>1, <1>3 DEF FollowInv

LEMMA FinishFollows ==
    ASSUME R!Parameters, SeparateReturns, FollowInv, MoneyInv', NEW k \in Clerks, R!Finish(k)
    PROVE  FollowInv'
<1> DEFINE i == call[k].invoice
           x == sale[i]
           lines == call[k].lines
           figures == call[k].figures
           then == call[k].seen
<1>1. /\ call[k].pc = "posted" /\ UNCHANGED <<sale, opening>>
      /\ call' = [call EXCEPT ![k] = R!Idle]
      /\ refunds' = [refunds EXCEPT ![i] = R!Plus(@, figures)]
      /\ buyer' = [b \in Buyers |->
              IF b = x.customer THEN R!SavedBuyer(buyer[b], then[b], R!AfterReturn(then[b], figures))
              ELSE buyer[b]]
    BY DEF R!Finish
<1>2. /\ Refunding(call[k]) /\ Selecting(call[k]) /\ Counted(call[k]) /\ Knows(call[k])
      /\ MoneyInv /\ Typed
    BY <1>1 DEF FollowInv, MoneyInv, ReturnInv, Refunding
<1>3. i \in Invoices /\ figures \in Refunds
    <2>1. /\ i \in Invoices /\ DOMAIN lines \subseteq Positions
          /\ lines \in [DOMAIN lines -> R!Amounts] /\ figures = R!Figures(x, refunds[i], lines)
        BY <1>2 DEF Selecting, Counted
    <2>2. R!Total(x) \in Nat /\ x.earned \in Nat /\ x.redeemed \in Nat /\ refunds[i] \in Refunds
        BY <1>2, <2>1, SaleParts DEF MoneyInv
    <2> QED
        BY <2>1, <2>2, FiguresType
<1> HIDE DEF figures, lines
<1>4. ASSUME NEW j \in Clerks PROVE Knows(call[j])'
    <2>1. call'[j] = IF j = k THEN R!Idle ELSE call[j]
        BY <1>1, <1>2 DEF Typed
    <2>2. CASE j = k
        BY <2>1, <2>2, IdleCall DEF Knows, Refunding
    <2>3. CASE j # k
        <3> DEFINE b == sale[call[j].invoice].customer
        <3> SUFFICES ASSUME Refunding(call[j]), b # Guest PROVE call[j].seen[b] = buyer'[b]
            BY <1>1, <2>1, <2>3 DEF Knows, Refunding
        <3>1. /\ call[j].invoice \in Invoices /\ call[j].invoice # i
              /\ call[j].seen[b] = buyer[b]
            BY <1>2, <2>3 DEF FollowInv, MoneyInv, ReturnInv, OneReturnAtOnce, Selecting, Knows
        <3>2. b \in Buyers
            BY <1>2, <3>1, SaleParts DEF R!Invoice
        <3>3. b # x.customer
            BY <1>2, <1>3, <2>3, <3>1 DEF SeparateReturns, Typed
        <3> QED
            BY <1>1, <3>1, <3>2, <3>3
    <2> QED
        BY <2>2, <2>3
<1>5. R!AccountFollowsReturns'
    <2> SUFFICES ASSUME NEW c \in Buyers
                 PROVE  /\ opening[c].spend >= R!Of(c, "refund")' =>
                              buyer'[c].spend = opening[c].spend - R!Of(c, "refund")'
                        /\ buyer'[c].points
                              >= opening[c].points - R!Of(c, "removed")' + R!Of(c, "restored")'
        BY <1>1 DEF R!AccountFollowsReturns
    <2>1. /\ opening[c].spend >= R!Of(c, "refund") =>
                 buyer[c].spend = opening[c].spend - R!Of(c, "refund")
          /\ buyer[c].points >= opening[c].points - R!Of(c, "removed") + R!Of(c, "restored")
        BY DEF FollowInv, R!AccountFollowsReturns
    <2>2. \A f \in {"refund", "removed", "restored"} :
              /\ R!Of(c, f) \in Nat
              /\ R!Of(c, f)' = R!Of(c, f) + (IF x.customer = c THEN figures[f] ELSE 0)
        BY <1>1, <1>2, <1>3, OfChanges
    <2>3. /\ figures.refund \in Nat /\ figures.removed \in Nat /\ figures.restored \in Nat
          /\ opening[c].spend \in Nat /\ opening[c].points \in Nat
          /\ buyer[c].spend \in Nat /\ buyer[c].points \in Nat /\ buyer[c] \in Account
        <3>1. opening[c] \in Account /\ buyer[c] \in Account
            BY DEF FollowInv, MoneyInv
        <3> QED
            BY <1>3, <3>1 DEF Account, Refunds
    <2>4. CASE x.customer # c
        <3>1. buyer'[c] = buyer[c]
            BY <1>1, <2>4
        <3>2. /\ R!Of(c, "refund")' = R!Of(c, "refund") /\ R!Of(c, "removed")' = R!Of(c, "removed")
              /\ R!Of(c, "restored")' = R!Of(c, "restored")
            BY <2>2, <2>4
        <3> QED
            BY <2>1, <3>1, <3>2
    <2>5. CASE x.customer = c
        <3>1. c # Guest /\ then[c] = buyer[c]
            BY <1>2, <2>5, SetsOfReturns DEF R!Parameters, Knows
        <3>2. /\ buyer'[c].spend = R!Positive(buyer[c].spend - figures.refund)
              /\ buyer'[c].points = R!Positive(buyer[c].points - figures.removed) + figures.restored
            BY <1>1, <1>3, <2>3, <2>5, <3>1, SavedFresh
        <3> DEFINE spent == R!Of(c, "refund")
                   taken == R!Of(c, "removed")
                   restored == R!Of(c, "restored")
        <3>3. /\ spent \in Nat /\ taken \in Nat /\ restored \in Nat
              /\ spent' = spent + figures.refund
              /\ taken' = taken + figures.removed
              /\ restored' = restored + figures.restored
            BY <2>2, <2>5
        <3>4. /\ opening[c].spend >= spent => buyer[c].spend = opening[c].spend - spent
              /\ buyer[c].points >= opening[c].points - taken + restored
            BY <2>1
        <3> HIDE DEF spent, taken, restored
        <3>5. /\ opening[c].spend >= spent' => buyer'[c].spend = opening[c].spend - spent'
              /\ buyer'[c].points >= opening[c].points - taken' + restored'
            BY <2>3, <3>2, <3>3, <3>4 DEF R!Positive
        <3> QED
            BY <3>5 DEF spent, taken, restored
    <2> QED
        BY <2>4, <2>5
<1> QED
    BY <1>1, <1>4, <1>5 DEF FollowInv

LEMMA NextFollows ==
    ASSUME R!Parameters, SeparateReturns, FollowInv, [R!Next]_R!vars
    PROVE  FollowInv'
<1>1. MoneyInv /\ MoneyInv' /\ Typed
    BY NextMoney DEF FollowInv, MoneyInv, ReturnInv
\* A request that changes, and still knows the customer's row.
<1>2. ASSUME NEW k \in Clerks, NEW c, call' = [call EXCEPT ![k] = c], Knows(c),
             UNCHANGED <<sale, refunds, buyer, opening>>
      PROVE  FollowInv'
    <2>1. \A j \in Clerks : call'[j] = IF j = k THEN c ELSE call[j]
        BY <1>1, <1>2 DEF Typed
    <2>2. \A j \in Clerks : Knows(call'[j])
        BY <1>2, <2>1 DEF FollowInv
    <2> QED
        BY <1>1, <1>2, <2>2, CallFollows
<1>3. ASSUME NEW k \in Clerks, R!Request(k) PROVE FollowInv'
    <2>1. PICK i \in Invoices, L \in (SUBSET Positions) \ {{}} : \E quantity \in [L -> 1 .. 2] :
             call' = [call EXCEPT ![k] = [pc |-> "asked", invoice |-> i, quantity |-> quantity]]
        BY <1>3 DEF R!Request
    <2>2. PICK quantity \in [L -> 1 .. 2] :
             call' = [call EXCEPT ![k] = [pc |-> "asked", invoice |-> i, quantity |-> quantity]]
        BY <2>1
    <2> DEFINE c == [pc |-> "asked", invoice |-> i, quantity |-> quantity]
    <2>3. Knows(c)
        BY DEF Knows, Refunding
    <2> HIDE DEF c
    <2> QED
        BY <1>2, <1>3, <2>2, <2>3 DEF R!Request, c
<1>4. ASSUME NEW k \in Clerks, R!Refuse(k) \/ R!Fail(k) PROVE FollowInv'
    <2>1. Knows(R!Idle)
        BY IdleCall DEF Knows, Refunding
    <2> QED
        BY <1>2, <1>4, <2>1 DEF R!Refuse, R!Fail, R!Release
<1>5. ASSUME NEW k \in Clerks, R!Lock(k) PROVE FollowInv'
    <2> DEFINE i == call[k].invoice
               lines == R!Selected(sale[i], returned[i], call[k].quantity)
               c == [pc |-> "locked", invoice |-> i, lines |-> lines,
                     figures |-> R!Figures(sale[i], refunds[i], lines), seen |-> buyer]
    <2>1. call' = [call EXCEPT ![k] = c] /\ UNCHANGED <<sale, refunds, buyer, opening>>
        BY <1>5 DEF R!Lock
    <2>2. c.seen = buyer
        OBVIOUS
    <2> HIDE DEF c
    <2>3. Knows(c)
        BY <2>2 DEF Knows
    <2> QED
        BY <1>2, <2>1, <2>3
<1>6. ASSUME NEW k \in Clerks, R!Post(k) PROVE FollowInv'
    <2> DEFINE c == [call[k] EXCEPT !.pc = "posted"]
    <2>1. call' = [call EXCEPT ![k] = c] /\ UNCHANGED <<sale, refunds, buyer, opening>>
            /\ call[k].pc = "locked"
        BY <1>6 DEF R!Post
    <2>2. c.seen = call[k].seen /\ c.invoice = call[k].invoice
        OBVIOUS
    <2>3. Refunding(call[k]) /\ Knows(call[k])
        BY <2>1 DEF FollowInv, Refunding
    <2> HIDE DEF c
    <2>4. Knows(c)
        BY <2>2, <2>3 DEF Knows
    <2> QED
        BY <1>2, <2>1, <2>4
<1>7. ASSUME NEW k \in Clerks, R!Finish(k) PROVE FollowInv'
    BY <1>1, <1>7, FinishFollows
<1>8. CASE UNCHANGED R!vars
    <2>1. UNCHANGED <<sale, refunds, buyer, opening, call>>
        BY <1>8 DEF R!vars
    <2>2. \A k \in Clerks : Knows(call'[k])
        BY <2>1 DEF FollowInv
    <2> QED
        BY <1>1, <2>1, <2>2, CallFollows
<1> QED
    BY <1>3, <1>4, <1>5, <1>6, <1>7, <1>8 DEF R!Next

LEMMA InitFollows == ASSUME R!Parameters, R!Init PROVE FollowInv
<1>1. MoneyInv
    BY InitMoney
<1>2. /\ refunds = [i \in Invoices |-> R!NoReturns] /\ buyer = opening
      /\ opening \in [Buyers -> Openings] /\ \A k \in Clerks : call[k] = R!Idle
    BY DEF R!Init
<1>3. \A k \in Clerks : Knows(call[k])
    BY <1>2, IdleCall DEF Knows, Refunding
<1>4. opening \in [Buyers -> Account]
    BY <1>2, SetsOfReturns DEF R!Parameters, Account
<1>5. ASSUME NEW c, NEW f \in {"refund", "removed", "restored"} PROVE R!Of(c, f) = 0
    <2> DEFINE a == [j \in Invoices |-> IF sale[j].customer = c THEN refunds[j][f] ELSE 0]
    <2>1. \A j \in Invoices : a[j] = 0
        BY <1>2 DEF R!NoReturns
    <2>2. R!Of(c, f) = SumFunctionOnSet(a, Invoices)
        BY SetsOfReturns DEF R!Of, R!SumFunction
    <2>3. IsFiniteSet(Invoices)
        BY SetsOfReturns DEF R!Parameters
    <2> HIDE DEF a
    <2> QED
        BY <2>1, <2>2, <2>3, SumZero
<1>6. R!AccountFollowsReturns
    <2> SUFFICES ASSUME NEW c \in Buyers
                 PROVE  /\ buyer[c].spend = opening[c].spend - R!Of(c, "refund")
                        /\ buyer[c].points >= opening[c].points - R!Of(c, "removed") + R!Of(c, "restored")
        BY DEF R!AccountFollowsReturns
    <2>1. R!Of(c, "refund") = 0 /\ R!Of(c, "removed") = 0 /\ R!Of(c, "restored") = 0
        BY <1>5
    <2>2. buyer[c].spend = opening[c].spend /\ buyer[c].points = opening[c].points
            /\ opening[c].spend \in Nat /\ opening[c].points \in Nat
        BY <1>2, <1>4 DEF Account
    <2> QED
        BY <2>1, <2>2
<1> QED
    BY <1>1, <1>3, <1>4, <1>6 DEF FollowInv

\* A customer's spend falls by exactly what was refunded, and the points by no
\* more than those taken back less those restored, through all returns of all
\* the customer's sales: when these do not overlap, or each has one sale.
THEOREM AccountsFollowReturns ==
    ASSUME R!Parameters, SeparateReturns PROVE R!Spec => []R!AccountFollowsReturns
<1>1. R!Init => FollowInv
    BY InitFollows
<1>2. FollowInv /\ [R!Next]_R!vars => FollowInv'
    BY NextFollows
<1>3. FollowInv => R!AccountFollowsReturns
    BY DEF FollowInv
<1> QED
    BY <1>1, <1>2, <1>3, PTL DEF R!Spec

-----------------------------------------------------------------------------
(* Purchases: the inductive invariant.                                     *)

\* A return is a record of these fields, its amounts are numbers.
Shaped(t) ==
    /\ DOMAIN t = {"pc", "purchase", "wanted", "todo", "locked", "seen"}
    /\ DOMAIN t.wanted \subseteq PurchasePositions
    /\ \A l \in DOMAIN t.wanted : t.wanted[l] \in Int

\* Before its purchase is locked, a return has read and checked nothing.
Fresh(t) ==
    t.pc = "open" => t.seen = None /\ \A l \in DOMAIN t.wanted : l \in t.todo

\* A return that holds the lock of its purchase, and thus of its lines.
Holding(t) == t.pc \in {"locked", "checked"}

\* Its snapshot, fixed after the lock, is what is committed of its lines, and
\* a line that is checked has room for what is wanted of it.
UpToDate(t) ==
    Holding(t) =>
        /\ \A l \in DOMAIN t.wanted : t.seen = None \/ t.seen[l] = sentBack[l]
        /\ \A l \in DOMAIN t.wanted \ t.todo : t.wanted[l] <= Quantity[l] - sentBack[l]
        /\ t.pc = "checked" => t.todo = {}

\* Returns of one purchase exclude each other, and name only its lines.
Exclusive ==
    /\ \A s \in Managers : returning[s].pc # "idle" =>
          \A l \in DOMAIN returning[s].wanted : PurchaseOf[l] = returning[s].purchase
    /\ \A s, t \in Managers :
          s # t /\ Holding(returning[s]) /\ Holding(returning[t]) => returning[s].purchase # returning[t].purchase

PurchaseInv ==
    /\ sentBack \in [PurchasePositions -> Int]
    /\ returning = [s \in Managers |-> returning[s]]
    /\ \A s \in Managers : Shaped(returning[s]) /\ Fresh(returning[s]) /\ UpToDate(returning[s])
    /\ Exclusive
    /\ P!ReturnedWithinPurchased

-----------------------------------------------------------------------------
(* Lemmas.                                                                 *)

LEMMA MinOfTwo ==
    ASSUME NEW x \in Int, NEW y \in Int
    PROVE  P!Min({x, y}) \in Int
<1> DEFINE least == IF x <= y THEN x ELSE y
<1>1. least \in {x, y} /\ \A z \in {x, y} : least <= z
    OBVIOUS
<1>2. \A z \in {x, y} : (\A w \in {x, y} : z <= w) => z = least
    OBVIOUS
<1>3. (CHOOSE z \in {x, y} : \A w \in {x, y} : z <= w) = least
    BY <1>1, <1>2
<1> QED
    BY <1>3 DEF P!Min

LEMMA IdleReturn == Shaped(P!Idle) /\ Fresh(P!Idle) /\ ~Holding(P!Idle) /\ P!Idle.pc = "idle"
<1>1. DOMAIN <<>> = {}
    OBVIOUS
<1> QED
    BY <1>1 DEF Shaped, Fresh, Holding, P!Idle

\* The fields of a return after each of its steps.
LEMMA OpenedReturn ==
    ASSUME NEW p, NEW chosen, NEW w
    PROVE  LET t == [P!Idle EXCEPT !.pc = "open", !.purchase = p, !.todo = chosen, !.wanted = w]
           IN  /\ DOMAIN t = {"pc", "purchase", "wanted", "todo", "locked", "seen"}
               /\ t.pc = "open" /\ t.purchase = p /\ t.wanted = w /\ t.todo = chosen /\ t.seen = None
BY DEF P!Idle

LEMMA LockedReturn ==
    ASSUME NEW r, Shaped(r)
    PROVE  LET t == [r EXCEPT !.pc = "locked"]
           IN  /\ DOMAIN t = DOMAIN r
               /\ t.pc = "locked" /\ t.purchase = r.purchase /\ t.wanted = r.wanted
               /\ t.todo = r.todo /\ t.seen = r.seen
BY DEF Shaped

LEMMA CheckedReturn ==
    ASSUME NEW r, Shaped(r), NEW snapshot, NEW todo, NEW l, NEW pc
    PROVE  LET t == [r EXCEPT !.seen = snapshot, !.todo = todo, !.locked = @ \cup {l}, !.pc = pc]
           IN  /\ DOMAIN t = DOMAIN r
               /\ t.pc = pc /\ t.purchase = r.purchase /\ t.wanted = r.wanted
               /\ t.todo = todo /\ t.seen = snapshot
BY DEF Shaped

\* A session whose return changes, while nothing is committed.
LEMMA PutStep ==
    ASSUME P!Parameters, PurchaseInv, NEW s \in Managers, NEW t, P!Put(s, t),
           Shaped(t), Fresh(t), UpToDate(t),
           t.pc # "idle" => \A l \in DOMAIN t.wanted : PurchaseOf[l] = t.purchase,
           Holding(t) => \A u \in Managers \ {s} :
               Holding(returning[u]) => returning[u].purchase # t.purchase
    PROVE  PurchaseInv'
<1>1. sentBack' = sentBack /\ returning' = [returning EXCEPT ![s] = t]
    BY DEF P!Put
<1>2. \A u \in Managers : returning'[u] = IF u = s THEN t ELSE returning[u]
    BY <1>1 DEF PurchaseInv
<1>3. returning' = [u \in Managers |-> returning'[u]]
    BY <1>1, <1>2 DEF PurchaseInv
<1>4. \A u \in Managers : Shaped(returning'[u]) /\ Fresh(returning'[u]) /\ UpToDate(returning'[u])
    BY <1>2 DEF PurchaseInv
<1>5. (\A u \in Managers : Shaped(returning[u]) /\ Fresh(returning[u]) /\ UpToDate(returning[u]))'
    BY <1>1, <1>4 DEF Shaped, Fresh, UpToDate, Holding
<1>6. Exclusive'
    BY <1>2 DEF Exclusive, PurchaseInv, Holding
<1>7. P!ReturnedWithinPurchased'
    BY <1>1 DEF PurchaseInv, P!ReturnedWithinPurchased
<1> QED
    BY <1>1, <1>3, <1>5, <1>6, <1>7 DEF PurchaseInv

LEMMA AbandonStep ==
    ASSUME P!Parameters, PurchaseInv, NEW s \in Managers, P!Put(s, P!Idle)
    PROVE  PurchaseInv'
<1>1. UpToDate(P!Idle)
    BY IdleReturn DEF UpToDate
<1> QED
    BY <1>1, IdleReturn, PutStep

-----------------------------------------------------------------------------
(* Steps.                                                                  *)

LEMMA InitPurchases == ASSUME P!Parameters, P!Init PROVE PurchaseInv
<1>1. \A s \in Managers : returning[s] = P!Idle
    BY DEF P!Init
<1>2. sentBack \in [PurchasePositions -> Int] /\ P!ReturnedWithinPurchased
    BY DEF P!Init, P!Parameters, P!ReturnedWithinPurchased
<1>3. returning = [s \in Managers |-> returning[s]]
    BY DEF P!Init
<1>4. \A s \in Managers : Shaped(returning[s]) /\ Fresh(returning[s]) /\ UpToDate(returning[s])
    BY <1>1, IdleReturn DEF UpToDate
<1>5. Exclusive
    BY <1>1, IdleReturn DEF Exclusive
<1> QED
    BY <1>2, <1>3, <1>4, <1>5 DEF PurchaseInv

LEMMA OpenStep ==
    ASSUME P!Parameters, PurchaseInv, NEW s \in Managers, P!Open(s)
    PROVE  PurchaseInv'
<1>1. PICK p \in received, chosen \in SUBSET {l \in PurchasePositions : P!Returnable(l) > 0} :
        /\ chosen # {} /\ chosen \subseteq P!LinesOf(p)
        /\ \E n \in 1 .. P!Max({Quantity[l] : l \in chosen}) :
             P!Put(s, [P!Idle EXCEPT !.pc = "open", !.purchase = p, !.todo = chosen,
                                 !.wanted = [l \in chosen |-> P!Min({n, P!Returnable(l)})]])
    BY DEF P!Open
<1>2. PICK n \in 1 .. P!Max({Quantity[l] : l \in chosen}) :
             P!Put(s, [P!Idle EXCEPT !.pc = "open", !.purchase = p, !.todo = chosen,
                                 !.wanted = [l \in chosen |-> P!Min({n, P!Returnable(l)})]])
    BY <1>1
<1> DEFINE w == [l \in chosen |-> P!Min({n, P!Returnable(l)})]
           t == [P!Idle EXCEPT !.pc = "open", !.purchase = p, !.todo = chosen, !.wanted = w]
<1>3. P!Put(s, t)
    BY <1>2
<1>4. \A l \in chosen : w[l] \in Int
    <2>1. n \in Int /\ \A l \in chosen : P!Returnable(l) \in Int
        BY <1>1 DEF P!Returnable, PurchaseInv, P!Parameters
    <2>2. \A l \in chosen : P!Min({n, P!Returnable(l)}) \in Int
        BY <2>1, MinOfTwo
    <2> QED
        BY <2>2
<1>5. DOMAIN w = chosen /\ \A l \in chosen : l \in PurchasePositions /\ PurchaseOf[l] = p
    BY <1>1 DEF P!LinesOf
<1> HIDE DEF w
<1>6. /\ DOMAIN t = {"pc", "purchase", "wanted", "todo", "locked", "seen"}
      /\ t.pc = "open" /\ t.purchase = p /\ t.wanted = w /\ t.todo = chosen /\ t.seen = None
    BY OpenedReturn
<1> HIDE DEF t
<1>7. Shaped(t)
    BY <1>4, <1>5, <1>6 DEF Shaped
<1>8. ~Holding(t) /\ UpToDate(t) /\ Fresh(t)
    BY <1>5, <1>6 DEF Holding, UpToDate, Fresh
<1> QED
    BY <1>3, <1>5, <1>6, <1>7, <1>8, PutStep

LEMMA LockStep ==
    ASSUME P!Parameters, PurchaseInv, NEW s \in Managers, P!LockPurchase(s)
    PROVE  PurchaseInv'
<1> DEFINE t == [returning[s] EXCEPT !.pc = "locked"]
<1>1. Shaped(returning[s]) /\ returning[s].pc = "open" /\ P!Put(s, t)
    BY DEF PurchaseInv, P!LockPurchase
<1>2. returning[s].seen = None /\ \A l \in DOMAIN returning[s].wanted : l \in returning[s].todo
    BY <1>1 DEF PurchaseInv, Fresh
<1>3. /\ DOMAIN t = DOMAIN returning[s] /\ t.pc = "locked"
      /\ t.purchase = returning[s].purchase /\ t.wanted = returning[s].wanted
      /\ t.todo = returning[s].todo /\ t.seen = returning[s].seen
    BY <1>1, LockedReturn
<1> HIDE DEF t
<1>4. Shaped(t)
    BY <1>1, <1>3 DEF Shaped
<1>5. UpToDate(t)
    BY <1>2, <1>3 DEF UpToDate
<1>6. \A l \in DOMAIN t.wanted : PurchaseOf[l] = t.purchase
    BY <1>1, <1>3 DEF PurchaseInv, Exclusive
<1>7. \A u \in Managers \ {s} : Holding(returning[u]) => returning[u].purchase # t.purchase
    BY <1>3 DEF P!LockPurchase, Holding
<1>8. Fresh(t)
    BY <1>3 DEF Fresh
<1> QED
    BY <1>1, <1>4, <1>5, <1>6, <1>7, <1>8, PutStep

LEMMA CheckStep ==
    ASSUME P!Parameters, PurchaseInv, NEW s \in Managers, P!CheckLine(s)
    PROVE  PurchaseInv'
<1>1. returning[s].pc = "locked" /\ Shaped(returning[s]) /\ UpToDate(returning[s])
    BY DEF P!CheckLine, PurchaseInv
<1>2. PICK l \in returning[s].todo :
        LET snapshot == IF returning[s].seen = None THEN sentBack ELSE returning[s].seen
            rest == returning[s].todo \ {l}
        IN  IF returning[s].wanted[l] > Quantity[l] - snapshot[l]
            THEN P!Put(s, P!Idle)
            ELSE P!Put(s, [returning[s] EXCEPT !.seen = snapshot, !.todo = rest, !.locked = @ \cup {l},
                                      !.pc = IF rest = {} THEN "checked" ELSE "locked"])
    BY DEF P!CheckLine
<1> DEFINE snapshot == IF returning[s].seen = None THEN sentBack ELSE returning[s].seen
           rest == returning[s].todo \ {l}
           pc == IF rest = {} THEN "checked" ELSE "locked"
           t == [returning[s] EXCEPT !.seen = snapshot, !.todo = rest, !.locked = @ \cup {l}, !.pc = pc]
<1>3. CASE P!Put(s, P!Idle)
    BY <1>3, AbandonStep
<1>4. CASE ~(returning[s].wanted[l] > Quantity[l] - snapshot[l])
    <2>1. P!Put(s, t)
        BY <1>2, <1>4
    <2>2. \A k \in DOMAIN returning[s].wanted : snapshot[k] = sentBack[k]
        BY <1>1 DEF UpToDate, Holding
    <2>3. l \in DOMAIN returning[s].wanted => returning[s].wanted[l] <= Quantity[l] - sentBack[l]
        <3> SUFFICES ASSUME l \in DOMAIN returning[s].wanted
                     PROVE  returning[s].wanted[l] <= Quantity[l] - sentBack[l]
            OBVIOUS
        <3>1. returning[s].wanted[l] \in Int /\ Quantity[l] \in Int /\ sentBack[l] \in Int
            BY <1>1 DEF Shaped, PurchaseInv, P!Parameters
        <3> QED
            BY <1>4, <2>2, <3>1
    <2>4. pc \in {"locked", "checked"} /\ (pc = "checked" => rest = {})
        OBVIOUS
    <2> HIDE DEF snapshot, pc
    <2>5. /\ DOMAIN t = DOMAIN returning[s] /\ t.pc = pc
          /\ t.purchase = returning[s].purchase /\ t.wanted = returning[s].wanted
          /\ t.todo = rest /\ t.seen = snapshot
        BY <1>1, CheckedReturn
    <2> HIDE DEF t
    <2>6. Shaped(t)
        BY <1>1, <2>5 DEF Shaped
    <2>7. \A k \in DOMAIN t.wanted \ t.todo : t.wanted[k] <= Quantity[k] - sentBack[k]
        BY <1>1, <2>3, <2>5 DEF UpToDate, Holding
    <2>8. UpToDate(t)
        BY <2>2, <2>4, <2>5, <2>7 DEF UpToDate
    <2>9. \A k \in DOMAIN t.wanted : PurchaseOf[k] = t.purchase
        BY <1>1, <2>5 DEF PurchaseInv, Exclusive
    <2>10. \A u \in Managers \ {s} : Holding(returning[u]) => returning[u].purchase # t.purchase
        BY <1>1, <2>5 DEF PurchaseInv, Exclusive, Holding
    <2>11. Fresh(t)
        BY <2>4, <2>5 DEF Fresh
    <2> QED
        BY <2>1, <2>6, <2>8, <2>9, <2>10, <2>11, PutStep
<1> QED
    BY <1>2, <1>3, <1>4

LEMMA CommitStep ==
    ASSUME P!Parameters, PurchaseInv, NEW s \in Managers, P!Commit(s)
    PROVE  PurchaseInv'
<1> DEFINE w == returning[s].wanted
<1>1. /\ returning[s].pc = "checked" /\ returning' = [returning EXCEPT ![s] = P!Idle]
      /\ sentBack' = [l \in PurchasePositions |-> IF l \in DOMAIN w THEN sentBack[l] + w[l] ELSE sentBack[l]]
    BY DEF P!Commit
<1>2. DOMAIN w \subseteq PurchasePositions
      /\ \A l \in DOMAIN w : w[l] \in Int /\ w[l] <= Quantity[l] - sentBack[l]
    BY <1>1 DEF PurchaseInv, Shaped, UpToDate, Holding
<1>3. sentBack' \in [PurchasePositions -> Int] /\ P!ReturnedWithinPurchased'
    BY <1>1, <1>2 DEF PurchaseInv, P!ReturnedWithinPurchased, P!Parameters
<1>4. \A u \in Managers : returning'[u] = IF u = s THEN P!Idle ELSE returning[u]
    BY <1>1 DEF PurchaseInv
<1>5. returning' = [u \in Managers |-> returning'[u]]
    BY <1>1, <1>4 DEF PurchaseInv
<1>6. ASSUME NEW u \in Managers, u # s, Holding(returning[u]), NEW l \in DOMAIN returning[u].wanted
      PROVE  sentBack'[l] = sentBack[l]
    <2>1. returning[u].purchase # returning[s].purchase /\ l \in PurchasePositions
        BY <1>1, <1>6 DEF PurchaseInv, Exclusive, Holding, Shaped
    <2>2. l \notin DOMAIN w
        BY <1>1, <1>6, <2>1 DEF PurchaseInv, Exclusive, Holding
    <2> QED
        BY <1>1, <2>1, <2>2
<1>7. \A u \in Managers : Shaped(returning'[u]) /\ Fresh(returning'[u])
    BY <1>4, IdleReturn DEF PurchaseInv
<1>8. \A u \in Managers : UpToDate(returning[u])'
    <2> SUFFICES ASSUME NEW u \in Managers PROVE UpToDate(returning[u])'
        OBVIOUS
    <2>1. CASE u = s
        BY <1>4, <2>1, IdleReturn DEF UpToDate, Holding
    <2>2. CASE u # s
        <3>1. returning'[u] = returning[u] /\ UpToDate(returning[u])
            BY <1>4, <2>2 DEF PurchaseInv
        <3> QED
            BY <1>6, <2>2, <3>1 DEF UpToDate, Holding
    <2> QED
        BY <2>1, <2>2
<1>9. Exclusive'
    BY <1>4, IdleReturn DEF PurchaseInv, Exclusive, Holding
<1> QED
    BY <1>3, <1>5, <1>7, <1>8, <1>9 DEF PurchaseInv, Shaped, Fresh

\* Every step keeps the invariant.
LEMMA NextPurchases ==
    ASSUME P!Parameters, PurchaseInv, [P!Next]_P!vars
    PROVE  PurchaseInv'
<1>1. ASSUME UNCHANGED <<sentBack, returning>> PROVE PurchaseInv'
    BY <1>1 DEF PurchaseInv, Shaped, Fresh, UpToDate, Holding, Exclusive, P!ReturnedWithinPurchased
<1>2. ASSUME NEW p \in P!Purchases, P!Create(p) PROVE PurchaseInv'
    BY <1>1, <1>2 DEF P!Create
<1>3. CASE P!Sell
    BY <1>1, <1>3 DEF P!Sell
<1>4. CASE UNCHANGED P!vars
    BY <1>1, <1>4 DEF P!vars
<1>5. ASSUME NEW s \in Managers, P!Rollback(s) PROVE PurchaseInv'
    BY <1>5, AbandonStep DEF P!Rollback
<1>6. ASSUME NEW s \in Managers, P!Open(s) \/ P!LockPurchase(s) \/ P!CheckLine(s) \/ P!Commit(s)
      PROVE  PurchaseInv'
    BY <1>6, OpenStep, LockStep, CheckStep, CommitStep
<1> QED
    BY <1>2, <1>3, <1>4, <1>5, <1>6 DEF P!Next

-----------------------------------------------------------------------------
(* Packages.                                                               *)

Amounted(r) == r = [normalPrice |-> r.normalPrice, packagePrice |-> r.packagePrice, savings |-> r.savings]

\* The items of one update: some components, each at one price.
OfOne(I) ==
    \E by : \E cs \in V!Selections, f \in [Components -> Nat] :
        I = {V!Item(c, f[c], by) : c \in cs}

\* A row that adds up with these items.
Adds(r, I) ==
    /\ r.normalPrice = V!NormalPrice(I)
    /\ r.savings = r.normalPrice - r.packagePrice
    /\ r.savings >= 0

UpdateShaped(t) ==
    \/ t = V!NoTx
    \/ /\ DOMAIN t = {"phase", "package", "read", "resolved", "row"}
       /\ t.phase \in {"replace", "save"} /\ t.package \in Packages /\ Amounted(t.row)
       /\ t.phase = "replace" => OfOne(t.resolved) /\ Adds(t.row, t.resolved)

\* A package whose updates never overlapped, and the one at work.
UpdatesApart(p) ==
    /\ \A s, t \in V!InFlight(p) : s = t
    /\ V!InFlight(p) = {} => Adds(package[p], contents[p])
    /\ \A s \in V!InFlight(p) :
         /\ updating[s].read = package[p]
         /\ updating[s].phase = "save" => Adds(updating[s].row, contents[p])

PackageInv ==
    /\ priced \in [Components -> Nat]
    /\ package = [p \in Packages |-> package[p]] /\ contents = [p \in Packages |-> contents[p]]
    /\ updating = [s \in Sessions |-> updating[s]]
    /\ \A p \in Packages : Amounted(package[p]) /\ OfOne(contents[p])
    /\ \A s \in Sessions : UpdateShaped(updating[s])
    /\ \A p \in Packages \ overlapped : UpdatesApart(p)

-----------------------------------------------------------------------------
LEMMA ResolvedOfOne ==
    ASSUME priced \in [Components -> Nat], NEW cs \in V!Selections, NEW by
    PROVE  OfOne(V!Resolved(cs, by))
BY DEF OfOne, V!Resolved

LEMMA NormalIsInt ==
    ASSUME V!Parameters, NEW I, OfOne(I)
    PROVE  V!NormalPrice(I) \in Int
<1>1. PICK by : \E cs \in V!Selections, f \in [Components -> Nat] :
          I = {V!Item(c, f[c], by) : c \in cs}
    BY DEF OfOne
<1>2. PICK cs \in V!Selections, f \in [Components -> Nat] : I = {V!Item(c, f[c], by) : c \in cs}
    BY <1>1
<1>3. IsFiniteSet(cs) /\ cs \subseteq Components
    BY FS_Subset, SetsOfPackages DEF V!Parameters, V!Selections
<1> DEFINE g == [c \in cs |-> V!Item(c, f[c], by)]
           h == [i \in I |-> i.snapshotPrice]
<1>4. g \in Surjection(cs, I)
    BY <1>2 DEF Surjection
<1> HIDE DEF g
<1>5. IsFiniteSet(I)
    BY <1>3, <1>4, FS_Surjection
<1>6. \A i \in I : h[i] \in Int
    BY <1>2, <1>3 DEF V!Item
<1>7. V!NormalPrice(I) = SumFunctionOnSet(h, I)
    BY SetsOfPackages DEF V!NormalPrice, V!SumFunction
<1> HIDE DEF h
<1> QED
    BY <1>5, <1>6, <1>7, SumInt

\* Each component of the items of one update is in them once.
LEMMA OfOneCounts ==
    ASSUME V!Parameters, NEW I, OfOne(I)
    PROVE  /\ Cardinality({i.by : i \in I}) = 1
           /\ Cardinality({i.component : i \in I}) = Cardinality(I)
<1>1. PICK by : \E cs \in V!Selections, f \in [Components -> Nat] :
          I = {V!Item(c, f[c], by) : c \in cs}
    BY DEF OfOne
<1>2. PICK cs \in V!Selections, f \in [Components -> Nat] : I = {V!Item(c, f[c], by) : c \in cs}
    BY <1>1
<1>3. IsFiniteSet(cs) /\ cs # {}
    BY FS_Subset, SetsOfPackages DEF V!Parameters, V!Selections
<1>4. \A i \in I : \E c \in cs : i = V!Item(c, f[c], by) /\ i.by = by /\ i.component = c
    BY <1>2 DEF V!Item
<1>5. \A c \in cs : V!Item(c, f[c], by) \in I /\ V!Item(c, f[c], by).component = c
    BY <1>2 DEF V!Item
<1>6. {i.by : i \in I} = {by}
    BY <1>3, <1>4, <1>5
<1>7. {i.component : i \in I} = cs
    BY <1>4, <1>5
<1> DEFINE g == [c \in cs |-> V!Item(c, f[c], by)]
<1>8. g \in Bijection(cs, I)
    <2>1. g \in [cs -> I] /\ \A c \in cs : g[c].component = c
        BY <1>5
    <2>2. \A i \in I : \E c \in cs : g[c] = i
        BY <1>2
    <2> HIDE DEF g
    <2> QED
        BY <2>1, <2>2 DEF Bijection, Surjection, Injection, IsInjective
<1> HIDE DEF g
<1>9. Cardinality(I) = Cardinality(cs)
    BY <1>3, <1>8, FS_Bijection DEF ExistsBijection
<1> QED
    BY <1>6, <1>7, <1>9, FS_Singleton

LEMMA InitPackages == ASSUME V!Parameters, V!Init PROVE PackageInv
<1>1. priced \in [Components -> Nat]
    <2> SUFFICES ASSUME NEW c \in Components PROVE V!Min(Prices[c]) \in Nat
        BY DEF V!Init
    <2>1. Prices[c] \subseteq Nat /\ Prices[c] # {}
        BY SetsOfPackages DEF V!Parameters
    <2>2. PICK x \in Prices[c] : \A y \in Prices[c] : x <= y
        BY <2>1, LeastNumber
    <2>3. V!Min(Prices[c]) \in Prices[c]
        BY <2>2 DEF V!Min
    <2> QED
        BY <2>1, <2>3
<1>2. \A s \in Sessions : updating[s] = V!NoTx
    BY DEF V!Init
<1>3. \A p \in Packages : V!InFlight(p) = {}
    BY <1>2 DEF V!InFlight, V!NoTx
<1>4. ASSUME NEW p \in Packages PROVE OfOne(contents[p])
    <2>1. PICK cs \in V!Selections : contents[p] = V!Resolved(cs, "created")
        BY DEF V!Init
    <2> QED
        BY <1>1, <2>1, ResolvedOfOne
<1>5. ASSUME NEW p \in Packages PROVE Amounted(package[p]) /\ Adds(package[p], contents[p])
    <2>1. PICK cs \in V!Selections, own \in PackagePrices : package[p] = V!Created(cs, own)
        BY DEF V!Init
    <2> DEFINE n == V!NormalPrice(V!Resolved(cs, "created"))
    <2>2. n \in Int /\ own \in Int
        <3>1. OfOne(V!Resolved(cs, "created"))
            BY <1>1, ResolvedOfOne
        <3>2. own \in Int
            BY SetsOfPackages DEF V!Parameters
        <3> QED
            BY <3>1, <3>2, NormalIsInt
    <2>3. package[p] = [normalPrice |-> n, packagePrice |-> own, savings |-> n - own]
        BY <2>1 DEF V!Created, V!Row
    <2>4. package[p].normalPrice = V!NormalPrice(contents[p]) /\ package[p].packagePrice <= package[p].normalPrice
        BY DEF V!Init
    <2> HIDE DEF n
    <2> QED
        BY <2>2, <2>3, <2>4 DEF Amounted, Adds
<1>6. /\ package = [p \in Packages |-> package[p]] /\ contents = [p \in Packages |-> contents[p]]
      /\ updating = [s \in Sessions |-> updating[s]]
    BY DEF V!Init
<1> QED
    BY <1>1, <1>2, <1>3, <1>4, <1>5, <1>6 DEF PackageInv, UpdateShaped, UpdatesApart

\* An update begins: the only one of its package, or the package overlaps.
LEMMA UpdateBegins ==
    ASSUME V!Parameters, PackageInv, NEW s \in Sessions, NEW p \in Packages, NEW t, V!Begins(s, p, t),
           UpdateShaped(t), t.phase # "idle", t.package = p, t.read = package[p],
           t.phase = "save" => (Adds(package[p], contents[p]) => Adds(t.row, contents[p]))
    PROVE  PackageInv'
<1>1. /\ updating[s] = V!NoTx /\ updating' = [updating EXCEPT ![s] = t] /\ UNCHANGED <<priced, package, contents>>
      /\ overlapped' = overlapped \cup (IF V!InFlight(p) = {} THEN {} ELSE {p})
    BY DEF V!Begins
<1>2. \A u \in Sessions : updating'[u] = IF u = s THEN t ELSE updating[u]
    BY <1>1 DEF PackageInv
<1>3. updating' = [u \in Sessions |-> updating'[u]] /\ \A u \in Sessions : UpdateShaped(updating'[u])
    BY <1>1, <1>2 DEF PackageInv
<1>4. updating[s].phase = "idle"
    BY <1>1 DEF V!NoTx
<1>5. ASSUME NEW q \in Packages \ overlapped' PROVE UpdatesApart(q)'
    <2>1. UpdatesApart(q)
        BY <1>1, <1>5 DEF PackageInv
    <2>2. CASE q # p
        <3>1. V!InFlight(q)' = V!InFlight(q) /\ s \notin V!InFlight(q)
            BY <1>2, <1>4, <2>2 DEF V!InFlight
        <3>2. \A u \in V!InFlight(q) : updating'[u] = updating[u]
            BY <1>2, <3>1 DEF V!InFlight
        <3>3. package' = package /\ contents' = contents
            BY <1>1
        <3> QED
            BY <2>1, <3>1, <3>2, <3>3 DEF UpdatesApart, Adds, V!NormalPrice
    <2>3. CASE q = p
        <3>1. V!InFlight(p) = {}
            BY <1>1, <1>5, <2>3
        <3>2. V!InFlight(p)' = {s}
            BY <1>2, <3>1 DEF V!InFlight
        <3>3. package' = package /\ contents' = contents /\ updating'[s] = t
            BY <1>1, <1>2
        <3>4. Adds(package[p], contents[p])
            BY <2>1, <2>3, <3>1 DEF UpdatesApart
        <3> QED
            BY <2>3, <3>2, <3>3, <3>4 DEF UpdatesApart, Adds, V!NormalPrice
    <2> QED
        BY <2>2, <2>3
<1> QED
    BY <1>1, <1>3, <1>5 DEF PackageInv

LEMMA UpdateOpens ==
    ASSUME V!Parameters, PackageInv, NEW s \in Sessions, V!Update(s)
    PROVE  PackageInv'
<1>1. PICK p \in Packages, cs \in V!Selections, own \in PackagePrices :
        LET resolved == V!Resolved(cs, s)
            normal == V!NormalPrice(resolved)
        IN  /\ own <= normal
            /\ V!Begins(s, p, [phase |-> "replace", package |-> p, read |-> package[p],
                             resolved |-> resolved, row |-> V!Row(normal, own, normal - own)])
    BY DEF V!Update
<1> DEFINE I == V!Resolved(cs, s)
           n == V!NormalPrice(I)
           r == V!Row(n, own, n - own)
           t == [phase |-> "replace", package |-> p, read |-> package[p], resolved |-> I, row |-> r]
<1>2. OfOne(I) /\ n \in Int /\ own \in Int
    BY ResolvedOfOne, NormalIsInt, SetsOfPackages DEF PackageInv, V!Parameters
<1>3. own <= n /\ V!Begins(s, p, t)
    BY <1>1
<1>4. n = V!NormalPrice(I)
    OBVIOUS
<1> HIDE DEF I, n
<1>5. Amounted(r) /\ Adds(r, I)
    BY <1>2, <1>3, <1>4 DEF Amounted, Adds, V!Row
<1> HIDE DEF r
<1>6. /\ DOMAIN t = {"phase", "package", "read", "resolved", "row"} /\ t.phase = "replace"
      /\ t.package = p /\ t.read = package[p] /\ t.resolved = I /\ t.row = r
    OBVIOUS
<1> HIDE DEF t
<1>7. UpdateShaped(t)
    BY <1>2, <1>5, <1>6 DEF UpdateShaped
<1> QED
    BY <1>3, <1>6, <1>7, UpdateBegins

LEMMA ToggleOpens ==
    ASSUME V!Parameters, PackageInv, NEW s \in Sessions, V!Toggle(s)
    PROVE  PackageInv'
<1>1. PICK p \in Packages :
        LET savings == package[p].normalPrice - package[p].packagePrice
        IN  /\ savings >= 0
            /\ V!Begins(s, p, [phase |-> "save", package |-> p, read |-> package[p], resolved |-> {},
                             row |-> V!Row(package[p].normalPrice, package[p].packagePrice, savings)])
    BY DEF V!Toggle
<1> DEFINE n == package[p].normalPrice
           r == V!Row(n, package[p].packagePrice, n - package[p].packagePrice)
           t == [phase |-> "save", package |-> p, read |-> package[p], resolved |-> {}, row |-> r]
<1>2. n - package[p].packagePrice >= 0 /\ V!Begins(s, p, t)
    BY <1>1
<1>3. Amounted(r) /\ (Adds(package[p], contents[p]) => Adds(r, contents[p]))
    BY <1>2 DEF Amounted, Adds, V!Row
<1> HIDE DEF r
<1>4. /\ DOMAIN t = {"phase", "package", "read", "resolved", "row"} /\ t.phase = "save"
      /\ t.package = p /\ t.read = package[p] /\ t.row = r
    OBVIOUS
<1> HIDE DEF t
<1>5. UpdateShaped(t)
    BY <1>3, <1>4 DEF UpdateShaped
<1> QED
    BY <1>2, <1>3, <1>4, <1>5, UpdateBegins

LEMMA ItemsReplaced ==
    ASSUME V!Parameters, PackageInv, NEW s \in Sessions, V!Replace(s)
    PROVE  PackageInv'
<1> DEFINE p == updating[s].package
           t == [updating[s] EXCEPT !.phase = "save"]
<1>1. /\ updating[s].phase = "replace" /\ contents' = [contents EXCEPT ![p] = updating[s].resolved]
      /\ updating' = [updating EXCEPT ![s].phase = "save"] /\ UNCHANGED <<priced, package, overlapped>>
    BY DEF V!Replace, V!Replaced
<1>2. /\ DOMAIN updating[s] = {"phase", "package", "read", "resolved", "row"} /\ p \in Packages
      /\ Amounted(updating[s].row) /\ OfOne(updating[s].resolved) /\ Adds(updating[s].row, updating[s].resolved)
    BY <1>1 DEF PackageInv, UpdateShaped, V!NoTx
<1>3. /\ DOMAIN t = {"phase", "package", "read", "resolved", "row"} /\ t.phase = "save"
      /\ t.package = p /\ t.read = updating[s].read /\ t.row = updating[s].row
    BY <1>2
<1>4. updating' = [updating EXCEPT ![s] = t]
    BY <1>1 DEF PackageInv
<1> HIDE DEF t, p
<1>5. /\ \A u \in Sessions : updating'[u] = IF u = s THEN t ELSE updating[u]
      /\ \A q \in Packages : contents'[q] = IF q = p THEN updating[s].resolved ELSE contents[q]
    BY <1>1, <1>4 DEF PackageInv
<1>6. updating' = [u \in Sessions |-> updating'[u]] /\ contents' = [q \in Packages |-> contents'[q]]
    BY <1>1, <1>4, <1>5 DEF PackageInv
<1>7. \A u \in Sessions : UpdateShaped(updating'[u])
    BY <1>2, <1>3, <1>5 DEF PackageInv, UpdateShaped
<1>8. \A q \in Packages : OfOne(contents'[q])
    BY <1>2, <1>5 DEF PackageInv
<1>9. ASSUME NEW q \in Packages \ overlapped' PROVE UpdatesApart(q)'
    <2>1. UpdatesApart(q)
        BY <1>1, <1>9 DEF PackageInv
    <2>2. V!InFlight(q)' = V!InFlight(q)
        BY <1>1, <1>3, <1>5 DEF V!InFlight, p
    <2>3. CASE q # p
        <3>1. \A u \in V!InFlight(q) : updating'[u] = updating[u]
            BY <1>5, <2>3 DEF V!InFlight, p
        <3>2. package' = package /\ contents'[q] = contents[q]
            BY <1>1, <1>5, <2>3
        <3> QED
            BY <2>1, <2>2, <3>1, <3>2 DEF UpdatesApart, Adds, V!NormalPrice
    <2>4. CASE q = p
        <3>1. s \in V!InFlight(q)
            BY <1>1, <2>4 DEF V!InFlight, p
        <3>2. V!InFlight(q)' = {s} /\ updating[s].read = package[q]
            BY <2>1, <2>2, <3>1 DEF UpdatesApart
        <3>3. package' = package /\ contents'[q] = updating[s].resolved /\ updating'[s] = t
            BY <1>1, <1>5, <2>4
        <3> QED
            BY <1>2, <1>3, <3>2, <3>3 DEF UpdatesApart, Adds, V!NormalPrice
    <2> QED
        BY <2>3, <2>4
<1> QED
    BY <1>1, <1>6, <1>7, <1>8, <1>9 DEF PackageInv

\* What an update writes over the row it read.
LEMMA SavedOverRead ==
    ASSUME NEW base, NEW new, Amounted(new)
    PROVE  V!Saved(base, new, base) = new
<1>1. /\ V!Saved(base, new, base).normalPrice = new.normalPrice
      /\ V!Saved(base, new, base).packagePrice = new.packagePrice
      /\ V!Saved(base, new, base).savings = new.savings
    BY DEF V!Saved
<1>2. V!Saved(base, new, base) = [normalPrice |-> V!Saved(base, new, base).normalPrice,
            packagePrice |-> V!Saved(base, new, base).packagePrice, savings |-> V!Saved(base, new, base).savings]
    BY DEF V!Saved
<1> QED
    BY <1>1, <1>2 DEF Amounted

LEMMA RowSaved ==
    ASSUME V!Parameters, PackageInv, NEW s \in Sessions, V!Save(s)
    PROVE  PackageInv'
<1> DEFINE p == updating[s].package
           r == V!Saved(package[p], updating[s].row, updating[s].read)
<1>1. /\ updating[s].phase = "save" /\ package' = [package EXCEPT ![p] = V!Saved(@, updating[s].row, updating[s].read)]
      /\ updating' = [updating EXCEPT ![s] = V!NoTx] /\ UNCHANGED <<priced, contents, overlapped>>
    BY DEF V!Save
<1>2. p \in Packages /\ Amounted(updating[s].row)
    BY <1>1 DEF PackageInv, UpdateShaped, V!NoTx
<1>3. Amounted(r)
    BY DEF Amounted, V!Saved
<1>4. package' = [package EXCEPT ![p] = r]
    BY <1>1, <1>2 DEF PackageInv
<1>5. p = updating[s].package /\ r = V!Saved(package[p], updating[s].row, updating[s].read)
    OBVIOUS
<1> HIDE DEF r, p
<1>6. /\ \A u \in Sessions : updating'[u] = IF u = s THEN V!NoTx ELSE updating[u]
      /\ \A q \in Packages : package'[q] = IF q = p THEN r ELSE package[q]
    BY <1>1, <1>4 DEF PackageInv
<1>7. updating' = [u \in Sessions |-> updating'[u]] /\ package' = [q \in Packages |-> package'[q]]
    BY <1>1, <1>4, <1>6 DEF PackageInv
<1>8. ASSUME NEW q \in Packages \ overlapped' PROVE UpdatesApart(q)'
    <2>1. UpdatesApart(q)
        BY <1>1, <1>8 DEF PackageInv
    <2>2. V!InFlight(q)' = V!InFlight(q) \ {s}
        BY <1>6 DEF V!InFlight, V!NoTx
    <2>3. \A u \in V!InFlight(q)' : updating'[u] = updating[u]
        BY <1>6, <2>2 DEF V!InFlight
    <2>4. CASE q # p
        <3>1. s \notin V!InFlight(q)
            BY <1>5, <2>4 DEF V!InFlight
        <3>2. package'[q] = package[q] /\ contents' = contents
            BY <1>1, <1>6, <2>4
        <3> QED
            BY <2>1, <2>2, <2>3, <3>1, <3>2 DEF UpdatesApart, Adds, V!NormalPrice
    <2>5. CASE q = p
        <3>1. s \in V!InFlight(q)
            BY <1>1, <1>5, <2>5 DEF V!InFlight
        <3>2. V!InFlight(q)' = {} /\ updating[s].read = package[q] /\ Adds(updating[s].row, contents[q])
            BY <1>1, <2>1, <2>2, <3>1 DEF UpdatesApart
        <3>3. package'[q] = updating[s].row /\ contents' = contents
            BY <1>1, <1>2, <1>5, <1>6, <2>5, <3>2, SavedOverRead
        <3> QED
            BY <3>2, <3>3 DEF UpdatesApart, Adds, V!NormalPrice
    <2> QED
        BY <2>4, <2>5
<1> QED
    BY <1>1, <1>3, <1>6, <1>7, <1>8 DEF PackageInv, UpdateShaped

LEMMA NextPackages ==
    ASSUME V!Parameters, PackageInv, [V!Next]_V!vars
    PROVE  PackageInv'
<1>1. ASSUME UNCHANGED <<package, contents, updating, overlapped>>, priced' \in [Components -> Nat]
      PROVE  PackageInv'
    BY <1>1 DEF PackageInv, UpdatesApart, V!InFlight, UpdateShaped
<1>2. CASE UNCHANGED V!vars
    BY <1>1, <1>2 DEF V!vars, PackageInv
<1>3. CASE V!SetPrice
    <2>. PICK c \in Components : \E amount \in Prices[c] : priced' = [priced EXCEPT ![c] = amount]
        BY <1>3 DEF V!SetPrice
    <2>1. PICK amount \in Prices[c] : priced' = [priced EXCEPT ![c] = amount]
        OBVIOUS
    <2>2. amount \in Nat
        BY SetsOfPackages DEF V!Parameters
    <2> QED
        BY <1>1, <1>3, <2>1, <2>2 DEF V!SetPrice, PackageInv
<1>4. ASSUME NEW s \in Sessions, V!Update(s) \/ V!Toggle(s) \/ V!Replace(s) \/ V!Save(s) PROVE PackageInv'
    BY <1>4, UpdateOpens, ToggleOpens, ItemsReplaced, RowSaved
<1> QED
    BY <1>2, <1>3, <1>4 DEF V!Next

LEMMA PackagesAddUp == ASSUME V!Parameters, PackageInv PROVE V!ItemsOfOneUpdate /\ V!PackageAddsUp
BY OfOneCounts, SetsOfPackages DEF PackageInv, UpdatesApart, Adds, V!ItemsOfOneUpdate, V!PackageAddsUp

-----------------------------------------------------------------------------
(* People.                                                                 *)

Rows == Users \cup Employees
Columns(id) ==
    IF id \in Employees THEN {"salary", "status", "photo"}
                        ELSE {"role", "active", "name", "password"}
EditFields == {"phase", "id", "change", "entity", "read"}

\* A client's request names a user; an edit assigns columns of a row.
RequestShaped(c) ==
    editing[c] # <<>> =>
        /\ editing[c][1].phase = "signing" => editing[c][1].user \in Users
        /\ editing[c][1].phase = "verified" => editing[c][1].id \in Users
        /\ editing[c][1].phase \in Y!Editing =>
              /\ DOMAIN editing[c][1] = EditFields
              /\ editing[c][1].id \in Rows
              /\ DOMAIN editing[c][1].change \subseteq Columns(editing[c][1].id)

\* Of a row whose edits never met, the one at work has seen the row as it is.
EditsApart(id) ==
    /\ person[id] = said[id]
    /\ \A c, d \in Y!EditsOf(id) : c = d
    /\ \A c \in Y!EditsOf(id) :
          /\ editing[c][1].entity = Y!Entity(person[id], editing[c][1].change)
          /\ editing[c][1].phase = "selected" => editing[c][1].read = person[id]

EditInv ==
    /\ person = [id \in Rows |-> person[id]] /\ said = [id \in Rows |-> said[id]]
    /\ token = [c \in Clients |-> token[c]] /\ editing = [c \in Clients |-> editing[c]]
    /\ \A id \in Rows : person[id] = [f \in Columns(id) |-> person[id][f]]
    /\ \A c \in Clients : RequestShaped(c) /\ (token[c] # <<>> => token[c][1].user \in Users)
    /\ \A id \in Rows \ mingled : EditsApart(id)

LEMMA InitEdits == ASSUME Y!Parameters, Y!Init PROVE EditInv
<1>1. \A id \in Rows : person[id] = [f \in Columns(id) |-> person[id][f]]
    BY DEF Y!Init, Rows, Columns, Y!User, Y!Employee
<1>2. \A c \in Clients : editing[c] = <<>> /\ token[c] = <<>>
    BY DEF Y!Init
<1>3. \A id \in Rows : Y!EditsOf(id) = {}
    BY <1>2 DEF Y!EditsOf
<1>4. person = [id \in Rows |-> person[id]] /\ said = person
    BY DEF Y!Init, Rows
<1> QED
    BY <1>1, <1>2, <1>3, <1>4 DEF Y!Init, EditInv, RequestShaped, EditsApart

\* A request that edits row id.
Edits(q, id) == q # <<>> /\ q[1].phase \in Y!Editing /\ q[1].id = id

\* A client whose request changes, while nothing is written.
LEMMA RequestStep ==
    ASSUME EditInv, NEW c \in Clients, NEW q, editing' = [editing EXCEPT ![c] = q],
           UNCHANGED <<person, said>>, mingled \subseteq mingled',
           token' = [k \in Clients |-> token'[k]],
           \A k \in Clients : token'[k] # <<>> => token'[k][1].user \in Users,
           RequestShaped(c)',
           \A id \in Rows \ mingled' : Edits(q, id) \/ Edits(editing[c], id) => EditsApart(id)'
    PROVE  EditInv'
<1>1. \A k \in Clients : editing'[k] = IF k = c THEN q ELSE editing[k]
    BY DEF EditInv
<1>2. editing' = [k \in Clients |-> editing'[k]]
    BY <1>1 DEF EditInv
<1>3. \A k \in Clients : RequestShaped(k)'
    BY <1>1 DEF EditInv, RequestShaped
<1>4. ASSUME NEW id \in Rows \ mingled' PROVE EditsApart(id)'
    <2>1. CASE Edits(q, id) \/ Edits(editing[c], id)
        BY <1>4, <2>1
    <2>2. CASE ~Edits(q, id) /\ ~Edits(editing[c], id)
        <3>1. Y!EditsOf(id)' = Y!EditsOf(id)
            BY <1>1, <2>2 DEF Y!EditsOf, Edits
        <3>2. c \notin Y!EditsOf(id)
            BY <2>2 DEF Y!EditsOf, Edits
        <3>3. \A k \in Y!EditsOf(id) : editing'[k] = editing[k]
            BY <1>1, <3>2 DEF Y!EditsOf
        <3>4. person' = person /\ said' = said /\ EditsApart(id)
            BY <1>4 DEF EditInv
        <3> QED
            BY <3>1, <3>3, <3>4 DEF EditsApart, Y!Entity
    <2> QED
        BY <2>1, <2>2
<1> QED
    BY <1>2, <1>3, <1>4 DEF EditInv

\* The session part: signing in, signing, verifying a password.
LEMMA QuietStep ==
    ASSUME EditInv, NEW c \in Clients, NEW q, editing' = [editing EXCEPT ![c] = q],
           UNCHANGED <<person, said, mingled>>, token' = [k \in Clients |-> token'[k]],
           \A k \in Clients : token'[k] # <<>> => token'[k][1].user \in Users,
           q = <<>> \/ (q[1].phase \notin Y!Editing /\ RequestShaped(c)'),
           editing[c] = <<>> \/ editing[c][1].phase \notin Y!Editing
    PROVE  EditInv'
<1>1. editing'[c] = q
    BY DEF EditInv
<1>2. RequestShaped(c)'
    BY <1>1 DEF RequestShaped
<1> QED
    BY <1>2, RequestStep DEF Edits

LEMMA SessionStep ==
    ASSUME EditInv, NEW c \in Clients, Y!Login(c) \/ Y!Sign(c) \/ Y!Logout(c) \/ Y!ChangePassword(c)
    PROVE  EditInv'
<1>1. CASE Y!Login(c)
    <2>1. PICK u \in Users : Y!Waits(c, [phase |-> "signing", user |-> u, role |-> person[u].role])
        BY <1>1 DEF Y!Login
    <2> DEFINE r == [phase |-> "signing", user |-> u, role |-> person[u].role]
    <2>2. editing' = [editing EXCEPT ![c] = <<r>>] /\ UNCHANGED <<person, token, said, mingled>> /\ editing[c] = <<>>
        BY <1>1, <2>1 DEF Y!Login, Y!Waits, Y!Idle
    <2>3. r.phase = "signing" /\ r.user \in Users /\ <<r>>[1] = r
        OBVIOUS
    <2> HIDE DEF r
    <2>4. editing'[c] = <<r>>
        BY <2>2 DEF EditInv
    <2>5. RequestShaped(c)' /\ r.phase \notin Y!Editing
        BY <2>3, <2>4 DEF RequestShaped, Y!Editing
    <2> QED
        BY <2>2, <2>3, <2>5, QuietStep DEF EditInv
<1>2. CASE Y!Sign(c)
    <2> DEFINE t == [user |-> editing[c][1].user, role |-> editing[c][1].role]
    <2>1. /\ editing' = [editing EXCEPT ![c] = <<>>] /\ UNCHANGED <<person, said, mingled>>
          /\ token' = [token EXCEPT ![c] = <<t>>]
          /\ editing[c] # <<>> /\ editing[c][1].phase = "signing"
        BY <1>2 DEF Y!Sign, Y!Ends, Y!At
    <2>2. t.user \in Users /\ <<t>>[1] = t
        BY <2>1 DEF EditInv, RequestShaped
    <2> HIDE DEF t
    <2>3. \A k \in Clients : token'[k] = IF k = c THEN <<t>> ELSE token[k]
        BY <2>1 DEF EditInv
    <2>4. token' = [k \in Clients |-> token'[k]]
        BY <2>1, <2>3 DEF EditInv
    <2> QED
        BY <2>1, <2>2, <2>3, <2>4, QuietStep DEF EditInv, Y!Editing
<1>3. CASE Y!Logout(c)
    <2>1. UNCHANGED <<person, editing, said, mingled>> /\ token' = [token EXCEPT ![c] = <<>>]
        BY <1>3 DEF Y!Logout
    <2>2. \A k \in Clients : token'[k] = IF k = c THEN <<>> ELSE token[k]
        BY <2>1 DEF EditInv
    <2>3. token' = [k \in Clients |-> token'[k]]
        BY <2>1, <2>2 DEF EditInv
    <2> QED
        BY <2>1, <2>2, <2>3 DEF EditInv, RequestShaped, EditsApart, Y!EditsOf
<1>4. CASE Y!ChangePassword(c)
    <2>1. PICK new \in Passwords :
            Y!Waits(c, [phase |-> "verified", id |-> token[c][1].user, password |-> new])
        BY <1>4 DEF Y!ChangePassword
    <2> DEFINE r == [phase |-> "verified", id |-> token[c][1].user, password |-> new]
    <2>2. /\ editing' = [editing EXCEPT ![c] = <<r>>] /\ UNCHANGED <<person, token, said, mingled>>
          /\ editing[c] = <<>> /\ token[c] # <<>>
        BY <1>4, <2>1 DEF Y!ChangePassword, Y!Waits, Y!Idle
    <2>3. r.phase = "verified" /\ r.id \in Users /\ <<r>>[1] = r
        BY <2>2 DEF EditInv
    <2> HIDE DEF r
    <2>4. editing'[c] = <<r>>
        BY <2>2 DEF EditInv
    <2>5. RequestShaped(c)' /\ r.phase \notin Y!Editing
        BY <2>3, <2>4 DEF RequestShaped, Y!Editing
    <2> QED
        BY <2>2, <2>3, <2>5, QuietStep DEF EditInv
<1> QED
    BY <1>1, <1>2, <1>3, <1>4

\* An edit begins: the only one of its row, or the row's edits mingle.
LEMMA EditBegins ==
    ASSUME EditInv, NEW c \in Clients, NEW id \in Rows, NEW change,
           DOMAIN change \subseteq Columns(id), Y!Begins(c, id, change),
           editing[c] = <<>> \/ editing[c][1].phase \notin Y!Editing
    PROVE  EditInv'
<1> DEFINE r == [phase |-> "found", id |-> id, change |-> change,
                 entity |-> Y!Entity(person[id], change), read |-> person[id]]
<1>1. /\ editing' = [editing EXCEPT ![c] = <<r>>] /\ UNCHANGED <<person, token, said>>
      /\ mingled' = mingled \cup (IF Y!EditsOf(id) = {} THEN {} ELSE {id})
    BY DEF Y!Begins, Y!Waits
<1>2. /\ r.phase = "found" /\ r.id = id /\ r.change = change /\ r.entity = Y!Entity(person[id], change)
      /\ DOMAIN r = EditFields /\ <<r>>[1] = r /\ <<r>> # <<>>
    BY DEF EditFields
<1> HIDE DEF r
<1>3. \A k \in Clients : editing'[k] = IF k = c THEN <<r>> ELSE editing[k]
    BY <1>1 DEF EditInv
<1>4. RequestShaped(c)'
    BY <1>2, <1>3 DEF RequestShaped, Y!Editing
<1>5. id \notin mingled' => EditsApart(id)'
    <2> SUFFICES ASSUME id \notin mingled' PROVE EditsApart(id)'
        OBVIOUS
    <2>1. Y!EditsOf(id) = {} /\ id \notin mingled
        BY <1>1
    <2>2. \A k \in Y!EditsOf(id)' : k = c
        BY <1>3, <2>1 DEF Y!EditsOf
    <2>3. editing'[c][1] = r /\ person' = person /\ said' = said
        BY <1>1, <1>2, <1>3
    <2>4. person[id] = said[id]
        BY <2>1 DEF EditInv, EditsApart
    <2> QED
        BY <1>2, <2>2, <2>3, <2>4 DEF EditsApart, Y!Entity
<1>6. \A x \in Rows : Edits(<<r>>, x) \/ Edits(editing[c], x) => x = id
    BY <1>2 DEF Edits
<1> QED
    BY <1>1, <1>4, <1>5, <1>6, RequestStep DEF EditInv

LEMMA EditOpens ==
    ASSUME Y!Parameters, EditInv, NEW c \in Clients,
           Y!UpdateUser(c) \/ Y!ResetPassword(c) \/ Y!SetPassword(c) \/ Y!EditEmployee(c)
    PROVE  EditInv'
<1>1. CASE Y!UpdateUser(c)
    <2>1. PICK u \in Users, change \in Y!UserChanges : Y!Begins(c, u, change)
        BY <1>1 DEF Y!UpdateUser
    <2>2. DOMAIN change \subseteq {"name", "role", "active"}
        BY DEF Y!UserChanges
    <2>3. u \in Rows /\ DOMAIN change \subseteq Columns(u) /\ editing[c] = <<>>
        BY <1>1, <2>2 DEF Rows, Columns, Y!Parameters, Y!UpdateUser, Y!Idle
    <2> QED
        BY <2>1, <2>3, EditBegins
<1>2. CASE Y!ResetPassword(c)
    <2>1. PICK u \in Users, password \in Passwords : Y!Begins(c, u, [password |-> password])
        BY <1>2 DEF Y!ResetPassword
    <2>2. u \in Rows /\ DOMAIN [password |-> password] \subseteq Columns(u) /\ editing[c] = <<>>
        BY <1>2 DEF Rows, Columns, Y!Parameters, Y!ResetPassword, Y!Idle
    <2> QED
        BY <2>1, <2>2, EditBegins
<1>3. CASE Y!SetPassword(c)
    <2> DEFINE u == editing[c][1].id
               change == [password |-> editing[c][1].password]
    <2>1. editing[c] # <<>> /\ editing[c][1].phase = "verified" /\ Y!Begins(c, u, change)
        BY <1>3 DEF Y!SetPassword, Y!At
    <2>2. u \in Rows /\ DOMAIN change \subseteq Columns(u)
        BY <2>1 DEF EditInv, RequestShaped, Rows, Columns, Y!Parameters
    <2>3. editing[c][1].phase \notin Y!Editing
        BY <2>1 DEF Y!Editing
    <2> HIDE DEF u, change
    <2> QED
        BY <2>1, <2>2, <2>3, EditBegins
<1>4. CASE Y!EditEmployee(c)
    <2>1. PICK e \in Employees, change \in Y!EmployeeChanges : Y!Begins(c, e, change)
        BY <1>4 DEF Y!EditEmployee
    <2>2. DOMAIN change \subseteq {"salary", "status", "photo"}
        BY DEF Y!EmployeeChanges
    <2>3. e \in Rows /\ DOMAIN change \subseteq Columns(e) /\ editing[c] = <<>>
        BY <1>4, <2>2 DEF Rows, Columns, Y!EditEmployee, Y!Idle
    <2> QED
        BY <2>1, <2>3, EditBegins
<1> QED
    BY <1>1, <1>2, <1>3, <1>4

LEMMA RowSelected ==
    ASSUME EditInv, NEW c \in Clients, Y!Select(c)
    PROVE  EditInv'
<1> DEFINE id == editing[c][1].id
           r == [editing[c][1] EXCEPT !.phase = "selected", !.read = person[id]]
<1>1. /\ editing[c] # <<>> /\ editing[c][1].phase = "found"
      /\ editing' = [editing EXCEPT ![c] = <<r>>] /\ UNCHANGED <<person, token, said, mingled>>
    BY DEF Y!Select, Y!At, Y!Waits
<1>2. /\ DOMAIN editing[c][1] = EditFields /\ id \in Rows
      /\ DOMAIN editing[c][1].change \subseteq Columns(id) /\ editing[c][1].phase \in Y!Editing
    BY <1>1 DEF EditInv, RequestShaped, Y!Editing
<1>3. /\ DOMAIN r = EditFields /\ r.phase = "selected" /\ r.id = id /\ r.read = person[id]
      /\ r.change = editing[c][1].change /\ r.entity = editing[c][1].entity
      /\ <<r>>[1] = r /\ <<r>> # <<>>
    BY <1>2 DEF EditFields
<1> HIDE DEF r
<1>4. \A k \in Clients : editing'[k] = IF k = c THEN <<r>> ELSE editing[k]
    BY <1>1 DEF EditInv
<1>5. RequestShaped(c)'
    BY <1>2, <1>3, <1>4 DEF RequestShaped, Y!Editing
<1>6. ASSUME NEW x \in Rows \ mingled', Edits(<<r>>, x) \/ Edits(editing[c], x) PROVE EditsApart(x)'
    <2>1. x = id /\ EditsApart(id) /\ person' = person /\ said' = said
        BY <1>1, <1>3, <1>6 DEF Edits, EditInv
    <2>2. Y!EditsOf(x)' = Y!EditsOf(x) /\ c \in Y!EditsOf(x)
        BY <1>1, <1>2, <1>3, <1>4, <2>1 DEF Y!EditsOf, Y!Editing
    <2>3. /\ editing[c][1].entity = Y!Entity(person[x], editing[c][1].change)
          /\ \A k \in Y!EditsOf(x) : k = c
          /\ person[x] = said[x]
        BY <2>1, <2>2 DEF EditsApart
    <2>4. editing'[c][1] = r
        BY <1>3, <1>4
    <2> HIDE DEF id
    <2> QED
        BY <1>3, <2>1, <2>2, <2>3, <2>4 DEF EditsApart, Y!Entity
<1> HIDE DEF id
<1> QED
    BY <1>1, <1>5, <1>6, RequestStep DEF EditInv

\* What an edit writes over a row it has seen as it is.
LEMMA SavedColumns ==
    ASSUME NEW base, NEW change
    PROVE  Y!Saved(base, Y!Entity(base, change), base) = Y!Assigned(base, change)
BY DEF Y!Saved, Y!Entity, Y!Assigned

LEMMA RowWritten ==
    ASSUME EditInv, NEW c \in Clients, Y!Write(c)
    PROVE  EditInv'
<1> DEFINE edit == editing[c][1]
           id == edit.id
<1>1. /\ editing[c] # <<>> /\ edit.phase = "selected"
      /\ person' = [person EXCEPT ![id] = Y!Saved(@, edit.entity, edit.read)]
      /\ said' = [said EXCEPT ![id] = Y!Assigned(@, edit.change)]
      /\ editing' = [editing EXCEPT ![c] = <<>>] /\ UNCHANGED <<token, mingled>>
    BY DEF Y!Write, Y!At, Y!Ends
<1>2. id \in Rows /\ c \in Y!EditsOf(id)
    BY <1>1 DEF EditInv, RequestShaped, Y!Editing, Y!EditsOf
<1> HIDE DEF edit, id
<1>3. /\ \A k \in Clients : editing'[k] = IF k = c THEN <<>> ELSE editing[k]
      /\ \A x \in Rows : /\ person'[x] = IF x = id THEN Y!Saved(person[x], edit.entity, edit.read) ELSE person[x]
                         /\ said'[x] = IF x = id THEN Y!Assigned(said[x], edit.change) ELSE said[x]
    BY <1>1, <1>2 DEF EditInv
<1>4. /\ editing' = [k \in Clients |-> editing'[k]] /\ token' = [k \in Clients |-> token'[k]]
      /\ person' = [x \in Rows |-> person'[x]] /\ said' = [x \in Rows |-> said'[x]]
    BY <1>1, <1>3 DEF EditInv
<1>5. ASSUME NEW x \in Rows PROVE person'[x] = [f \in Columns(x) |-> person'[x][f]]
    <2>1. person[x] = [f \in Columns(x) |-> person[x][f]]
        BY DEF EditInv
    <2>2. DOMAIN person[x] = Columns(x)
        BY <2>1
    <2> QED
        BY <1>3, <2>1, <2>2 DEF Y!Saved
<1>6. \A k \in Clients : RequestShaped(k)' /\ (token'[k] # <<>> => token'[k][1].user \in Users)
    BY <1>1, <1>3 DEF EditInv, RequestShaped
<1>7. ASSUME NEW x \in Rows \ mingled' PROVE EditsApart(x)'
    <2>1. EditsApart(x)
        BY <1>1, <1>7 DEF EditInv
    <2>2. CASE x = id
        <3>1. \A k \in Y!EditsOf(x) : k = c
            BY <1>2, <2>1, <2>2 DEF EditsApart
        <3>2. Y!EditsOf(x)' = {}
            BY <1>3, <3>1 DEF Y!EditsOf
        <3>3. edit.entity = Y!Entity(person[x], edit.change) /\ edit.read = person[x] /\ person[x] = said[x]
            BY <1>1, <1>2, <2>1, <2>2 DEF EditsApart, edit
        <3>4. person'[x] = said'[x]
            BY <1>3, <2>2, <3>3, SavedColumns
        <3> QED
            BY <3>2, <3>4 DEF EditsApart
    <2>3. CASE x # id
        <3>1. Y!EditsOf(x)' = Y!EditsOf(x) /\ c \notin Y!EditsOf(x)
            BY <1>3, <2>3 DEF Y!EditsOf, edit, id
        <3>2. \A k \in Y!EditsOf(x) : editing'[k] = editing[k]
            BY <1>3, <3>1 DEF Y!EditsOf
        <3>3. person'[x] = person[x] /\ said'[x] = said[x]
            BY <1>3, <2>3
        <3> QED
            BY <2>1, <3>1, <3>2, <3>3 DEF EditsApart, Y!Entity, Y!Assigned
    <2> QED
        BY <2>2, <2>3
<1> QED
    BY <1>4, <1>5, <1>6, <1>7 DEF EditInv

LEMMA NextEdits ==
    ASSUME Y!Parameters, EditInv, [Y!Next]_Y!vars
    PROVE  EditInv'
<1>1. CASE UNCHANGED Y!vars
    BY <1>1 DEF Y!vars, EditInv, RequestShaped, EditsApart, Y!EditsOf
<1>2. ASSUME NEW c \in Clients, Y!Login(c) \/ Y!Sign(c) \/ Y!Logout(c) \/ Y!ChangePassword(c)
      PROVE  EditInv'
    BY <1>2, SessionStep
<1>3. ASSUME NEW c \in Clients,
             Y!UpdateUser(c) \/ Y!ResetPassword(c) \/ Y!SetPassword(c) \/ Y!EditEmployee(c)
      PROVE  EditInv'
    BY <1>3, EditOpens
<1>4. ASSUME NEW c \in Clients, Y!Select(c) \/ Y!Write(c) PROVE EditInv'
    BY <1>4, RowSelected, RowWritten
<1> QED
    BY <1>1, <1>2, <1>3, <1>4 DEF Y!Next

LEMMA EditsAreKept == ASSUME EditInv PROVE Y!EditsKept
BY DEF EditInv, Y!EditsKept, EditsApart

-----------------------------------------------------------------------------
(* An administrator remains.                                               *)

IsAdmin(r) == r.active /\ r.role = "ADMIN"

\* In good order one edit is at work at a time, and one that leaves an
\* administrator who may log in, too.
OrderInv ==
    /\ EditInv
    /\ orderly =>
         /\ mingled = {}
         /\ \A c, d \in Clients : \A x, y \in Rows : Edits(editing[c], x) /\ Edits(editing[d], y) => c = d
         /\ \E u \in Users : IsAdmin(person[u])
         /\ \A c \in Clients : \A x \in Rows : Edits(editing[c], x) =>
               \E u \in Users :
                  IsAdmin(IF u = x THEN Y!Assigned(person[u], editing[c][1].change) ELSE person[u])

LEMMA InitOrder == ASSUME Y!Parameters, Y!Init PROVE OrderInv
<1>1. EditInv
    BY InitEdits
<1>2. \A c \in Clients, x \in Rows : ~Edits(editing[c], x)
    BY DEF Y!Init, Edits
<1>3. PICK admins \in (SUBSET Users) \ {{}} :
         person = [id \in Users \cup Employees |->
                   IF id \in Employees THEN Y!Employee
                   ELSE Y!User(IF id \in admins THEN "ADMIN" ELSE "STAFF",
                             CHOOSE password \in Passwords : TRUE)]
    BY DEF Y!Init
<1>4. PICK u \in admins : u \in Users /\ u \notin Employees
    BY <1>3 DEF Y!Parameters
<1>5. IsAdmin(person[u])
    BY <1>3, <1>4 DEF IsAdmin, Y!User
<1>6. mingled = {}
    BY DEF Y!Init
<1> QED
    BY <1>1, <1>2, <1>4, <1>5, <1>6 DEF OrderInv

\* Steps that begin and write no edit.
LEMMA SameOrder ==
    ASSUME OrderInv, EditInv', UNCHANGED <<person, mingled, orderly>>, NEW c \in Clients,
           \A k \in Clients \ {c} : editing'[k] = editing[k],
           \A x \in Rows : Edits(editing[c], x)' =>
               Edits(editing[c], x) /\ editing'[c][1].change = editing[c][1].change
    PROVE  OrderInv'
<1> SUFFICES ASSUME orderly
             PROVE  /\ \A k, d \in Clients : \A x, y \in Rows :
                          Edits(editing[k], x)' /\ Edits(editing[d], y)' => k = d
                    /\ \A k \in Clients : \A x \in Rows : Edits(editing[k], x)' =>
                          \E u \in Users :
                             IsAdmin(IF u = x THEN Y!Assigned(person[u], editing'[k][1].change) ELSE person[u])
    BY DEF OrderInv, IsAdmin, Y!Assigned
<1>1. \A k \in Clients, x \in Rows : Edits(editing[k], x)' =>
         Edits(editing[k], x) /\ editing'[k][1].change = editing[k][1].change
    BY DEF Edits
<1> QED
    BY <1>1 DEF OrderInv

\* An edit that begins in good order meets no other, and an administrator who
\* may log in is left by it.
LEMMA BeginOrder ==
    ASSUME OrderInv, EditInv', NEW c \in Clients, NEW id \in Rows, NEW change,
           Y!Begins(c, id, change),
           Y!UpToDate(c) /\ orderly =>
               \E u \in Users : IsAdmin(IF u = id THEN Y!Assigned(person[u], change) ELSE person[u])
    PROVE  OrderInv'
<1> DEFINE r == [phase |-> "found", id |-> id, change |-> change,
                 entity |-> Y!Entity(person[id], change), read |-> person[id]]
<1>1. /\ editing' = [editing EXCEPT ![c] = <<r>>] /\ UNCHANGED person
      /\ mingled' = mingled \cup (IF Y!EditsOf(id) = {} THEN {} ELSE {id})
      /\ orderly' = (orderly /\ ~Y!AnyEdit /\ Y!UpToDate(c))
    BY DEF Y!Begins, Y!Waits
<1>2. r.phase = "found" /\ r.id = id /\ r.change = change /\ <<r>>[1] = r /\ <<r>> # <<>>
    OBVIOUS
<1> HIDE DEF r
<1> SUFFICES ASSUME orderly, ~Y!AnyEdit, Y!UpToDate(c), orderly'
             PROVE  OrderInv'
    BY <1>1 DEF OrderInv
<1>3. \A k \in Clients : editing'[k] = IF k = c THEN <<r>> ELSE editing[k]
    BY <1>1 DEF OrderInv, EditInv
<1>4. \A x \in Rows : Y!EditsOf(x) = {}
    BY DEF Y!AnyEdit, Rows
<1>5. \A k \in Clients, x \in Rows : ~Edits(editing[k], x)
    BY <1>4 DEF Edits, Y!EditsOf
<1>6. \A k \in Clients, x \in Rows : Edits(editing[k], x)' => k = c /\ x = id
    BY <1>2, <1>3, <1>5 DEF Edits
<1>7. mingled' = {}
    BY <1>1, <1>4 DEF OrderInv
<1>8. \E u \in Users : IsAdmin(person[u])'
    BY <1>1 DEF OrderInv, IsAdmin
<1>9. editing'[c][1].change = change
    BY <1>2, <1>3
<1>10. PICK u \in Users : IsAdmin(IF u = id THEN Y!Assigned(person[u], change) ELSE person[u])
    OBVIOUS
<1>11. ASSUME NEW k \in Clients, NEW x \in Rows, Edits(editing[k], x)'
       PROVE  IsAdmin(IF u = x THEN Y!Assigned(person[u], editing[k][1].change) ELSE person[u])'
    BY <1>1, <1>6, <1>9, <1>10, <1>11 DEF IsAdmin, Y!Assigned
<1> QED
    BY <1>6, <1>7, <1>8, <1>11 DEF OrderInv

LEMMA OpenOrder ==
    ASSUME Y!Parameters, OrderInv, EditInv', NEW c \in Clients,
           Y!UpdateUser(c) \/ Y!ResetPassword(c) \/ Y!SetPassword(c) \/ Y!EditEmployee(c)
    PROVE  OrderInv'
<1>1. EditInv /\ \A u \in Users : DOMAIN person[u] = {"role", "active", "name", "password"}
    <2>1. \A u \in Users : u \in Rows /\ Columns(u) = {"role", "active", "name", "password"}
        BY DEF Y!Parameters, Rows, Columns
    <2>2. \A u \in Rows : DOMAIN person[u] = Columns(u)
        BY DEF OrderInv, EditInv
    <2> QED
        BY <2>1, <2>2 DEF OrderInv
\* A change of neither role nor active leaves all administrators.
<1>2. ASSUME NEW id \in Rows, NEW change, DOMAIN change \cap {"role", "active"} = {} \/ id \notin Users,
             Y!Begins(c, id, change)
      PROVE  OrderInv'
    <2>1. \A u \in Users : u = id => Y!Assigned(person[u], change).role = person[u].role
                                     /\ Y!Assigned(person[u], change).active = person[u].active
        BY <1>1, <1>2 DEF Y!Assigned
    <2>2. orderly => \E u \in Users : IsAdmin(person[u])
        BY DEF OrderInv
    <2>3. orderly =>
            \E u \in Users : IsAdmin(IF u = id THEN Y!Assigned(person[u], change) ELSE person[u])
        BY <2>1, <2>2 DEF IsAdmin
    <2> QED
        BY <1>2, <2>3, BeginOrder
<1>3. CASE Y!UpdateUser(c)
    <2>1. PICK id \in Users, change \in Y!UserChanges :
            Y!OwnRightsKept(c, id, change) /\ Y!Begins(c, id, change)
        BY <1>3 DEF Y!UpdateUser
    <2> DEFINE v == token[c][1].user
    <2>2. v \in Users /\ token[c][1].role = "ADMIN"
        BY <1>1, <1>3 DEF EditInv, Y!UpdateUser, Y!Admin
    <2>3. ASSUME Y!UpToDate(c)
          PROVE  IsAdmin(IF v = id THEN Y!Assigned(person[v], change) ELSE person[v])
        <3>1. IsAdmin(person[v])
            BY <2>2, <2>3 DEF Y!UpToDate, IsAdmin
        <3>2. ASSUME v = id PROVE IsAdmin(Y!Assigned(person[v], change))
            <4>1. change # [active |-> FALSE] /\ "role" \notin DOMAIN change
                BY <2>1, <3>2 DEF Y!OwnRightsKept, Y!Self
            <4>2. change \in [active : BOOLEAN]
                BY <4>1 DEF Y!UserChanges
            <4>3. change.active = TRUE /\ DOMAIN change = {"active"}
                BY <4>1, <4>2
            <4> QED
                BY <1>1, <2>2, <3>1, <4>3 DEF IsAdmin, Y!Assigned
        <3> QED
            BY <3>1, <3>2
    <2>4. id \in Rows
        BY DEF Rows
    <2> HIDE DEF v
    <2> QED
        BY <2>1, <2>2, <2>3, <2>4, BeginOrder
<1>4. CASE Y!ResetPassword(c)
    <2>1. PICK u \in Users, password \in Passwords : Y!Begins(c, u, [password |-> password])
        BY <1>4 DEF Y!ResetPassword
    <2>2. u \in Rows /\ DOMAIN [password |-> password] \cap {"role", "active"} = {}
        BY DEF Rows
    <2> QED
        BY <1>2, <2>1, <2>2
<1>5. CASE Y!SetPassword(c)
    <2> DEFINE u == editing[c][1].id
               change == [password |-> editing[c][1].password]
    <2>1. editing[c] # <<>> /\ editing[c][1].phase = "verified" /\ Y!Begins(c, u, change)
        BY <1>5 DEF Y!SetPassword, Y!At
    <2>2. u \in Rows /\ DOMAIN change \cap {"role", "active"} = {}
        BY <1>1, <2>1 DEF EditInv, RequestShaped, Rows
    <2> HIDE DEF u, change
    <2> QED
        BY <1>2, <2>1, <2>2
<1>6. CASE Y!EditEmployee(c)
    BY <1>2, <1>6 DEF Y!EditEmployee, Rows, Y!Parameters
<1> QED
    BY <1>3, <1>4, <1>5, <1>6

LEMMA WriteOrder ==
    ASSUME OrderInv, EditInv', NEW c \in Clients, Y!Write(c)
    PROVE  OrderInv'
<1> DEFINE edit == editing[c][1]
           id == edit.id
<1>1. /\ editing[c] # <<>> /\ edit.phase = "selected"
      /\ person' = [person EXCEPT ![id] = Y!Saved(@, edit.entity, edit.read)]
      /\ editing' = [editing EXCEPT ![c] = <<>>] /\ UNCHANGED <<mingled, orderly>>
    BY DEF Y!Write, Y!At, Y!Ends
<1>2. id \in Rows /\ c \in Y!EditsOf(id) /\ Edits(editing[c], id)
    BY <1>1 DEF OrderInv, EditInv, RequestShaped, Y!Editing, Y!EditsOf, Edits
<1> SUFFICES ASSUME orderly PROVE OrderInv'
    BY <1>1 DEF OrderInv
<1>3. mingled = {} /\ \A d \in Clients : \A y \in Rows : Edits(editing[d], y) => d = c
    BY <1>2 DEF OrderInv
<1>4. edit.entity = Y!Entity(person[id], edit.change) /\ edit.read = person[id]
    <2> HIDE DEF id
    <2>1. EditsApart(id)
        BY <1>2, <1>3 DEF OrderInv, EditInv
    <2> QED
        BY <1>1, <1>2, <2>1 DEF EditsApart
<1>5. person'[id] = Y!Assigned(person[id], edit.change) /\ \A x \in Rows \ {id} : person'[x] = person[x]
    <2>1. person = [x \in Rows |-> person[x]]
        BY DEF OrderInv, EditInv
    <2>2. Y!Saved(person[id], edit.entity, edit.read) = Y!Assigned(person[id], edit.change)
        BY <1>4, SavedColumns
    <2>3. person' = [person EXCEPT ![id] = Y!Saved(person[id], edit.entity, edit.read)]
        BY <1>1
    <2> HIDE DEF id, edit
    <2>4. person' = [person EXCEPT ![id] = Y!Assigned(person[id], edit.change)]
        BY <2>2, <2>3
    <2> QED
        BY <1>2, <2>1, <2>4
<1>6. PICK u \in Users : IsAdmin(IF u = id THEN Y!Assigned(person[u], edit.change) ELSE person[u])
    BY <1>2 DEF OrderInv
<1>7. IsAdmin(person[u])'
    BY <1>5, <1>6 DEF IsAdmin, Rows
<1>8. \A k \in Clients, x \in Rows : ~Edits(editing[k], x)'
    BY <1>1, <1>3 DEF Edits, OrderInv, EditInv
<1> QED
    BY <1>1, <1>3, <1>7, <1>8 DEF OrderInv

LEMMA NextOrder ==
    ASSUME Y!Parameters, OrderInv, [Y!Next]_Y!vars
    PROVE  OrderInv'
<1>1. EditInv /\ EditInv'
    BY NextEdits DEF OrderInv
<1>2. CASE UNCHANGED Y!vars
    BY <1>1, <1>2 DEF Y!vars, OrderInv, Edits, IsAdmin, Y!Assigned
<1>3. ASSUME NEW c \in Clients, Y!Login(c) \/ Y!Sign(c) \/ Y!Logout(c) \/ Y!ChangePassword(c)
      PROVE  OrderInv'
    <2>1. UNCHANGED <<person, mingled, orderly>>
        BY <1>3 DEF Y!Login, Y!Sign, Y!Logout, Y!ChangePassword
    <2>2. \A k \in Clients \ {c} : editing'[k] = editing[k]
        BY <1>1, <1>3 DEF Y!Login, Y!Sign, Y!Logout, Y!ChangePassword, Y!Waits, Y!Ends, EditInv
    <2>3. editing'[c] = editing[c] \/ editing'[c] = <<>>
             \/ (editing'[c] # <<>> /\ editing'[c][1].phase \in {"signing", "verified"})
        BY <1>1, <1>3 DEF Y!Login, Y!Sign, Y!Logout, Y!ChangePassword, Y!Waits, Y!Ends, EditInv
    <2>4. \A x \in Rows : Edits(editing[c], x)' => Edits(editing[c], x) /\ editing'[c][1].change = editing[c][1].change
        BY <2>3 DEF Edits, Y!Editing
    <2> QED
        BY <1>1, <2>1, <2>2, <2>4, SameOrder
<1>4. ASSUME NEW c \in Clients,
             Y!UpdateUser(c) \/ Y!ResetPassword(c) \/ Y!SetPassword(c) \/ Y!EditEmployee(c)
      PROVE  OrderInv'
    BY <1>1, <1>4, OpenOrder
<1>5. ASSUME NEW c \in Clients, Y!Select(c) PROVE OrderInv'
    <2> DEFINE r == [editing[c][1] EXCEPT !.phase = "selected", !.read = person[editing[c][1].id]]
    <2>1. /\ editing[c] # <<>> /\ editing[c][1].phase = "found"
          /\ editing' = [editing EXCEPT ![c] = <<r>>] /\ UNCHANGED <<person, mingled, orderly>>
        BY <1>5 DEF Y!Select, Y!At, Y!Waits
    <2>2. DOMAIN editing[c][1] = EditFields /\ editing[c][1].phase \in Y!Editing
        BY <1>1, <2>1 DEF EditInv, RequestShaped, Y!Editing
    <2>3. r.id = editing[c][1].id /\ r.change = editing[c][1].change /\ <<r>>[1] = r
        BY <2>2 DEF EditFields
    <2> HIDE DEF r
    <2>4. \A k \in Clients : editing'[k] = IF k = c THEN <<r>> ELSE editing[k]
        BY <1>1, <2>1 DEF EditInv
    <2>5. \A x \in Rows : Edits(editing[c], x)' => Edits(editing[c], x) /\ editing'[c][1].change = editing[c][1].change
        BY <2>1, <2>2, <2>3, <2>4 DEF Edits
    <2> QED
        BY <1>1, <2>1, <2>4, <2>5, SameOrder
<1>6. ASSUME NEW c \in Clients, Y!Write(c) PROVE OrderInv'
    BY <1>1, <1>6, WriteOrder
<1> QED
    BY <1>2, <1>3, <1>4, <1>5, <1>6 DEF Y!Next

LEMMA OrderKept == ASSUME OrderInv PROVE Y!EditsKept /\ Y!AdminRemains
BY EditsAreKept DEF OrderInv, Y!AdminRemains, IsAdmin

-----------------------------------------------------------------------------
(* Trusted time: the status.                                               *)

\* What keeps a status from allowing payroll, and does not pass by itself.
Refusing ==
    \/ flagged
    \/ trusted = None
    \/ Q!Monotonic - trusted.monotonic >= Grace

\* The part of the types the argument needs.
TimeInv ==
    /\ real \in Int /\ slept \in Int /\ offset \in Int
    /\ flagged \in BOOLEAN
    /\ trusted \in {None} \cup [utc : Int, monotonic : Int]

\* The inductive invariant: a refusal has left a reason that lasts.
RefusalInv ==
    /\ TimeInv
    /\ seen = "REFUSED" => Refusing

LEMMA MaxOfTwo ==
    ASSUME NEW x \in Int
    PROVE  Q!Max({0, x}) = IF x > 0 THEN x ELSE 0
<1> DEFINE Two == {0, x}
           big == IF x > 0 THEN x ELSE 0
<1>1. big \in Two /\ \A y \in Two : big >= y
    OBVIOUS
<1>2. \A z \in Two : (\A y \in Two : z >= y) => z = big
    OBVIOUS
<1>3. (CHOOSE z \in Two : \A y \in Two : z >= y) = big
    BY <1>1, <1>2
<1> QED
    BY <1>3 DEF Q!Max

LEMMA RefusingRefuses ==
    ASSUME Q!Parameters, TimeInv, Refusing
    PROVE  Q!State \notin Q!Allowing
<1>1. CASE Q!SkewDetected
    BY <1>1 DEF Q!State, Q!Allowing
<1>2. CASE ~Q!SkewDetected /\ trusted = None
    BY <1>2 DEF Q!State, Q!Allowing
<1>3. CASE ~Q!SkewDetected /\ trusted # None
    <2>1. trusted.monotonic \in Int /\ Q!Monotonic \in Int
        BY <1>3 DEF TimeInv, Q!Monotonic
    <2>2. Q!Monotonic - trusted.monotonic >= Grace
        BY <1>3 DEF Q!SkewDetected, Refusing
    <2>3. Q!OfflineDuration >= Grace /\ Q!OfflineDuration \in Int
        BY <2>1, <2>2, MaxOfTwo DEF Q!OfflineDuration, Q!Parameters
    <2>4. Grace - Q!OfflineDuration \in Int /\ ~(Grace - Q!OfflineDuration > 0)
        BY <2>3 DEF Q!Parameters
    <2>5. Q!Max({0, Grace - Q!OfflineDuration}) = 0
        BY <2>4, MaxOfTwo
    <2> QED
        BY <1>3, <2>5 DEF Q!State, Q!Allowing
<1> QED
    BY <1>1, <1>2, <1>3

LEMMA RefusedHasReason ==
    ASSUME Q!Parameters, TimeInv, Q!State \notin Q!Allowing, ~Q!SkewDetected
    PROVE  Refusing
<1>1. CASE trusted = None
    BY <1>1 DEF Refusing
<1>2. CASE trusted # None
    <2>1. trusted.monotonic \in Int /\ Q!Monotonic \in Int
        BY <1>2 DEF TimeInv, Q!Monotonic
    <2>2. Q!OfflineDuration \in Nat
        /\ (Q!OfflineDuration > 0 => Q!OfflineDuration = Q!Monotonic - trusted.monotonic)
        BY <2>1, MaxOfTwo DEF Q!OfflineDuration
    <2> DEFINE remaining == Q!Max({0, Grace - Q!OfflineDuration})
    <2>3. remaining = 0
        BY <1>2 DEF Q!State, Q!Allowing
    <2>4. Q!OfflineDuration >= Grace
        BY <2>2, <2>3, MaxOfTwo DEF Q!Parameters
    <2> QED
        BY <2>2, <2>4 DEF Refusing, Q!Parameters
<1> QED
    BY <1>1, <1>2

-----------------------------------------------------------------------------
(* Steps.                                                                  *)

LEMMA InitRefused == ASSUME Q!Parameters, Q!Init PROVE RefusalInv
<1>1. real \in Int /\ slept \in Int /\ offset \in Int
    BY DEF Q!Init, Q!Parameters
<1>2. flagged \in BOOLEAN /\ trusted = None
    BY DEF Q!Init
<1> QED
    BY <1>1, <1>2 DEF RefusalInv, TimeInv, Refusing

\* A reader of the status, which changes neither clocks nor the last answer.
LEMMA StatusRead ==
    ASSUME Q!Parameters, RefusalInv, Q!GetStatus, UNCHANGED <<Q!clockVars, trusted>>
    PROVE  RefusalInv' /\ Q!StaysRefused
<1>1. TimeInv'
    BY DEF Q!GetStatus, Q!SkewDetected, RefusalInv, TimeInv, Q!clockVars
<1>2. ASSUME seen' = "REFUSED" PROVE Refusing'
    <2>1. Q!State \notin Q!Allowing
        BY <1>2 DEF Q!GetStatus
    <2>2. CASE Q!SkewDetected
        BY <2>2 DEF Q!GetStatus, Refusing
    <2>3. CASE ~Q!SkewDetected
        <3>1. Refusing
            BY <2>1, <2>3, RefusedHasReason DEF RefusalInv
        <3> QED
            BY <3>1, <2>3 DEF Refusing, Q!SkewDetected, Q!Monotonic, Q!clockVars
    <2> QED
        BY <2>2, <2>3
<1>3. ASSUME seen = "REFUSED" PROVE seen' # "ALLOWED"
    BY <1>3, RefusingRefuses DEF RefusalInv, Q!GetStatus
<1> QED
    BY <1>1, <1>2, <1>3 DEF RefusalInv, Q!StaysRefused

\* A step that reads no status and leaves the last answer and its flag.
LEMMA ClockOnly ==
    ASSUME RefusalInv, UNCHANGED <<trusted, flagged, seen>>,
           real' \in Int, slept' \in Int, offset' \in Int,
           Q!Monotonic' >= Q!Monotonic, Q!Parameters
    PROVE  RefusalInv' /\ Q!StaysRefused
<1>1. TimeInv'
    BY DEF RefusalInv, TimeInv
<1>2. ASSUME Refusing PROVE Refusing'
    <2>1. CASE flagged \/ trusted = None
        BY <2>1 DEF Refusing
    <2>2. CASE trusted # None /\ Q!Monotonic - trusted.monotonic >= Grace
        <3>1. trusted.monotonic \in Int
            BY <2>2 DEF RefusalInv, TimeInv
        <3>2. Q!Monotonic \in Int /\ Q!Monotonic' \in Int
            BY DEF RefusalInv, TimeInv, Q!Monotonic
        <3>3. Q!Monotonic' - trusted.monotonic >= Grace
            BY <2>2, <3>1, <3>2 DEF Q!Parameters
        <3> QED
            BY <3>3 DEF Refusing
    <2> QED
        BY <1>2, <2>1, <2>2 DEF Refusing
<1>3. Q!StaysRefused
    BY DEF Q!StaysRefused
<1> QED
    BY <1>1, <1>2, <1>3 DEF RefusalInv

LEMMA SourceAnswers ==
    ASSUME Q!Parameters, RefusalInv, Q!Answer
    PROVE  RefusalInv' /\ Q!StaysRefused
BY DEF Q!Answer, RefusalInv, TimeInv, Q!Monotonic, Q!Wall, Q!StaysRefused, Q!clockVars

LEMMA ServerStarts ==
    ASSUME Q!Parameters, RefusalInv, Q!Start
    PROVE  RefusalInv' /\ Q!StaysRefused
BY DEF Q!Start, RefusalInv, TimeInv, Refusing, Q!StaysRefused, Q!clockVars

\* Every step keeps the invariant, and none goes from refused to allowed.
LEMMA NextRefused ==
    ASSUME Q!Parameters, RefusalInv, [Q!Next]_Q!vars
    PROVE  RefusalInv' /\ Q!StaysRefused
<1> USE DEF RefusalInv, TimeInv
<1> DEFINE Quiet == UNCHANGED <<trusted, flagged, seen, real, slept>> /\ offset' \in Int
<1>1. CASE Q!ReadStatus
    BY <1>1, StatusRead DEF Q!ReadStatus
<1>2. CASE Q!ScheduledCheck
    BY <1>2, StatusRead DEF Q!ScheduledCheck
<1>3. CASE Q!ManagePeriods
    BY <1>3, StatusRead DEF Q!ManagePeriods
<1>4. CASE Q!Answer
    BY <1>4, SourceAnswers
<1>5. CASE Q!Start
    BY <1>5, ServerStarts
<1>6. CASE Q!Tick
    BY <1>6, ClockOnly DEF Q!Tick, Q!trustVars, Q!Monotonic
<1>7. CASE Q!Sleep
    BY <1>7, ClockOnly DEF Q!Sleep, Q!trustVars, Q!Monotonic
<1>8. ASSUME Quiet PROVE RefusalInv' /\ Q!StaysRefused
    BY <1>8, ClockOnly DEF Q!Monotonic
<1>9. CASE Q!Ask \/ Q!NoAnswer
    BY <1>8, <1>9 DEF Q!Ask, Q!NoAnswer, Q!clockVars
<1>10. CASE Q!Ensure \/ Q!EnsureFails
    BY <1>8, <1>10 DEF Q!Ensure, Q!EnsureFails, Q!clockVars, Q!trustVars
<1>11. CASE Q!SetClock \/ Q!Stop
    BY <1>8, <1>11 DEF Q!SetClock, Q!Stop, Q!clockVars, Q!trustVars, Q!Parameters
<1>12. CASE UNCHANGED Q!vars
    BY <1>8, <1>12 DEF Q!vars, Q!clockVars, Q!trustVars
<1> QED
    BY <1>1, <1>2, <1>3, <1>4, <1>5, <1>6, <1>7, <1>9, <1>10, <1>11, <1>12 DEF Q!Next

-----------------------------------------------------------------------------
(* Trusted time: the catch-up.                                             *)

\* Trusted time is not ahead of real time, and does not go back.
ClockInv ==
    /\ real \in Nat /\ slept \in Int
    /\ trusted # None =>
           /\ trusted.utc \in Nat /\ trusted.monotonic \in Int
           /\ trusted.monotonic <= Q!Monotonic
           /\ trusted.utc - trusted.monotonic <= slept

\* The job has seen to every month from its start to its cursor.
JobInv ==
    /\ periods \subseteq Nat
    /\ caughtUp \in BOOLEAN
    /\ work # None =>
           /\ DOMAIN work = {"from", "cursor", "month", "catching"}
           /\ work.from \in Nat /\ work.cursor \in Nat /\ work.month \in Nat
           /\ work.month <= Q!Month(real)
           /\ work.catching =>
                  \A m \in Nat : work.from <= m /\ m < work.cursor => m \in periods \cup removed

CatchUpInv == ClockInv /\ JobInv

LEMMA MonthGrows ==
    ASSUME Q!Parameters, NEW a \in Nat, NEW b \in Nat, a <= b
    PROVE  Q!Month(a) \in Nat /\ Q!Month(a) <= Q!Month(b)
<1>1. a \div MonthLength \in Int /\ b \div MonthLength \in Int
    BY DEF Q!Parameters
<1>2. a \div MonthLength <= b \div MonthLength
    BY DEF Q!Parameters
<1>3. 0 \div MonthLength <= a \div MonthLength /\ 0 \div MonthLength = 0
    BY DEF Q!Parameters
<1> QED
    BY <1>1, <1>2, <1>3 DEF Q!Month

LEMMA MonthOfTrusted ==
    ASSUME Q!Parameters, ClockInv, trusted # None
    PROVE  /\ Q!Month(Q!TrustedUtcNow) \in Nat
           /\ Q!Month(Q!TrustedUtcNow) <= Q!Month(real)
<1>1. Q!TrustedUtcNow \in Nat /\ Q!TrustedUtcNow <= real
    BY DEF ClockInv, Q!TrustedUtcNow, Q!Monotonic
<1>2. real \in Nat
    BY DEF ClockInv
<1> QED
    BY <1>1, <1>2, MonthGrows

LEMMA StartIsAMonth ==
    ASSUME JobInv, NEW month \in Nat
    PROVE  Q!StartingPeriod(month) \in Nat
<1> DEFINE Starts == {month} \cup {m \in periods : m <= month}
<1>1. Starts \subseteq Nat /\ Starts # {}
    BY DEF JobInv
<1> HIDE DEF Starts
<1>2. PICK x \in Starts : \A y \in Starts : x <= y
    BY <1>1, LeastNumber
<1>3. (CHOOSE z \in Starts : \A y \in Starts : z <= y) \in Starts
    BY <1>2
<1> QED
    BY <1>1, <1>3 DEF Q!StartingPeriod, Q!Min, Starts

LEMMA InitCatchUp == ASSUME Q!Parameters, Q!Init PROVE CatchUpInv
<1>1. ClockInv
    BY DEF Q!Init, ClockInv
<1>2. periods \subseteq Nat
    BY DEF Q!Init
<1>3. caughtUp \in BOOLEAN /\ work = None
    BY DEF Q!Init
<1> QED
    BY <1>1, <1>2, <1>3 DEF CatchUpInv, JobInv

\* A step of the clocks or of the service that leaves the job alone.
LEMMA TimePasses ==
    ASSUME Q!Parameters, CatchUpInv, UNCHANGED Q!periodVars,
           real' \in Nat, slept' \in Int, real <= real', slept <= slept',
           Q!Monotonic <= Q!Monotonic', UNCHANGED trusted
    PROVE  CatchUpInv' /\ Q!NoGapAfter
<1>1. ClockInv'
    <2>1. Q!Monotonic \in Int /\ Q!Monotonic' \in Int /\ slept \in Int
        BY DEF CatchUpInv, ClockInv, Q!Monotonic
    <2>2. ASSUME trusted # None
          PROVE  trusted.monotonic <= Q!Monotonic' /\ trusted.utc - trusted.monotonic <= slept'
        BY <2>1, <2>2 DEF CatchUpInv, ClockInv
    <2> QED
        BY <2>2 DEF CatchUpInv, ClockInv
<1>2. real \in Nat
    BY DEF CatchUpInv, ClockInv
<1>3. Q!Month(real) <= Q!Month(real') /\ Q!Month(real) \in Nat /\ Q!Month(real') \in Nat
    BY <1>2, MonthGrows
<1>4. Q!Month(real)' = Q!Month(real')
    BY DEF Q!Month
<1>5. JobInv'
    BY <1>3, <1>4 DEF CatchUpInv, JobInv, Q!periodVars
<1>6. Q!NoGapAfter
    BY DEF Q!NoGapAfter, Q!periodVars
<1> QED
    BY <1>1, <1>5, <1>6 DEF CatchUpInv

LEMMA CheckScheduled ==
    ASSUME Q!Parameters, CatchUpInv, Q!ScheduledCheck
    PROVE  CatchUpInv' /\ Q!NoGapAfter
<1>1. UNCHANGED <<Q!clockVars, trusted, periods, removed, caughtUp>>
    BY DEF Q!ScheduledCheck
<1>2. trusted # None
    BY DEF Q!ScheduledCheck, Q!State, Q!Allowing
<1> DEFINE month == Q!Month(Q!TrustedUtcNow)
<1>3. month \in Nat /\ month <= Q!Month(real)
    BY <1>2, MonthOfTrusted DEF CatchUpInv
<1> HIDE DEF month
<1>4. PICK from \in Nat, catching \in BOOLEAN : work' = Q!Work(from, month, catching)
    BY <1>3, StartIsAMonth DEF Q!ScheduledCheck, CatchUpInv, month
<1>5. /\ DOMAIN work' = {"from", "cursor", "month", "catching"}
      /\ work'.from = from /\ work'.cursor = from /\ work'.month = month
    BY <1>4 DEF Q!Work
<1>6. \A m \in Nat : ~(from <= m /\ m < from)
    OBVIOUS
<1>7. Q!Month(real)' = Q!Month(real)
    BY <1>1 DEF Q!Month, Q!clockVars
<1>8. JobInv'
    BY <1>1, <1>3, <1>5, <1>6, <1>7 DEF CatchUpInv, JobInv
<1>9. ClockInv'
    BY <1>1 DEF CatchUpInv, ClockInv, Q!Monotonic, Q!clockVars
<1> QED
    BY <1>1, <1>8, <1>9 DEF CatchUpInv, Q!NoGapAfter

\* The month at the cursor has its period, and the catch-up is complete only
\* when the cursor has reached the last one.
LEMMA PeriodEnsured ==
    ASSUME Q!Parameters, CatchUpInv, Q!Ensure
    PROVE  CatchUpInv' /\ Q!NoGapAfter
<1>1. /\ work # None /\ periods' = periods \cup {work.cursor}
      /\ caughtUp' = (caughtUp \/ (work.catching /\ work.cursor = work.month))
      /\ UNCHANGED <<Q!clockVars, trusted, removed>>
    BY DEF Q!Ensure, Q!trustVars
<1>2. /\ DOMAIN work = {"from", "cursor", "month", "catching"}
      /\ work.from \in Nat /\ work.cursor \in Nat /\ work.month \in Nat
      /\ work.month <= Q!Month(real) /\ periods \subseteq Nat
    BY <1>1 DEF CatchUpInv, JobInv
<1>3. Q!Month(real)' = Q!Month(real) /\ ClockInv'
    BY <1>1 DEF Q!Month, CatchUpInv, ClockInv, Q!Monotonic, Q!clockVars
<1>4. ASSUME work.catching, NEW m \in Nat, work.from <= m, m <= work.cursor
      PROVE  m \in periods' \cup removed'
    BY <1>1, <1>2, <1>4 DEF CatchUpInv, JobInv
<1>5. Q!NoGapAfter
    <2> SUFFICES ASSUME ~caughtUp, caughtUp', NEW m \in work.from .. work.month
                 PROVE  m \in periods' \cup removed
        BY DEF Q!NoGapAfter
    <2>1. work.catching /\ work.cursor = work.month
        BY <1>1
    <2>2. m \in Nat /\ work.from <= m /\ m <= work.cursor
        BY <1>2, <2>1
    <2> QED
        BY <1>1, <1>4, <2>1, <2>2
<1>6. periods' \subseteq Nat
    BY <1>1, <1>2
<1>7. caughtUp' \in BOOLEAN
    BY <1>1 DEF CatchUpInv, JobInv
<1>8. CASE work' = None
    BY <1>3, <1>5, <1>6, <1>7, <1>8 DEF CatchUpInv, JobInv
<1>9. CASE work' = [work EXCEPT !.catching = FALSE]
    <2>1. /\ DOMAIN work' = DOMAIN work /\ work'.from = work.from /\ work'.cursor = work.cursor
          /\ work'.month = work.month /\ work'.catching = FALSE
        BY <1>2, <1>9
    <2>2. JobInv'
        BY <1>2, <1>3, <1>6, <1>7, <2>1 DEF JobInv
    <2> QED
        BY <1>3, <1>5, <2>2 DEF CatchUpInv
<1>10. CASE work.catching /\ work' = [work EXCEPT !.cursor = @ + 1]
    <2>1. /\ DOMAIN work' = DOMAIN work /\ work'.from = work.from /\ work'.cursor = work.cursor + 1
          /\ work'.month = work.month /\ work'.catching = work.catching
        BY <1>2, <1>10
    <2>2. \A m \in Nat : work'.from <= m /\ m < work'.cursor => m \in periods' \cup removed'
        BY <1>2, <1>4, <1>10, <2>1
    <2>3. JobInv'
        BY <1>2, <1>3, <1>6, <1>7, <2>1, <2>2 DEF JobInv
    <2> QED
        BY <1>3, <1>5, <2>3 DEF CatchUpInv
<1>11. \/ work' = None
       \/ work' = [work EXCEPT !.catching = FALSE]
       \/ work.catching /\ work' = [work EXCEPT !.cursor = @ + 1]
    <2>1. CASE ~work.catching
        BY <2>1 DEF Q!Ensure
    <2>2. CASE work.catching /\ work.cursor = work.month
        BY <2>2 DEF Q!Ensure
    <2>3. CASE work.catching /\ work.cursor # work.month
        BY <2>3 DEF Q!Ensure
    <2> QED
        BY <2>1, <2>2, <2>3
<1> QED
    BY <1>8, <1>9, <1>10, <1>11

LEMMA PeriodFails ==
    ASSUME Q!Parameters, CatchUpInv, Q!EnsureFails
    PROVE  CatchUpInv' /\ Q!NoGapAfter
<1>1. work # None /\ UNCHANGED <<Q!clockVars, trusted, periods, removed, caughtUp>>
    BY DEF Q!EnsureFails, Q!trustVars
<1>2. /\ DOMAIN work = {"from", "cursor", "month", "catching"}
      /\ work.from \in Nat /\ work.cursor \in Nat /\ work.month \in Nat
      /\ work.month <= Q!Month(real)
    BY <1>1 DEF CatchUpInv, JobInv
<1>3. Q!Month(real)' = Q!Month(real) /\ ClockInv' /\ Q!NoGapAfter
    BY <1>1 DEF Q!Month, CatchUpInv, ClockInv, Q!Monotonic, Q!clockVars, Q!NoGapAfter
<1>4. CASE work' = None
    BY <1>1, <1>3, <1>4 DEF CatchUpInv, JobInv
<1>5. CASE work' = [work EXCEPT !.catching = FALSE, !.cursor = work.month]
    <2>1. /\ DOMAIN work' = DOMAIN work /\ work'.from = work.from /\ work'.cursor = work.month
          /\ work'.month = work.month /\ work'.catching = FALSE
        BY <1>2, <1>5
    <2>2. JobInv'
        BY <1>1, <1>2, <1>3, <2>1 DEF CatchUpInv, JobInv
    <2> QED
        BY <1>3, <2>2 DEF CatchUpInv
<1> QED
    BY <1>4, <1>5 DEF Q!EnsureFails

\* A period deleted counts as removed.
LEMMA PeriodsManaged ==
    ASSUME Q!Parameters, CatchUpInv, Q!ManagePeriods
    PROVE  CatchUpInv' /\ Q!NoGapAfter
<1>1. UNCHANGED <<Q!clockVars, trusted, caughtUp, work>>
    BY DEF Q!ManagePeriods
<1>2. PICK m \in Q!Months :
          \/ periods' = periods \cup {m} /\ UNCHANGED removed
          \/ periods' = periods \ {m} /\ removed' = removed \cup {m}
    BY DEF Q!ManagePeriods
<1>3. m \in Nat
    BY DEF Q!Months
<1>4. periods' \subseteq Nat /\ periods \cup removed \subseteq periods' \cup removed'
    BY <1>2, <1>3 DEF CatchUpInv, JobInv
<1>5. Q!Month(real)' = Q!Month(real) /\ ClockInv' /\ Q!NoGapAfter
    BY <1>1 DEF Q!Month, CatchUpInv, ClockInv, Q!Monotonic, Q!clockVars, Q!NoGapAfter, JobInv
<1>6. JobInv'
    BY <1>1, <1>4, <1>5 DEF CatchUpInv, JobInv
<1> QED
    BY <1>5, <1>6 DEF CatchUpInv

LEMMA AnswerKeepsJob ==
    ASSUME Q!Parameters, CatchUpInv, Q!Answer
    PROVE  CatchUpInv' /\ Q!NoGapAfter
<1>1. UNCHANGED <<Q!clockVars, Q!periodVars>> /\ trusted' = [utc |-> real, monotonic |-> Q!Monotonic]
    BY DEF Q!Answer
<1>2. ClockInv'
    BY <1>1 DEF CatchUpInv, ClockInv, Q!Monotonic, Q!clockVars
<1>3. Q!Month(real)' = Q!Month(real)
    BY <1>1 DEF Q!Month, Q!clockVars
<1> QED
    BY <1>1, <1>2, <1>3 DEF CatchUpInv, JobInv, Q!NoGapAfter, Q!periodVars

LEMMA StartKeepsPeriods ==
    ASSUME Q!Parameters, CatchUpInv, Q!Start
    PROVE  CatchUpInv' /\ Q!NoGapAfter
<1>1. /\ UNCHANGED <<Q!clockVars, periods, removed>>
      /\ trusted' = None /\ work' = None /\ caughtUp' = FALSE
    BY DEF Q!Start
<1>2. ClockInv'
    BY <1>1 DEF CatchUpInv, ClockInv, Q!clockVars
<1>3. JobInv'
    BY <1>1 DEF CatchUpInv, JobInv
<1>4. Q!NoGapAfter
    BY <1>1 DEF Q!NoGapAfter
<1> QED
    BY <1>2, <1>3, <1>4 DEF CatchUpInv

LEMMA NextCatchUp ==
    ASSUME Q!Parameters, CatchUpInv, [Q!Next]_Q!vars
    PROVE  CatchUpInv' /\ Q!NoGapAfter
<1>1. ASSUME UNCHANGED <<real, slept, trusted, Q!periodVars>>
      PROVE  CatchUpInv' /\ Q!NoGapAfter
    BY <1>1, TimePasses DEF CatchUpInv, ClockInv, Q!Monotonic
<1>2. CASE Q!Ask \/ Q!NoAnswer \/ Q!ReadStatus \/ Q!SetClock \/ Q!Stop
    BY <1>1, <1>2 DEF Q!Ask, Q!NoAnswer, Q!ReadStatus, Q!SetClock, Q!Stop, Q!clockVars, Q!trustVars
<1>3. CASE Q!Tick
    BY <1>3, TimePasses DEF Q!Tick, Q!trustVars, CatchUpInv, ClockInv, Q!Monotonic
<1>4. CASE Q!Sleep
    BY <1>4, TimePasses DEF Q!Sleep, Q!trustVars, CatchUpInv, ClockInv, Q!Monotonic
<1>5. CASE UNCHANGED Q!vars
    BY <1>1, <1>5 DEF Q!vars, Q!clockVars, Q!trustVars
<1> QED
    BY <1>2, <1>3, <1>4, <1>5, CheckScheduled, PeriodEnsured, PeriodFails, PeriodsManaged,
       AnswerKeepsJob, StartKeepsPeriods DEF Q!Next

-----------------------------------------------------------------------------
(* Backups: the inductive invariant.                                       *)

Whole == {<<c>> : c \in D!Contents}
Files == [D!Stores -> SUBSET FileNames]

\* What a request may be doing.
Restoring ==
    [kind : {"restore"}, at : 1 .. 12, undo : BOOLEAN, archive : D!Archives, saved : D!Archives,
     before : Whole \X Files]
Sending == [kind : {"sending"}, db : D!Contents]
Uploading == [kind : {"upload"}, store : D!Stores, name : FileNames]
AtWork == Restoring \cup [kind : {"download"}] \cup Sending \cup Uploading \cup [kind : {"idle"}]

\* A database and files between restores: of this release, and whole.
Settled(d, f, u) ==
    /\ d \in Whole /\ d[1].level = Level
    /\ \A s \in D!Stores : d[1].names[s] \subseteq f[s] /\ f[s] \subseteq u

\* How far a restore has come: forwards ...
Forward(o, d, f) ==
    /\ o.at > 1 => o.archive.whole
    /\ o.at <= 5 => d = o.before[1]
    /\ o.at = 6 => d = <<>>
    /\ o.at = 7 => d = <<o.archive.db>>
    /\ o.at >= 8 => d = <<D!Migrated(o.archive.db)>>
    /\ o.at <= 8 => f = o.before[2]
    /\ o.at >= 10 => f["photos"] = o.archive.files["photos"]
    /\ o.at >= 12 => f["icons"] = o.archive.files["icons"]
    /\ o.at >= 3 => o.saved.db = o.before[1][1]
    /\ o.at >= 4 => o.saved.files["photos"] = o.before[2]["photos"]
    /\ o.at >= 5 => o.saved.files["icons"] = o.before[2]["icons"]
\* ... or back, with the copies it made.
Backward(o, d, f) ==
    /\ o.at >= 5
    /\ o.at < 12 =>
        o.saved.db = o.before[1][1] /\ \A s \in D!Stores : o.saved.files[s] = o.before[2][s]
    /\ o.at = 6 => d = <<>>
    /\ o.at = 7 => d = o.before[1]
    /\ o.at >= 8 => d = o.before[1]
    /\ o.at >= 10 => f["photos"] = o.before[2]["photos"]
    /\ o.at >= 12 => f["icons"] = o.before[2]["icons"]
Underway(o, d, f, a, u) ==
    /\ o.archive \in a /\ Settled(o.before[1], o.before[2], u)
    /\ IF o.undo THEN Backward(o, d, f) ELSE Forward(o, d, f)

\* A file that is uploaded is there, and nothing names it yet; what is being
\* sent will find its files.
Traffic(p, d, f, u) ==
    /\ \A r \in Requests : p[r].kind = "sending" => \A s \in D!Stores : p[r].db.names[s] \subseteq f[s]
    /\ \A r \in Requests : p[r].kind = "upload" =>
         /\ p[r].name \in f[p[r].store] /\ \A s \in D!Stores : p[r].name \notin d[1].names[s]
    /\ \A r, q \in Requests : p[r].kind = "upload" /\ p[q].kind = "sending" =>
         \A s \in D!Stores : p[r].name \notin p[q].db.names[s]
    /\ \A r, q \in Requests : p[r].kind = "upload" /\ p[q].kind = "upload" /\ r # q =>
         p[r].name # p[q].name

Restores(p) == \E r \in Requests : p[r].kind = "restore"

Kept(p, d, f, a, u) ==
    /\ ~Restores(p) => Settled(d, f, u) /\ Traffic(p, d, f, u)
    /\ \A r \in Requests : p[r].kind = "restore" => Underway(p[r], d, f, a, u)
    /\ \A x \in a : (x \in OldArchives \/ x.whole)
                    /\ (x.whole => D!Complete(x) /\ \A s \in D!Stores : x.files[s] \subseteq u)

BackupTypes ==
    /\ db \in Whole \cup {<<>>} /\ disk \in Files /\ used \subseteq FileNames
    /\ archives \subseteq D!Archives /\ op \in [Requests -> AtWork] /\ broken \in BOOLEAN
    /\ \A r, q \in Requests : op[r].kind = "restore" /\ r # q => op[q].kind = "idle"
    /\ broken => \A r \in Requests : op[r].kind = "idle" \/ (op[r].kind = "restore" /\ op[r].at = 12)

BackupInv == BackupTypes /\ (~broken => Kept(op, db, disk, archives, used))

-----------------------------------------------------------------------------
(* The steps of a restore.                                                 *)

LEMMA StagesAre ==
    /\ Len(D!Stages) = 12
    /\ D!Stages[1] = "extract" /\ D!Stages[2] = "dump" /\ D!Stages[3] = "copyPhotos"
    /\ D!Stages[4] = "copyIcons" /\ D!Stages[5] = "clear" /\ D!Stages[6] = "load"
    /\ D!Stages[7] = "migrate" /\ D!Stages[8] = "emptyPhotos" /\ D!Stages[9] = "fillPhotos"
    /\ D!Stages[10] = "emptyIcons" /\ D!Stages[11] = "fillIcons"
BY DEF D!Stages

\* What each step leaves.
LEMMA SavedIs ==
    ASSUME NEW o, o.at \in 1 .. 11
    PROVE  /\ o.at = 2 => D!Saved(o) = [o.saved EXCEPT !.db = db[1]]
           /\ o.at = 3 => D!Saved(o) = [o.saved EXCEPT !.files["photos"] = disk["photos"]]
           /\ o.at = 4 => D!Saved(o) = [o.saved EXCEPT !.files["icons"] = disk["icons"]]
           /\ o.at \notin {2, 3, 4} => D!Saved(o) = o.saved
<1>1. /\ D!Stages[o.at] = "dump" <=> o.at = 2
      /\ D!Stages[o.at] = "copyPhotos" <=> o.at = 3
      /\ D!Stages[o.at] = "copyIcons" <=> o.at = 4
    BY StagesAre
<1> QED
    BY <1>1 DEF D!Saved

LEMMA DatabaseIs ==
    ASSUME NEW o, o.at \in 1 .. 11
    PROVE  /\ o.at = 5 => D!Database(o) = <<>>
           /\ o.at = 6 => D!Database(o) = <<D!Source(o).db>>
           /\ o.at = 7 => D!Database(o) = <<D!Migrated(db[1])>>
           /\ o.at \notin {5, 6, 7} => D!Database(o) = db
<1>1. /\ D!Stages[o.at] = "clear" <=> o.at = 5
      /\ D!Stages[o.at] = "load" <=> o.at = 6
      /\ D!Stages[o.at] = "migrate" <=> o.at = 7
    BY StagesAre
<1> QED
    BY <1>1 DEF D!Database

LEMMA DiskIs ==
    ASSUME NEW o, o.at \in 1 .. 11
    PROVE  /\ o.at = 8 => D!Disk(o) = [disk EXCEPT !["photos"] = {}]
           /\ o.at = 9 => D!Disk(o) = [disk EXCEPT !["photos"] = D!Source(o).files["photos"]]
           /\ o.at = 10 => D!Disk(o) = [disk EXCEPT !["icons"] = {}]
           /\ o.at = 11 => D!Disk(o) = [disk EXCEPT !["icons"] = D!Source(o).files["icons"]]
           /\ o.at \notin 8 .. 11 => D!Disk(o) = disk
<1>1. /\ D!Stages[o.at] = "emptyPhotos" <=> o.at = 8
      /\ D!Stages[o.at] = "fillPhotos" <=> o.at = 9
      /\ D!Stages[o.at] = "emptyIcons" <=> o.at = 10
      /\ D!Stages[o.at] = "fillIcons" <=> o.at = 11
    BY StagesAre
<1> QED
    BY <1>1 DEF D!Disk

LEMMA ArchiveIs ==
    ASSUME NEW a \in D!Archives
    PROVE  /\ a.db \in D!Contents /\ a.files \in Files /\ a.whole \in BOOLEAN
           /\ a.db.level \in 1 .. Level /\ \A s \in D!Stores : a.db.names[s] \subseteq FileNames
           /\ \A s \in D!Stores : a.files[s] \subseteq FileNames
BY DEF D!Archives, D!Contents, Files

LEMMA MigratedIs ==
    ASSUME D!Parameters, NEW c \in D!Contents
    PROVE  /\ D!Migrated(c) \in D!Contents /\ D!Migrated(c).level = Level
           /\ D!Migrated(c).names = c.names /\ (c.level = Level => D!Migrated(c) = c)
BY DEF D!Migrated, D!Contents, D!Parameters

\* A restore that stands still; the one that moves.
LEMMA Restorer ==
    ASSUME BackupTypes, NEW r \in Requests, op[r].kind = "restore"
    PROVE  /\ op[r] \in Restoring /\ op[r].archive \in D!Archives /\ op[r].saved \in D!Archives
           /\ op[r].before \in Whole \X Files /\ op[r].at \in 1 .. 12 /\ op[r].undo \in BOOLEAN
           /\ \A q \in Requests : q # r => op[q].kind = "idle"
<1>1. op[r] \in AtWork
    BY DEF BackupTypes
<1>2. op[r] \in Restoring
    BY <1>1 DEF AtWork, Sending, Uploading
<1> QED
    BY <1>2 DEF Restoring, BackupTypes

LEMMA WholeIs == ASSUME NEW d \in Whole PROVE d[1] \in D!Contents /\ d = <<d[1]>>
BY DEF Whole
\* A restore that turns back is still a restore.
Turned(o, k, n) == n = [o EXCEPT !.at = k, !.undo = TRUE]
LEMMA TurnedBack ==
    ASSUME NEW o \in Restoring, NEW k, k \in {5, 12}, NEW n, Turned(o, k, n)
    PROVE  /\ n \in Restoring /\ n.kind = "restore" /\ n.at = k /\ n.undo = TRUE
           /\ n.archive = o.archive /\ n.before = o.before /\ n.saved = o.saved
<1> DEFINE t == TRUE
<1>1. t \in BOOLEAN /\ t = TRUE /\ n = [o EXCEPT !.at = k, !.undo = t]
    BY DEF Turned
<1> HIDE DEF t
<1>2. /\ n \in Restoring /\ n.kind = "restore" /\ n.at = k /\ n.undo = t
      /\ n.archive = o.archive /\ n.before = o.before /\ n.saved = o.saved
    <2>1. k \in 1 .. 12
        OBVIOUS
    <2> QED
        BY <1>1, <2>1 DEF Restoring
<1> QED
    BY <1>1, <1>2

\* While a restore goes on, the invariant is about it alone.
LEMMA OnlyRestore ==
    ASSUME NEW p \in [Requests -> AtWork], NEW r \in Requests, p[r].kind = "restore",
           NEW d, NEW f, NEW a, NEW u,
           \A q \in Requests : q # r => p[q].kind = "idle",
           Underway(p[r], d, f, a, u),
           \A x \in a : (x \in OldArchives \/ x.whole)
                    /\ (x.whole => D!Complete(x) /\ \A s \in D!Stores : x.files[s] \subseteq u)
    PROVE  Kept(p, d, f, a, u)
<1>1. Restores(p)
    BY DEF Restores
<1>2. \A q \in Requests : p[q].kind = "restore" => q = r
    OBVIOUS
<1> QED
    BY <1>1, <1>2 DEF Kept
\* What a restore has saved, and what it leaves, has its types.
LEMMA StepTypes ==
    ASSUME D!Parameters, NEW o \in Restoring, o.at \in 1 .. 11, disk \in Files,
           db \in Whole \cup {<<>>}, o.at \in {2, 7} => db \in Whole
    PROVE  /\ D!Saved(o) \in D!Archives /\ D!Database(o) \in Whole \cup {<<>>}
           /\ D!Disk(o) \in Files
<1>1. /\ o.saved \in D!Archives /\ o.archive \in D!Archives /\ o.undo \in BOOLEAN
    BY DEF Restoring
<1>2. D!Source(o) \in D!Archives
    BY <1>1 DEF D!Source
<1>3. /\ D!Source(o).db \in D!Contents /\ D!Source(o).files \in Files
    BY <1>2, ArchiveIs
<1>4. db \in Whole => db[1] \in D!Contents /\ D!Migrated(db[1]) \in D!Contents
    BY WholeIs, MigratedIs
<1>5. \A c \in D!Contents : <<c>> \in Whole
    BY DEF Whole
<1>6. D!Saved(o) \in D!Archives
    <2>1. [o.saved EXCEPT !.files["photos"] = disk["photos"]] \in D!Archives
        BY <1>1 DEF D!Archives, Files, D!Stores
    <2>2. [o.saved EXCEPT !.files["icons"] = disk["icons"]] \in D!Archives
        BY <1>1 DEF D!Archives, Files, D!Stores
    <2>3. \A c \in D!Contents : [o.saved EXCEPT !.db = c] \in D!Archives
        BY <1>1 DEF D!Archives
    <2> QED
        BY <1>1, <1>4, <2>1, <2>2, <2>3, SavedIs
<1>7. D!Database(o) \in Whole \cup {<<>>}
    BY <1>3, <1>4, <1>5, DatabaseIs
<1>8. D!Disk(o) \in Files
    <2>1. \A x \in SUBSET FileNames :
            [disk EXCEPT !["photos"] = x] \in Files /\ [disk EXCEPT !["icons"] = x] \in Files
        BY DEF Files, D!Stores
    <2>2. /\ D!Source(o).files["photos"] \in SUBSET FileNames
          /\ D!Source(o).files["icons"] \in SUBSET FileNames
          /\ [disk EXCEPT !["photos"] = {}] \in Files /\ [disk EXCEPT !["icons"] = {}] \in Files
        BY <1>3 DEF Files, D!Stores
    <2>3. CASE o.at = 8
        BY <2>1, <2>2, <2>3, DiskIs
    <2>4. CASE o.at = 9
        BY <2>1, <2>2, <2>4, DiskIs
    <2>5. CASE o.at = 10
        BY <2>1, <2>2, <2>5, DiskIs
    <2>6. CASE o.at = 11
        BY <2>1, <2>2, <2>6, DiskIs
    <2>7. CASE o.at \notin 8 .. 11
        BY <2>7, DiskIs
    <2> QED
        BY <2>3, <2>4, <2>5, <2>6, <2>7
<1> QED
    BY <1>6, <1>7, <1>8

\* One step forwards; one step back.
LEMMA ForwardStep ==
    ASSUME D!Parameters, NEW o \in Restoring, o.at \in 1 .. 11, disk \in Files,
           db \in Whole \cup {<<>>}, o.undo = FALSE, o.at = 1 => o.archive.whole,
           Forward(o, db, disk),
           NEW n \in Restoring, n.at = o.at + 1, n.saved = D!Saved(o), n.undo = o.undo,
           n.archive = o.archive, n.before = o.before
    PROVE  Forward(n, D!Database(o), D!Disk(o))
<1>1. /\ o.saved \in D!Archives /\ o.archive \in D!Archives /\ D!Source(o) = o.archive
      /\ o.before \in Whole \X Files
    BY DEF Restoring, D!Source
<1>2. o.archive.whole
    BY DEF Forward
<1>3. /\ n.at <= 5 => D!Database(o) = o.before[1]
      /\ n.at = 6 => D!Database(o) = <<>>
      /\ n.at = 7 => D!Database(o) = <<o.archive.db>>
      /\ n.at >= 8 => D!Database(o) = <<D!Migrated(o.archive.db)>>
    BY <1>1, DatabaseIs DEF Forward
<1>4. /\ n.at <= 8 => D!Disk(o) = o.before[2]
      /\ n.at >= 10 => D!Disk(o)["photos"] = o.archive.files["photos"]
      /\ n.at >= 12 => D!Disk(o)["icons"] = o.archive.files["icons"]
    BY <1>1, DiskIs DEF Forward, Files, D!Stores
<1>5. /\ n.at >= 3 => n.saved.db = o.before[1][1]
      /\ n.at >= 4 => n.saved.files["photos"] = o.before[2]["photos"]
      /\ n.at >= 5 => n.saved.files["icons"] = o.before[2]["icons"]
    <2>1. CASE o.at = 2
        BY <1>1, <2>1, SavedIs DEF Forward, D!Archives
    <2>2. CASE o.at = 3
        <3>1. /\ n.saved.db = o.saved.db
              /\ n.saved.files["photos"] = disk["photos"]
            BY <1>1, <2>2, SavedIs DEF D!Archives, D!Stores
        <3> QED
            BY <2>2, <3>1 DEF Forward
    <2>3. CASE o.at = 4
        <3>1. /\ n.saved.db = o.saved.db
              /\ n.saved.files["photos"] = o.saved.files["photos"]
              /\ n.saved.files["icons"] = disk["icons"]
            BY <1>1, <2>3, SavedIs DEF D!Archives, D!Stores
        <3> QED
            BY <2>3, <3>1 DEF Forward
    <2>4. CASE o.at \notin {2, 3, 4}
        <3>1. n.saved = o.saved
            BY <2>4, SavedIs
        <3> QED
            BY <2>4, <3>1 DEF Forward
    <2> QED
        BY <2>1, <2>2, <2>3, <2>4
<1> QED
    BY <1>2, <1>3, <1>4, <1>5 DEF Forward

LEMMA BackwardStep ==
    ASSUME D!Parameters, NEW o \in Restoring, o.at \in 1 .. 11, disk \in Files,
           db \in Whole \cup {<<>>}, o.undo, o.before[1][1].level = Level,
           Backward(o, db, disk),
           NEW n \in Restoring, n.at = o.at + 1, n.saved = D!Saved(o), n.undo = o.undo,
           n.archive = o.archive, n.before = o.before
    PROVE  Backward(n, D!Database(o), D!Disk(o))
<1>1. /\ o.saved \in D!Archives /\ D!Source(o) = o.saved /\ o.before \in Whole \X Files
    BY DEF Restoring, D!Source
<1>2. o.before[1] = <<o.before[1][1]>> /\ D!Migrated(o.before[1][1]) = o.before[1][1]
    BY <1>1, WholeIs, MigratedIs
<1>3. /\ n.at >= 6 /\ n.saved = o.saved
      /\ o.saved.db = o.before[1][1] /\ \A s \in D!Stores : o.saved.files[s] = o.before[2][s]
    BY SavedIs DEF Backward
<1>4. /\ n.at = 6 => D!Database(o) = <<>>
      /\ n.at >= 7 => D!Database(o) = o.before[1]
    <2>1. CASE o.at = 5
        BY <2>1, DatabaseIs
    <2>2. CASE o.at = 6
        BY <1>1, <1>2, <1>3, <2>2, DatabaseIs
    <2>3. CASE o.at = 7
        <3>1. db = o.before[1]
            BY <2>3 DEF Backward
        <3> QED
            BY <1>2, <2>3, <3>1, DatabaseIs
    <2>4. CASE o.at \notin {5, 6, 7}
        <3>1. db = o.before[1]
            BY <1>3, <2>4 DEF Backward
        <3> QED
            BY <1>3, <2>4, <3>1, DatabaseIs
    <2> QED
        BY <2>1, <2>2, <2>3, <2>4
<1>5. /\ n.at >= 10 => D!Disk(o)["photos"] = o.before[2]["photos"]
      /\ n.at >= 12 => D!Disk(o)["icons"] = o.before[2]["icons"]
    BY <1>1, <1>3, DiskIs DEF Backward, Files, D!Stores
<1> QED
    BY <1>3, <1>4, <1>5 DEF Backward
\* The restore that is under way, when no rollback has failed.
LEMMA RestoreUnderway ==
    ASSUME BackupInv, NEW r \in Requests, op[r].kind = "restore", op[r].at # 12
    PROVE  /\ op[r] \in Restoring /\ op[r].at \in 1 .. 11 /\ broken = FALSE
           /\ Underway(op[r], db, disk, archives, used)
           /\ op[r].before[1] \in Whole /\ op[r].before[1][1].level = Level
           /\ op[r].at \in {2, 7} => db \in Whole
           /\ \A q \in Requests : q # r => op[q].kind = "idle"
<1>1. /\ op[r] \in Restoring /\ op[r].at \in 1 .. 12 /\ op[r].before \in Whole \X Files
      /\ op[r].archive \in D!Archives /\ op[r].undo \in BOOLEAN
      /\ \A q \in Requests : q # r => op[q].kind = "idle"
    BY Restorer DEF BackupInv
<1>2. broken = FALSE
    BY DEF BackupInv, BackupTypes
<1>3. Underway(op[r], db, disk, archives, used)
    BY <1>2 DEF BackupInv, Kept
<1>4. op[r].before[1] \in Whole /\ op[r].before[1][1].level = Level
    BY <1>3 DEF Underway, Settled
<1>5. op[r].at \in {2, 7} => db \in Whole
    <2>1. op[r].archive.db \in D!Contents
        BY <1>1, ArchiveIs
    <2>2. <<op[r].archive.db>> \in Whole
        BY <2>1 DEF Whole
    <2>3. CASE op[r].undo
        BY <1>3, <1>4, <2>3 DEF Underway, Backward
    <2>4. CASE ~op[r].undo
        BY <1>3, <1>4, <2>2, <2>4 DEF Underway, Forward
    <2> QED
        BY <1>1, <2>3, <2>4
<1> QED
    BY <1>1, <1>2, <1>3, <1>4, <1>5

\* What stays of the invariant when archives and names do.
LEMMA ArchivesKept ==
    ASSUME BackupInv, broken = FALSE
    PROVE  \A x \in archives : (x \in OldArchives \/ x.whole)
               /\ (x.whole => D!Complete(x) /\ \A s \in D!Stores : x.files[s] \subseteq used)
BY DEF BackupInv, Kept

\* Types while a restore goes on.
LEMMA RestoreTypes ==
    ASSUME BackupInv, NEW r \in Requests,
           \A q \in Requests : q # r => op[q].kind = "idle",
           op' \in [Requests -> AtWork], op'[r].kind = "restore",
           \A q \in Requests : q # r => op'[q] = op[q],
           db' \in Whole \cup {<<>>}, disk' \in Files, UNCHANGED <<archives, used>>,
           broken' \in BOOLEAN, broken' => op'[r].at = 12
    PROVE  BackupTypes'
BY DEF BackupInv, BackupTypes

LEMMA RestoreSteps ==
    ASSUME D!Parameters, BackupInv, NEW r \in Requests, D!RestoreStep(r)
    PROVE  BackupInv'
<1>1. /\ op[r].kind = "restore" /\ op[r].at < 12
      /\ op[r].at = 1 => op[r].archive.whole
      /\ op' = [op EXCEPT ![r].at = op[r].at + 1, ![r].saved = D!Saved(op[r])]
      /\ db' = D!Database(op[r]) /\ disk' = D!Disk(op[r])
      /\ UNCHANGED <<archives, used, failures, broken>>
    BY StagesAre DEF D!RestoreStep
<1>2. /\ op[r] \in Restoring /\ op[r].at \in 1 .. 11 /\ broken = FALSE
      /\ Underway(op[r], db, disk, archives, used)
      /\ op[r].before[1][1].level = Level
      /\ op[r].at \in {2, 7} => db \in Whole
      /\ \A q \in Requests : q # r => op[q].kind = "idle"
    <2>1. op[r].at # 12
        BY <1>1, Restorer DEF BackupInv
    <2> QED
        BY <1>1, <2>1, RestoreUnderway
<1>3. op \in [Requests -> AtWork] /\ disk \in Files /\ db \in Whole \cup {<<>>}
    BY DEF BackupInv, BackupTypes
<1>4. /\ D!Saved(op[r]) \in D!Archives /\ D!Database(op[r]) \in Whole \cup {<<>>}
      /\ D!Disk(op[r]) \in Files
    BY <1>2, <1>3, StepTypes
<1>5. /\ op'[r] = [op[r] EXCEPT !.at = op[r].at + 1, !.saved = D!Saved(op[r])]
      /\ \A q \in Requests : q # r => op'[q] = op[q]
    BY <1>1, <1>3
<1>6. /\ op'[r] \in Restoring /\ op'[r].kind = "restore" /\ op'[r].at = op[r].at + 1
      /\ op'[r].saved = D!Saved(op[r]) /\ op'[r].undo = op[r].undo
      /\ op'[r].archive = op[r].archive /\ op'[r].before = op[r].before
    <2> DEFINE o == op[r]
               k == op[r].at + 1
               a == D!Saved(op[r])
    <2>1. o \in Restoring /\ k \in 1 .. 12 /\ a \in D!Archives
        BY <1>2, <1>4
    <2>2. op'[r] = [o EXCEPT !.at = k, !.saved = a]
        BY <1>5
    <2> HIDE DEF o, k, a
    <2>3. /\ op'[r] \in Restoring /\ op'[r].kind = "restore" /\ op'[r].at = k
          /\ op'[r].saved = a /\ op'[r].undo = o.undo
          /\ op'[r].archive = o.archive /\ op'[r].before = o.before
        BY <2>1, <2>2 DEF Restoring
    <2> QED
        BY <2>3 DEF o, k, a
<1>7. op' \in [Requests -> AtWork]
    <2>1. op'[r] \in AtWork
        BY <1>6 DEF AtWork
    <2> QED
        BY <1>1, <1>3, <1>5, <2>1
<1>8. BackupTypes'
    BY <1>1, <1>2, <1>4, <1>5, <1>6, <1>7, RestoreTypes
<1>9. Underway(op'[r], db', disk', archives, used)
    <2>1. op[r].undo \in BOOLEAN
        BY <1>2 DEF Restoring
    <2>2. CASE op[r].undo
        <3>1. Backward(op'[r], D!Database(op[r]), D!Disk(op[r]))
            BY <1>2, <1>3, <1>6, <2>2, BackwardStep DEF Underway
        <3> QED
            BY <1>1, <1>2, <1>6, <2>2, <3>1 DEF Underway
    <2>3. CASE op[r].undo = FALSE
        <3>1. Forward(op'[r], D!Database(op[r]), D!Disk(op[r]))
            BY <1>1, <1>2, <1>3, <1>6, <2>3, ForwardStep DEF Underway
        <3> QED
            BY <1>1, <1>2, <1>6, <2>3, <3>1 DEF Underway
    <2> QED
        BY <2>1, <2>2, <2>3
<1>10. Kept(op', db', disk', archives', used')
    <2>1. \A q \in Requests : q # r => op'[q].kind = "idle"
        BY <1>2, <1>5
    <2>2. op'[r].kind = "restore"
        BY <1>6
    <2>3. \A x \in archives :
             /\ x \in OldArchives \/ x.whole
             /\ x.whole => D!Complete(x) /\ \A s \in D!Stores : x.files[s] \subseteq used
        BY <1>2, ArchivesKept
    <2>4. Kept(op', db', disk', archives, used)
        BY <1>7, <1>9, <2>1, <2>2, <2>3, OnlyRestore
    <2>5. archives' = archives /\ used' = used
        BY <1>1
    <2> QED
        BY <2>4, <2>5
<1> QED
    BY <1>8, <1>10 DEF BackupInv

LEMMA RefusingArchive ==
    ASSUME D!Parameters, BackupInv, NEW r \in Requests, D!Refuse(r)
    PROVE  BackupInv'
<1>1. /\ op[r].kind = "restore" /\ op[r].at = 1
      /\ op' = [op EXCEPT ![r].at = 12, ![r].undo = TRUE]
      /\ UNCHANGED <<db, disk, archives, used, failures, broken>>
    BY StagesAre DEF D!Refuse
<1>2. /\ op[r] \in Restoring /\ broken = FALSE
      /\ Underway(op[r], db, disk, archives, used)
      /\ \A q \in Requests : q # r => op[q].kind = "idle"
    <2>1. op[r].at # 12
        BY <1>1
    <2> QED
        BY <1>1, <2>1, RestoreUnderway
<1>3. op \in [Requests -> AtWork] /\ disk \in Files /\ db \in Whole \cup {<<>>}
    BY DEF BackupInv, BackupTypes
<1>4. /\ op'[r] \in Restoring /\ op'[r].kind = "restore" /\ op'[r].at = 12
      /\ op'[r].undo = TRUE /\ op'[r].archive = op[r].archive /\ op'[r].before = op[r].before
      /\ \A q \in Requests : q # r => op'[q] = op[q]
    <2> DEFINE o == op[r]
    <2>1. /\ o \in Restoring /\ Turned(o, 12, op'[r])
          /\ \A q \in Requests : q # r => op'[q] = op[q]
        BY <1>1, <1>2, <1>3 DEF Turned
    <2>3. 12 \in {5, 12}
        OBVIOUS
    <2> HIDE DEF o
    <2>2. /\ op'[r] \in Restoring /\ op'[r].kind = "restore" /\ op'[r].at = 12
          /\ op'[r].undo = TRUE /\ op'[r].archive = o.archive /\ op'[r].before = o.before
        BY <2>1, <2>3, TurnedBack
    <2> QED
        BY <2>1, <2>2 DEF o
<1>5. op' \in [Requests -> AtWork]
    <2>1. op'[r] \in AtWork
        BY <1>4 DEF AtWork
    <2> QED
        BY <1>1, <1>3, <1>4, <2>1
<1>6. BackupTypes'
    BY <1>1, <1>2, <1>3, <1>4, <1>5, RestoreTypes
<1>7. Underway(op'[r], db', disk', archives, used)
    <2>1. op[r].undo = TRUE => op[r].at >= 5
        BY <1>2 DEF Underway, Backward
    <2>2. op[r].undo = FALSE
        BY <1>1, <1>2, <2>1 DEF Restoring
    <2>3. db = op[r].before[1] /\ disk = op[r].before[2]
        BY <1>1, <1>2, <2>2 DEF Underway, Forward
    <2> QED
        BY <1>1, <1>2, <1>4, <2>3 DEF Underway, Backward
<1>8. Kept(op', db', disk', archives', used')
    <2>1. \A q \in Requests : q # r => op'[q].kind = "idle"
        BY <1>2, <1>4
    <2>2. \A x \in archives : (x \in OldArchives \/ x.whole)
              /\ (x.whole => D!Complete(x) /\ \A s \in D!Stores : x.files[s] \subseteq used)
        BY <1>2, ArchivesKept
    <2>3. Kept(op', db', disk', archives, used)
        BY <1>4, <1>5, <1>7, <2>1, <2>2, OnlyRestore
    <2> QED
        BY <1>1, <2>3
<1> QED
    BY <1>6, <1>8 DEF BackupInv

LEMMA Failing ==
    ASSUME D!Parameters, BackupInv, NEW r \in Requests, D!StepFails(r)
    PROVE  BackupInv'
<1> DEFINE early == op[r].undo \/ op[r].at < 5
<1>1. /\ op[r].kind = "restore" /\ op[r].at < 12
      /\ db' \in {db, D!Database(op[r])} /\ (op[r].at < 5 => db' = db)
      /\ disk' \in {disk, D!Disk(op[r])}
      /\ broken' = (broken \/ op[r].undo)
      /\ UNCHANGED <<archives, used>>
    BY StagesAre, Restorer DEF D!StepFails, D!ImportStarted, BackupInv
<1>2. /\ early => op' = [op EXCEPT ![r].at = 12, ![r].undo = TRUE]
      /\ ~early => op' = [op EXCEPT ![r].at = 5, ![r].undo = TRUE]
    BY StagesAre, Restorer DEF D!StepFails, D!ImportStarted, BackupInv
<1>3. /\ op[r] \in Restoring /\ op[r].at \in 1 .. 11 /\ broken = FALSE
      /\ Underway(op[r], db, disk, archives, used)
      /\ op[r].at \in {2, 7} => db \in Whole
      /\ \A q \in Requests : q # r => op[q].kind = "idle"
    <2>1. op[r].at # 12
        BY <1>1, Restorer DEF BackupInv
    <2> QED
        BY <1>1, <2>1, RestoreUnderway
<1>4. op \in [Requests -> AtWork] /\ disk \in Files /\ db \in Whole \cup {<<>>}
    BY DEF BackupInv, BackupTypes
<1>5. db' \in Whole \cup {<<>>} /\ disk' \in Files
    BY <1>1, <1>3, <1>4, StepTypes
<1>6. /\ op'[r] \in Restoring /\ op'[r].kind = "restore" /\ op'[r].undo = TRUE
      /\ op'[r].at = IF early THEN 12 ELSE 5
      /\ op'[r].archive = op[r].archive /\ op'[r].before = op[r].before
      /\ op'[r].saved = op[r].saved
      /\ \A q \in Requests : q # r => op'[q] = op[q]
    <2>1. CASE early
        <3> DEFINE o == op[r]
        <3>1. /\ o \in Restoring /\ Turned(o, 12, op'[r])
              /\ \A q \in Requests : q # r => op'[q] = op[q]
            BY <1>2, <1>3, <1>4, <2>1 DEF Turned
        <3>2. 12 \in {5, 12} /\ o \in Restoring /\ Turned(o, 12, op'[r])
            BY <3>1
        <3> HIDE DEF o
        <3>3. /\ op'[r] \in Restoring /\ op'[r].kind = "restore" /\ op'[r].undo = TRUE
              /\ op'[r].at = 12 /\ op'[r].archive = o.archive /\ op'[r].before = o.before
              /\ op'[r].saved = o.saved
            <4> DEFINE n == op'[r]
            <4>1. Turned(o, 12, n)
                BY <3>2
            <4> HIDE DEF n
            <4>2. /\ n \in Restoring /\ n.kind = "restore" /\ n.undo = TRUE /\ n.at = 12
                  /\ n.archive = o.archive /\ n.before = o.before /\ n.saved = o.saved
                BY <3>2, <4>1, TurnedBack
            <4> QED
                BY <4>2 DEF n
        <3>4. op'[r].at = IF early THEN 12 ELSE 5
            BY <2>1, <3>3
        <3> QED
            BY <3>1, <3>3, <3>4 DEF o
    <2>2. CASE ~early
        <3> DEFINE o == op[r]
        <3>1. /\ o \in Restoring /\ Turned(o, 5, op'[r])
              /\ \A q \in Requests : q # r => op'[q] = op[q]
            BY <1>2, <1>3, <1>4, <2>2 DEF Turned
        <3>2. 5 \in {5, 12} /\ o \in Restoring /\ Turned(o, 5, op'[r])
            BY <3>1
        <3> HIDE DEF o
        <3>3. /\ op'[r] \in Restoring /\ op'[r].kind = "restore" /\ op'[r].undo = TRUE
              /\ op'[r].at = 5 /\ op'[r].archive = o.archive /\ op'[r].before = o.before
              /\ op'[r].saved = o.saved
            <4> DEFINE n == op'[r]
            <4>1. Turned(o, 5, n)
                BY <3>2
            <4> HIDE DEF n
            <4>2. /\ n \in Restoring /\ n.kind = "restore" /\ n.undo = TRUE /\ n.at = 5
                  /\ n.archive = o.archive /\ n.before = o.before /\ n.saved = o.saved
                BY <3>2, <4>1, TurnedBack
            <4> QED
                BY <4>2 DEF n
        <3>4. op'[r].at = IF early THEN 12 ELSE 5
            BY <2>2, <3>3
        <3> QED
            BY <3>1, <3>3, <3>4 DEF o
    <2> QED
        BY <2>1, <2>2
<1>7. op' \in [Requests -> AtWork]
    <2>1. op'[r] \in AtWork
        BY <1>6 DEF AtWork
    <2>2. DOMAIN op' = Requests
        BY <1>2, <1>4
    <2>3. \A q \in Requests : op'[q] \in AtWork
        BY <1>4, <1>6, <2>1
    <2>4. op' = [q \in Requests |-> op'[q]]
        BY <1>2, <1>4, <2>2
    <2> QED
        BY <2>3, <2>4
<1>8. op[r].undo \in BOOLEAN
    BY <1>3 DEF Restoring
<1>9. BackupTypes'
    <2>1. broken' \in BOOLEAN /\ (broken' => op'[r].at = 12)
        BY <1>1, <1>3, <1>6, <1>8
    <2> QED
        BY <1>1, <1>3, <1>5, <1>6, <1>7, <2>1, RestoreTypes
<1>10. broken' = FALSE => Underway(op'[r], db', disk', archives, used)
    <2> SUFFICES ASSUME broken' = FALSE PROVE Underway(op'[r], db', disk', archives, used)
        OBVIOUS
    <2>1. op[r].undo = FALSE
        BY <1>1, <1>3, <1>8
    <2>2. Forward(op[r], db, disk)
        BY <1>3, <2>1 DEF Underway
    <2>3. CASE op[r].at < 5
        <3>1. db' = op[r].before[1] /\ disk' = op[r].before[2]
            BY <1>1, <1>3, <2>2, <2>3, DiskIs DEF Forward
        <3> QED
            BY <1>3, <1>6, <2>3, <3>1 DEF Underway, Backward
    <2>4. CASE op[r].at >= 5
        <3>1. op'[r].at = 5
            BY <1>3, <1>6, <2>1, <2>4
        <3>2. /\ op[r].saved.db = op[r].before[1][1]
              /\ \A s \in D!Stores : op[r].saved.files[s] = op[r].before[2][s]
            BY <1>3, <2>2, <2>4 DEF Forward, D!Stores
        <3> QED
            BY <1>3, <1>6, <3>1, <3>2 DEF Underway, Backward
    <2> QED
        BY <1>3, <2>3, <2>4
<1>11. broken' = FALSE => Kept(op', db', disk', archives', used')
    <2>1. \A q \in Requests : q # r => op'[q].kind = "idle"
        BY <1>3, <1>6
    <2> QED
        BY <1>1, <1>3, <1>6, <1>7, <1>10, <2>1, ArchivesKept, OnlyRestore
<1> QED
    BY <1>9, <1>11 DEF BackupInv, BackupTypes

\* A restore begins with copies of nothing, from a database and files that fit.
LEMMA BeginningRestore ==
    ASSUME D!Parameters, BackupInv, NEW r \in Requests, D!BeginRestore(r)
    PROVE  BackupInv'
<1>1. PICK a \in archives :
        /\ D!Begin(r, [kind |-> "restore", at |-> 1, undo |-> FALSE, archive |-> a,
                       saved |-> [a EXCEPT !.files = disk], before |-> <<db, disk>>])
        /\ UNCHANGED <<db, disk, archives, used, failures, broken>>
    BY DEF D!BeginRestore
<1> DEFINE n == [kind |-> "restore", at |-> 1, undo |-> FALSE, archive |-> a,
                 saved |-> [a EXCEPT !.files = disk], before |-> <<db, disk>>]
<1>2. /\ \A q \in Requests : op[q].kind = "idle"
      /\ ~broken /\ op' = [op EXCEPT ![r] = n]
    BY <1>1 DEF D!Begin, D!Idle
<1>3. /\ op \in [Requests -> AtWork] /\ disk \in Files /\ archives \subseteq D!Archives
      /\ broken \in BOOLEAN
    BY DEF BackupInv, BackupTypes
<1>4. ~Restores(op)
    BY <1>2 DEF Restores
<1>5. Settled(db, disk, used) /\ db \in Whole
    BY <1>2, <1>4 DEF BackupInv, Kept, Settled
<1>6. n.kind = "restore" /\ n.at = 1 /\ n.undo = FALSE /\ n.archive = a /\ n.before = <<db, disk>>
    OBVIOUS
<1>7. n \in Restoring
    <2>1. a \in D!Archives /\ [a EXCEPT !.files = disk] \in D!Archives
        BY <1>3 DEF D!Archives, Files
    <2>2. <<db, disk>> \in Whole \X Files
        BY <1>3, <1>5
    <2>3. 1 \in 1 .. 12 /\ FALSE \in BOOLEAN
        OBVIOUS
    <2> QED
        BY <2>1, <2>2, <2>3 DEF Restoring
<1>8. Underway(n, db, disk, archives, used)
    <2>1. n.before[1] = db /\ n.before[2] = disk
        BY <1>6
    <2> HIDE DEF n
    <2> QED
        BY <1>5, <1>6, <2>1 DEF Underway, Forward
<1> HIDE DEF n
<1>9. op'[r] = n /\ \A q \in Requests : q # r => op'[q] = op[q]
    BY <1>2, <1>3
<1>10. op' \in [Requests -> AtWork]
    <2>1. n \in AtWork
        BY <1>7 DEF AtWork
    <2> QED
        BY <1>2, <1>3, <2>1
<1>11. BackupTypes'
    <2>1. db' \in Whole \cup {<<>>} /\ disk' \in Files /\ UNCHANGED <<archives, used>>
          /\ broken' \in BOOLEAN /\ ~broken'
        BY <1>1, <1>2, <1>3, <1>5
    <2> QED
        BY <1>2, <1>6, <1>9, <1>10, <2>1, RestoreTypes
<1>12. Kept(op', db', disk', archives', used')
    <2>1. \A q \in Requests : q # r => op'[q].kind = "idle"
        BY <1>2, <1>9
    <2>2. \A x \in archives : (x \in OldArchives \/ x.whole)
              /\ (x.whole => D!Complete(x) /\ \A s \in D!Stores : x.files[s] \subseteq used)
        BY <1>2, <1>3, ArchivesKept
    <2>3. Kept(op', db, disk, archives, used)
        BY <1>6, <1>8, <1>9, <1>10, <2>1, <2>2, OnlyRestore
    <2> QED
        BY <1>1, <2>3
<1> QED
    BY <1>11, <1>12 DEF BackupInv

\* A restore ends with a database and files that fit, of the archive or those
\* there were before.
LEMMA RestoreEnded ==
    ASSUME D!Parameters, BackupInv, broken = FALSE, NEW r \in Requests,
           op[r].kind = "restore", op[r].at = 12
    PROVE  /\ Settled(db, disk, used)
           /\ op[r].undo => <<db, disk>> = op[r].before
           /\ ~op[r].undo =>
                db = <<D!Migrated(op[r].archive.db)>> /\ disk = op[r].archive.files
<1> DEFINE o == op[r]
<1>1. /\ o \in Restoring /\ o.archive \in D!Archives /\ o.before \in Whole \X Files
      /\ o.undo \in BOOLEAN
    BY Restorer DEF BackupInv
<1>2. disk \in Files
    BY DEF BackupInv, BackupTypes
<1>3. Underway(o, db, disk, archives, used)
    BY DEF BackupInv, Kept
<1>4. /\ o.archive \in archives /\ Settled(o.before[1], o.before[2], used)
    BY <1>3 DEF Underway
<1>5. o.archive.whole => /\ D!Complete(o.archive)
                         /\ \A s \in D!Stores : o.archive.files[s] \subseteq used
    BY <1>4, ArchivesKept
<1>6. \A f, g \in Files : f["photos"] = g["photos"] /\ f["icons"] = g["icons"] => f = g
    BY DEF Files, D!Stores
<1>7. CASE o.undo
    <2>1. Backward(o, db, disk)
        BY <1>3, <1>7 DEF Underway
    <2>2. db = o.before[1]
        BY <2>1 DEF Backward
    <2>3. disk = o.before[2]
        <3>1. disk["photos"] = o.before[2]["photos"] /\ disk["icons"] = o.before[2]["icons"]
            BY <2>1 DEF Backward
        <3>2. o.before[2] \in Files
            BY <1>1
        <3> QED
            BY <1>2, <1>6, <3>1, <3>2
    <2>4. o.before = <<o.before[1], o.before[2]>>
        BY <1>1
    <2> QED
        BY <1>4, <1>7, <2>2, <2>3, <2>4
<1>8. CASE ~o.undo
    <2>1. Forward(o, db, disk)
        BY <1>3, <1>8 DEF Underway
    <2>2. db = <<D!Migrated(o.archive.db)>> /\ o.archive.whole
        BY <2>1 DEF Forward
    <2>3. o.archive.db \in D!Contents /\ o.archive.files \in Files
        BY <1>1, ArchiveIs
    <2>4. disk = o.archive.files
        <3>1. /\ disk["photos"] = o.archive.files["photos"]
              /\ disk["icons"] = o.archive.files["icons"]
            BY <2>1 DEF Forward
        <3> QED
            BY <1>2, <1>6, <2>3, <3>1
    <2>5. /\ D!Migrated(o.archive.db) \in D!Contents
          /\ D!Migrated(o.archive.db).level = Level
          /\ D!Migrated(o.archive.db).names = o.archive.db.names
        BY <2>3, MigratedIs
    <2>6. db \in Whole /\ db[1] = D!Migrated(o.archive.db)
        BY <2>2, <2>5 DEF Whole
    <2>7. \A s \in D!Stores : /\ o.archive.db.names[s] \subseteq disk[s]
                              /\ disk[s] \subseteq used
        BY <1>5, <2>2, <2>4 DEF D!Complete
    <2>8. Settled(db, disk, used)
        BY <2>5, <2>6, <2>7 DEF Settled
    <2> QED
        BY <1>8, <2>2, <2>4, <2>8
<1> QED
    BY <1>1, <1>7, <1>8

LEMMA EndingRestore ==
    ASSUME D!Parameters, BackupInv, NEW r \in Requests, D!EndRestore(r)
    PROVE  BackupInv'
<1>1. /\ op[r].kind = "restore" /\ op[r].at = 12
      /\ op' = [op EXCEPT ![r] = D!Idle]
      /\ UNCHANGED <<db, disk, archives, used, failures, broken>>
    BY StagesAre DEF D!EndRestore
<1>2. /\ op \in [Requests -> AtWork] /\ broken \in BOOLEAN
      /\ \A q \in Requests : q # r => op[q].kind = "idle"
    BY <1>1 DEF BackupInv, BackupTypes
<1>3. D!Idle.kind = "idle" /\ D!Idle \in AtWork
    BY DEF D!Idle, AtWork
<1>4. op' \in [Requests -> AtWork] /\ \A q \in Requests : op'[q].kind = "idle"
    BY <1>1, <1>2, <1>3
<1>5. BackupTypes'
    BY <1>1, <1>4 DEF BackupInv, BackupTypes
<1>6. broken = FALSE => Kept(op', db', disk', archives', used')
    <2> SUFFICES ASSUME broken = FALSE PROVE Kept(op', db', disk', archives', used')
        OBVIOUS
    <2>1. Settled(db, disk, used)
        BY <1>1, RestoreEnded
    <2>2. Traffic(op', db, disk, used)
        BY <1>4 DEF Traffic
    <2>3. Kept(op', db, disk, archives, used)
        BY <1>4, <2>1, <2>2, ArchivesKept DEF Kept
    <2> QED
        BY <1>1, <2>3
<1> QED
    BY <1>1, <1>2, <1>5, <1>6 DEF BackupInv

-----------------------------------------------------------------------------
(* Downloads and uploads.                                                  *)

\* While nothing is restored, the invariant is about traffic.
LEMMA Quiet ==
    ASSUME BackupInv, broken = FALSE, \A q \in Requests : op[q].kind # "restore"
    PROVE  /\ db \in Whole /\ disk \in Files /\ used \subseteq FileNames
           /\ archives \subseteq D!Archives /\ op \in [Requests -> AtWork]
           /\ Settled(db, disk, used) /\ Traffic(op, db, disk, used)
           /\ db[1] \in D!Contents /\ db = <<db[1]>>
<1>1. Settled(db, disk, used) /\ Traffic(op, db, disk, used)
    BY DEF BackupInv, Kept, Restores
<1>2. db \in Whole
    BY <1>1 DEF Settled
<1> QED
    BY <1>1, <1>2, WholeIs DEF BackupInv, BackupTypes

LEMMA StaysQuiet ==
    ASSUME db' \in Whole, disk' \in Files, used' \subseteq FileNames,
           archives' \subseteq D!Archives, op' \in [Requests -> AtWork], broken' = FALSE,
           \A q \in Requests : op'[q].kind # "restore",
           Settled(db', disk', used'), Traffic(op', db', disk', used'),
           \A x \in archives' : (x \in OldArchives \/ x.whole)
               /\ (x.whole => D!Complete(x) /\ \A s \in D!Stores : x.files[s] \subseteq used')
    PROVE  BackupInv'
<1>1. Kept(op', db', disk', archives', used')
    BY DEF Kept, Restores
<1>2. BackupTypes'
    BY DEF BackupTypes
<1> QED
    BY <1>1, <1>2 DEF BackupInv

\* What is neither idle nor a restore runs beside no restore.
LEMMA Busy ==
    ASSUME BackupInv, NEW r \in Requests, op[r].kind \in {"download", "sending", "upload"}
    PROVE  /\ broken = FALSE /\ \A q \in Requests : op[q].kind # "restore"
           /\ op[r].kind = "sending" => op[r].db \in D!Contents
           /\ op[r].kind = "upload" => op[r].store \in D!Stores /\ op[r].name \in FileNames
<1>1. /\ op[r] \in AtWork /\ broken \in BOOLEAN
      /\ broken => op[r].kind = "idle" \/ op[r].kind = "restore"
      /\ \A q \in Requests : op[q].kind = "restore" /\ q # r => op[r].kind = "idle"
    BY DEF BackupInv, BackupTypes
<1>2. op[r].kind = "sending" => op[r] \in Sending
    BY <1>1 DEF AtWork, Restoring, Sending, Uploading
<1>3. op[r].kind = "upload" => op[r] \in Uploading
    BY <1>1 DEF AtWork, Restoring, Sending, Uploading
<1> QED
    BY <1>1, <1>2, <1>3 DEF Sending, Uploading

\* A request that ends without a change.
LEMMA IdleIs == D!Idle \in AtWork /\ D!Idle.kind = "idle"
BY DEF D!Idle, AtWork

LEMMA BeginningDownload ==
    ASSUME D!Parameters, BackupInv, NEW r \in Requests, D!BeginDownload(r)
    PROVE  BackupInv'
<1>1. /\ \A q \in Requests : op[q].kind # "restore"
      /\ ~broken /\ op' = [op EXCEPT ![r] = [kind |-> "download"]]
      /\ UNCHANGED <<db, disk, archives, used, failures, broken>>
    BY DEF D!BeginDownload, D!Begin
<1>2. broken = FALSE
    BY <1>1 DEF BackupInv, BackupTypes
<1>3. /\ db \in Whole /\ disk \in Files /\ used \subseteq FileNames
      /\ archives \subseteq D!Archives /\ op \in [Requests -> AtWork]
      /\ Settled(db, disk, used) /\ Traffic(op, db, disk, used)
    BY <1>1, <1>2, Quiet
<1>4. [kind |-> "download"] \in AtWork /\ [kind |-> "download"].kind = "download"
    BY DEF AtWork
<1>5. /\ op' \in [Requests -> AtWork] /\ op'[r].kind = "download"
      /\ \A q \in Requests : q # r => op'[q] = op[q]
    BY <1>1, <1>3, <1>4
<1>6. /\ \A q \in Requests : op'[q].kind \in {"sending", "upload"} => op'[q] = op[q]
      /\ \A q \in Requests : op'[q].kind # "restore"
    BY <1>1, <1>5
<1>7. Traffic(op', db, disk, used)
    BY <1>3, <1>6 DEF Traffic
<1> QED
    BY <1>1, <1>2, <1>3, <1>5, <1>6, <1>7, ArchivesKept, StaysQuiet

LEMMA Dumping ==
    ASSUME D!Parameters, BackupInv, NEW r \in Requests, D!DumpDatabase(r)
    PROVE  BackupInv'
<1> DEFINE n == [kind |-> "sending", db |-> db[1]]
<1>1. /\ op[r].kind = "download" /\ op' = [op EXCEPT ![r] = n]
      /\ UNCHANGED <<db, disk, archives, used, failures, broken>>
    BY DEF D!DumpDatabase
<1>2. broken = FALSE /\ \A q \in Requests : op[q].kind # "restore"
    BY <1>1, Busy
<1>3. /\ db \in Whole /\ disk \in Files /\ used \subseteq FileNames
      /\ archives \subseteq D!Archives /\ op \in [Requests -> AtWork]
      /\ Settled(db, disk, used) /\ Traffic(op, db, disk, used) /\ db[1] \in D!Contents
    BY <1>2, Quiet
<1>4. n \in AtWork /\ n.kind = "sending" /\ n.db = db[1]
    BY <1>3 DEF AtWork, Sending
<1> HIDE DEF n
<1>5. /\ op' \in [Requests -> AtWork] /\ op'[r] = n
      /\ \A q \in Requests : q # r => op'[q] = op[q]
    BY <1>1, <1>3, <1>4
<1>6. /\ \A q \in Requests : op'[q].kind = "sending" => q = r \/ op'[q] = op[q]
      /\ \A q \in Requests : op'[q].kind = "upload" => op'[q] = op[q]
      /\ \A q \in Requests : op'[q].kind # "restore"
    BY <1>2, <1>4, <1>5
<1>7. /\ \A s \in D!Stores : op'[r].db.names[s] \subseteq disk[s]
      /\ op'[r].db = db[1]
    BY <1>3, <1>4, <1>5 DEF Settled
<1>8. Traffic(op', db, disk, used)
    BY <1>3, <1>6, <1>7 DEF Traffic
<1> QED
    BY <1>1, <1>2, <1>3, <1>5, <1>6, <1>8, ArchivesKept, StaysQuiet

LEMMA SendingFiles ==
    ASSUME D!Parameters, BackupInv, NEW r \in Requests, D!SendFiles(r)
    PROVE  BackupInv'
<1> DEFINE a == [whole |-> TRUE, db |-> op[r].db, files |-> disk]
<1>1. /\ op[r].kind = "sending" /\ archives' = archives \cup {a}
      /\ op' = [op EXCEPT ![r] = D!Idle]
      /\ UNCHANGED <<db, disk, used, failures, broken>>
    BY DEF D!SendFiles
<1>2. /\ broken = FALSE /\ \A q \in Requests : op[q].kind # "restore"
      /\ op[r].db \in D!Contents
    BY <1>1, Busy
<1>3. /\ db \in Whole /\ disk \in Files /\ used \subseteq FileNames
      /\ archives \subseteq D!Archives /\ op \in [Requests -> AtWork]
      /\ Settled(db, disk, used) /\ Traffic(op, db, disk, used)
    BY <1>2, Quiet
<1>4. a \in D!Archives /\ a.whole = TRUE /\ a.db = op[r].db /\ a.files = disk
    BY <1>2, <1>3 DEF D!Archives, Files
<1> HIDE DEF a
<1>5. D!Complete(a) /\ \A s \in D!Stores : a.files[s] \subseteq used
    BY <1>1, <1>3, <1>4 DEF D!Complete, Settled, Traffic
<1>6. /\ op' \in [Requests -> AtWork] /\ op'[r].kind = "idle"
      /\ \A q \in Requests : q # r => op'[q] = op[q]
    BY <1>1, <1>3, IdleIs
<1>7. /\ \A q \in Requests : op'[q].kind \in {"sending", "upload"} => op'[q] = op[q]
      /\ \A q \in Requests : op'[q].kind # "restore"
    BY <1>2, <1>6
<1>8. Traffic(op', db, disk, used)
    BY <1>3, <1>7 DEF Traffic
<1>9. \A x \in archives' : (x \in OldArchives \/ x.whole)
          /\ (x.whole => D!Complete(x) /\ \A s \in D!Stores : x.files[s] \subseteq used)
    BY <1>1, <1>2, <1>4, <1>5, ArchivesKept
<1>10. archives' \subseteq D!Archives
    BY <1>1, <1>3, <1>4
<1> QED
    BY <1>1, <1>2, <1>3, <1>6, <1>7, <1>8, <1>9, <1>10, StaysQuiet

LEMMA BeginningUpload ==
    ASSUME D!Parameters, BackupInv, NEW r \in Requests, NEW t \in D!Stores, D!BeginUpload(r, t)
    PROVE  BackupInv'
<1>1. PICK m \in FileNames \ used :
        /\ D!Begin(r, [kind |-> "upload", store |-> t, name |-> m])
        /\ disk' = [disk EXCEPT ![t] = @ \cup {m}]
        /\ used' = used \cup {m}
        /\ UNCHANGED <<db, archives, failures, broken>>
    BY DEF D!BeginUpload
<1> DEFINE n == [kind |-> "upload", store |-> t, name |-> m]
<1>2. n.kind = "upload" /\ n.store = t /\ n.name = m /\ n \in AtWork
    BY DEF AtWork, Uploading
<1>3. /\ \A q \in Requests : op[q].kind # "restore"
      /\ ~broken /\ op' = [op EXCEPT ![r] = n] /\ op[r].kind = "idle"
    BY <1>1 DEF D!Begin, D!Idle
<1>4. broken = FALSE
    BY <1>3 DEF BackupInv, BackupTypes
<1>5. /\ db \in Whole /\ disk \in Files /\ used \subseteq FileNames
      /\ archives \subseteq D!Archives /\ op \in [Requests -> AtWork]
      /\ Settled(db, disk, used) /\ Traffic(op, db, disk, used)
    BY <1>3, <1>4, Quiet
<1> HIDE DEF n
<1>6. /\ op' \in [Requests -> AtWork] /\ op'[r] = n
      /\ \A q \in Requests : q # r => op'[q] = op[q]
    BY <1>2, <1>3, <1>5
<1>7. /\ disk' \in Files /\ disk'[t] = disk[t] \cup {m}
      /\ \A s \in D!Stores : disk[s] \subseteq disk'[s] /\ disk'[s] \subseteq used'
      /\ used' \subseteq FileNames
    BY <1>1, <1>5 DEF Files, Settled
<1>8. Settled(db, disk', used')
    BY <1>5, <1>7 DEF Settled
<1>9. /\ \A q \in Requests : op'[q].kind = "sending" => op'[q] = op[q] /\ op[q].kind = "sending"
      /\ \A q \in Requests : op'[q].kind = "upload" => q = r \/ op'[q] = op[q]
      /\ \A q \in Requests : op'[q].kind # "restore"
    BY <1>2, <1>3, <1>6
<1>10. \A s \in D!Stores : m \notin db[1].names[s]
    BY <1>1, <1>5 DEF Settled
<1>11. \A q \in Requests, s \in D!Stores : op[q].kind = "sending" => m \notin op[q].db.names[s]
    BY <1>1, <1>5 DEF Traffic, Settled
<1>12. \A q \in Requests : op[q].kind = "upload" => m # op[q].name
    <2> SUFFICES ASSUME NEW q \in Requests, op[q].kind = "upload" PROVE m # op[q].name
        OBVIOUS
    <2>1. op[q].store \in D!Stores
        BY Busy
    <2>2. op[q].name \in disk[op[q].store]
        BY <1>5 DEF Traffic
    <2>3. op[q].name \in used
        BY <1>5, <2>1, <2>2 DEF Settled
    <2> QED
        BY <1>1, <2>3
<1>13. Traffic(op', db, disk', used')
    <2>1. \A q \in Requests : op'[q].kind = "sending" =>
              \A s \in D!Stores : op'[q].db.names[s] \subseteq disk'[s]
        BY <1>5, <1>7, <1>9 DEF Traffic
    <2>2. ASSUME NEW q \in Requests, op'[q].kind = "upload"
          PROVE  /\ op'[q].name \in disk'[op'[q].store]
                 /\ \A s \in D!Stores : op'[q].name \notin db[1].names[s]
        <3>1. CASE q = r
            BY <1>2, <1>6, <1>7, <1>10, <3>1
        <3>2. CASE q # r
            <4>1. op'[q] = op[q] /\ op[q].kind = "upload"
                BY <1>6, <2>2, <3>2
            <4>2. op[q].store \in D!Stores
                BY <4>1, Busy
            <4> QED
                BY <1>5, <1>7, <4>1, <4>2 DEF Traffic
        <3> QED
            BY <3>1, <3>2
    <2>3. \A q, p \in Requests : op'[q].kind = "upload" /\ op'[p].kind = "sending" =>
              \A s \in D!Stores : op'[q].name \notin op'[p].db.names[s]
        BY <1>2, <1>5, <1>6, <1>9, <1>11 DEF Traffic
    <2>4. \A q, p \in Requests : op'[q].kind = "upload" /\ op'[p].kind = "upload" /\ q # p =>
              op'[q].name # op'[p].name
        BY <1>2, <1>5, <1>6, <1>9, <1>12 DEF Traffic
    <2> QED
        BY <2>1, <2>2, <2>3, <2>4 DEF Traffic
<1>14. \A x \in archives' : (x \in OldArchives \/ x.whole)
          /\ (x.whole => D!Complete(x) /\ \A s \in D!Stores : x.files[s] \subseteq used')
    BY <1>1, <1>4, ArchivesKept
<1> QED
    BY <1>1, <1>4, <1>5, <1>6, <1>7, <1>8, <1>9, <1>13, <1>14, StaysQuiet

LEMMA SavingRow ==
    ASSUME D!Parameters, BackupInv, NEW r \in Requests, D!SaveRow(r)
    PROVE  BackupInv'
<1> DEFINE t == op[r].store
           m == op[r].name
           c == [db[1] EXCEPT !.names[t] = D!Named(t, m)]
<1>1. /\ op[r].kind = "upload" /\ db' = <<c>>
      /\ op' = [op EXCEPT ![r] = D!Idle]
      /\ UNCHANGED <<disk, archives, used, failures, broken>>
    BY DEF D!SaveRow
<1>2. /\ broken = FALSE /\ \A q \in Requests : op[q].kind # "restore"
      /\ t \in D!Stores /\ m \in FileNames
    BY <1>1, Busy
<1>3. /\ db \in Whole /\ disk \in Files /\ used \subseteq FileNames
      /\ archives \subseteq D!Archives /\ op \in [Requests -> AtWork]
      /\ Settled(db, disk, used) /\ Traffic(op, db, disk, used) /\ db[1] \in D!Contents
    BY <1>2, Quiet
<1>4. m \in disk[t]
    BY <1>1, <1>3 DEF Traffic
<1>5. \A q \in Requests : q # r /\ op[q].kind = "upload" => op[q].name # m
    BY <1>1, <1>2, <1>3 DEF Traffic
<1> HIDE DEF t, m
<1>6. D!Named(t, m) \subseteq db[1].names[t] \cup {m}
    BY DEF D!Named
<1>7. /\ c \in D!Contents /\ c.level = db[1].level
      /\ \A s \in D!Stores : c.names[s] \subseteq
             IF s = t THEN db[1].names[t] \cup {m} ELSE db[1].names[s]
    <2>1. D!Named(t, m) \subseteq FileNames
        BY <1>2, <1>3, <1>6 DEF D!Contents
    <2> QED
        BY <1>2, <1>3, <1>6, <2>1 DEF D!Contents
<1> HIDE DEF c
<1>8. db' \in Whole /\ db'[1] = c
    BY <1>1, <1>7 DEF Whole
<1>9. Settled(db', disk, used)
    <2>1. db'[1].level = Level
        BY <1>3, <1>7, <1>8 DEF Settled
    <2>2. \A s \in D!Stores : db'[1].names[s] \subseteq disk[s] /\ disk[s] \subseteq used
        BY <1>3, <1>4, <1>7, <1>8 DEF Settled
    <2> QED
        BY <1>8, <2>1, <2>2 DEF Settled
<1>10. /\ op' \in [Requests -> AtWork] /\ op'[r].kind = "idle"
       /\ \A q \in Requests : q # r => op'[q] = op[q]
    BY <1>1, <1>3, IdleIs
<1>11. /\ \A q \in Requests : op'[q].kind \in {"sending", "upload"} => op'[q] = op[q] /\ q # r
       /\ \A q \in Requests : op'[q].kind # "restore"
    BY <1>2, <1>10
<1>12. Traffic(op', db', disk, used)
    <2>1. \A q \in Requests : op'[q].kind = "upload" =>
              /\ op'[q].name \in disk[op'[q].store]
              /\ \A s \in D!Stores : op'[q].name \notin db'[1].names[s]
        <3> SUFFICES ASSUME NEW q \in Requests, op'[q].kind = "upload"
                     PROVE  /\ op'[q].name \in disk[op'[q].store]
                            /\ \A s \in D!Stores : op'[q].name \notin db'[1].names[s]
            OBVIOUS
        <3>1. op'[q] = op[q] /\ q # r /\ op[q].kind = "upload"
            BY <1>11
        <3>2. /\ op[q].name \in disk[op[q].store] /\ op[q].name # m
              /\ \A s \in D!Stores : op[q].name \notin db[1].names[s]
            BY <1>3, <1>5, <3>1 DEF Traffic
        <3> QED
            BY <1>2, <1>7, <1>8, <3>1, <3>2
    <2>2. \A q \in Requests : op'[q].kind = "sending" =>
              \A s \in D!Stores : op'[q].db.names[s] \subseteq disk[s]
        BY <1>3, <1>11 DEF Traffic
    <2>3. \A q, p \in Requests : op'[q].kind = "upload" /\ op'[p].kind = "sending" =>
              \A s \in D!Stores : op'[q].name \notin op'[p].db.names[s]
        BY <1>3, <1>11 DEF Traffic
    <2>4. \A q, p \in Requests : op'[q].kind = "upload" /\ op'[p].kind = "upload" /\ q # p =>
              op'[q].name # op'[p].name
        BY <1>3, <1>11 DEF Traffic
    <2> QED
        BY <2>1, <2>2, <2>3, <2>4 DEF Traffic
<1> QED
    BY <1>1, <1>2, <1>3, <1>8, <1>9, <1>10, <1>11, <1>12, ArchivesKept, StaysQuiet

LEMMA RefusingUpload ==
    ASSUME D!Parameters, BackupInv, NEW r \in Requests, D!UploadRefused(r)
    PROVE  BackupInv'
<1>1. /\ op[r].kind = "upload"
      /\ disk' = IF op[r].store = "icons"
                 THEN [disk EXCEPT !["icons"] = @ \ {op[r].name}] ELSE disk
      /\ op' = [op EXCEPT ![r] = D!Idle]
      /\ UNCHANGED <<db, archives, used, failures, broken>>
    BY DEF D!UploadRefused
<1>2. /\ broken = FALSE /\ \A q \in Requests : op[q].kind # "restore"
      /\ op[r].store \in D!Stores /\ op[r].name \in FileNames
    BY <1>1, Busy
<1>3. /\ db \in Whole /\ disk \in Files /\ used \subseteq FileNames
      /\ archives \subseteq D!Archives /\ op \in [Requests -> AtWork]
      /\ Settled(db, disk, used) /\ Traffic(op, db, disk, used) /\ db[1] \in D!Contents
    BY <1>2, Quiet
<1>4. /\ disk' \in Files
      /\ \A s \in D!Stores : /\ disk'[s] \subseteq disk[s]
                             /\ \A x \in disk[s] : x # op[r].name => x \in disk'[s]
    BY <1>1, <1>3 DEF Files, D!Stores
<1>5. /\ \A s \in D!Stores : op[r].name \notin db[1].names[s]
      /\ \A q \in Requests : q # r /\ op[q].kind = "upload" => op[q].name # op[r].name
      /\ \A q \in Requests, s \in D!Stores :
             op[q].kind = "sending" => op[r].name \notin op[q].db.names[s]
    BY <1>1, <1>3 DEF Traffic
<1>6. Settled(db, disk', used)
    BY <1>3, <1>4, <1>5 DEF Settled
<1>7. /\ op' \in [Requests -> AtWork] /\ op'[r].kind = "idle"
      /\ \A q \in Requests : q # r => op'[q] = op[q]
    BY <1>1, <1>3, IdleIs
<1>8. /\ \A q \in Requests : op'[q].kind \in {"sending", "upload"} => op'[q] = op[q] /\ q # r
      /\ \A q \in Requests : op'[q].kind # "restore"
    BY <1>2, <1>7
<1>9. Traffic(op', db, disk', used)
    <2>1. \A q \in Requests : op'[q].kind = "upload" =>
              /\ op'[q].name \in disk'[op'[q].store]
              /\ \A s \in D!Stores : op'[q].name \notin db[1].names[s]
        <3> SUFFICES ASSUME NEW q \in Requests, op'[q].kind = "upload"
                     PROVE  /\ op'[q].name \in disk'[op'[q].store]
                            /\ \A s \in D!Stores : op'[q].name \notin db[1].names[s]
            OBVIOUS
        <3>1. op'[q] = op[q] /\ q # r /\ op[q].kind = "upload"
            BY <1>8
        <3>2. op[q].store \in D!Stores
            BY <3>1, Busy
        <3>3. /\ op[q].name \in disk[op[q].store] /\ op[q].name # op[r].name
              /\ \A s \in D!Stores : op[q].name \notin db[1].names[s]
            BY <1>3, <1>5, <3>1 DEF Traffic
        <3> QED
            BY <1>4, <3>1, <3>2, <3>3
    <2>2. \A q \in Requests : op'[q].kind = "sending" =>
              \A s \in D!Stores : op'[q].db.names[s] \subseteq disk'[s]
        BY <1>3, <1>4, <1>5, <1>8 DEF Traffic
    <2>3. \A q, p \in Requests : op'[q].kind = "upload" /\ op'[p].kind = "sending" =>
              \A s \in D!Stores : op'[q].name \notin op'[p].db.names[s]
        BY <1>3, <1>8 DEF Traffic
    <2>4. \A q, p \in Requests : op'[q].kind = "upload" /\ op'[p].kind = "upload" /\ q # p =>
              op'[q].name # op'[p].name
        BY <1>3, <1>8 DEF Traffic
    <2> QED
        BY <2>1, <2>2, <2>3, <2>4 DEF Traffic
<1> QED
    BY <1>1, <1>2, <1>3, <1>4, <1>6, <1>7, <1>8, <1>9, ArchivesKept, StaysQuiet

-----------------------------------------------------------------------------
(* The invariant holds always, and what it says.                           *)

LEMMA BackupInit ==
    ASSUME D!Parameters, D!Init
    PROVE  BackupInv
<1> DEFINE c == [level |-> Level, names |-> [s \in D!Stores |-> {}]]
<1>1. /\ db = <<c>> /\ disk = [s \in D!Stores |-> {}] /\ archives = OldArchives
      /\ used = UNION {a.files[s] : a \in OldArchives, s \in D!Stores}
      /\ op = [q \in Requests |-> D!Idle] /\ broken = FALSE
    BY DEF D!Init
<1>2. c \in D!Contents /\ c.level = Level /\ \A s \in D!Stores : c.names[s] = {}
    BY DEF D!Contents, D!Parameters
<1> HIDE DEF c
<1>3. db \in Whole /\ db[1] = c
    BY <1>1, <1>2 DEF Whole
<1>4. disk \in Files /\ \A s \in D!Stores : disk[s] = {}
    BY <1>1 DEF Files
<1>5. op \in [Requests -> AtWork] /\ \A q \in Requests : op[q].kind = "idle"
    BY <1>1, IdleIs
<1>6. archives \subseteq D!Archives
    BY <1>1 DEF D!Parameters
<1>7. \A a \in archives, s \in D!Stores : a.files[s] \subseteq used
    BY <1>1
<1>8. used \subseteq FileNames
    <2>1. \A a \in OldArchives, s \in D!Stores : a.files[s] \subseteq FileNames
        BY <1>1, <1>6, ArchiveIs
    <2> QED
        BY <1>1, <2>1
<1>9. Settled(db, disk, used)
    BY <1>2, <1>3, <1>4 DEF Settled
<1>10. Traffic(op, db, disk, used)
    BY <1>5 DEF Traffic
<1>11. \A x \in archives : (x \in OldArchives \/ x.whole)
           /\ (x.whole => D!Complete(x) /\ \A s \in D!Stores : x.files[s] \subseteq used)
    BY <1>1, <1>7 DEF D!Parameters
<1>12. Kept(op, db, disk, archives, used)
    BY <1>5, <1>9, <1>10, <1>11 DEF Kept
<1> QED
    BY <1>1, <1>3, <1>4, <1>5, <1>6, <1>8, <1>12 DEF BackupInv, BackupTypes

LEMMA BackupStep ==
    ASSUME D!Parameters, BackupInv, [D!Next]_D!vars
    PROVE  BackupInv'
<1>1. ASSUME NEW r \in Requests, D!BeginRestore(r) PROVE BackupInv'
    BY <1>1, BeginningRestore
<1>2. ASSUME NEW r \in Requests, D!RestoreStep(r) PROVE BackupInv'
    BY <1>2, RestoreSteps
<1>3. ASSUME NEW r \in Requests, D!Refuse(r) PROVE BackupInv'
    BY <1>3, RefusingArchive
<1>4. ASSUME NEW r \in Requests, D!StepFails(r) PROVE BackupInv'
    BY <1>4, Failing
<1>5. ASSUME NEW r \in Requests, D!EndRestore(r) PROVE BackupInv'
    BY <1>5, EndingRestore
<1>6. ASSUME NEW r \in Requests, D!BeginDownload(r) PROVE BackupInv'
    BY <1>6, BeginningDownload
<1>7. ASSUME NEW r \in Requests, D!DumpDatabase(r) PROVE BackupInv'
    BY <1>7, Dumping
<1>8. ASSUME NEW r \in Requests, D!SendFiles(r) PROVE BackupInv'
    BY <1>8, SendingFiles
<1>9. ASSUME NEW r \in Requests, NEW s \in D!Stores, D!BeginUpload(r, s) PROVE BackupInv'
    BY <1>9, BeginningUpload
<1>10. ASSUME NEW r \in Requests, D!SaveRow(r) PROVE BackupInv'
    BY <1>10, SavingRow
<1>11. ASSUME NEW r \in Requests, D!UploadRefused(r) PROVE BackupInv'
    BY <1>11, RefusingUpload
<1>12. CASE UNCHANGED D!vars
    BY <1>12 DEF D!vars, BackupInv, BackupTypes
<1> QED
    BY <1>1, <1>2, <1>3, <1>4, <1>5, <1>6, <1>7, <1>8, <1>9, <1>10, <1>11, <1>12 DEF D!Next

LEMMA BackupsKeep ==
    ASSUME D!Parameters, BackupInv
    PROVE  D!AllOrNothing /\ D!NamedFilesExist /\ D!ArchivesComplete
<1>1. broken \in BOOLEAN
    BY DEF BackupInv, BackupTypes
<1>2. D!AllOrNothing
    BY <1>1, StagesAre, RestoreEnded DEF D!AllOrNothing
<1>3. D!NamedFilesExist
    <2> SUFFICES ASSUME \A q \in Requests : op[q].kind # "restore", ~broken
                 PROVE  db # <<>> /\ \A s \in D!Stores : db[1].names[s] \subseteq disk[s]
        BY DEF D!NamedFilesExist
    <2>1. Settled(db, disk, used) /\ db \in Whole
        BY <1>1, Quiet
    <2> QED
        BY <2>1 DEF Settled, Whole
<1>4. D!ArchivesComplete
    BY <1>1, ArchivesKept DEF D!ArchivesComplete
<1> QED
    BY <1>2, <1>3, <1>4

-----------------------------------------------------------------------------
(* Attendance: the editor.                                                 *)

Marks == EditedMonth.statuses \cup {""}
Saves == 1 .. EditedMonth.saves
Changes == UNION {[ds -> Marks] : ds \in SUBSET A!Days}
SaveRequest ==
    [wanted : Changes, entries : SUBSET A!Days, day : Int, found : Int, removals : SUBSET A!Days]
SheetState ==
    [committed : [A!Days -> Marks], pending : Changes, phase : {"open", "saving", "failed", "saved"},
     unsure : SUBSET A!Days, save : 0 .. EditedMonth.saves, request : [Saves -> SaveRequest]]

\* A request stores what is wanted of the days it still has to do.
Sensible(q) ==
    /\ q.day # 0 => q.day \in q.entries
    /\ \A d \in q.entries : d \in DOMAIN q.wanted /\ q.wanted[d] # ""
    /\ \A d \in q.removals : d \in DOMAIN q.wanted /\ q.wanted[d] = ""

\* While a save is under way, a day it is done with is as wanted, and only on
\* days that are unsure are requests of earlier saves at work.
Stored(w, r) ==
    w.phase \in {"saving", "saved"} =>
        /\ w.save \in Saves
        /\ \A d \in DOMAIN A!Latest(w).wanted \ w.unsure :
              d \in A!Open(A!Latest(w)) \/ r[d] = A!Latest(w).wanted[d]
        /\ \A n \in Saves : n < w.save => A!Open(w.request[n]) \subseteq w.unsure
        /\ w.phase = "saved" => A!Open(A!Latest(w)) = {}

SheetInv ==
    /\ attended \in [A!Days -> Marks]
    /\ rowId = [d \in A!Days |-> rowId[d]] /\ \A d \in A!Days : rowId[d] \in Int
    /\ sheet \in [EditedMonth.editors -> SheetState]
    /\ \A e \in EditedMonth.editors : \A n \in Saves : Sensible(sheet[e].request[n])
    /\ \A e \in EditedMonth.editors : EditedMonth.editors = {e} => Stored(sheet[e], attended)

LEMMA SheetIs ==
    ASSUME A!Parameters, SheetInv, NEW e \in EditedMonth.editors
    PROVE  /\ sheet[e] \in SheetState
           /\ sheet[e].save \in Int /\ EditedMonth.saves \in Nat
           /\ sheet[e].request \in [Saves -> SaveRequest]
           /\ \A n \in Saves : sheet[e].request[n] \in SaveRequest /\ Sensible(sheet[e].request[n])
           /\ \A n : n \in 1 .. sheet[e].save => n \in Saves
<1>1. sheet[e] \in SheetState
    BY DEF SheetInv
<1>2. sheet[e].save \in 0 .. EditedMonth.saves /\ sheet[e].request \in [Saves -> SaveRequest]
    BY <1>1 DEF SheetState
<1>3. EditedMonth.saves \in Nat
    BY DEF A!Parameters
<1>4. \A n : n \in 1 .. sheet[e].save => n \in Saves
    BY <1>2, <1>3 DEF Saves
<1> QED
    BY <1>1, <1>2, <1>3, <1>4 DEF SheetInv

\* One sheet changes, and its rows.
LEMMA SheetChanges ==
    ASSUME SheetInv, NEW e \in EditedMonth.editors, NEW w \in SheetState,
           sheet' = [sheet EXCEPT ![e] = w], attended' \in [A!Days -> Marks],
           rowId' = [d \in A!Days |-> rowId'[d]], \A d \in A!Days : rowId'[d] \in Int,
           \A n \in Saves : Sensible(w.request[n]),
           EditedMonth.editors = {e} => Stored(w, attended')
    PROVE  SheetInv'
<1>1. sheet' \in [EditedMonth.editors -> SheetState]
    BY DEF SheetInv
<1>2. /\ sheet'[e] = w
      /\ \A f \in EditedMonth.editors \ {e} : sheet'[f] = sheet[f]
    BY DEF SheetInv
<1>3. \A f \in EditedMonth.editors : \A n \in Saves : Sensible(sheet'[f].request[n])
    BY <1>2 DEF SheetInv
<1>4. \A f \in EditedMonth.editors : EditedMonth.editors = {f} => Stored(sheet'[f], attended')
    BY <1>2
<1> QED
    BY <1>1, <1>3, <1>4 DEF SheetInv

\* The server goes on with request n: it does some of the days, or fails.
Goes(w, v, n) ==
    /\ v.save = w.save /\ v.unsure = w.unsure
    /\ v.phase = w.phase \/ v.phase = "failed"
    /\ \A m \in Saves : m # n => v.request[m] = w.request[m]
    /\ v.request[n].wanted = w.request[n].wanted
    /\ A!Open(v.request[n]) \subseteq A!Open(w.request[n])

LEMMA ServeKeeps ==
    ASSUME A!Parameters, SheetInv, NEW e \in EditedMonth.editors, NEW n \in 1 .. sheet[e].save,
           NEW v \in SheetState, Goes(sheet[e], v, n), Sensible(v.request[n]),
           sheet' = [sheet EXCEPT ![e] = v], attended' \in [A!Days -> Marks],
           rowId' = [d \in A!Days |-> rowId'[d]], \A d \in A!Days : rowId'[d] \in Int,
           \A d \in A!Days \ A!Open(sheet[e].request[n]) : attended'[d] = attended[d],
           \/ n # sheet[e].save
           \/ v.phase = "failed"
           \/ \A d \in A!Open(sheet[e].request[n]) \ A!Open(v.request[n]) :
                 attended'[d] = sheet[e].request[n].wanted[d]
    PROVE  SheetInv'
<1> DEFINE w == sheet[e]
<1>1. /\ w \in SheetState /\ w.save \in Int /\ n \in Saves
      /\ \A m \in Saves : w.request[m] \in SaveRequest /\ Sensible(w.request[m])
    BY SheetIs
<1>2. \A m \in Saves : Sensible(v.request[m])
    BY <1>1 DEF Goes
<1>3. ASSUME EditedMonth.editors = {e} PROVE Stored(v, attended')
    <2>1. Stored(w, attended)
        BY <1>3 DEF SheetInv
    <2> SUFFICES ASSUME v.phase \in {"saving", "saved"} PROVE
            /\ v.save \in Saves
            /\ \A d \in DOMAIN A!Latest(v).wanted \ v.unsure :
                  d \in A!Open(A!Latest(v)) \/ attended'[d] = A!Latest(v).wanted[d]
            /\ \A m \in Saves : m < v.save => A!Open(v.request[m]) \subseteq v.unsure
            /\ v.phase = "saved" => A!Open(A!Latest(v)) = {}
        BY DEF Stored
    <2>2. /\ w.phase = v.phase /\ w.save \in Saves /\ v.save = w.save /\ v.unsure = w.unsure
          /\ \A m \in Saves : m < w.save => A!Open(w.request[m]) \subseteq w.unsure
          /\ w.phase = "saved" => A!Open(w.request[w.save]) = {}
          /\ \A d \in DOMAIN w.request[w.save].wanted \ w.unsure :
               d \in A!Open(w.request[w.save]) \/ attended[d] = w.request[w.save].wanted[d]
        BY <2>1 DEF Stored, Goes, A!Latest
    <2>3. \A m \in Saves : /\ A!Open(v.request[m]) \subseteq A!Open(w.request[m])
                           /\ v.request[m].wanted = w.request[m].wanted
                           /\ m # n => v.request[m] = w.request[m]
        BY DEF Goes
    <2>4. \A m \in Saves : m < v.save => A!Open(v.request[m]) \subseteq v.unsure
        BY <2>2, <2>3
    <2>5. v.phase = "saved" => A!Open(v.request[v.save]) = {}
        BY <2>2, <2>3
    <2>6. ASSUME NEW d \in DOMAIN v.request[v.save].wanted \ v.unsure
          PROVE  d \in A!Open(v.request[v.save]) \/ attended'[d] = v.request[v.save].wanted[d]
        <3>1. d \in DOMAIN w.request[w.save].wanted /\ d \notin w.unsure /\ d \in A!Days
            <4>1. v.save = w.save /\ v.unsure = w.unsure
                BY <2>2
            <4>2. v.request[w.save].wanted = w.request[w.save].wanted
                BY <2>2, <2>3
            <4>3. d \in DOMAIN w.request[w.save].wanted /\ d \notin w.unsure
                BY <2>6, <4>1, <4>2
            <4>4. w.request[w.save].wanted \in Changes
                BY <1>1, <2>2 DEF SaveRequest
            <4> QED
                BY <4>3, <4>4 DEF Changes
        <3>2. CASE n = w.save
            <4>1. d \in A!Open(w.request[n]) \/ attended[d] = w.request[n].wanted[d]
                BY <2>2, <3>1, <3>2
            <4>2. d \notin A!Open(w.request[n]) => attended'[d] = attended[d]
                BY <3>1
            <4>3. d \in A!Open(w.request[n]) \ A!Open(v.request[n]) =>
                    attended'[d] = w.request[n].wanted[d]
                BY <3>2
            <4>4. v.save = n /\ v.request[n].wanted = w.request[n].wanted
                BY <2>2, <2>3, <3>2
            <4> QED
                BY <4>1, <4>2, <4>3, <4>4
        <3>3. CASE n # w.save
            <4>1. n < w.save
                BY <1>1, <3>3
            <4>2. d \notin A!Open(w.request[n])
                BY <1>1, <2>2, <3>1, <4>1
            <4> QED
                BY <2>2, <2>3, <3>1, <3>3, <4>2
        <3> QED
            BY <3>2, <3>3
    <2> QED
        BY <2>2, <2>4, <2>5, <2>6 DEF A!Latest
<1> QED
    BY <1>2, <1>3, SheetChanges

\* Nothing on the server changes while a sheet does.
LEMMA SheetOnly ==
    ASSUME A!Parameters, SheetInv, NEW e \in EditedMonth.editors, NEW w \in SheetState,
           A!Put(e, w), UNCHANGED <<attended, rowId>>,
           \A n \in Saves : Sensible(w.request[n]),
           EditedMonth.editors = {e} => Stored(w, attended)
    PROVE  SheetInv'
BY SheetChanges DEF A!Put, SheetInv

LEMMA ChangesAre ==
    ASSUME NEW f \in Changes
    PROVE  /\ DOMAIN f \subseteq A!Days /\ \A d \in DOMAIN f : f[d] \in Marks
           /\ \A d : A!Without(f, d) \in Changes
           /\ \A d \in A!Days, v \in Marks : A!With(f, d, v) \in Changes
<1>1. PICK ds \in SUBSET A!Days : f \in [ds -> Marks]
    BY DEF Changes
<1>2. ASSUME NEW d PROVE A!Without(f, d) \in Changes
    <2>1. A!Without(f, d) \in [ds \ {d} -> Marks]
        BY <1>1 DEF A!Without
    <2> QED
        BY <2>1 DEF Changes
<1>3. ASSUME NEW d \in A!Days, NEW v \in Marks PROVE A!With(f, d, v) \in Changes
    <2>1. A!With(f, d, v) \in [ds \cup {d} -> Marks] /\ ds \cup {d} \in SUBSET A!Days
        BY <1>1 DEF A!With
    <2> QED
        BY <2>1 DEF Changes
<1> QED
    BY <1>1, <1>2, <1>3

LEMMA NoChangeIs == A!NoChange \in Changes /\ DOMAIN A!NoChange = {}
<1>1. A!NoChange \in [{} -> Marks] /\ {} \in SUBSET A!Days
    BY DEF A!NoChange
<1> QED
    BY <1>1 DEF A!NoChange, Changes

LEMMA NoRequestIs == A!NoRequest \in SaveRequest /\ Sensible(A!NoRequest) /\ A!Open(A!NoRequest) = {}
BY NoChangeIs DEF A!NoRequest, SaveRequest, Sensible, A!Open

LEMMA ChangeKeeps ==
    ASSUME A!Parameters, SheetInv, NEW e \in EditedMonth.editors, NEW d \in A!Shown, NEW v \in Marks,
           A!Change(e, d, v)
    PROVE  SheetInv'
<1> DEFINE w == sheet[e]
           pending == IF v = w.committed[d] THEN A!Without(w.pending, d) ELSE A!With(w.pending, d, v)
           u == [w EXCEPT !.phase = "open", !.pending = pending]
<1>1. A!Put(e, u) /\ UNCHANGED <<attended, rowId>>
    BY DEF A!Change
<1>2. w \in SheetState /\ d \in A!Days
    BY SheetIs DEF A!Shown, A!Eligible
<1>3. pending \in Changes
    BY <1>2, ChangesAre DEF SheetState
<1> HIDE DEF pending
<1>4. u \in SheetState /\ u.phase = "open" /\ u.request = w.request
    BY <1>2, <1>3 DEF SheetState
<1>5. \A n \in Saves : Sensible(u.request[n])
    BY <1>4, SheetIs
<1>6. Stored(u, attended)
    BY <1>4 DEF Stored
<1> HIDE DEF u
<1> QED
    BY <1>1, <1>4, <1>5, <1>6, SheetOnly

LEMMA SaveKeeps ==
    ASSUME A!Parameters, SheetInv, NEW e \in EditedMonth.editors, A!Save(e)
    PROVE  SheetInv'
<1> DEFINE w == sheet[e]
           m == w.save + 1
           entries == {d \in DOMAIN w.pending : w.pending[d] # ""}
           q == [A!NoRequest EXCEPT !.wanted = w.pending, !.entries = entries,
                                    !.removals = DOMAIN w.pending \ entries]
           unsure == UNION {A!Open(w.request[n]) : n \in 1 .. w.save}
           u == [w EXCEPT !.phase = "saving", !.save = @ + 1, !.request[w.save + 1] = q, !.unsure = unsure]
<1>1. A!Put(e, u) /\ UNCHANGED <<attended, rowId>> /\ w.save < EditedMonth.saves
    BY DEF A!Save
<1>2. /\ w \in SheetState /\ w.save \in Int /\ w.request \in [Saves -> SaveRequest]
      /\ EditedMonth.saves \in Nat /\ \A n : n \in 1 .. w.save => n \in Saves
      /\ \A n \in Saves : w.request[n] \in SaveRequest /\ Sensible(w.request[n])
    BY SheetIs
<1>3. w.save \in Nat /\ m \in Saves
    BY <1>1, <1>2 DEF SheetState, Saves
<1>4. w.pending \in Changes /\ DOMAIN w.pending \subseteq A!Days
    BY <1>2, ChangesAre DEF SheetState
<1>5. /\ q \in SaveRequest /\ q.wanted = w.pending /\ A!Open(q) = DOMAIN w.pending
      /\ q.day = 0 /\ q.entries = entries /\ q.removals = DOMAIN w.pending \ entries
    BY <1>4, NoRequestIs DEF A!NoRequest, SaveRequest, A!Open
<1>6. Sensible(q)
    BY <1>5 DEF Sensible
<1>7. unsure \subseteq A!Days
    BY <1>2 DEF SaveRequest, A!Open
<1> HIDE DEF unsure, q, entries
<1>8. /\ u \in SheetState /\ u.phase = "saving" /\ u.save = m /\ u.unsure = unsure
      /\ u.request = [w.request EXCEPT ![m] = q]
    <2> DEFINE r == [w.request EXCEPT ![m] = q]
               u1 == [w EXCEPT !.phase = "saving", !.save = @ + 1]
               u2 == [u1 EXCEPT !.request[m] = q]
    <2>1. r \in [Saves -> SaveRequest]
        BY <1>2, <1>3, <1>5
    <2>0. m \in 0 .. EditedMonth.saves
        BY <1>2, <1>3 DEF Saves
    <2>5. w \in SheetState
        BY <1>2
    <2> HIDE DEF w
    <2>2. /\ u1 \in SheetState /\ u1.phase = "saving" /\ u1.save = m
          /\ u1.request = w.request
        BY <2>0, <2>5 DEF SheetState
    <2> HIDE DEF u1
    <2>3. u2 \in SheetState /\ u2.phase = "saving" /\ u2.save = m /\ u2.request = r
        BY <2>1, <2>2 DEF SheetState
    <2> HIDE DEF u2, r
    <2>4. u = [u2 EXCEPT !.unsure = unsure]
        BY DEF u2, u1
    <2> HIDE DEF u
    <2> QED
        BY <1>7, <2>3, <2>4 DEF SheetState, r
<1>9. u.request[m] = q /\ \A n \in Saves : n # m => u.request[n] = w.request[n]
    BY <1>2, <1>3, <1>8
<1> HIDE DEF u
<1>10. \A n \in Saves : Sensible(u.request[n])
    BY <1>2, <1>6, <1>9
<1>11. \A n \in Saves : n < u.save => A!Open(u.request[n]) \subseteq u.unsure
    BY <1>2, <1>3, <1>8, <1>9 DEF unsure, Saves
<1>12. Stored(u, attended)
    BY <1>3, <1>5, <1>8, <1>9, <1>11 DEF Stored, A!Latest
<1> QED
    BY <1>1, <1>8, <1>10, <1>12, SheetOnly

LEMMA SavedKeeps ==
    ASSUME A!Parameters, SheetInv, NEW e \in EditedMonth.editors, A!Saved(e)
    PROVE  SheetInv'
<1> DEFINE w == sheet[e]
<1>1. PICK committed \in {attended, w.committed} :
          A!Put(e, [w EXCEPT !.phase = "saved", !.pending = A!NoChange, !.committed = committed])
    BY DEF A!Saved
<1> DEFINE u == [w EXCEPT !.phase = "saved", !.pending = A!NoChange, !.committed = committed]
<1>2. w.phase = "saving" /\ A!Open(A!Latest(w)) = {} /\ UNCHANGED <<attended, rowId>>
    BY DEF A!Saved
<1>3. w \in SheetState /\ attended \in [A!Days -> Marks]
    BY SheetIs DEF SheetInv
<1>4. committed \in [A!Days -> Marks]
    BY <1>3 DEF SheetState
<1>5. /\ u \in SheetState /\ u.phase = "saved" /\ u.request = w.request
      /\ u.save = w.save /\ u.unsure = w.unsure
    BY <1>3, <1>4, NoChangeIs DEF SheetState
<1>6. \A n \in Saves : Sensible(u.request[n])
    BY <1>5, SheetIs
<1>7. EditedMonth.editors = {e} => Stored(u, attended)
    BY <1>2, <1>5 DEF Stored, SheetInv, A!Latest
<1> HIDE DEF u
<1> QED
    BY <1>1, <1>2, <1>5, <1>6, <1>7, SheetOnly DEF u

LEMMA RefetchKeeps ==
    ASSUME A!Parameters, SheetInv, NEW e \in EditedMonth.editors, A!Refetch(e)
    PROVE  SheetInv'
<1> DEFINE w == sheet[e]
           u == [w EXCEPT !.committed = attended]
<1>1. A!Put(e, u) /\ UNCHANGED <<attended, rowId>>
    BY DEF A!Refetch
<1>2. w \in SheetState /\ attended \in [A!Days -> Marks]
    BY SheetIs DEF SheetInv
<1>3. /\ u \in SheetState /\ u.phase = w.phase /\ u.request = w.request
      /\ u.save = w.save /\ u.unsure = w.unsure
    BY <1>2 DEF SheetState
<1>4. \A n \in Saves : Sensible(u.request[n])
    BY <1>3, SheetIs
<1>5. EditedMonth.editors = {e} => Stored(u, attended)
    BY <1>3 DEF Stored, SheetInv, A!Latest
<1> HIDE DEF u
<1> QED
    BY <1>1, <1>3, <1>4, <1>5, SheetOnly

LEMMA LostKeeps ==
    ASSUME A!Parameters, SheetInv, NEW e \in EditedMonth.editors, A!AnswerLost(e)
    PROVE  SheetInv'
<1> DEFINE w == sheet[e]
           u == [w EXCEPT !.phase = "failed"]
<1>1. A!Put(e, u) /\ UNCHANGED <<attended, rowId>>
    BY DEF A!AnswerLost
<1>2. w \in SheetState
    BY SheetIs
<1>3. u \in SheetState /\ u.phase = "failed" /\ u.request = w.request
    BY <1>2 DEF SheetState
<1>4. \A n \in Saves : Sensible(u.request[n])
    BY <1>3, SheetIs
<1>5. Stored(u, attended)
    BY <1>3 DEF Stored
<1> HIDE DEF u
<1> QED
    BY <1>1, <1>3, <1>4, <1>5, SheetOnly

\* Request n of a sheet becomes q.
Asks(w, n, q) == [w EXCEPT !.request = [w.request EXCEPT ![n] = q]]

LEMMA AsksIs ==
    ASSUME NEW w \in SheetState, NEW n \in Saves, NEW q \in SaveRequest
    PROVE  /\ Asks(w, n, q) \in SheetState
           /\ Asks(w, n, q).request \in [Saves -> SaveRequest]
           /\ Asks(w, n, q).request[n] = q
           /\ \A m \in Saves : m # n => Asks(w, n, q).request[m] = w.request[m]
           /\ Asks(w, n, q).phase = w.phase /\ Asks(w, n, q).save = w.save
           /\ Asks(w, n, q).unsure = w.unsure
<1> DEFINE r == [w.request EXCEPT ![n] = q]
<1>1. /\ r \in [Saves -> SaveRequest] /\ r[n] = q
      /\ \A m \in Saves : m # n => r[m] = w.request[m]
    BY DEF SheetState
<1>2. Asks(w, n, q) = [w EXCEPT !.request = r]
    BY DEF Asks
<1> HIDE DEF r
<1> QED
    BY <1>1, <1>2 DEF SheetState

\* The sheet as the answer leaves it.
LEMMA RejectedIs ==
    ASSUME NEW w \in SheetState, NEW n
    PROVE  /\ A!Rejected(w, n) \in SheetState
           /\ A!Rejected(w, n).request = w.request
           /\ A!Rejected(w, n).phase = (IF n = w.save THEN "failed" ELSE w.phase)
           /\ A!Rejected(w, n).save = w.save /\ A!Rejected(w, n).unsure = w.unsure
BY DEF A!Rejected, SheetState

LEMMA FindKeeps ==
    ASSUME A!Parameters, SheetInv, NEW e \in EditedMonth.editors, NEW n \in 1 .. sheet[e].save,
           A!Find(e, n)
    PROVE  SheetInv'
<1> DEFINE w == sheet[e]
<1>1. PICK d \in w.request[n].entries :
          A!Put(e, [w EXCEPT !.request[n].day = d,
                             !.request[n].found = IF attended[d] = "" THEN 0 ELSE rowId[d]])
    BY DEF A!Find
<1> DEFINE found == IF attended[d] = "" THEN 0 ELSE rowId[d]
           q == [w.request[n] EXCEPT !.day = d, !.found = found]
           u == Asks(w, n, q)
<1>2. /\ w \in SheetState /\ n \in Saves
      /\ w.request[n] \in SaveRequest /\ Sensible(w.request[n])
    BY SheetIs
<1>3. d \in A!Days /\ d \in Int
    BY <1>2 DEF SaveRequest, A!Days
<1>10. rowId[d] \in Int
    BY <1>3 DEF SheetInv
<1>4. found \in Int
    <2>1. 0 \in Int
        OBVIOUS
    <2> QED
        BY <1>10, <2>1, Zenon
<1> HIDE DEF found
<1>5. /\ q \in SaveRequest /\ q.wanted = w.request[n].wanted
      /\ q.entries = w.request[n].entries /\ q.removals = w.request[n].removals /\ q.day = d
    BY <1>2, <1>3, <1>4 DEF SaveRequest
<1>6. Sensible(q) /\ A!Open(q) = A!Open(w.request[n])
    BY <1>2, <1>5 DEF Sensible, A!Open
<1>7. A!Put(e, u)
    BY <1>1 DEF Asks, found
<1> HIDE DEF q
<1>8. u \in SheetState /\ Goes(w, u, n) /\ u.request[n] = q
    BY <1>2, <1>5, <1>6, AsksIs DEF Goes
<1> HIDE DEF u
<1>9. UNCHANGED <<attended, rowId>>
    BY DEF A!Find
<1> QED
    BY <1>6, <1>7, <1>8, <1>9, ServeKeeps DEF A!Put, SheetInv

\* A request less an entry, less all its entries, less a removal.
EntryDone(q, d) == [q EXCEPT !.entries = @ \ {d}, !.day = 0]
EntriesEnded(q) == [q EXCEPT !.entries = {}, !.day = 0]
RemovalDone(q, d) == [q EXCEPT !.removals = @ \ {d}]

LEMMA EmptiesInto ==
    ASSUME NEW q \in SaveRequest, NEW es \in SUBSET A!Days
    PROVE  LET p == [q EXCEPT !.entries = es, !.day = 0]
           IN  /\ p \in SaveRequest /\ p.wanted = q.wanted /\ p.removals = q.removals
               /\ p.entries = es /\ p.day = 0
<1> DEFINE q1 == [q EXCEPT !.entries = es]
           p == [q1 EXCEPT !.day = 0]
<1>1. /\ q1 \in SaveRequest /\ q1.wanted = q.wanted /\ q1.removals = q.removals
      /\ q1.entries = es
    BY DEF SaveRequest
<1>2. p = [q EXCEPT !.entries = es, !.day = 0]
    OBVIOUS
<1> HIDE DEF q1
<1>3. /\ p \in SaveRequest /\ p.wanted = q.wanted /\ p.removals = q.removals
      /\ p.entries = es /\ p.day = 0
    BY <1>1 DEF SaveRequest
<1> QED
    BY <1>2, <1>3

LEMMA LessIs ==
    ASSUME NEW q \in SaveRequest, Sensible(q), NEW d,
           NEW p \in {EntryDone(q, d), EntriesEnded(q), RemovalDone(q, d)}
    PROVE  /\ p \in SaveRequest /\ Sensible(p) /\ p.wanted = q.wanted
           /\ A!Open(p) \subseteq A!Open(q)
           /\ p \in {EntryDone(q, d), RemovalDone(q, d)} => A!Open(q) \ {d} \subseteq A!Open(p)
<1> DEFINE es == q.entries \ {d}
           rs == q.removals \ {d}
<1>0. q.entries \in SUBSET A!Days /\ q.removals \in SUBSET A!Days
    BY DEF SaveRequest
<1>1. es \in SUBSET A!Days /\ rs \in SUBSET A!Days /\ es \subseteq q.entries /\ rs \subseteq q.removals
      /\ q.entries \ {d} \subseteq es /\ q.removals \ {d} \subseteq rs /\ d \notin es
    BY <1>0
<1>2. /\ EntryDone(q, d) = [q EXCEPT !.entries = es, !.day = 0]
      /\ RemovalDone(q, d) = [q EXCEPT !.removals = rs]
    BY DEF EntryDone, RemovalDone
<1> HIDE DEF es, rs
<1>3. CASE p = EntryDone(q, d)
    <2>1. /\ p \in SaveRequest /\ p.wanted = q.wanted /\ p.removals = q.removals
          /\ p.entries = es /\ p.day = 0
        <3>1. LET r == [q EXCEPT !.entries = es, !.day = 0]
              IN  /\ r \in SaveRequest /\ r.wanted = q.wanted /\ r.removals = q.removals
                  /\ r.entries = es /\ r.day = 0
            BY <1>1, EmptiesInto
        <3> QED
            BY <1>2, <1>3, <3>1, Zenon
    <2> QED
        BY <1>1, <2>1 DEF Sensible, A!Open
<1>5. CASE p = RemovalDone(q, d)
    <2>1. /\ p \in SaveRequest /\ p.wanted = q.wanted /\ p.removals = rs
          /\ p.entries = q.entries /\ p.day = q.day
        BY <1>1, <1>2, <1>5 DEF SaveRequest
    <2> QED
        BY <1>1, <2>1 DEF Sensible, A!Open
<1>4. CASE p = EntriesEnded(q)
    <2>1. /\ p \in SaveRequest /\ p.wanted = q.wanted /\ p.removals = q.removals
          /\ p.entries = {} /\ p.day = 0
        BY <1>4, EmptiesInto DEF EntriesEnded
    <2>2. p \in {EntryDone(q, d), RemovalDone(q, d)} => A!Open(q) \ {d} \subseteq A!Open(p)
        BY <1>3, <1>5
    <2> QED
        BY <1>4, <2>1, <2>2 DEF Sensible, A!Open
<1> QED
    BY <1>3, <1>4, <1>5

\* The bulk request ends with an error.
LEMMA EndedKeeps ==
    ASSUME A!Parameters, SheetInv, NEW e \in EditedMonth.editors, NEW n \in 1 .. sheet[e].save,
           A!Put(e, A!Rejected(A!Ended(e, n), n)), UNCHANGED <<attended, rowId>>
    PROVE  SheetInv'
<1> DEFINE w == sheet[e]
           p == EntriesEnded(w.request[n])
           v == Asks(w, n, p)
           u == A!Rejected(v, n)
<1>1. w \in SheetState /\ n \in Saves
    BY SheetIs
<1>0. w.request[n] \in SaveRequest /\ Sensible(w.request[n])
    BY <1>1, SheetIs
<1>8. A!Ended(e, n) = v
    BY DEF A!Ended, Asks, EntriesEnded
<1> HIDE DEF p
<1>2. /\ p \in SaveRequest /\ Sensible(p)
      /\ p.wanted = w.request[n].wanted /\ A!Open(p) \subseteq A!Open(w.request[n])
    BY <1>0, LessIs DEF p
<1> HIDE DEF w
<1>3. /\ v \in SheetState /\ v.request[n] = p
      /\ \A m \in Saves : m # n => v.request[m] = w.request[m]
      /\ v.phase = w.phase /\ v.save = w.save /\ v.unsure = w.unsure
    BY <1>1, <1>2, AsksIs
<1> HIDE DEF v
<1>4. /\ u \in SheetState /\ u.request = v.request
      /\ u.phase = (IF n = v.save THEN "failed" ELSE v.phase)
      /\ u.save = v.save /\ u.unsure = v.unsure
    BY <1>3, RejectedIs
<1> HIDE DEF u
<1>5. Goes(w, u, n) /\ Sensible(u.request[n])
    BY <1>2, <1>3, <1>4 DEF Goes
<1>6. n # w.save \/ u.phase = "failed"
    BY <1>3, <1>4
<1>7. A!Put(e, u)
    BY <1>8 DEF u
<1>9. /\ attended' = attended /\ attended' \in [A!Days -> Marks]
      /\ rowId' = [x \in A!Days |-> rowId'[x]] /\ \A x \in A!Days : rowId'[x] \in Int
    BY DEF SheetInv
<1> QED
    BY <1>4, <1>5, <1>6, <1>7, <1>9, ServeKeeps DEF A!Put, w

LEMMA StoreKeeps ==
    ASSUME A!Parameters, SheetInv, NEW e \in EditedMonth.editors, NEW n \in 1 .. sheet[e].save,
           A!Store(e, n)
    PROVE  SheetInv'
<1> DEFINE w == sheet[e]
           d == w.request[n].day
           there == attended[d] # "" /\ rowId[d] = w.request[n].found
<1>1. CASE attended[d] # "" /\ ~there
    BY <1>1, EndedKeeps DEF A!Store
<1>2. CASE ~(attended[d] # "" /\ ~there)
    <2>1. /\ d # 0
          /\ attended' = [attended EXCEPT ![d] = w.request[n].wanted[d]]
          /\ rowId' = (IF there THEN rowId ELSE [rowId EXCEPT ![d] = @ + 1])
          /\ A!Put(e, A!Done(e, n, d))
        BY <1>2 DEF A!Store
    <2> DEFINE q == EntryDone(w.request[n], d)
               u == Asks(w, n, q)
    <2>2. /\ w \in SheetState /\ n \in Saves
          /\ w.request[n] \in SaveRequest /\ Sensible(w.request[n])
        BY SheetIs
    <2>3. d \in w.request[n].entries /\ d \in DOMAIN w.request[n].wanted /\ d \in A!Days
        BY <2>1, <2>2 DEF Sensible, SaveRequest
    <2>4. w.request[n].wanted[d] \in Marks
        BY <2>2, <2>3, ChangesAre DEF SaveRequest
    <2>5. attended' \in [A!Days -> Marks] /\ attended'[d] = w.request[n].wanted[d]
          /\ \A x \in A!Days : x # d => attended'[x] = attended[x]
        BY <2>1, <2>3, <2>4 DEF SheetInv
    <2>6. rowId' = [x \in A!Days |-> rowId'[x]] /\ \A x \in A!Days : rowId'[x] \in Int
        <3>1. CASE there
            BY <2>1, <3>1 DEF SheetInv
        <3>2. CASE ~there
            <4>1. /\ rowId = [x \in A!Days |-> rowId[x]] /\ \A x \in A!Days : rowId[x] \in Int
                BY DEF SheetInv
            <4>2. rowId \in [A!Days -> Int]
                BY <4>1
            <4>3. rowId' = [rowId EXCEPT ![d] = @ + 1]
                BY <2>1, <3>2
            <4> HIDE DEF d, there, q, u
            <4>4. rowId' \in [A!Days -> Int]
                BY <2>3, <4>2, <4>3
            <4> QED
                BY <4>4
        <3> QED
            BY <3>1, <3>2
    <2>12. A!Done(e, n, d) = u
        BY DEF A!Done, Asks, EntryDone
    <2>7. /\ q \in SaveRequest /\ Sensible(q)
          /\ q.wanted = w.request[n].wanted /\ A!Open(q) \subseteq A!Open(w.request[n])
          /\ A!Open(w.request[n]) \ {d} \subseteq A!Open(q)
        BY <2>2, LessIs
    <2> HIDE DEF q
    <2>8. /\ u \in SheetState /\ u.request[n] = q /\ Goes(w, u, n)
        BY <2>2, <2>7, AsksIs DEF Goes
    <2>9. A!Put(e, u)
        BY <2>1, <2>12
    <2> HIDE DEF u
    <2>10. \A x \in A!Days \ A!Open(w.request[n]) : attended'[x] = attended[x]
        BY <2>3, <2>5 DEF A!Open
    <2>11. \A x \in A!Open(w.request[n]) \ A!Open(u.request[n]) :
               attended'[x] = w.request[n].wanted[x]
        BY <2>5, <2>7, <2>8
    <2> HIDE DEF w
    <2> QED
        BY <2>5, <2>6, <2>7, <2>8, <2>9, <2>10, <2>11, ServeKeeps DEF A!Put, w
<1> QED
    BY <1>1, <1>2

LEMMA RemoveKeeps ==
    ASSUME A!Parameters, SheetInv, NEW e \in EditedMonth.editors, NEW n \in 1 .. sheet[e].save,
           A!Remove(e, n)
    PROVE  SheetInv'
<1> DEFINE w == sheet[e]
<1>1. PICK d \in w.request[n].removals :
          /\ attended' = [attended EXCEPT ![d] = ""]
          /\ A!Put(e, [w EXCEPT !.request[n].removals = @ \ {d}])
    BY DEF A!Remove
<1> DEFINE q == RemovalDone(w.request[n], d)
           u == Asks(w, n, q)
<1>2. /\ w \in SheetState /\ n \in Saves
      /\ w.request[n] \in SaveRequest /\ Sensible(w.request[n])
    BY SheetIs
<1>3. w.request[n].wanted[d] = "" /\ d \in A!Days
    BY <1>2 DEF Sensible, SaveRequest
<1>4. attended' \in [A!Days -> Marks] /\ attended'[d] = ""
      /\ \A x \in A!Days : x # d => attended'[x] = attended[x]
    BY <1>1, <1>3 DEF SheetInv, Marks
<1>13. w.request[n] \in SaveRequest /\ Sensible(w.request[n])
    BY <1>2
<1>12. [w EXCEPT !.request[n].removals = @ \ {d}] = u
    BY DEF Asks, RemovalDone
<1>5. /\ q \in SaveRequest /\ Sensible(q) /\ q.wanted = w.request[n].wanted
      /\ A!Open(q) \subseteq A!Open(w.request[n])
      /\ A!Open(w.request[n]) \ {d} \subseteq A!Open(q)
    BY <1>13, LessIs DEF q
<1> HIDE DEF q
<1>6. u \in SheetState /\ u.request[n] = q /\ Goes(w, u, n)
    BY <1>2, <1>5, AsksIs DEF Goes
<1>7. A!Put(e, u)
    BY <1>1, <1>12
<1> HIDE DEF u
<1>8. \A x \in A!Days \ A!Open(w.request[n]) : attended'[x] = attended[x]
    BY <1>4 DEF A!Open
<1>9. \A x \in A!Open(w.request[n]) \ A!Open(u.request[n]) : attended'[x] = w.request[n].wanted[x]
    BY <1>3, <1>4, <1>5, <1>6
<1>10. rowId' = rowId
    BY DEF A!Remove
<1> HIDE DEF w
<1>11. rowId' = [x \in A!Days |-> rowId'[x]] /\ \A x \in A!Days : rowId'[x] \in Int
    BY <1>10 DEF SheetInv
<1> QED
    BY <1>4, <1>5, <1>6, <1>7, <1>8, <1>9, <1>11, ServeKeeps DEF A!Put, w

LEMMA RemoveFailsKeeps ==
    ASSUME A!Parameters, SheetInv, NEW e \in EditedMonth.editors, NEW n \in 1 .. sheet[e].save,
           A!RemoveFails(e, n)
    PROVE  SheetInv'
<1> DEFINE w == sheet[e]
<1>1. PICK d \in w.request[n].removals :
          A!Put(e, A!Rejected([w EXCEPT !.request[n].removals = @ \ {d}], n))
    BY DEF A!RemoveFails
<1> DEFINE q == RemovalDone(w.request[n], d)
           v == Asks(w, n, q)
           u == A!Rejected(v, n)
<1>2. w \in SheetState /\ n \in Saves
    BY SheetIs
<1>13. w.request[n] \in SaveRequest /\ Sensible(w.request[n])
    BY <1>2, SheetIs
<1>12. [w EXCEPT !.request[n].removals = @ \ {d}] = v
    BY DEF Asks, RemovalDone
<1>3. /\ q \in SaveRequest /\ Sensible(q) /\ q.wanted = w.request[n].wanted
      /\ A!Open(q) \subseteq A!Open(w.request[n])
    BY <1>13, LessIs DEF q
<1>4. A!Put(e, u) /\ UNCHANGED <<attended, rowId>>
    BY <1>1, <1>12 DEF A!RemoveFails
<1> HIDE DEF q, w
<1>5. /\ v \in SheetState /\ v.request[n] = q
      /\ \A m \in Saves : m # n => v.request[m] = w.request[m]
      /\ v.phase = w.phase /\ v.save = w.save /\ v.unsure = w.unsure
    BY <1>2, <1>3, AsksIs
<1> HIDE DEF v
<1>6. /\ u \in SheetState /\ u.request = v.request
      /\ u.phase = (IF n = v.save THEN "failed" ELSE v.phase)
      /\ u.save = v.save /\ u.unsure = v.unsure
    BY <1>5, RejectedIs
<1> HIDE DEF u
<1>7. Goes(w, u, n) /\ Sensible(u.request[n])
    BY <1>3, <1>5, <1>6 DEF Goes
<1>8. n # w.save \/ u.phase = "failed"
    BY <1>5, <1>6
<1> QED
    BY <1>4, <1>6, <1>7, <1>8, ServeKeeps DEF A!Put, SheetInv, w

LEMMA SheetInit == ASSUME A!Parameters, A!Init PROVE SheetInv
<1> DEFINE r == [n \in Saves |-> A!NoRequest]
           o == A!Opened
<1>1. attended \in [A!Days -> Marks]
    BY DEF A!Init, Marks
<1>2. rowId = [d \in A!Days |-> rowId[d]] /\ \A d \in A!Days : rowId[d] \in Int
    <2>1. \A d \in A!Days : (IF attended[d] = "" THEN 0 ELSE 1) \in Int
        <3>1. 0 \in Int /\ 1 \in Int
            OBVIOUS
        <3> QED
            BY <3>1, Zenon
    <2>2. rowId = [d \in A!Days |-> IF attended[d] = "" THEN 0 ELSE 1]
        BY DEF A!Init
    <2> QED
        BY <2>1, <2>2, Zenon
<1>3. r \in [Saves -> SaveRequest] /\ \A n \in Saves : Sensible(r[n])
    BY NoRequestIs
<1>4. o = [committed |-> attended, pending |-> A!NoChange, phase |-> "open", unsure |-> {},
           save |-> 0, request |-> r]
    BY DEF A!Opened, Saves
<1>5. 0 \in 0 .. EditedMonth.saves
    BY DEF A!Parameters
<1>6. sheet = [e \in EditedMonth.editors |-> o]
    BY DEF A!Init
<1> HIDE DEF r, o
<1>7. o \in SheetState /\ o.phase = "open" /\ o.request = r
    BY <1>1, <1>3, <1>4, <1>5, NoChangeIs DEF SheetState
<1>8. Stored(o, attended)
    BY <1>7 DEF Stored
<1> QED
    BY <1>1, <1>2, <1>3, <1>6, <1>7, <1>8 DEF SheetInv

LEMMA SheetNext == ASSUME A!Parameters, SheetInv, A!Next PROVE SheetInv'
<1>1. PICK e \in EditedMonth.editors :
          \/ \E d \in A!Shown, status \in Marks : A!Change(e, d, status)
          \/ A!Save(e) \/ A!Saved(e) \/ A!Refetch(e) \/ A!AnswerLost(e)
          \/ \E n \in 1 .. sheet[e].save : A!Serve(e, n)
    BY DEF A!Next, Marks
<1>2. CASE \E d \in A!Shown, status \in Marks : A!Change(e, d, status)
    BY <1>2, ChangeKeeps
<1>3. CASE A!Save(e)
    BY <1>3, SaveKeeps
<1>4. CASE A!Saved(e)
    BY <1>4, SavedKeeps
<1>5. CASE A!Refetch(e)
    BY <1>5, RefetchKeeps
<1>6. CASE A!AnswerLost(e)
    BY <1>6, LostKeeps
<1>7. ASSUME NEW n \in 1 .. sheet[e].save, A!Serve(e, n) PROVE SheetInv'
    <2>1. CASE A!Find(e, n)
        BY <2>1, FindKeeps
    <2>2. CASE A!Store(e, n)
        BY <2>2, StoreKeeps
    <2>3. CASE A!BulkFails(e, n)
        BY <2>3, EndedKeeps DEF A!BulkFails
    <2>4. CASE A!Remove(e, n)
        BY <2>4, RemoveKeeps
    <2>5. CASE A!RemoveFails(e, n)
        BY <2>5, RemoveFailsKeeps
    <2> QED
        BY <1>7, <2>1, <2>2, <2>3, <2>4, <2>5 DEF A!Serve
<1> QED
    BY <1>1, <1>2, <1>3, <1>4, <1>5, <1>6, <1>7

LEMMA SheetStutter == ASSUME SheetInv, UNCHANGED <<attended, rowId, sheet>> PROVE SheetInv'
BY DEF SheetInv

\* What the editor shows as saved is on record.
LEMMA SheetStored == ASSUME A!Parameters, SheetInv PROVE A!SavedMeansStored
<1> SUFFICES ASSUME NEW e \in EditedMonth.editors, sheet[e].phase = "saved",
                    EditedMonth.editors = {e},
                    NEW d \in DOMAIN A!Latest(sheet[e]).wanted \ sheet[e].unsure
             PROVE  attended[d] = A!Latest(sheet[e]).wanted[d]
    BY DEF A!SavedMeansStored
<1>1. Stored(sheet[e], attended)
    BY DEF SheetInv
<1>2. A!Open(A!Latest(sheet[e])) = {}
    BY <1>1 DEF Stored
<1> QED
    BY <1>1, <1>2 DEF Stored

-----------------------------------------------------------------------------
(* Attendance: what the month is worth.                                      *)

LEMMA LargerOfTwo ==
    ASSUME NEW a \in Int, NEW b \in Int
    PROVE  W!Max({a, b}) = (IF a >= b THEN a ELSE b)
<1> DEFINE m == IF a >= b THEN a ELSE b
           Largest(x) == x \in {a, b} /\ \A y \in {a, b} : x >= y
<1>1. Largest(m)
    OBVIOUS
<1>2. \A x : Largest(x) => x = m
    OBVIOUS
<1> HIDE DEF m
<1>3. W!Max({a, b}) = CHOOSE x : Largest(x)
    BY DEF W!Max
<1> HIDE DEF Largest
<1>4. Largest(CHOOSE x : Largest(x))
    BY <1>1
<1>5. W!Max({a, b}) = m
    BY <1>2, <1>3, <1>4
<1> QED
    BY <1>5 DEF m

LEMMA SmallerOfTwo ==
    ASSUME NEW a \in Int, NEW b \in Int
    PROVE  W!Min({a, b}) = (IF a <= b THEN a ELSE b)
<1> DEFINE m == IF a <= b THEN a ELSE b
           Smallest(x) == x \in {a, b} /\ \A y \in {a, b} : x <= y
<1>1. Smallest(m)
    OBVIOUS
<1>2. \A x : Smallest(x) => x = m
    OBVIOUS
<1> HIDE DEF m
<1>3. W!Min({a, b}) = CHOOSE x : Smallest(x)
    BY DEF W!Min
<1> HIDE DEF Smallest
<1>4. Smallest(CHOOSE x : Smallest(x))
    BY <1>1
<1>5. W!Min({a, b}) = m
    BY <1>2, <1>3, <1>4
<1> QED
    BY <1>5 DEF m

\* The days of a month are counted.
LEMMA DaysCounted ==
    ASSUME W!Parameters, NEW X \in SUBSET W!Eligible
    PROVE  /\ IsFiniteSet(X) /\ Cardinality(X) \in Nat
           /\ Cardinality(X) <= Cardinality(W!Eligible)
           /\ Cardinality(W!Eligible) <= ValuedMonth.lastDay
           /\ IsFiniteSet(W!Eligible) /\ Cardinality(W!Eligible) \in Nat
<1>1. ValuedMonth.lastDay \in Nat
    BY DEF W!Parameters
<1>2. IsFiniteSet(W!Days) /\ Cardinality(W!Days) = ValuedMonth.lastDay
    <2>1. /\ IsFiniteSet(1 .. ValuedMonth.lastDay)
          /\ Cardinality(1 .. ValuedMonth.lastDay) =
                (IF 1 > ValuedMonth.lastDay THEN 0 ELSE ValuedMonth.lastDay - 1 + 1)
        BY <1>1, FS_Interval
    <2> QED
        BY <1>1, <2>1 DEF W!Days
<1>3. W!Eligible \subseteq W!Days
    BY DEF W!Eligible
<1>4. IsFiniteSet(W!Eligible) /\ Cardinality(W!Eligible) <= Cardinality(W!Days)
    BY <1>2, <1>3, FS_Subset
<1>5. IsFiniteSet(X) /\ Cardinality(X) <= Cardinality(W!Eligible)
    BY <1>4, FS_Subset
<1> QED
    BY <1>2, <1>4, <1>5, FS_CardinalityType

\* What is worked is counted apart, a whole day and a half day.
FullDays(r) == {d \in W!Eligible : r[d] \in {"PRESENT", "LEAVE"}}
HalfDays(r) == {d \in W!Eligible : r[d] = "HALF_DAY"}
Recorded(r) == {d \in W!Eligible : r[d] # ""}

LEMMA WorkedIs ==
    ASSUME W!Parameters, NEW r
    PROVE  /\ W!Worked(r) = 2 * Cardinality(FullDays(r)) + Cardinality(HalfDays(r))
           /\ W!Worked(r) \in Nat /\ W!Worked(r) <= 2 * Cardinality(W!Eligible)
<1>1. /\ FullDays(r) \in SUBSET W!Eligible /\ HalfDays(r) \in SUBSET W!Eligible
      /\ FullDays(r) \cap HalfDays(r) = {}
    BY DEF FullDays, HalfDays
<1>2. FullDays(r) \cup HalfDays(r) \in SUBSET W!Eligible
    BY <1>1
<1>3. Cardinality(FullDays(r) \cup HalfDays(r)) = Cardinality(FullDays(r)) + Cardinality(HalfDays(r))
    <2>1. IsFiniteSet(FullDays(r)) /\ IsFiniteSet(HalfDays(r))
        BY <1>1, DaysCounted
    <2>2. Cardinality({}) = 0
        BY FS_EmptySet
    <2>3. Cardinality(FullDays(r)) \in Nat /\ Cardinality(HalfDays(r)) \in Nat
        BY <2>1, FS_CardinalityType
    <2>4. Cardinality(FullDays(r) \cup HalfDays(r)) =
              Cardinality(FullDays(r)) + Cardinality(HalfDays(r))
                  - Cardinality(FullDays(r) \cap HalfDays(r))
        BY <2>1, FS_Union
    <2>5. Cardinality(FullDays(r) \cap HalfDays(r)) = 0
        BY <1>1, <2>2
    <2> QED
        BY <2>3, <2>4, <2>5
<1>4. /\ Cardinality(FullDays(r)) \in Nat /\ Cardinality(HalfDays(r)) \in Nat
      /\ Cardinality(FullDays(r) \cup HalfDays(r)) <= Cardinality(W!Eligible)
      /\ Cardinality(W!Eligible) \in Nat
    BY <1>1, <1>2, DaysCounted
<1>5. W!Worked(r) = 2 * Cardinality(FullDays(r)) + Cardinality(HalfDays(r))
    BY SetsOfAttendance DEF W!Worked, FullDays, HalfDays
<1> QED
    BY <1>3, <1>4, <1>5

\* A recorded day becomes present: as many days are recorded, and no less is
\* worked.
LEMMA PresentWorksMore ==
    ASSUME W!Parameters, NEW M, NEW r \in [W!Days -> M], NEW d \in Recorded(r),
           NEW p, p = [r EXCEPT ![d] = "PRESENT"]
    PROVE  Recorded(p) = Recorded(r) /\ W!Worked(r) <= W!Worked(p)
<1>1. d \in W!Eligible /\ d \in W!Days /\ r[d] # ""
    BY DEF Recorded, W!Eligible
<1>2. /\ p[d] = "PRESENT" /\ \A x \in W!Eligible : x # d => p[x] = r[x]
    BY <1>1 DEF W!Eligible
<1>3. Recorded(p) = Recorded(r)
    BY <1>1, <1>2 DEF Recorded
<1>4. /\ FullDays(p) = FullDays(r) \cup {d} /\ HalfDays(p) = HalfDays(r) \ {d}
      /\ d \in FullDays(r) => d \notin HalfDays(r)
    BY <1>1, <1>2 DEF FullDays, HalfDays
<1> DEFINE f == Cardinality(FullDays(r))
           h == Cardinality(HalfDays(r))
<1>5. IsFiniteSet(FullDays(r)) /\ IsFiniteSet(HalfDays(r)) /\ f \in Nat /\ h \in Nat
    <2>1. FullDays(r) \in SUBSET W!Eligible /\ HalfDays(r) \in SUBSET W!Eligible
        BY DEF FullDays, HalfDays
    <2> QED
        BY <2>1, DaysCounted
<1>6. /\ Cardinality(FullDays(p)) = (IF d \in FullDays(r) THEN f ELSE f + 1)
      /\ Cardinality(HalfDays(p)) = (IF d \in HalfDays(r) THEN h - 1 ELSE h)
    <2>1. Cardinality(FullDays(r) \cup {d}) = (IF d \in FullDays(r) THEN f ELSE f + 1)
        BY <1>5, FS_AddElement
    <2>2. Cardinality(HalfDays(r) \ {d}) = (IF d \in HalfDays(r) THEN h - 1 ELSE h)
        BY <1>5, FS_RemoveElement
    <2> QED
        BY <1>4, <2>1, <2>2
<1>7. /\ W!Worked(r) = 2 * f + h
      /\ W!Worked(p) = 2 * Cardinality(FullDays(p)) + Cardinality(HalfDays(p))
    BY WorkedIs
<1> HIDE DEF f, h
<1>8. W!Worked(r) <= W!Worked(p)
    <2>1. CASE d \in FullDays(r)
        BY <1>4, <1>5, <1>6, <1>7, <2>1
    <2>2. CASE d \notin FullDays(r)
        BY <1>4, <1>5, <1>6, <1>7, <2>2
    <2> QED
        BY <2>1, <2>2
<1> QED
    BY <1>3, <1>8

LEMMA HalvesAre ==
    ASSUME NEW r
    PROVE  LET n == Cardinality(Recorded(r))
           IN  W!PaidHalves(r) =
                   CASE n > 0 /\ ValuedMonth.frequency = "MONTHLY" ->
                          W!Max({0, W!Min({60, 60 - (2 * n - W!Worked(r))})})
                     [] n > 0 /\ ValuedMonth.frequency # "MONTHLY" -> W!Worked(r)
                     [] n = 0 /\ ValuedMonth.frequency = "MONTHLY" ->
                          2 * W!Max({0, 30 - W!Max({ValuedMonth.joined, 1}) + 1})
                     [] OTHER -> 2 * Cardinality(W!Eligible)
BY SetsOfAttendance DEF W!PaidHalves, Recorded

LEMMA HalvesRecorded ==
    ASSUME NEW r, Cardinality(Recorded(r)) > 0
    PROVE  /\ ValuedMonth.frequency = "MONTHLY" =>
                 W!PaidHalves(r) =
                     W!Max({0, W!Min({60, 60 - (2 * Cardinality(Recorded(r)) - W!Worked(r))})})
           /\ ValuedMonth.frequency # "MONTHLY" => W!PaidHalves(r) = W!Worked(r)
<1> DEFINE n == Cardinality(Recorded(r))
           full == W!Max({0, W!Min({60, 60 - (2 * n - W!Worked(r))})})
           none == 2 * W!Max({0, 30 - W!Max({ValuedMonth.joined, 1}) + 1})
           all == 2 * Cardinality(W!Eligible)
           monthly == ValuedMonth.frequency = "MONTHLY"
<1>1. W!PaidHalves(r) = CASE n > 0 /\ monthly -> full
                          [] n > 0 /\ ~monthly -> W!Worked(r)
                          [] n = 0 /\ monthly -> none
                          [] OTHER -> all
    BY HalvesAre
<1> HIDE DEF full, none, all, n
<1>2. n > 0
    BY DEF n
<1>3. CASE monthly
    <2>1. W!PaidHalves(r) = full
        BY <1>1, <1>2, <1>3
    <2> QED
        BY <1>3, <2>1 DEF full, n
<1>4. CASE ~monthly
    <2>1. W!PaidHalves(r) = W!Worked(r)
        BY <1>1, <1>2, <1>4
    <2> QED
        BY <1>4, <2>1
<1> QED
    BY <1>3, <1>4

\* The half days paid are at most those of the month.
LEMMA HalvesWithinMonth ==
    ASSUME W!Parameters, NEW r
    PROVE  /\ W!PaidHalves(r) \in Nat
           /\ W!PaidHalves(r) <= IF ValuedMonth.frequency = "MONTHLY" THEN 60 ELSE 2 * ValuedMonth.lastDay
<1> DEFINE n == Cardinality(Recorded(r))
           w == W!Worked(r)
           c == Cardinality(W!Eligible)
           monthly == ValuedMonth.frequency = "MONTHLY"
<1>1. w \in Nat /\ w <= 2 * c
    BY WorkedIs
<1>2. n \in Nat /\ c \in Nat /\ c <= ValuedMonth.lastDay
    <2>1. Recorded(r) \in SUBSET W!Eligible
        BY DEF Recorded
    <2> QED
        BY <2>1, DaysCounted
<1>3. ValuedMonth.lastDay \in Nat /\ ValuedMonth.joined \in Int
    BY DEF W!Parameters
<1>4. W!PaidHalves(r) =
          CASE n > 0 /\ monthly -> W!Max({0, W!Min({60, 60 - (2 * n - w)})})
            [] n > 0 /\ ~monthly -> w
            [] n = 0 /\ monthly -> 2 * W!Max({0, 30 - W!Max({ValuedMonth.joined, 1}) + 1})
            [] OTHER -> 2 * c
    BY SetsOfAttendance DEF W!PaidHalves, Recorded
<1> HIDE DEF n, w, c
<1>5. CASE n > 0 /\ monthly
    <2>1. W!PaidHalves(r) = W!Max({0, W!Min({60, 60 - (2 * n - w)})})
        BY <1>4, <1>5
    <2>2. W!Min({60, 60 - (2 * n - w)}) = (IF 60 <= 60 - (2 * n - w) THEN 60 ELSE 60 - (2 * n - w))
        BY <1>1, <1>2, SmallerOfTwo
    <2> DEFINE m == W!Min({60, 60 - (2 * n - w)})
    <2>3. m \in Int /\ m <= 60
        BY <1>1, <1>2, <2>2
    <2> HIDE DEF m
    <2>4. W!Max({0, m}) = (IF 0 >= m THEN 0 ELSE m)
        BY <2>3, LargerOfTwo
    <2> QED
        BY <1>5, <2>1, <2>3, <2>4 DEF m
<1>6. CASE n > 0 /\ ~monthly
    BY <1>1, <1>2, <1>3, <1>4, <1>6
<1>7. CASE n = 0 /\ monthly
    <2> DEFINE j == W!Max({ValuedMonth.joined, 1})
    <2>1. j = (IF ValuedMonth.joined >= 1 THEN ValuedMonth.joined ELSE 1)
        BY <1>3, LargerOfTwo
    <2>2. W!PaidHalves(r) = 2 * W!Max({0, 30 - j + 1})
        BY <1>4, <1>7
    <2>3. j \in Int /\ j >= 1
        BY <1>3, <2>1
    <2> HIDE DEF j
    <2>4. W!Max({0, 30 - j + 1}) = (IF 0 >= 30 - j + 1 THEN 0 ELSE 30 - j + 1)
        BY <2>3, LargerOfTwo
    <2> QED
        BY <1>7, <2>2, <2>3, <2>4
<1>8. CASE n = 0 /\ ~monthly
    BY <1>2, <1>3, <1>4, <1>8
<1> QED
    BY <1>2, <1>5, <1>6, <1>7, <1>8

\* A recorded day that becomes present pays no fewer half days.
LEMMA PresentPaysMore ==
    ASSUME W!Parameters, NEW M, NEW r \in [W!Days -> M], NEW d \in Recorded(r),
           NEW p, p = [r EXCEPT ![d] = "PRESENT"]
    PROVE  W!PaidHalves(r) <= W!PaidHalves(p)
<1> DEFINE n == Cardinality(Recorded(r))
           w == W!Worked(r)
           v == W!Worked(p)
           monthly == ValuedMonth.frequency = "MONTHLY"
<1>1. Recorded(p) = Recorded(r) /\ w <= v /\ w \in Nat /\ v \in Nat
    BY PresentWorksMore, WorkedIs
<1>2. n \in Nat /\ n > 0
    <2>1. Recorded(r) \in SUBSET W!Eligible
        BY DEF Recorded
    <2>2. IsFiniteSet(Recorded(r)) /\ n \in Nat
        BY <2>1, DaysCounted
    <2>3. n # 0
        BY <2>2, FS_EmptySet
    <2> QED
        BY <2>2, <2>3
<1>3. /\ monthly => W!PaidHalves(r) = W!Max({0, W!Min({60, 60 - (2 * n - w)})})
      /\ ~monthly => W!PaidHalves(r) = w
    BY <1>2, HalvesRecorded
<1>4. /\ monthly => W!PaidHalves(p) = W!Max({0, W!Min({60, 60 - (2 * n - v)})})
      /\ ~monthly => W!PaidHalves(p) = v
    <2>1. Cardinality(Recorded(p)) = n /\ Cardinality(Recorded(p)) > 0
        BY <1>1, <1>2
    <2>2. /\ monthly => W!PaidHalves(p) = W!Max({0, W!Min({60, 60 - (2 * Cardinality(Recorded(p)) - v)})})
          /\ ~monthly => W!PaidHalves(p) = v
        BY <2>1, HalvesRecorded
    <2> QED
        BY <2>1, <2>2, Zenon
<1> HIDE DEF n, w, v
<1>5. CASE monthly
    <2> DEFINE a == W!Min({60, 60 - (2 * n - w)})
               b == W!Min({60, 60 - (2 * n - v)})
    <2>1. /\ a = (IF 60 <= 60 - (2 * n - w) THEN 60 ELSE 60 - (2 * n - w))
          /\ b = (IF 60 <= 60 - (2 * n - v) THEN 60 ELSE 60 - (2 * n - v))
        BY <1>1, <1>2, SmallerOfTwo
    <2>2. a \in Int /\ b \in Int /\ a <= b
        BY <1>1, <1>2, <2>1
    <2>5. W!PaidHalves(r) = W!Max({0, a}) /\ W!PaidHalves(p) = W!Max({0, b})
        BY <1>3, <1>4, <1>5
    <2> HIDE DEF a, b
    <2>3. W!Max({0, a}) = (IF 0 >= a THEN 0 ELSE a) /\ W!Max({0, b}) = (IF 0 >= b THEN 0 ELSE b)
        BY <2>2, LargerOfTwo
    <2> QED
        BY <2>2, <2>3, <2>5
<1>6. CASE ~monthly
    BY <1>1, <1>3, <1>4, <1>6
<1> QED
    BY <1>5, <1>6

\* Attendance: a day present is worth no less than any other record of it.
LEMMA WorthInit ==
    ASSUME W!Parameters, NEW M, attended \in [W!Days -> M]
    PROVE  W!PresentNeverWorse
<1>1. W!PaidHalves(attended) <= IF ValuedMonth.frequency = "MONTHLY" THEN 60 ELSE 2 * ValuedMonth.lastDay
    BY HalvesWithinMonth
<1>2. ASSUME NEW d \in W!RecordedDays
      PROVE  W!Payable(attended) <= W!Payable([attended EXCEPT ![d] = "PRESENT"])
    <2> DEFINE p == [attended EXCEPT ![d] = "PRESENT"]
               a == W!PaidHalves(attended)
               b == W!PaidHalves(p)
               s == ValuedMonth.salary
               f == W!DaysOf(ValuedMonth.frequency)
    <2>1. d \in Recorded(attended)
        BY DEF W!RecordedDays, Recorded
    <2>2. a <= b
        BY <2>1, PresentPaysMore
    <2>3. a \in Nat /\ b \in Nat
        BY HalvesWithinMonth
    <2>4. s \in Nat /\ f \in {30, 7, 1}
        BY DEF W!Parameters, W!DaysOf
    <2>5. W!Payable(attended) = (s * a + f) \div (2 * f) /\ W!Payable(p) = (s * b + f) \div (2 * f)
        BY DEF W!Payable
    <2> HIDE DEF a, b, s, f, p
    <2>6. s * a \in Nat /\ s * b \in Nat /\ s * a <= s * b
        BY <2>2, <2>3, <2>4, SMT
    <2>7. s * a + f \in Nat /\ s * b + f \in Nat /\ s * a + f <= s * b + f /\ 2 * f \in Nat /\ 2 * f > 0
        BY <2>4, <2>6
    <2>8. (s * a + f) \div (2 * f) <= (s * b + f) \div (2 * f)
        <3> DEFINE x == s * a + f
                   y == s * b + f
                   z == 2 * f
        <3>1. x \in Nat /\ y \in Nat /\ x <= y /\ z \in Nat /\ z > 0
            BY <2>7
        <3> HIDE DEF x, y, z
        <3>2. x \div z <= y \div z
            BY <3>1, QuotientMonotone
        <3> QED
            BY <3>2 DEF x, y, z
    <2> QED
        BY <2>5, <2>8 DEF p
<1> QED
    BY <1>1, <1>2 DEF W!PresentNeverWorse

-----------------------------------------------------------------------------
(* Cart: the inductive invariant.                                          *)

CartState ==
    [items : [Items -> [price : Nat, quantity : Nat]], points : {None} \cup Int, discount : Nat,
     redeem : BOOLEAN, reward : Nat, cash : Nat, method : Methods \cup {"CASH"}, provider : BOOLEAN]

\* What the page lets the cashier submit.
Submittable(c) ==
    /\ c.method = "CASH" => c.cash >= C!Total(c)
    /\ c.method = "MOBILE" => c.provider
    /\ C!RedemptionAffordable(c)

\* A reward is redeemed for a customer.
Filled(c) == c \in CartState /\ (c.redeem => c.points # None)

CartInv ==
    /\ server \in DOMAIN Catalogues /\ loaded.version \in DOMAIN Catalogues
    /\ points \in Int /\ loaded.points \in Int
    /\ Filled(cart)
    /\ paying # None =>
          DOMAIN paying = {"cart", "answer"} /\ Filled(paying.cart) /\ Submittable(paying.cart)
    /\ C!SalesAddUp

LEMMA CatalogueIs ==
    ASSUME C!Parameters, NEW v \in DOMAIN Catalogues
    PROVE  /\ Catalogues[v].items \in [Items -> [price : Nat, stock : Nat]]
           /\ Catalogues[v].tiers \subseteq [minimum : Nat, redeem : Nat, discount : Nat]
<1>1. Catalogues \in Seq(C!Offering)
    BY DEF C!Parameters
<1>2. Catalogues[v] \in C!Offering
    BY <1>1
<1> QED
    BY <1>2 DEF C!Offering

\* The amounts of a cart.
LEMMA AmountsOfCart ==
    ASSUME C!Parameters, NEW c, Filled(c)
    PROVE  /\ C!Subtotal(c) \in Nat
           /\ C!RewardDiscount(c) \in Nat /\ C!RewardDiscount(c) <= C!Subtotal(c)
           /\ C!Discount(c) \in Nat /\ C!Discount(c) <= C!Subtotal(c) - C!RewardDiscount(c)
           /\ C!Total(c) \in Nat /\ C!Total(c) = C!Subtotal(c) - C!Discount(c) - C!RewardDiscount(c)
<1> DEFINE f == [i \in C!In(c) |-> c.items[i].price * c.items[i].quantity]
<1>1. IsFiniteSet(C!In(c))
    BY FS_Subset, SetsOfCart DEF C!Parameters, C!In
<1>2. \A i \in C!In(c) : f[i] \in Nat
    BY DEF C!In, Filled, CartState
<1>3. C!Subtotal(c) = SumFunctionOnSet(f, C!In(c))
    BY SetsOfCart DEF C!Subtotal, C!SumFunction
<1> HIDE DEF f
<1>4. C!Subtotal(c) \in Nat
    BY <1>1, <1>2, <1>3, SumNat
<1>5. c.reward \in Nat /\ c.discount \in Nat
    BY DEF Filled, CartState
<1> QED
    BY <1>4, <1>5 DEF C!RewardDiscount, C!Redeems, C!RedemptionAffordable, C!Discount, C!Least, C!Most, C!Total

LEMMA LessThanSold == ASSUME NEW x, NEW y PROVE <<x>> # <<>>
OBVIOUS

\* The server's subtotal is the page's if the prices are still the same.
LEMMA SubtotalsAgree ==
    ASSUME C!Parameters, NEW c, Filled(c), NEW v \in DOMAIN Catalogues,
           \A i \in C!In(c) : c.items[i].price = Catalogues[v].items[i].price
    PROVE  C!SumFunction([i \in Items |-> Catalogues[v].items[i].price
                                           * C!BuildCheckoutRequest(c).quantity[i]]) = C!Subtotal(c)
<1> DEFINE q == [i \in Items |-> c.items[i].quantity]
           f == [i \in C!In(c) |-> c.items[i].price * c.items[i].quantity]
           g == [i \in Items |-> Catalogues[v].items[i].price * q[i]]
           T == C!In(c)
<1>1. C!BuildCheckoutRequest(c).quantity = q
    BY DEF C!BuildCheckoutRequest
<1>2. IsFiniteSet(Items) /\ T \subseteq Items
    BY SetsOfCart DEF C!Parameters, C!In
<1>3. IsFiniteSet(T) /\ IsFiniteSet(Items \ T)
    BY <1>2, FS_Subset
<1>4. \A i \in Items : g[i] \in Nat
    BY CatalogueIs DEF Filled, CartState
<1>5. \A i \in Items \ T : g[i] = 0
    BY CatalogueIs DEF C!In, Filled, CartState
<1>6. \A i \in T : f[i] \in Int /\ g[i] = f[i]
    BY DEF C!In, Filled, CartState
<1>7. /\ C!Subtotal(c) = SumFunctionOnSet(f, T)
      /\ C!SumFunction(g) = SumFunctionOnSet(g, Items)
    BY SetsOfCart DEF C!Subtotal, C!SumFunction
<1> HIDE DEF f, g, T
<1>8. SumFunctionOnSet(g, Items) = SumFunctionOnSet(g, T) + SumFunctionOnSet(g, Items \ T)
    BY <1>2, <1>4, SumSplit
<1>9. SumFunctionOnSet(g, Items \ T) = 0
    BY <1>3, <1>5, SumZero
<1>10. SumFunctionOnSet(f, T) = SumFunctionOnSet(g, T)
    BY <1>3, <1>6, SumSame
<1>11. SumFunctionOnSet(f, T) \in Int
    BY <1>3, <1>6, SumInt
<1>12. C!SumFunction(g) = C!Subtotal(c)
    BY <1>7, <1>8, <1>9, <1>10, <1>11
<1> QED
    BY <1>1, <1>12 DEF g

\* The tier of so many points is one.
LEMMA TierIs ==
    ASSUME C!Parameters, NEW v \in DOMAIN Catalogues, NEW p \in Int,
           NEW t \in C!Offers(p, Catalogues[v].tiers)
    PROVE  /\ (CHOOSE u \in C!ActiveTier(p, Catalogues[v].tiers) : TRUE) = t
           /\ t.discount \in Nat /\ t.redeem \in Nat
<1> DEFINE Actives == C!ActiveTier(p, Catalogues[v].tiers)
<1>1. t \in Actives /\ Actives \subseteq Catalogues[v].tiers
    BY DEF C!Offers, C!ActiveTier
<1>2. \A u \in Actives : u.minimum \in Nat /\ u.discount \in Nat /\ u.redeem \in Nat
    BY <1>1, CatalogueIs
<1>3. ASSUME NEW u \in Actives PROVE u = t
    <2>1. u.minimum <= t.minimum /\ t.minimum <= u.minimum
        BY <1>1, <1>3 DEF C!ActiveTier
    <2>2. u.minimum = t.minimum
        BY <1>1, <1>2, <1>3, <2>1
    <2> QED
        BY <1>1, <1>3, <2>2 DEF C!Parameters
<1> HIDE DEF Actives
<1> QED
    BY <1>1, <1>2, <1>3 DEF Actives

\* What the server does with a cart that still holds.
LEMMA StillHoldsIsSold ==
    ASSUME C!Parameters, CartInv, NEW c, Filled(c), Submittable(c), C!StillHolds(c)
    PROVE  LET r == C!BuildCheckoutRequest(c)
           IN  C!Accepted(r) /\ C!SaleOf(r).total = C!Total(c) /\ C!SaleOf(r).change = C!Change(c)
<1> DEFINE r == C!BuildCheckoutRequest(c)
           held == Catalogues[server]
           tier == CHOOSE t \in C!ActiveTier(points, held.tiers) : TRUE
           reward == IF r.redeem THEN tier.discount ELSE 0
           subtotal == C!SumFunction([i \in Items |-> held.items[i].price * r.quantity[i]])
           total == subtotal - r.discount - reward
           cash == IF r.method = "CASH" THEN r.cash ELSE total
<1>1. /\ r.quantity = [i \in Items |-> c.items[i].quantity] /\ r.discount = C!Discount(c)
      /\ r.cash = IF c.method = "CASH" THEN c.cash ELSE C!Total(c)
      /\ r.method = c.method /\ r.provider = (c.method = "MOBILE" /\ c.provider)
      /\ (r.redeem <=> C!Redeems(c)) /\ (r.customer <=> c.points # None)
    BY DEF C!BuildCheckoutRequest
<1>2. /\ C!SaleOf(r).subtotal = subtotal /\ C!SaleOf(r).discount = r.discount
      /\ C!SaleOf(r).reward = reward /\ C!SaleOf(r).total = total
      /\ C!SaleOf(r).change = cash - total
    BY DEF C!SaleOf
<1>3. server \in DOMAIN Catalogues /\ points \in Int
    BY DEF CartInv
<1>4. subtotal = C!Subtotal(c)
    BY <1>3, SubtotalsAgree DEF C!StillHolds
<1>5. ASSUME C!Redeems(c)
      PROVE  tier.discount = c.reward /\ C!Offers(points, held.tiers) # {}
    <2>1. PICK t \in C!Offers(points, held.tiers) : t.discount = c.reward
        BY <1>5 DEF C!StillHolds
    <2>2. tier = t
        BY <1>3, TierIs
    <2> QED
        BY <2>1, <2>2
<1> HIDE DEF tier, subtotal, held
<1>6. reward = C!RewardDiscount(c)
    BY <1>1, <1>5 DEF C!RewardDiscount
<1>7. total = C!Total(c) /\ C!Total(c) \in Nat
    BY <1>1, <1>4, <1>6, AmountsOfCart
<1>8. cash - total = C!Change(c) /\ (c.method = "CASH" => r.cash >= total)
    BY <1>1, <1>7 DEF C!Change, Submittable, Filled, CartState
<1>9. \A i \in Items : r.quantity[i] <= Catalogues[server].items[i].stock
    <2> SUFFICES ASSUME NEW i \in Items PROVE r.quantity[i] <= Catalogues[server].items[i].stock
        OBVIOUS
    <2>1. c.items[i].quantity \in Nat /\ Catalogues[server].items[i].stock \in Nat
        BY <1>3, CatalogueIs DEF Filled, CartState
    <2>2. c.items[i].quantity > 0 => c.items[i].quantity <= Catalogues[server].items[i].stock
        BY DEF C!StillHolds, C!In
    <2> QED
        BY <1>1, <2>1, <2>2
<1>10. r.discount <= subtotal /\ (r.redeem => reward <= subtotal - r.discount)
    BY <1>1, <1>4, <1>6, AmountsOfCart
<1>11. r.redeem => r.customer /\ C!Offers(points, Catalogues[server].tiers) # {}
    BY <1>1, <1>5 DEF Filled, C!Redeems, held
<1>12. r.provider = (r.method = "MOBILE")
    BY <1>1 DEF Submittable
<1> HIDE DEF r, total, cash, reward
<1>13. C!Accepted(r)
    <2>1. C!SaleOf(r).discount <= C!SaleOf(r).subtotal
        BY <1>2, <1>10
    <2>2. ASSUME r.redeem
          PROVE  /\ r.customer /\ C!Offers(points, Catalogues[server].tiers) # {}
                 /\ C!SaleOf(r).reward <= C!SaleOf(r).subtotal - r.discount
        BY <1>2, <1>10, <1>11, <2>2
    <2>3. r.method = "CASH" => r.cash >= C!SaleOf(r).total
        BY <1>2, <1>7, <1>8, <1>1
    <2> QED
        BY <1>9, <1>12, <2>1, <2>2, <2>3 DEF C!Accepted
<1> QED
    BY <1>2, <1>7, <1>8, <1>13 DEF r

LEMMA EditKeeps ==
    ASSUME CartInv, NEW c, Filled(c), C!Edit(c)
    PROVE  CartInv'
BY DEF CartInv, C!Edit, C!SalesAddUp

\* Every edit leaves a cart of its type.
LEMMA EditsFill ==
    ASSUME C!Parameters, CartInv,
           \/ \E i \in Items : C!Add(i) \/ C!SetQuantity(i)
           \/ C!SetCustomer \/ C!ClearCustomer \/ C!SetDiscount \/ C!SetCash
           \/ C!SetRewardRedemption \/ C!SetPayment \/ C!ClearCart
    PROVE  CartInv'
<1>1. Filled(cart) /\ loaded.version \in DOMAIN Catalogues /\ loaded.points \in Int
    BY DEF CartInv
<1>2. ASSUME NEW i \in Items, NEW p \in Nat, NEW q \in Nat PROVE Filled(C!SetItem(i, p, q))
    BY <1>1, <1>2 DEF Filled, CartState, C!SetItem
<1>3. ASSUME NEW i \in Items, C!Add(i) \/ C!SetQuantity(i) PROVE CartInv'
    <2>1. /\ cart.items[i].price \in Nat /\ cart.items[i].quantity + 1 \in Nat
          /\ Catalogues[loaded.version].items[i].price \in Nat
        BY <1>1, CatalogueIs DEF Filled, CartState
    <2>2. PICK p \in Nat, q \in Nat : C!Edit(C!SetItem(i, p, q))
        BY <1>3, <2>1 DEF C!Add, C!SetQuantity
    <2> QED
        BY <1>2, <2>2, EditKeeps
<1>4. ASSUME NEW p \in {None} \cup Int, C!Edit(C!WithCustomer(p)) PROVE CartInv'
    <2>1. Filled(C!WithCustomer(p))
        BY <1>1, <1>4 DEF Filled, CartState, C!WithCustomer
    <2> QED
        BY <1>4, <2>1, EditKeeps
<1>5. CASE C!SetCustomer \/ C!ClearCustomer
    BY <1>1, <1>4, <1>5 DEF C!SetCustomer, C!ClearCustomer
<1>6. CASE C!SetDiscount
    <2>1. PICK d \in Nat : C!Edit([cart EXCEPT !.discount = d])
        BY <1>6 DEF C!SetDiscount, C!Parameters
    <2>2. Filled([cart EXCEPT !.discount = d])
        BY <1>1 DEF Filled, CartState
    <2> QED
        BY <2>1, <2>2, EditKeeps
<1>7. CASE C!SetCash
    <2>1. PICK m \in Nat : C!Edit([cart EXCEPT !.cash = m])
        BY <1>7 DEF C!SetCash, C!Parameters
    <2>2. Filled([cart EXCEPT !.cash = m])
        BY <1>1 DEF Filled, CartState
    <2> QED
        BY <2>1, <2>2, EditKeeps
<1>8. CASE C!SetRewardRedemption
    <2>1. PICK offer \in C!RewardOffer(cart) :
            \/ C!Edit([cart EXCEPT !.redeem = FALSE, !.reward = 0])
            \/ C!Edit([cart EXCEPT !.redeem = TRUE, !.reward = offer.discount])
        BY <1>8 DEF C!SetRewardRedemption
    <2>2. cart.points # None /\ offer \in C!Offers(cart.points, Catalogues[loaded.version].tiers)
        BY <2>1 DEF C!RewardOffer
    <2>3. offer.discount \in Nat
        BY <1>1, <2>2, CatalogueIs DEF C!Offers, C!ActiveTier
    <2>4. Filled([cart EXCEPT !.redeem = FALSE, !.reward = 0])
        BY <1>1 DEF Filled, CartState
    <2>5. Filled([cart EXCEPT !.redeem = TRUE, !.reward = offer.discount])
        BY <1>1, <2>2, <2>3 DEF Filled, CartState
    <2> QED
        BY <2>1, <2>4, <2>5, EditKeeps
<1>9. CASE C!SetPayment
    <2>1. ASSUME NEW m \in Methods, C!Edit([cart EXCEPT !.method = m]) PROVE CartInv'
        <3>1. Filled([cart EXCEPT !.method = m])
            BY <1>1, <2>1 DEF Filled, CartState
        <3> QED
            BY <2>1, <3>1, EditKeeps
    <2>2. ASSUME NEW p \in BOOLEAN, C!Edit([cart EXCEPT !.provider = p]) PROVE CartInv'
        <3>1. Filled([cart EXCEPT !.provider = p])
            BY <1>1, <2>2 DEF Filled, CartState
        <3> QED
            BY <2>2, <3>1, EditKeeps
    <2> QED
        BY <1>9, <2>1, <2>2 DEF C!SetPayment
<1>10. CASE C!ClearCart
    <2>1. Filled(C!INITIAL_STATE)
        BY DEF Filled, CartState, C!INITIAL_STATE
    <2> QED
        BY <1>10, <2>1, EditKeeps DEF C!ClearCart
<1> QED
    BY <1>3, <1>5, <1>6, <1>7, <1>8, <1>9, <1>10

\* A sale that was accepted adds up.
LEMMA AcceptedAddsUp ==
    ASSUME C!Parameters, CartInv, NEW r, C!Accepted(r), r.discount \in Int, r.cash \in Int,
           C!SaleOf(r).subtotal \in Int, C!SaleOf(r).reward \in Int,
           r.redeem \/ C!SaleOf(r).reward = 0
    PROVE  LET made == C!SaleOf(r)
           IN  /\ made.total >= 0 /\ made.change >= 0
               /\ made.total = made.subtotal - made.discount - made.reward
               /\ made.cash - made.change = made.total
               /\ made.provider = (made.method = "MOBILE")
<1> DEFINE made == C!SaleOf(r)
<1>1. /\ made.discount = r.discount /\ made.total = made.subtotal - made.discount - made.reward
      /\ made.cash = IF r.method = "CASH" THEN r.cash ELSE made.total
      /\ made.change = made.cash - made.total
      /\ made.method = r.method /\ made.provider = r.provider
    BY DEF C!SaleOf
<1>2. /\ made.discount <= made.subtotal /\ (r.redeem => made.reward <= made.subtotal - r.discount)
      /\ r.provider = (r.method = "MOBILE") /\ (r.method = "CASH" => r.cash >= made.total)
    BY DEF C!Accepted
<1>0. made.subtotal \in Int /\ made.reward \in Int /\ (r.redeem \/ made.reward = 0)
    OBVIOUS
<1> HIDE DEF made
<1>3. made.total \in Int /\ made.total >= 0
    BY <1>0, <1>1, <1>2
<1>4. made.cash \in Int /\ made.cash >= made.total
    BY <1>1, <1>2, <1>3
<1>5. made.change >= 0 /\ made.cash - made.change = made.total
    BY <1>1, <1>3, <1>4
<1>6. made.provider = (made.method = "MOBILE")
    BY <1>1, <1>2
<1> QED
    BY <1>1, <1>3, <1>5, <1>6 DEF made

LEMMA SaleKept ==
    ASSUME C!Parameters, CartInv, C!Checkout
    PROVE  CartInv' /\ C!AsShown
<1> DEFINE c == paying.cart
           r == C!BuildCheckoutRequest(c)
<1>1. /\ paying # None /\ paying.answer = None /\ DOMAIN paying = {"cart", "answer"}
      /\ Filled(c) /\ Submittable(c) /\ server \in DOMAIN Catalogues /\ points \in Int
    BY DEF C!Checkout, CartInv
<1>2. UNCHANGED <<server, loaded, cart, confirmation>>
    BY DEF C!Checkout
<1>3. /\ r.quantity = [i \in Items |-> c.items[i].quantity]
      /\ r.discount \in Int /\ r.cash \in Int /\ r.redeem \in BOOLEAN
    BY <1>1, AmountsOfCart DEF C!BuildCheckoutRequest, Filled, CartState, C!Redeems
<1>4. C!SaleOf(r).subtotal \in Int
    <2> DEFINE g == [i \in Items |-> Catalogues[server].items[i].price * r.quantity[i]]
    <2>1. IsFiniteSet(Items)
        BY SetsOfCart DEF C!Parameters
    <2>2. \A i \in Items : g[i] \in Int
        BY <1>1, <1>3, CatalogueIs DEF Filled, CartState
    <2>3. C!SaleOf(r).subtotal = SumFunctionOnSet(g, Items)
        BY SetsOfCart DEF C!SaleOf, C!SumFunction
    <2> HIDE DEF g
    <2> QED
        BY <2>1, <2>2, <2>3, SumInt
<1>5. CASE C!Accepted(r)
    <2> DEFINE made == C!SaleOf(r)
    <2>1. points' = points - made.redeemed /\ paying' = [paying EXCEPT !.answer = <<made>>]
        BY <1>5 DEF C!Checkout
    <2>2. made.reward \in Int /\ made.redeemed \in Int /\ (r.redeem \/ made.reward = 0)
        <3> DEFINE tier == CHOOSE t \in C!ActiveTier(points, Catalogues[server].tiers) : TRUE
        <3>1. /\ made.reward = IF r.redeem THEN tier.discount ELSE 0
              /\ made.redeemed = IF r.redeem THEN tier.redeem ELSE 0
            BY DEF C!SaleOf
        <3>2. ASSUME r.redeem PROVE tier.discount \in Int /\ tier.redeem \in Int
            <4>1. PICK t : t \in C!Offers(points, Catalogues[server].tiers)
                BY <1>5, <3>2 DEF C!Accepted
            <4>2. tier = t /\ t.discount \in Nat /\ t.redeem \in Nat
                BY <1>1, <4>1, TierIs
            <4> HIDE DEF tier
            <4> QED
                BY <4>2
        <3> HIDE DEF tier, made
        <3> QED
            BY <3>1, <3>2
    <2>3. /\ made.total >= 0 /\ made.change >= 0
          /\ made.total = made.subtotal - made.discount - made.reward
          /\ made.cash - made.change = made.total
          /\ made.provider = (made.method = "MOBILE")
        BY <1>3, <1>4, <1>5, <2>2, AcceptedAddsUp
    <2>4. C!StillHolds(c) => made.total = C!Total(c) /\ made.change = C!Change(c)
        BY <1>1, StillHoldsIsSold
    <2> HIDE DEF made, c
    <2>5. /\ paying'.cart = c /\ paying'.answer = <<made>> /\ DOMAIN paying' = {"cart", "answer"}
        BY <1>1, <2>1 DEF c
    <2>6. C!SalesAddUp'
        BY <2>3, <2>5 DEF C!SalesAddUp
    <2>7. CartInv'
        BY <1>1, <1>2, <2>1, <2>2, <2>5, <2>6 DEF CartInv
    <2>8. paying'.answer # <<>> /\ paying'.answer[1] = made
        BY <2>5
    <2> QED
        BY <2>4, <2>7, <2>8 DEF C!AsShown, c
<1>6. CASE ~C!Accepted(r)
    <2>1. points' = points /\ paying' = [paying EXCEPT !.answer = <<>>]
        BY <1>6 DEF C!Checkout
    <2>2. ~C!StillHolds(c)
        BY <1>1, <1>6, StillHoldsIsSold
    <2> HIDE DEF c
    <2>3. /\ paying'.cart = c /\ paying'.answer = <<>> /\ DOMAIN paying' = {"cart", "answer"}
        BY <1>1, <2>1 DEF c
    <2>4. CartInv'
        BY <1>1, <1>2, <2>1, <2>3 DEF CartInv, C!SalesAddUp
    <2> QED
        BY <2>2, <2>4 DEF C!AsShown, c
<1> QED
    BY <1>5, <1>6

LEMMA InitCart == ASSUME C!Parameters, C!Init PROVE CartInv
<1>1. 1 \in DOMAIN Catalogues
    BY DEF C!Parameters
<1>2. Filled(C!INITIAL_STATE)
    BY DEF Filled, CartState, C!INITIAL_STATE
<1> QED
    BY <1>1, <1>2 DEF C!Init, CartInv, C!SalesAddUp, C!Parameters

\* One request is under way at a time, and only the checkout answers it.
LEMMA NextCart ==
    ASSUME C!Parameters, CartInv, [C!Next]_C!vars
    PROVE  CartInv' /\ C!AsShown
<1>1. CASE C!Checkout
    BY <1>1, SaleKept
<1>2. CASE \/ \E i \in Items : C!Add(i) \/ C!SetQuantity(i)
           \/ C!SetCustomer \/ C!ClearCustomer \/ C!SetDiscount \/ C!SetCash
           \/ C!SetRewardRedemption \/ C!SetPayment \/ C!ClearCart
    <2>1. paying' = paying
        BY <1>2 DEF C!Add, C!SetQuantity, C!SetCustomer, C!ClearCustomer, C!SetDiscount, C!SetCash,
            C!SetRewardRedemption, C!SetPayment, C!ClearCart, C!Edit
    <2> QED
        BY <1>2, <2>1, EditsFill DEF C!AsShown
<1>3. CASE C!HandleSubmit
    <2>1. Submittable(cart)
        BY <1>3 DEF C!HandleSubmit, C!CanSubmit, Submittable
    <2> QED
        BY <1>3, <2>1 DEF C!HandleSubmit, CartInv, C!AsShown, C!SalesAddUp
<1>4. CASE C!Succeed \/ C!Fail
    <2>1. Filled(C!INITIAL_STATE)
        BY DEF Filled, CartState, C!INITIAL_STATE
    <2> QED
        BY <1>4, <2>1 DEF C!Succeed, C!Fail, CartInv, C!AsShown, C!SalesAddUp
<1>5. CASE C!ChangeCatalogue
    <2>1. server' \in DOMAIN Catalogues
        BY <1>5 DEF C!ChangeCatalogue, CartInv, C!Parameters
    <2> QED
        BY <1>5, <2>1 DEF C!ChangeCatalogue, CartInv, C!AsShown, C!SalesAddUp
<1>6. CASE C!Close \/ C!Refetch \/ UNCHANGED C!vars
    BY <1>6 DEF C!Close, C!Refetch, C!vars, CartInv, C!AsShown, C!SalesAddUp
<1> QED
    BY <1>1, <1>2, <1>3, <1>4, <1>5, <1>6 DEF C!Next, C!Cashier

-----------------------------------------------------------------------------
(* A step of the office is a step of the component followed.                *)

LEMMA ReturnsStep == ASSUME [OfficeNext]_officeVars PROVE focus' = focus /\ (focus = "returns" => [R!Next]_R!vars)
BY DEF OfficeNext, officeVars, returnsVars, R!vars

LEMMA PurchasingStep == ASSUME [OfficeNext]_officeVars PROVE focus' = focus /\ (focus = "purchasing" => [P!Next]_P!vars)
BY DEF OfficeNext, officeVars, purchasingVars, P!vars

LEMMA PackagesStep == ASSUME [OfficeNext]_officeVars PROVE focus' = focus /\ (focus = "packages" => [V!Next]_V!vars)
BY DEF OfficeNext, officeVars, packagesVars, V!vars

LEMMA PeopleStep == ASSUME [OfficeNext]_officeVars PROVE focus' = focus /\ (focus = "people" => [Y!Next]_Y!vars)
BY DEF OfficeNext, officeVars, peopleVars, Y!vars

LEMMA ClockStep == ASSUME [OfficeNext]_officeVars PROVE focus' = focus /\ (focus = "clock" => [Q!Next]_Q!vars)
BY DEF OfficeNext, officeVars, clockVars, Q!vars, Q!clockVars, Q!trustVars, Q!periodVars

LEMMA BackupsStep == ASSUME [OfficeNext]_officeVars PROVE focus' = focus /\ (focus = "backups" => [D!Next]_D!vars)
BY DEF OfficeNext, officeVars, backupsVars, D!vars

LEMMA EditorStep == ASSUME [OfficeNext]_officeVars PROVE focus' = focus /\ (focus = "editor" => [A!Next]_A!vars)
BY DEF OfficeNext, officeVars, attendanceVars, A!vars

LEMMA WorthStep ==
    ASSUME [OfficeNext]_officeVars PROVE focus' = focus /\ (focus = "worth" => UNCHANGED <<attended, rowId, sheet>>)
BY DEF OfficeNext, officeVars, attendanceVars

LEMMA CartStep == ASSUME [OfficeNext]_officeVars PROVE focus' = focus /\ (focus = "cart" => [C!Next]_C!vars)
BY DEF OfficeNext, officeVars, cartVars, C!vars

-----------------------------------------------------------------------------
(* The theorems.                                                            *)

\* Lines, refunds and points of the returns of a sale stay within it, whatever
\* the split, and the row of the customer follows them, if the returns of one
\* customer do not overlap.
THEOREM ReturnsOfTheOffice == ASSUME SeparateReturns PROVE OfficeSpec => []ReturnsAddUp
<1> DEFINE Inv == focus = "returns" => FollowInv
<1>1. OfficeInit => Inv
    BY OfficeParameters, InitFollows DEF OfficeInit
<1>2. Inv /\ [OfficeNext]_officeVars => Inv'
    BY OfficeParameters, ReturnsStep, NextFollows DEF SeparateReturns
<1>3. Inv => ReturnsAddUp
    BY OfficeParameters, MoneyWithin DEF ReturnsAddUp, FollowInv, MoneyInv, ReturnInv
<1> QED
    BY <1>1, <1>2, <1>3, PTL DEF OfficeSpec

\* However many returns of one purchase are open at once, the lock on the
\* purchase, taken before the snapshot, keeps them within what was bought.
THEOREM PurchasesOfTheOffice == OfficeSpec => []ReturnedWithinPurchased
<1> DEFINE Inv == focus = "purchasing" => PurchaseInv
<1>1. OfficeInit => Inv
    BY OfficeParameters, InitPurchases DEF OfficeInit
<1>2. Inv /\ [OfficeNext]_officeVars => Inv'
    BY OfficeParameters, PurchasingStep, NextPurchases
<1>3. Inv => ReturnedWithinPurchased
    BY DEF ReturnedWithinPurchased, PurchaseInv
<1> QED
    BY <1>1, <1>2, <1>3, PTL DEF OfficeSpec

\* The items of a package are those of one update, and a package none of whose
\* updates overlapped adds up.
THEOREM PackagesOfTheOffice == OfficeSpec => []PackageAddsUp
<1> DEFINE Inv == focus = "packages" => PackageInv
<1>1. OfficeInit => Inv
    BY OfficeParameters, InitPackages DEF OfficeInit
<1>2. Inv /\ [OfficeNext]_officeVars => Inv'
    BY OfficeParameters, PackagesStep, NextPackages
<1>3. Inv => PackageAddsUp
    BY OfficeParameters, PackagesAddUp DEF PackageAddsUp
<1> QED
    BY <1>1, <1>2, <1>3, PTL DEF OfficeSpec

\* Edits of a row that never met are all kept, and edits that come one at a
\* time, by users whose role is what their token says, leave an administrator.
THEOREM EditsOfTheOffice == OfficeSpec => []EditsKept
<1> DEFINE Inv == focus = "people" => OrderInv
<1>1. OfficeInit => Inv
    BY OfficeParameters, InitOrder DEF OfficeInit
<1>2. Inv /\ [OfficeNext]_officeVars => Inv'
    BY OfficeParameters, PeopleStep, NextOrder
<1>3. Inv => EditsKept
    BY OrderKept DEF EditsKept
<1> QED
    BY <1>1, <1>2, <1>3, PTL DEF OfficeSpec

\* A payroll request refused is followed by none allowed before the network
\* source has answered.
THEOREM RefusalsOfTheOffice == OfficeSpec => RefusedUntilVerified
<1> DEFINE Inv == focus = "clock" => RefusalInv
           Stays == focus = "clock" => Q!StaysRefused
<1>1. OfficeInit => Inv
    BY OfficeParameters, InitRefused DEF OfficeInit
<1>2. Inv /\ [OfficeNext]_officeVars => Inv'
    BY OfficeParameters, ClockStep, NextRefused
<1>3. Inv /\ [OfficeNext]_officeVars => [Stays]_officeVars
    BY OfficeParameters, ClockStep, NextRefused
<1> QED
    BY <1>1, <1>2, <1>3, PTL DEF OfficeSpec, RefusedUntilVerified

\* A catch-up that counts as complete has left no month out, and none works on
\* a month that has not begun.
THEOREM CatchUpsOfTheOffice == OfficeSpec => CatchUpLeavesNoGap
<1> DEFINE Inv == focus = "clock" => CatchUpInv
           NoGap == focus = "clock" => Q!NoGapAfter /\ Q!NoPeriodAhead'
<1>1. OfficeInit => Inv
    BY OfficeParameters, InitCatchUp DEF OfficeInit
<1>2. Inv /\ [OfficeNext]_officeVars => Inv'
    BY OfficeParameters, ClockStep, NextCatchUp
<1>3. CatchUpInv => Q!NoPeriodAhead
    BY DEF CatchUpInv, JobInv, Q!NoPeriodAhead
<1>4. Inv /\ [OfficeNext]_officeVars => [NoGap]_officeVars
    <2> SUFFICES ASSUME Inv, [OfficeNext]_officeVars, focus = "clock"
                 PROVE  Q!NoGapAfter /\ Q!NoPeriodAhead'
        OBVIOUS
    <2>1. CatchUpInv' /\ Q!NoGapAfter
        BY OfficeParameters, ClockStep, NextCatchUp
    <2>2. Q!NoPeriodAhead'
        BY <2>1 DEF CatchUpInv, JobInv, Q!NoPeriodAhead
    <2> QED
        BY <2>1, <2>2
<1> QED
    BY <1>1, <1>2, <1>4, PTL DEF OfficeSpec, CatchUpLeavesNoGap

\* A restore that ends has replaced database and files by those of the archive,
\* or left what there was before, whichever steps fail; and with uploads and
\* downloads beside each other, no row and no archive names a missing file.
THEOREM RestoresOfTheOffice == OfficeSpec => []RestoredIsWhole
<1> DEFINE Inv == focus = "backups" => BackupInv
<1>1. OfficeInit => Inv
    BY OfficeParameters, BackupInit DEF OfficeInit
<1>2. Inv /\ [OfficeNext]_officeVars => Inv'
    BY OfficeParameters, BackupsStep, BackupStep
<1>3. Inv => RestoredIsWhole
    BY OfficeParameters, BackupsKeep DEF RestoredIsWhole
<1> QED
    BY <1>1, <1>2, <1>3, PTL DEF OfficeSpec

\* "Attendance saved." means that every change of the save is on record, after
\* saves that failed half way too, if nobody else edits the month and no request
\* of a failed save was still at work; and a day present is worth no less than
\* any other record of it, in any month, for any salary and frequency.
THEOREM AttendanceOfTheOffice == OfficeSpec => []AttendanceCounts
<1> DEFINE Edited == focus = "editor" => SheetInv
           Valued == focus = "worth" => attended \in [W!Days -> ValuedMonth.statuses \cup {""}]
<1>1. OfficeInit => Edited /\ Valued
    BY OfficeParameters, SheetInit DEF OfficeInit, W!Init
<1>2. Edited /\ [OfficeNext]_officeVars => Edited'
    BY OfficeParameters, EditorStep, SheetNext, SheetStutter DEF A!vars
<1>3. Valued /\ [OfficeNext]_officeVars => Valued'
    BY WorthStep DEF W!Days
<1>4. Edited /\ Valued => AttendanceCounts
    BY OfficeParameters, SheetStored, WorthInit DEF AttendanceCounts
<1> QED
    BY <1>1, <1>2, <1>3, <1>4, PTL DEF OfficeSpec

\* A sale that the page let the cashier complete is made at the total and the
\* change shown, unless prices, stock, points or tiers changed since; and the
\* money of every sale made adds up, whatever the page had loaded.
THEOREM CartsOfTheOffice == OfficeSpec => SoldAsShown
<1> DEFINE Inv == focus = "cart" => CartInv
           Shown == focus = "cart" => C!AsShown /\ C!SalesAddUp'
<1>1. OfficeInit => Inv
    BY OfficeParameters, InitCart DEF OfficeInit
<1>2. Inv /\ [OfficeNext]_officeVars => Inv'
    BY OfficeParameters, CartStep, NextCart
<1>3. Inv /\ [OfficeNext]_officeVars => [Shown]_officeVars
    <2> SUFFICES ASSUME Inv, [OfficeNext]_officeVars, focus = "cart"
                 PROVE  C!AsShown /\ C!SalesAddUp'
        OBVIOUS
    <2>1. CartInv' /\ C!AsShown
        BY OfficeParameters, CartStep, NextCart
    <2> QED
        BY <2>1 DEF CartInv
<1> QED
    BY <1>1, <1>2, <1>3, PTL DEF OfficeSpec, SoldAsShown
=============================================================================
