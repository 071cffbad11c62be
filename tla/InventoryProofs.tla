-------------------------- MODULE InventoryProofs --------------------------
(***************************************************************************)
(* Theorems about Inventory for every set of products, sessions, editors,  *)
(* quantities and costs and for every limit.                               *)
(***************************************************************************)
EXTENDS Inventory, Arithmetic, TLAPS

-----------------------------------------------------------------------------
(* Helpers on rows and lines.                                              *)

\* A row as its unsigned columns can hold it.
GoodRow == [stock : 0..ColumnLimit, cost : Nat]

\* What a transaction may still have to do when it runs handler op.
GoodLine(op, line) ==
    /\ line \in Line
    /\ op \in {"purchase", "customerReturn"} => line.delta >= 1 /\ line.value >= 0
    /\ op = "revalue" => line.delta = 0 /\ line.value >= 0

\* Every line a request may name is a good one for its handler.
LEMMA RequestLines ==
    ASSUME NEW op \in Operations, NEW line \in LinesOf(op)
    PROVE  GoodLine(op, line)
<1>1. op \in LockFirst \cup ReadFirst
    BY OperationsAssumption
<1>2. CASE op \in {"stockIn", "adjust", "sale", "packageSale", "supplierReturn"}
    BY <1>2, QuantitiesAssumption
    DEF LinesOf, Lines, Removals, GoodLine, Line
<1>3. CASE op = "revalue"
    BY <1>3, CostsAssumption DEF LinesOf, Lines, GoodLine, Line
<1>4. CASE op \in {"purchase", "customerReturn"}
    <2>1. PICK p \in Products, q \in Quantities, c \in Costs :
              line = [product |-> p, delta |-> q, value |-> q * c]
        BY <1>4 DEF LinesOf, Receipts
    <2>2. q \in Nat /\ q >= 1 /\ c \in Nat
        BY QuantitiesAssumption, CostsAssumption
    <2>3. q * c \in Nat
        BY <2>2
    <2> QED
        BY <1>4, <2>1, <2>2, <2>3 DEF GoodLine, Line
<1> QED
    BY <1>1, <1>2, <1>3, <1>4 DEF LockFirst, ReadFirst

\* Math.round of a non-negative quotient is a natural number.
LEMMA RoundedNat ==
    ASSUME NEW n \in Nat, NEW d \in Nat, d > 0
    PROVE  Rounded(n, d) \in Nat
<1> DEFINE a == 2 * n + d
<1> DEFINE b == 2 * d
<1>1. a \in Nat /\ b \in Nat /\ b > 0
    OBVIOUS
<1> HIDE DEF a, b
<1>2. a \div b \in Nat
    BY <1>1
<1> QED
    BY <1>2 DEF Rounded, a, b

\* An entity computed from a good row it accepts is a good row, but for the
\* width of the stock column, which the database checks.
LEMMA EntityRange ==
    ASSUME NEW op \in Operations, NEW r \in GoodRow, NEW line,
           GoodLine(op, line), Accepts(op, r, line)
    PROVE  /\ Entity(op, r, line) \in Row
           /\ Entity(op, r, line).stock >= 0
           /\ Entity(op, r, line).cost >= 0
<1>1. r.stock \in Nat /\ r.cost \in Nat /\ line.delta \in Int /\ line.value \in Int
    BY LimitsAssumption DEF GoodRow, GoodLine, Line
<1>2. NextStock(r, line) \in Nat
    BY <1>1 DEF Accepts, NextStock
<1>3. Entity(op, r, line).cost \in Nat
    <2>1. CASE op = "revalue"
        BY <2>1, <1>1 DEF Entity, GoodLine
    <2>2. CASE op \in {"purchase", "customerReturn"}
        <3>1. line.delta >= 1 /\ line.value \in Nat
            BY <2>2, <1>1 DEF GoodLine
        <3>2. NextStock(r, line) > 0
            BY <3>1, <1>1 DEF NextStock
        <3>3. r.stock * r.cost \in Nat
            BY <1>1
        <3>4. r.stock * r.cost + line.value \in Nat
            BY <3>1, <3>3
        <3>5. Rounded(r.stock * r.cost + line.value, NextStock(r, line)) \in Nat
            BY <3>2, <3>4, <1>2, RoundedNat
        <3> QED
            BY <2>2, <3>5 DEF Entity
    <2>3. CASE op \notin {"revalue", "purchase", "customerReturn"}
        BY <2>3, <1>1 DEF Entity
    <2> QED
        BY <2>1, <2>2, <2>3
<1> QED
    BY <1>2, <1>3 DEF Entity, Row

\* save() of good rows yields a good row once the stock fits its column.
LEMMA SavedRange ==
    ASSUME NEW base \in GoodRow, NEW read \in GoodRow, NEW entity \in Row,
           entity.stock >= 0, entity.cost >= 0,
           Saved(base, entity, read).stock <= ColumnLimit
    PROVE  Saved(base, entity, read) \in GoodRow
BY LimitsAssumption DEF Saved, GoodRow, Row

-----------------------------------------------------------------------------
(* The inductive invariant: every row a handler can see or write is good.  *)

GoodTx(t) ==
    /\ t \in Tx
    /\ t.view \in [Products -> GoodRow]
    /\ t.op # "idle" => t.op \in Operations
    /\ \A i \in DOMAIN t.todo : GoodLine(t.op, t.todo[i])

GoodEdit(c) == c \in EditCall /\ c.entity \in GoodRow /\ c.read \in GoodRow

RangeInv ==
    /\ row \in [Products -> GoodRow]
    /\ booked \in [Products -> Int]
    /\ tx = [s \in Sessions |-> tx[s]]
    /\ \A s \in Sessions : GoodTx(tx[s])
    /\ edit = [e \in Editors |-> edit[e]]
    /\ \A e \in Editors : GoodEdit(edit[e])

LEMMA GoodNoRow == NoRow \in GoodRow
BY LimitsAssumption DEF NoRow, GoodRow

LEMMA GoodRowIsRow == GoodRow \subseteq Row
BY LimitsAssumption DEF GoodRow, Row

LEMMA GoodIdle == GoodTx(Idle)
<1>1. Idle.view \in [Products -> GoodRow]
    BY GoodNoRow DEF Idle
<1>2. Idle.view \in [Products -> Row]
    BY <1>1, GoodRowIsRow
<1>3. Idle \in Tx
    BY <1>2 DEF Idle, Tx
<1> QED
    BY <1>1, <1>3 DEF GoodTx, Idle

LEMMA GoodNoEdit == GoodEdit(NoEdit)
<1>1. (CHOOSE p \in Products : TRUE) \in Products
    BY ProductsAssumption
<1>2. NoEdit \in EditCall
    BY <1>1, GoodNoRow, GoodRowIsRow DEF NoEdit, EditCall
<1> QED
    BY <1>2, GoodNoRow DEF GoodEdit, NoEdit

LEMMA RangeInit == Init => RangeInv
<1> SUFFICES ASSUME Init PROVE RangeInv
    OBVIOUS
<1>1. row \in [Products -> GoodRow]
    BY LimitsAssumption, CostsAssumption DEF Init, GoodRow
<1>2. booked \in [Products -> Int]
    BY <1>1, LimitsAssumption DEF Init, GoodRow
<1> QED
    BY <1>1, <1>2, GoodIdle, GoodNoEdit DEF Init, RangeInv

\* Changing one session's transaction to a good one keeps the invariant.
LEMMA RangeTxStep ==
    ASSUME RangeInv, NEW s \in Sessions, NEW t, GoodTx(t),
           tx' = [tx EXCEPT ![s] = t],
           row' \in [Products -> GoodRow], booked' \in [Products -> Int],
           UNCHANGED edit
    PROVE  RangeInv'
<1>1. \A u \in Sessions : tx'[u] = IF u = s THEN t ELSE tx[u]
    BY DEF RangeInv
<1>2. tx' = [u \in Sessions |-> tx'[u]]
    BY DEF RangeInv
<1>3. \A u \in Sessions : GoodTx(tx'[u])
    BY <1>1 DEF RangeInv
<1> QED
    BY <1>2, <1>3 DEF RangeInv, GoodTx, GoodEdit

\* What a locking read returns, and what save() reads, are good rows.
LEMMA ReadsRange ==
    ASSUME RangeInv, NEW s \in Sessions, NEW p \in Products
    PROVE  Current(s, p) \in GoodRow /\ PlainRead(s, p) \in GoodRow
<1>1. row[p] \in GoodRow /\ tx[s].view[p] \in GoodRow
    BY DEF RangeInv, GoodTx
<1> QED
    BY <1>1 DEF Current, PlainRead

LEMMA AppliedGood ==
    ASSUME RangeInv, NEW s \in Sessions, CanLock(s), Fits(s)
    PROVE  GoodTx(Applied(s))
<1> DEFINE p == NextLine(s).product
<1> DEFINE o == tx[s].op
<1>1. /\ tx[s] \in Tx
      /\ tx[s].view \in [Products -> GoodRow]
      /\ o \in Operations
      /\ tx[s].todo \in Seq(Line)
      /\ tx[s].todo # << >>
    BY DEF RangeInv, GoodTx, CanLock, Working, Tx
<1>2. NextLine(s) \in Line /\ GoodLine(o, NextLine(s))
    BY <1>1 DEF RangeInv, GoodTx, NextLine
<1>3. p \in Products /\ NextLine(s).delta \in Int
    BY <1>2 DEF Line
<1>4. Locked(s) \in GoodRow /\ NextRead(s) \in GoodRow
    BY <1>3, ReadsRange DEF Locked, NextRead
<1>5. /\ NextEntity(s) \in Row
      /\ NextEntity(s).stock >= 0
      /\ NextEntity(s).cost >= 0
    BY <1>1, <1>2, <1>4, EntityRange DEF NextEntity, Fits
<1>6. NextRow(s) \in GoodRow
    BY <1>4, <1>5, SavedRange DEF NextRow, Fits
<1>7. Applied(s).view \in [Products -> GoodRow]
    BY <1>1, <1>3, <1>6 DEF Applied
<1>8. Applied(s).view \in [Products -> Row]
    BY <1>7, GoodRowIsRow
<1>9. Tail(tx[s].todo) \in Seq(Line)
    BY <1>1
<1>10. \A i \in DOMAIN Tail(tx[s].todo) : GoodLine(o, Tail(tx[s].todo)[i])
    <2>1. \A i \in DOMAIN Tail(tx[s].todo) :
              Tail(tx[s].todo)[i] = tx[s].todo[i + 1] /\ i + 1 \in DOMAIN tx[s].todo
        BY <1>1
    <2>2. \A i \in DOMAIN tx[s].todo : GoodLine(o, tx[s].todo[i])
        BY DEF RangeInv, GoodTx
    <2> QED
        BY <2>1, <2>2
<1>11. [tx[s].moved EXCEPT ![p] = @ + NextLine(s).delta] \in [Products -> Int]
    BY <1>1, <1>3 DEF Tx
<1>12. tx[s].written \cup {p} \in SUBSET Products /\ tx[s].held \cup {p} \in SUBSET Products
    BY <1>1, <1>3 DEF Tx
<1>13. Applied(s) \in Tx
    BY <1>1, <1>8, <1>9, <1>11, <1>12 DEF Applied, Tx
<1> QED
    BY <1>1, <1>7, <1>10, <1>13 DEF GoodTx, Applied

\* Whatever the handler, a request that starts opens a transaction of its own
\* lines and touches nothing else.
LEMMA RequestOpens ==
    ASSUME NEW s \in Sessions, Request(s)
    PROVE  /\ \E op \in Operations : \E lines \in Requests(op) :
                 tx' = [tx EXCEPT ![s] = Opened(op, lines)]
           /\ UNCHANGED <<row, booked, edit>>
<1>1. \E op \in Operations : \E lines \in Requests(op) : Open(s, op, lines)
    <2>1. CASE StockIn(s)
        BY <2>1 DEF StockIn, Open
    <2>2. CASE Adjust(s)
        BY <2>2 DEF Adjust, Open
    <2>3. CASE RevalueCost(s)
        BY <2>3 DEF RevalueCost, Open
    <2>4. CASE Sale(s)
        BY <2>4 DEF Sale, Open
    <2>5. CASE PackageSale(s)
        BY <2>5 DEF PackageSale, Open
    <2>6. CASE CreatePurchase(s)
        BY <2>6 DEF CreatePurchase, Open
    <2>7. CASE CreateSalesReturn(s)
        BY <2>7 DEF CreateSalesReturn, Open
    <2>8. CASE CreateSupplierReturn(s)
        BY <2>8 DEF CreateSupplierReturn, Open
    <2> QED
        BY <2>1, <2>2, <2>3, <2>4, <2>5, <2>6, <2>7, <2>8 DEF Request
<1> QED
    BY <1>1 DEF Open

\* A request that starts keeps rows and transactions within their ranges.
LEMMA RangeBegin ==
    ASSUME RangeInv, NEW s \in Sessions, Request(s)
    PROVE  RangeInv'
<1>0. PICK op \in Operations : \E lines \in Requests(op) :
          /\ tx' = [tx EXCEPT ![s] = Opened(op, lines)]
          /\ UNCHANGED <<row, booked, edit>>
    BY RequestOpens
<1>1. PICK lines \in Requests(op) :
          /\ tx' = [tx EXCEPT ![s] = Opened(op, lines)]
          /\ UNCHANGED <<row, booked, edit>>
    BY <1>0
<1>2. PICK n \in Nat : lines \in [1..n -> LinesOf(op)]
    <2>1. CASE op \in LockFirst
        <3>1. lines \in [1..1 -> LinesOf(op)]
            BY <2>1 DEF Requests
        <3> QED
            BY <3>1
    <2>2. CASE op \notin LockFirst
        <3>1. \E n \in 1..CartLength : lines \in [1..n -> LinesOf(op)]
            BY <2>2, Zenon DEF Requests
        <3>2. \A n \in 1..CartLength : n \in Nat
            BY LimitsAssumption
        <3> QED
            BY <3>1, <3>2
    <2> QED
        BY <2>1, <2>2
<1>3. \A i \in 1..n : GoodLine(op, lines[i])
    BY <1>2, RequestLines
<1>4. lines \in Seq(Line) /\ DOMAIN lines = 1..n
    BY <1>2, <1>3 DEF GoodLine
<1>5. op \in LockFirst \cup ReadFirst
    BY OperationsAssumption
<1>6. Idle.view \in [Products -> GoodRow] /\ Idle.moved \in [Products -> Int]
    BY GoodNoRow DEF Idle
<1>7. Opened(op, lines).view \in [Products -> GoodRow]
    BY <1>6 DEF Opened, RangeInv
<1>8. Opened(op, lines).view \in [Products -> Row]
    BY <1>7, GoodRowIsRow
<1>9. Opened(op, lines) \in Tx
    BY <1>4, <1>5, <1>6, <1>8 DEF Opened, Tx
<1>10. GoodTx(Opened(op, lines))
    BY <1>3, <1>4, <1>7, <1>9 DEF GoodTx, Opened
<1> QED
    BY <1>1, <1>10, RangeTxStep DEF RangeInv

LEMMA RangeCommit ==
    ASSUME RangeInv, NEW s \in Sessions, Commit(s)
    PROVE  RangeInv'
<1>1. row' \in [Products -> GoodRow]
    BY ReadsRange DEF Commit
<1>2. tx[s].moved \in [Products -> Int]
    BY DEF RangeInv, GoodTx, Tx
<1>3. booked' \in [Products -> Int]
    BY <1>2 DEF Commit, RangeInv
<1> QED
    BY <1>1, <1>3, GoodIdle, RangeTxStep DEF Commit

LEMMA RangeHandler ==
    ASSUME RangeInv, NEW s \in Sessions, Handler(s)
    PROVE  RangeInv'
<1>1. CASE Apply(s)
    BY <1>1, AppliedGood, RangeTxStep DEF Apply, RangeInv
<1>2. CASE Rollback(s)
    BY <1>2, GoodIdle, RangeTxStep DEF Rollback, RangeInv
<1>3. CASE Commit(s)
    BY <1>3, RangeCommit
<1>4. CASE Refer(s)
    <2>1. PICK p : /\ p \in NextReferred(s)
                   /\ tx' = [tx EXCEPT ![s].shared = @ \cup {p}]
                   /\ UNCHANGED <<row, booked, edit>>
        BY <1>4 DEF Refer
    <2> DEFINE t == [tx[s] EXCEPT !.shared = @ \cup {p}]
    <2>2. GoodTx(tx[s]) /\ tx[s] \in Tx
        BY DEF RangeInv, GoodTx
    <2>3. p \in Products
        <3>1. PICK i \in DOMAIN tx[s].todo : p = tx[s].todo[i].product
            BY <2>1 DEF NextReferred, Unreferred
        <3>2. tx[s].todo[i] \in Line
            BY <2>2, <3>1 DEF GoodTx, GoodLine
        <3> QED
            BY <3>1, <3>2 DEF Line
    <2>4. GoodTx(t)
        BY <2>2, <2>3 DEF GoodTx, Tx
    <2> QED
        BY <2>1, <2>4, RangeTxStep DEF RangeInv
<1> QED
    BY <1>1, <1>2, <1>3, <1>4 DEF Handler, Reject, Refuse, DeadlockVictim

\* Changing one editor's call to a good one keeps the invariant.
LEMMA RangeEditStep ==
    ASSUME RangeInv, NEW e \in Editors, NEW c, GoodEdit(c),
           edit' = [edit EXCEPT ![e] = c],
           row' \in [Products -> GoodRow], UNCHANGED <<booked, tx>>
    PROVE  RangeInv'
<1>1. \A f \in Editors : edit'[f] = IF f = e THEN c ELSE edit[f]
    BY DEF RangeInv
<1>2. edit' = [f \in Editors |-> edit'[f]]
    BY DEF RangeInv
<1>3. \A f \in Editors : GoodEdit(edit'[f])
    BY <1>1 DEF RangeInv
<1> QED
    BY <1>2, <1>3 DEF RangeInv, GoodTx, GoodEdit

LEMMA RangeEdit ==
    ASSUME RangeInv, NEW e \in Editors, Edit(e)
    PROVE  RangeInv'
<1>1. edit[e] \in EditCall /\ edit[e].entity \in GoodRow /\ edit[e].read \in GoodRow
    BY DEF RangeInv, GoodEdit
<1>2. CASE EditLoad(e)
    <2>1. PICK p \in Products :
              edit' = [edit EXCEPT ![e] = [phase |-> "loaded", product |-> p,
                                           entity |-> row[p], read |-> NoRow]]
        BY <1>2 DEF EditLoad
    <2> DEFINE c == [phase |-> "loaded", product |-> p, entity |-> row[p], read |-> NoRow]
    <2>2. row[p] \in GoodRow /\ NoRow \in GoodRow
        BY GoodNoRow DEF RangeInv
    <2>3. c \in EditCall
        BY <2>2, GoodRowIsRow DEF EditCall
    <2>4. GoodEdit(c)
        BY <2>2, <2>3 DEF GoodEdit
    <2> QED
        BY <1>2, <2>1, <2>4, RangeEditStep DEF EditLoad, RangeInv
<1>3. CASE EditReload(e)
    <2> DEFINE c == [edit[e] EXCEPT !.phase = "reloaded", !.read = row[edit[e].product]]
    <2>1. row[edit[e].product] \in GoodRow
        BY <1>1 DEF RangeInv, EditCall
    <2>2. c \in EditCall
        BY <1>1, <2>1, GoodRowIsRow DEF EditCall
    <2>3. GoodEdit(c)
        BY <1>1, <2>1, <2>2 DEF GoodEdit, EditCall
    <2>4. edit' = [edit EXCEPT ![e] = c]
        BY <1>3 DEF EditReload
    <2> QED
        BY <1>3, <2>3, <2>4, RangeEditStep DEF EditReload, RangeInv
<1>4. CASE EditWrite(e)
    <2> DEFINE p == edit[e].product
    <2>1. p \in Products /\ row[p] \in GoodRow
        BY <1>1 DEF RangeInv, EditCall
    <2>2. Saved(row[p], edit[e].entity, edit[e].read) \in GoodRow
        BY <1>1, <2>1 DEF Saved, GoodRow
    <2>3. row' \in [Products -> GoodRow]
        BY <1>4, <2>1, <2>2 DEF EditWrite, RangeInv
    <2> QED
        BY <1>4, <2>3, GoodNoEdit, RangeEditStep DEF EditWrite
<1> QED
    BY <1>2, <1>3, <1>4 DEF Edit

LEMMA RangeStep == RangeInv /\ [Next]_vars => RangeInv'
<1> SUFFICES ASSUME RangeInv, [Next]_vars PROVE RangeInv'
    OBVIOUS
<1>1. ASSUME NEW s \in Sessions, Request(s) PROVE RangeInv'
    BY <1>1, RangeBegin
<1>2. ASSUME NEW s \in Sessions, Handler(s) PROVE RangeInv'
    BY <1>2, RangeHandler
<1>3. ASSUME NEW e \in Editors, Edit(e) PROVE RangeInv'
    BY <1>3, RangeEdit
<1>4. CASE UNCHANGED vars
    BY <1>4 DEF vars, RangeInv, GoodTx, GoodEdit
<1> QED
    BY <1>1, <1>2, <1>3, <1>4 DEF Next

LEMMA RangeAlways == Spec => []RangeInv
BY RangeInit, RangeStep, PTL DEF Spec

LEMMA RangeImplies == RangeInv => TypeOK /\ StockInRange
<1> SUFFICES ASSUME RangeInv PROVE TypeOK /\ StockInRange
    OBVIOUS
<1>1. \A p \in Products : row[p] \in GoodRow
    BY DEF RangeInv
<1>2. row \in [Products -> Row]
    BY <1>1, GoodRowIsRow DEF RangeInv
<1>3. tx \in [Sessions -> Tx]
    BY DEF RangeInv, GoodTx
<1>4. edit \in [Editors -> EditCall]
    BY DEF RangeInv, GoodEdit
<1> QED
    BY <1>1, <1>2, <1>3, <1>4 DEF RangeInv, TypeOK, StockInRange, GoodRow

\* The variables keep their types in every behaviour, with every handler and
\* ProductsService.update running at once.
THEOREM TypeCorrect == Spec => []TypeOK
BY RangeAlways, RangeImplies, PTL

\* No interleaving of handlers, snapshots and unlocked product edits makes a
\* stock negative or wider than its column.
THEOREM StockStaysInRange == Spec => []StockInRange
BY RangeAlways, RangeImplies, PTL

-----------------------------------------------------------------------------
(* The moving average.                                                     *)

\* A unit cost between two that were named.
Priced(c) == /\ \E k \in Costs : k <= c
             /\ \E k \in Costs : c <= k

\* The money that comes with a line is a multiple of a named cost, or is one.
PricedLine(op, line) ==
    /\ op \in {"purchase", "customerReturn"} =>
           \E c \in Costs : line.value = line.delta * c
    /\ op = "revalue" => line.value \in Costs

\* Every cost a later step can write: of a committed row, of a row an open
\* transaction has updated, of a line still to do, of an edit under way. What
\* a snapshot shows of rows not updated is only compared with.
PriceInv ==
    /\ \A p \in Products : Priced(row[p].cost)
    /\ \A s \in Sessions :
        /\ \A p \in tx[s].written : Priced(tx[s].view[p].cost)
        /\ \A i \in DOMAIN tx[s].todo : PricedLine(tx[s].op, tx[s].todo[i])
    /\ \A e \in Editors : edit[e].phase # "idle" => Priced(edit[e].entity.cost)

\* The rounded quotient of n by d lies between the bounds of the quotient.
LEMMA RoundedWithin ==
    ASSUME NEW n \in Nat, NEW d \in Nat, d > 0, NEW lo \in Nat, NEW hi \in Nat,
           lo * d <= n, n <= hi * d
    PROVE  lo <= Rounded(n, d) /\ Rounded(n, d) <= hi
<1> DEFINE a == 2 * n + d
           b == 2 * d
<1>1. a \in Nat /\ b \in Nat /\ b > 0
    OBVIOUS
<1>2. lo * d \in Nat /\ hi * d \in Nat
    OBVIOUS
<1>3. lo * b = 2 * (lo * d) /\ (hi + 1) * b = 2 * (hi * d) + 2 * d
    OBVIOUS
<1>4. lo * b <= a /\ a < (hi + 1) * b
    BY <1>2, <1>3
<1>5. Rounded(n, d) = a \div b
    BY DEF Rounded
<1> HIDE DEF a, b
<1> QED
    BY <1>1, <1>4, <1>5, QuotientBounds

\* Averaging units at one cost with units at another gives a cost between.
LEMMA AverageWithin ==
    ASSUME NEW s \in Nat, NEW q \in Nat, q >= 1, NEW c \in Nat, NEW k \in Nat,
           NEW lo \in Nat, NEW hi \in Nat, lo <= c, c <= hi, lo <= k, k <= hi
    PROVE  /\ lo <= Rounded(s * c + q * k, s + q)
           /\ Rounded(s * c + q * k, s + q) <= hi
<1>1. lo * s <= s * c /\ s * c <= hi * s
    BY Z3
<1>2. lo * q <= q * k /\ q * k <= hi * q
    BY Z3
<1>3. lo * (s + q) = lo * s + lo * q /\ hi * (s + q) = hi * s + hi * q
    OBVIOUS
<1>4. /\ s * c \in Nat /\ q * k \in Nat /\ lo * s \in Nat /\ lo * q \in Nat
      /\ hi * s \in Nat /\ hi * q \in Nat
    OBVIOUS
<1> DEFINE n == s * c + q * k
           d == s + q
<1>5. n \in Nat /\ d \in Nat /\ d > 0
    BY <1>4
<1>6. lo * d <= n /\ n <= hi * d
    BY <1>1, <1>2, <1>3, <1>4
<1> HIDE DEF n, d
<1>7. lo <= Rounded(n, d) /\ Rounded(n, d) <= hi
    BY <1>5, <1>6, RoundedWithin
<1> QED
    BY <1>7 DEF n, d

\* What a handler writes is priced if the row it locked and its line are.
LEMMA EntityPriced ==
    ASSUME NEW op \in Operations, NEW r \in GoodRow, NEW line,
           GoodLine(op, line), PricedLine(op, line), Accepts(op, r, line), Priced(r.cost)
    PROVE  Priced(Entity(op, r, line).cost)
<1>1. r.stock \in Nat /\ r.cost \in Nat /\ line.delta \in Int /\ line.value \in Int
    BY LimitsAssumption DEF GoodRow, GoodLine, Line
<1>2. CASE op = "revalue"
    <2>1. Entity(op, r, line).cost = line.value /\ line.value \in Costs
        BY <1>2 DEF Entity, PricedLine
    <2>2. line.value <= line.value
        BY <1>1
    <2> QED
        BY <2>1, <2>2 DEF Priced
<1>3. CASE op \in {"purchase", "customerReturn"}
    <2>1. PICK c \in Costs : line.value = line.delta * c
        BY <1>3 DEF PricedLine
    <2>2. line.delta \in Nat /\ line.delta >= 1 /\ c \in Nat
        BY <1>1, <1>3, CostsAssumption DEF GoodLine
    <2> DEFINE average == Rounded(r.stock * r.cost + line.delta * c, r.stock + line.delta)
    <2>3. Entity(op, r, line).cost = average
        BY <1>3, <2>1 DEF Entity, NextStock
    <2>4. average \in Int
        <3>1. r.stock * r.cost \in Nat /\ line.delta * c \in Nat
            BY <1>1, <2>2
        <3>2. r.stock * r.cost + line.delta * c \in Nat /\ r.stock + line.delta \in Nat
              /\ r.stock + line.delta > 0
            BY <1>1, <2>2, <3>1
        <3> QED
            BY <3>2, RoundedNat
    <2>5. ASSUME NEW lo \in Nat, NEW hi \in Nat, lo <= r.cost, lo <= c, r.cost <= hi, c <= hi
          PROVE  lo <= average /\ average <= hi
        BY <1>1, <2>2, <2>5, AverageWithin
    <2>6. PICK k \in Costs, m \in Costs : k <= r.cost /\ r.cost <= m
        BY DEF Priced
    <2>7. k \in Nat /\ m \in Nat
        BY CostsAssumption
    <2>8. PICK lo \in {k, c} : lo <= r.cost /\ lo <= c
        BY <1>1, <2>2, <2>6, <2>7
    <2>9. PICK hi \in {m, c} : r.cost <= hi /\ c <= hi
        BY <1>1, <2>2, <2>6, <2>7
    <2>10. lo \in Costs /\ hi \in Costs /\ lo \in Nat /\ hi \in Nat
        BY <2>1, <2>2, <2>6, <2>7, <2>8, <2>9
    <2>11. lo <= average /\ average <= hi
        BY <2>5, <2>8, <2>9, <2>10
    <2> HIDE DEF average
    <2> QED
        BY <2>3, <2>10, <2>11 DEF Priced
<1>4. CASE op \notin {"revalue", "purchase", "customerReturn"}
    BY <1>4 DEF Entity
<1> QED
    BY <1>2, <1>3, <1>4

LEMMA RequestPriced ==
    ASSUME NEW op \in Operations, NEW line \in LinesOf(op)
    PROVE  PricedLine(op, line)
<1>1. CASE op = "revalue"
    BY <1>1 DEF LinesOf, Lines, PricedLine
<1>2. CASE op \in {"purchase", "customerReturn"}
    <2>1. PICK p \in Products, q \in Quantities, c \in Costs :
              line = [product |-> p, delta |-> q, value |-> q * c]
        BY <1>2 DEF LinesOf, Receipts
    <2>2. line.delta = q /\ line.value = q * c
        BY <2>1
    <2>3. line.value = line.delta * c
        BY <2>2
    <2> QED
        BY <1>2, <2>3 DEF PricedLine
<1>3. CASE op \notin {"revalue", "purchase", "customerReturn"}
    BY <1>3 DEF PricedLine
<1> QED
    BY <1>1, <1>2, <1>3

LEMMA PriceInit == Init => PriceInv
<1> SUFFICES ASSUME Init PROVE PriceInv
    OBVIOUS
<1>1. \A p \in Products : row[p].cost \in Costs
    BY DEF Init
<1>2. \A c \in Costs : c \in Nat /\ c <= c
    BY CostsAssumption
<1>3. \A c \in Costs : Priced(c)
    BY <1>2 DEF Priced
<1>4. \A s \in Sessions : tx[s].written = {} /\ DOMAIN tx[s].todo = {}
    BY DEF Init, Idle
<1>5. \A e \in Editors : edit[e].phase = "idle"
    BY DEF Init, NoEdit
<1> QED
    BY <1>1, <1>3, <1>4, <1>5 DEF PriceInv

\* A transaction whose lines and updated rows are priced.
PricedTx(t) ==
    /\ \A p \in t.written : Priced(t.view[p].cost)
    /\ \A i \in DOMAIN t.todo : PricedLine(t.op, t.todo[i])

LEMMA PriceTxStep ==
    ASSUME RangeInv, PriceInv, NEW s \in Sessions, NEW t, PricedTx(t),
           tx' = [tx EXCEPT ![s] = t],
           \A p \in Products : Priced(row'[p].cost), UNCHANGED edit
    PROVE  PriceInv'
<1>1. \A u \in Sessions : tx'[u] = IF u = s THEN t ELSE tx[u]
    BY DEF RangeInv
<1>2. \A u \in Sessions : PricedTx(tx[u])
    BY DEF PriceInv, PricedTx
<1>3. \A u \in Sessions : PricedTx(tx'[u])
    BY <1>1, <1>2
<1>4. \A e \in Editors : edit'[e].phase # "idle" => Priced(edit'[e].entity.cost)
    BY DEF PriceInv
<1> QED
    BY <1>3, <1>4 DEF PriceInv, PricedTx

LEMMA IdlePriced == PricedTx(Idle)
BY DEF PricedTx, Idle

\* The row a session locks is priced, whether it has updated it or not.
LEMMA CurrentPriced ==
    ASSUME PriceInv, NEW s \in Sessions, NEW p \in Products
    PROVE  Priced(Current(s, p).cost)
BY DEF PriceInv, Current

LEMMA AppliedPriced ==
    ASSUME RangeInv, PriceInv, NEW s \in Sessions, CanLock(s), Fits(s)
    PROVE  PricedTx(Applied(s))
<1> DEFINE p == NextLine(s).product
           o == tx[s].op
<1>1. /\ tx[s].view \in [Products -> GoodRow] /\ o \in Operations
      /\ tx[s].todo \in Seq(Line) /\ tx[s].todo # << >>
    BY DEF RangeInv, GoodTx, CanLock, Working, Tx
<1>2. GoodLine(o, NextLine(s)) /\ PricedLine(o, NextLine(s)) /\ p \in Products
    <2>1. 1 \in DOMAIN tx[s].todo /\ NextLine(s) = tx[s].todo[1]
        BY <1>1 DEF NextLine
    <2> QED
        BY <2>1 DEF RangeInv, GoodTx, PriceInv, GoodLine, Line
<1>3. Locked(s) \in GoodRow /\ Priced(Locked(s).cost)
    BY <1>2, ReadsRange, CurrentPriced DEF Locked
<1>4. Priced(NextEntity(s).cost)
    BY <1>1, <1>2, <1>3, EntityPriced DEF NextEntity, Fits
<1>5. Priced(NextRow(s).cost)
    BY <1>3, <1>4 DEF NextRow, Saved
<1>6. \A q \in Applied(s).written : Priced(Applied(s).view[q].cost)
    <2>1. \A q \in tx[s].written : q \in Products /\ Priced(tx[s].view[q].cost)
        BY DEF PriceInv, RangeInv, GoodTx, Tx
    <2> QED
        BY <1>1, <1>2, <1>5, <2>1 DEF Applied
<1>7. \A i \in DOMAIN Tail(tx[s].todo) : PricedLine(o, Tail(tx[s].todo)[i])
    <2>1. \A i \in DOMAIN Tail(tx[s].todo) :
              Tail(tx[s].todo)[i] = tx[s].todo[i + 1] /\ i + 1 \in DOMAIN tx[s].todo
        BY <1>1
    <2>2. \A i \in DOMAIN tx[s].todo : PricedLine(o, tx[s].todo[i])
        BY DEF PriceInv
    <2> QED
        BY <2>1, <2>2
<1> QED
    BY <1>6, <1>7 DEF PricedTx, Applied

LEMMA PriceHandler ==
    ASSUME RangeInv, PriceInv, NEW s \in Sessions, Handler(s)
    PROVE  PriceInv'
<1>0. \A p \in Products : Priced(row[p].cost)
    BY DEF PriceInv
<1>1. CASE Apply(s)
    BY <1>0, <1>1, AppliedPriced, PriceTxStep DEF Apply
<1>2. CASE Rollback(s)
    BY <1>0, <1>2, IdlePriced, PriceTxStep DEF Rollback
<1>3. CASE Commit(s)
    <2>1. \A p \in Products : row'[p] = Current(s, p)
        BY <1>3 DEF Commit
    <2>2. \A p \in Products : Priced(row'[p].cost)
        BY <2>1, CurrentPriced
    <2> QED
        BY <1>3, <2>2, IdlePriced, PriceTxStep DEF Commit
<1>4. CASE Refer(s)
    <2>1. PICK p : /\ tx' = [tx EXCEPT ![s].shared = @ \cup {p}]
                   /\ UNCHANGED <<row, booked, edit>>
        BY <1>4 DEF Refer
    <2> DEFINE t == [tx[s] EXCEPT !.shared = @ \cup {p}]
    <2>2. tx[s] \in Tx
        BY DEF RangeInv, GoodTx
    <2>3. t.written = tx[s].written /\ t.view = tx[s].view
          /\ t.todo = tx[s].todo /\ t.op = tx[s].op
        BY <2>2 DEF Tx
    <2>4. PricedTx(t)
        <3> HIDE DEF t
        <3> QED
            BY <2>3 DEF PriceInv, PricedTx
    <2>5. tx' = [tx EXCEPT ![s] = t]
        BY <2>1
    <2> QED
        BY <1>0, <2>1, <2>4, <2>5, PriceTxStep
<1> QED
    BY <1>1, <1>2, <1>3, <1>4 DEF Handler, Reject, Refuse, DeadlockVictim

LEMMA PriceBegin ==
    ASSUME RangeInv, PriceInv, NEW s \in Sessions, Request(s)
    PROVE  PriceInv'
<1>1. PICK op \in Operations : \E lines \in Requests(op) :
          /\ tx' = [tx EXCEPT ![s] = Opened(op, lines)]
          /\ UNCHANGED <<row, booked, edit>>
    BY RequestOpens
<1>2. PICK lines \in Requests(op) :
          /\ tx' = [tx EXCEPT ![s] = Opened(op, lines)]
          /\ UNCHANGED <<row, booked, edit>>
    BY <1>1
<1>3. \A i \in DOMAIN lines : lines[i] \in LinesOf(op)
    BY <1>2 DEF Requests
<1>4. PricedTx(Opened(op, lines))
    BY <1>3, RequestPriced DEF PricedTx, Opened
<1>5. \A p \in Products : Priced(row[p].cost)
    BY DEF PriceInv
<1> QED
    BY <1>2, <1>4, <1>5, PriceTxStep

\* ProductsService.update writes back a cost that was a row's, or none.
LEMMA PriceEdit ==
    ASSUME RangeInv, PriceInv, NEW e \in Editors, Edit(e)
    PROVE  PriceInv'
<1>1. UNCHANGED tx
    BY DEF Edit, EditLoad, EditReload, EditWrite
<1>2. edit[e] \in EditCall
    BY DEF RangeInv, GoodEdit
<1>3. /\ \A p \in Products : Priced(row'[p].cost)
      /\ \A f \in Editors : edit'[f].phase # "idle" => Priced(edit'[f].entity.cost)
    <2>1. CASE EditLoad(e)
        <3>1. PICK p \in Products :
                  edit' = [edit EXCEPT ![e] = [phase |-> "loaded", product |-> p,
                                               entity |-> row[p], read |-> NoRow]]
            BY <2>1 DEF EditLoad
        <3>2. \A f \in Editors : f # e => edit'[f] = edit[f]
            BY <3>1 DEF RangeInv
        <3>3. edit'[e].entity = row[p]
            BY <3>1 DEF RangeInv
        <3> QED
            BY <2>1, <3>2, <3>3 DEF EditLoad, PriceInv
    <2>2. CASE EditReload(e)
        <3>1. \A f \in Editors : f # e => edit'[f] = edit[f]
            BY <2>2 DEF EditReload, RangeInv
        <3>2. edit'[e].entity = edit[e].entity /\ edit[e].phase = "loaded"
            BY <1>2, <2>2 DEF EditReload, RangeInv, EditCall
        <3> QED
            BY <2>2, <3>1, <3>2 DEF EditReload, PriceInv
    <2>3. CASE EditWrite(e)
        <3> DEFINE p == edit[e].product
        <3>1. edit' = [edit EXCEPT ![e] = NoEdit]
            BY <2>3 DEF EditWrite
        <3>2. \A f \in Editors : edit'[f] = IF f = e THEN NoEdit ELSE edit[f]
            BY <3>1 DEF RangeInv
        <3>3. NoEdit.phase = "idle"
            BY DEF NoEdit
        <3>4. p \in Products /\ edit[e].phase = "reloaded"
            BY <1>2, <2>3 DEF EditCall, EditWrite
        <3>5. Priced(row[p].cost) /\ Priced(edit[e].entity.cost)
            BY <3>4 DEF PriceInv
        <3>6. Priced(Saved(row[p], edit[e].entity, edit[e].read).cost)
            BY <3>5 DEF Saved
        <3>7. \A q \in Products : row'[q] =
                  IF q = p THEN Saved(row[p], edit[e].entity, edit[e].read) ELSE row[q]
            BY <2>3 DEF EditWrite, RangeInv
        <3> QED
            BY <3>2, <3>3, <3>6, <3>7 DEF PriceInv
    <2> QED
        BY <2>1, <2>2, <2>3 DEF Edit
<1> QED
    BY <1>1, <1>3 DEF PriceInv

LEMMA PriceStep ==
    ASSUME RangeInv, PriceInv, [Next]_vars
    PROVE  PriceInv'
<1>1. ASSUME NEW s \in Sessions, Request(s) PROVE PriceInv'
    BY <1>1, PriceBegin
<1>2. ASSUME NEW s \in Sessions, Handler(s) PROVE PriceInv'
    BY <1>2, PriceHandler
<1>3. ASSUME NEW e \in Editors, Edit(e) PROVE PriceInv'
    BY <1>3, PriceEdit
<1>4. CASE UNCHANGED vars
    BY <1>4 DEF vars, PriceInv
<1> QED
    BY <1>1, <1>2, <1>3, <1>4 DEF Next

\* The moving average never leaves the unit costs that were named, whatever
\* rounding, snapshots and unlocked product edits do to it.
THEOREM CostStaysWithinPrices == Spec => []CostWithinPrices
<1>1. PriceInv => CostWithinPrices
    BY DEF PriceInv, Priced, CostWithinPrices
<1> QED
    BY <1>1, PriceInit, PriceStep, RangeAlways, PTL DEF Spec

-----------------------------------------------------------------------------
(* Row locks.                                                              *)

\* A transaction has updated only rows it has locked.
WritesLocked == \A s \in Sessions : tx[s].written \subseteq tx[s].held
LockInv == LockExclusive /\ WritesLocked

\* Two transactions that differ in one session only by giving locks up.
LEMMA LockRelease ==
    ASSUME TypeOK, LockInv, NEW s \in Sessions, NEW t,
           tx' = [tx EXCEPT ![s] = t], t.shared = {}, t.held = {}, t.written = {}
    PROVE  LockInv'
<1>1. \A u \in Sessions : tx'[u] = IF u = s THEN t ELSE tx[u]
    BY DEF TypeOK
<1> QED
    BY <1>1 DEF LockInv, LockExclusive, WritesLocked

LEMMA LockStep ==
    ASSUME TypeOK, LockInv, [Next]_vars
    PROVE  LockInv'
<1>1. ASSUME NEW s \in Sessions, Request(s) PROVE LockInv'
    <2>1. PICK op \in Operations : \E lines \in Requests(op) :
              tx' = [tx EXCEPT ![s] = Opened(op, lines)]
        BY <1>1, RequestOpens
    <2>2. PICK lines \in Requests(op) : tx' = [tx EXCEPT ![s] = Opened(op, lines)]
        BY <2>1
    <2>3. /\ Opened(op, lines).shared = {}
          /\ Opened(op, lines).held = {}
          /\ Opened(op, lines).written = {}
        BY DEF Opened
    <2> QED
        BY <2>2, <2>3, LockRelease
<1>2. ASSUME NEW s \in Sessions, Handler(s) PROVE LockInv'
    <2>1. CASE Apply(s)
        <3>1. \A t \in Sessions : tx'[t] = IF t = s THEN Applied(s) ELSE tx[t]
            BY <2>1 DEF Apply, TypeOK
        <3>2. /\ Applied(s).held = tx[s].held \cup {NextLine(s).product}
              /\ Applied(s).shared = tx[s].shared
              /\ Applied(s).written \subseteq tx[s].written \cup {NextLine(s).product}
            BY DEF Applied
        <3>3. \A t \in Sessions \ {s} :
                  NextLine(s).product \notin tx[t].shared \cup tx[t].held
            BY <2>1 DEF Apply, CanLock, Unlocked
        <3> QED
            BY <3>1, <3>2, <3>3 DEF LockInv, LockExclusive, WritesLocked
    <2>2. CASE Rollback(s) \/ Commit(s)
        <3>1. tx' = [tx EXCEPT ![s] = Idle]
            BY <2>2 DEF Rollback, Commit
        <3>2. Idle.shared = {} /\ Idle.held = {} /\ Idle.written = {}
            BY DEF Idle
        <3> QED
            BY <3>1, <3>2, LockRelease
    <2>3. CASE Refer(s)
        <3>1. PICK p : /\ \A t \in Sessions \ {s} : p \notin tx[t].held
                       /\ tx' = [tx EXCEPT ![s].shared = @ \cup {p}]
            BY <2>3 DEF Refer
        <3>2. /\ tx[s] \in Tx
              /\ tx'[s] = [tx[s] EXCEPT !.shared = @ \cup {p}]
              /\ \A t \in Sessions \ {s} : tx'[t] = tx[t]
            BY <3>1 DEF TypeOK
        <3>3. /\ tx'[s].shared = tx[s].shared \cup {p}
              /\ tx'[s].held = tx[s].held /\ tx'[s].written = tx[s].written
            BY <3>2 DEF Tx
        <3> QED
            BY <3>1, <3>2, <3>3 DEF LockInv, LockExclusive, WritesLocked
    <2> QED
        BY <1>2, <2>1, <2>2, <2>3 DEF Handler, Reject, Refuse, DeadlockVictim
<1>3. ASSUME NEW e \in Editors, Edit(e) PROVE LockInv'
    BY <1>3 DEF Edit, EditLoad, EditReload, EditWrite, LockInv, LockExclusive, WritesLocked
<1>4. CASE UNCHANGED vars
    BY <1>4 DEF vars, LockInv, LockExclusive, WritesLocked
<1> QED
    BY <1>1, <1>2, <1>3, <1>4 DEF Next

LEMMA LockAlways == Spec => []LockInv
<1>1. Init => LockInv
    BY DEF Init, Idle, LockInv, LockExclusive, WritesLocked
<1> QED
    BY <1>1, LockStep, TypeCorrect, PTL DEF Spec

\* Two open transactions never hold the same product row.
THEOREM LocksExclude == Spec => []LockExclusive
BY LockAlways, PTL DEF LockInv

\* A committed product row changes only when the transaction that holds it
\* ends, or when no transaction holds it: what a handler computed from the row
\* it locked is still what the row says when it commits.
THEOREM LockedRowsStable == Spec => LockedRowStable
<1> DEFINE Stable == \A s \in Sessions : \A p \in tx[s].held :
                        tx'[s].op # "idle" => row'[p] = row[p]
<1>1. ASSUME TypeOK, LockInv, Next PROVE Stable
    <2> SUFFICES ASSUME NEW s \in Sessions, NEW p \in tx[s].held, tx'[s].op # "idle"
                 PROVE  row'[p] = row[p]
        OBVIOUS
    <2>1. p \in Products
        BY <1>1 DEF TypeOK, Tx
    <2>2. ASSUME NEW u \in Sessions, Request(u) \/ Handler(u) PROVE row'[p] = row[p]
        <3>1. CASE Commit(u)
            <4>1. tx'[u].op = "idle"
                BY <1>1, <3>1 DEF Commit, TypeOK, Idle
            <4>2. p \notin tx[u].written
                BY <1>1, <4>1 DEF LockInv, LockExclusive, WritesLocked
            <4> QED
                BY <2>1, <3>1, <4>2 DEF Commit, Current
        <3> QED
            BY <2>2, <3>1, RequestOpens DEF Handler, Refer, Apply, Reject, Refuse, DeadlockVictim, Rollback
    <2>3. ASSUME NEW e \in Editors, Edit(e) PROVE row'[p] = row[p]
        <3>1. CASE EditWrite(e)
            <4>1. edit[e].product # p
                BY <3>1 DEF EditWrite, Unlocked
            <4> QED
                BY <1>1, <2>1, <3>1, <4>1 DEF EditWrite, TypeOK
        <3> QED
            BY <2>3, <3>1 DEF Edit, EditLoad, EditReload
    <2> QED
        BY <1>1, <2>2, <2>3 DEF Next
<1>2. ASSUME UNCHANGED vars PROVE Stable
    BY <1>2 DEF vars
<1>3. TypeOK /\ LockInv /\ [Next]_vars => [Stable]_vars
    BY <1>1, <1>2
<1> QED
    BY <1>3, TypeCorrect, LockAlways, PTL DEF Spec, LockedRowStable
-----------------------------------------------------------------------------
(* The movement ledger.  A lock-first handler saves against the row it has *)
(* locked, so save() never drops its UPDATE: what the transaction will     *)
(* install differs from the committed row by exactly what it has booked.   *)

LockFirstOnly == Operations \subseteq LockFirst /\ Editors = {}

Pending(s, p) ==
    IF p \in tx[s].written
    THEN tx[s].view[p].stock = row[p].stock + tx[s].moved[p]
    ELSE tx[s].moved[p] = 0

LedgerInv ==
    /\ LedgerInSync
    /\ \A s \in Sessions : \A p \in Products : Pending(s, p)

\* save() against the locked row itself installs the entity.
LEMMA SavedOnItself ==
    ASSUME NEW base \in Row, NEW entity \in Row
    PROVE  Saved(base, entity, base) = entity
BY DEF Saved, Row

LEMMA LedgerApply ==
    ASSUME LockFirstOnly, RangeInv, LedgerInv, NEW s \in Sessions, Apply(s)
    PROVE  LedgerInv'
<1> DEFINE p == NextLine(s).product
<1>1. tx[s] \in Tx /\ tx[s].op \in Operations /\ tx[s].op \in LockFirst
    BY DEF RangeInv, GoodTx, Apply, CanLock, Working, LockFirstOnly
<1>2. NextLine(s) \in Line /\ GoodLine(tx[s].op, NextLine(s))
    <2>1. tx[s].todo \in Seq(Line) /\ tx[s].todo # << >>
        BY <1>1 DEF Tx, Apply, CanLock, Working
    <2> QED
        BY <2>1 DEF RangeInv, GoodTx, NextLine
<1>3. p \in Products /\ NextLine(s).delta \in Int
    BY <1>2 DEF Line
<1>4. NextRead(s) = Locked(s) /\ Locked(s) \in GoodRow
    BY <1>1, <1>3, ReadsRange DEF NextRead, Locked, PlainRead
<1>5. NextEntity(s) \in Row
    BY <1>1, <1>2, <1>4, EntityRange DEF NextEntity, Apply, Fits
<1>6. NextRow(s) = NextEntity(s)
    BY <1>4, <1>5, GoodRowIsRow, SavedOnItself DEF NextRow
<1>7. NextEntity(s).stock = Locked(s).stock + NextLine(s).delta
    BY DEF NextEntity, Entity, NextStock
<1>8. \A t \in Sessions : tx'[t] = IF t = s THEN Applied(s) ELSE tx[t]
    BY DEF Apply, RangeInv
<1>9. row' = row /\ booked' = booked
    BY DEF Apply
<1>10. ASSUME NEW q \in Products PROVE Pending(s, q)'
    <2>1. Pending(s, q)
        BY DEF LedgerInv
    <2>2. /\ tx[s].moved[q] \in Int
          /\ row[q].stock \in Int
          /\ tx[s].view[q].stock \in Int
        BY <1>1, LimitsAssumption DEF Tx, RangeInv, GoodRow, Row
    <2>3. Applied(s).moved[q] = tx[s].moved[q] + (IF q = p THEN NextLine(s).delta ELSE 0)
        BY <1>1, <1>3, <2>2 DEF Applied, Tx
    <2>4. CASE q # p
        <3>1. Applied(s).view[q] = tx[s].view[q]
            BY <1>1, <2>4 DEF Applied, Tx
        <3>2. q \in Applied(s).written <=> q \in tx[s].written
            BY <2>4 DEF Applied
        <3>3. Applied(s).moved[q] = tx[s].moved[q]
            BY <2>2, <2>3, <2>4
        <3> QED
            BY <1>8, <1>9, <2>1, <3>1, <3>2, <3>3 DEF Pending
    <2>5. CASE q = p /\ NextEntity(s) # NextRead(s)
        <3>1. Applied(s).view[q] = NextEntity(s) /\ q \in Applied(s).written
            BY <1>1, <1>3, <1>6, <2>5 DEF Applied, Tx
        <3>2. Locked(s).stock = row[q].stock + tx[s].moved[q]
            BY <2>1, <2>2, <2>5 DEF Locked, Current, Pending
        <3>3. NextEntity(s).stock = row[q].stock + Applied(s).moved[q]
            BY <1>3, <1>7, <2>2, <2>3, <2>5, <3>2
        <3> QED
            BY <1>8, <1>9, <3>1, <3>3 DEF Pending
    <2>6. CASE q = p /\ NextEntity(s) = NextRead(s)
        <3>1. NextLine(s).delta = 0
            BY <1>3, <1>4, <1>7, <2>6, LimitsAssumption DEF GoodRow
        <3>2. Applied(s).view = tx[s].view /\ Applied(s).written = tx[s].written
            BY <2>6 DEF Applied
        <3>3. Applied(s).moved[q] = tx[s].moved[q]
            BY <2>2, <2>3, <3>1
        <3> QED
            BY <1>8, <1>9, <2>1, <3>2, <3>3 DEF Pending
    <2> QED
        BY <2>4, <2>5, <2>6
<1>11. ASSUME NEW t \in Sessions, NEW q \in Products PROVE Pending(t, q)'
    <2>1. CASE t = s
        BY <1>10, <2>1
    <2>2. CASE t # s
        <3>1. tx'[t] = tx[t] /\ Pending(t, q)
            BY <1>8, <2>2 DEF LedgerInv
        <3> QED
            BY <1>9, <3>1 DEF Pending
    <2> QED
        BY <2>1, <2>2
<1> QED
    BY <1>9, <1>11 DEF LedgerInv, LedgerInSync

\* A transaction that has booked nothing is in step with the ledger.
LEMMA LedgerFresh ==
    ASSUME TypeOK, LedgerInv, NEW s \in Sessions, NEW t,
           tx' = [tx EXCEPT ![s] = t], t.written = {},
           \A p \in Products : t.moved[p] = 0,
           UNCHANGED <<row, booked>>
    PROVE  LedgerInv'
<1>1. \A u \in Sessions : tx'[u] = IF u = s THEN t ELSE tx[u]
    BY DEF TypeOK
<1> QED
    BY <1>1 DEF LedgerInv, LedgerInSync, Pending

LEMMA LedgerCommit ==
    ASSUME TypeOK, LockInv, LedgerInv, NEW s \in Sessions, Commit(s)
    PROVE  LedgerInv'
<1>1. \A u \in Sessions : tx'[u] = IF u = s THEN Idle ELSE tx[u]
    BY DEF TypeOK, Commit
<1>2. ASSUME NEW p \in Products
      PROVE  row'[p].stock = row[p].stock + tx[s].moved[p]
    <2>1. Pending(s, p) /\ row'[p] = Current(s, p)
        BY DEF LedgerInv, Commit
    <2>2. row[p].stock \in Int
        BY DEF TypeOK, Row
    <2> QED
        BY <2>1, <2>2 DEF Pending, Current
<1>3. LedgerInSync'
    BY <1>2 DEF LedgerInv, LedgerInSync, Commit
<1>4. ASSUME NEW u \in Sessions, NEW p \in Products PROVE Pending(u, p)'
    <2>1. CASE u = s
        BY <1>1, <2>1 DEF Pending, Idle
    <2>2. CASE u # s
        <3>1. tx'[u] = tx[u] /\ Pending(u, p)
            BY <1>1, <2>2 DEF LedgerInv
        <3>2. p \in tx[u].written => p \notin tx[s].written
            BY <2>2 DEF LockInv, LockExclusive, WritesLocked
        <3>3. p \in tx[u].written => row'[p] = row[p]
            BY <3>2 DEF Commit, Current
        <3> QED
            BY <3>1, <3>3 DEF Pending
    <2> QED
        BY <2>1, <2>2
<1> QED
    BY <1>3, <1>4 DEF LedgerInv

LEMMA LedgerStep ==
    ASSUME LockFirstOnly, TypeOK, RangeInv, LockInv, LedgerInv, [Next]_vars
    PROVE  LedgerInv'
<1>1. ASSUME NEW s \in Sessions, Request(s) PROVE LedgerInv'
    <2>1. PICK op \in Operations : \E lines \in Requests(op) :
              tx' = [tx EXCEPT ![s] = Opened(op, lines)]
        BY <1>1, RequestOpens
    <2>2. PICK lines \in Requests(op) : tx' = [tx EXCEPT ![s] = Opened(op, lines)]
        BY <2>1
    <2>3. /\ Opened(op, lines).written = {}
          /\ \A p \in Products : Opened(op, lines).moved[p] = 0
        BY DEF Opened, Idle
    <2> QED
        BY <1>1, <2>2, <2>3, LedgerFresh, RequestOpens
<1>2. ASSUME NEW s \in Sessions, Handler(s) PROVE LedgerInv'
    <2>1. CASE Apply(s)
        BY <2>1, LedgerApply
    <2>2. CASE Rollback(s)
        <3>1. Idle.written = {} /\ \A p \in Products : Idle.moved[p] = 0
            BY DEF Idle
        <3> QED
            BY <2>2, <3>1, LedgerFresh DEF Rollback
    <2>3. CASE Commit(s)
        BY <2>3, LedgerCommit
    <2>4. CASE Refer(s)
        BY <2>4 DEF LockFirstOnly, LockFirst, RangeInv, GoodTx, Refer, NextReferred,
                    Unreferred, Referring, Tx
    <2> QED
        BY <1>2, <2>1, <2>2, <2>3, <2>4 DEF Handler, Reject, Refuse, DeadlockVictim
<1>3. ASSUME NEW e \in Editors, Edit(e) PROVE LedgerInv'
    BY <1>3 DEF LockFirstOnly
<1>4. CASE UNCHANGED vars
    BY <1>4 DEF vars, LedgerInv, LedgerInSync, Pending
<1> QED
    BY <1>1, <1>2, <1>3, <1>4 DEF Next

LEMMA LedgerAlways ==
    ASSUME LockFirstOnly
    PROVE  Spec => []LedgerInv
<1>1. Init => LedgerInv
    BY DEF Init, Idle, LedgerInv, LedgerInSync, Pending
<1>2. TypeOK /\ RangeInv /\ LockInv /\ LedgerInv /\ [Next]_vars => LedgerInv'
    BY LedgerStep
<1> QED
    BY <1>1, <1>2, TypeCorrect, RangeAlways, LockAlways, PTL DEF Spec

\* Whatever stock-ins, adjustments and revaluations run at once, every stock
\* equals the sum of its movements.
THEOREM LedgerStaysInSync ==
    ASSUME Operations \subseteq LockFirst, Editors = {}
    PROVE  Spec => []LedgerInSync
<1>1. LockFirstOnly
    BY DEF LockFirstOnly
<1>2. LedgerInv => LedgerInSync
    BY DEF LedgerInv
<1> QED
    BY <1>1, <1>2, LedgerAlways, PTL

\* Under the same handlers the whole machinery of transactions implements the
\* abstract ledger: every step is an atomic move of stock and ledger, or none.
THEOREM InventoryImplementsLedger ==
    ASSUME Operations \subseteq LockFirst, Editors = {}
    PROVE  Spec => ImplementsLedger
<1> DEFINE stock == [p \in Products |-> row[p].stock]
<1>1. LockFirstOnly
    BY DEF LockFirstOnly
<1>2. Init => Ledger!Init
    <2> SUFFICES ASSUME Init PROVE Ledger!Init
        OBVIOUS
    <2>1. \A p \in Products : row[p].stock \in Nat
        BY RangeInit, LimitsAssumption DEF RangeInv, GoodRow
    <2> QED
        BY <2>1 DEF Init, Ledger!Init
<1>3. ASSUME TypeOK, RangeInv, RangeInv', LedgerInv, LedgerInv', [Next]_vars
      PROVE  [Ledger!Move]_<<stock, booked>>
    <2>1. stock \in [Products -> Nat] /\ stock' \in [Products -> Nat]
        BY <1>3, LimitsAssumption DEF RangeInv, GoodRow
    <2>2. booked' \in [Products -> Int]
        BY <1>3 DEF RangeInv
    <2>3. \A p \in Products : stock[p] = booked[p] /\ stock'[p] = booked'[p]
        BY <1>3 DEF LedgerInv, LedgerInSync
    <2> QED
        BY <2>1, <2>2, <2>3 DEF Ledger!Move
<1> QED
    BY <1>1, <1>2, <1>3, RangeAlways, TypeCorrect, LedgerAlways, PTL
    DEF Spec, ImplementsLedger, Ledger!Spec
=============================================================================
