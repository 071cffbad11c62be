----------------------------- MODULE Inventory -----------------------------
(***************************************************************************)
(* Product stock and the stock-movement ledger of the point of sale, under *)
(* concurrent HTTP requests.                                               *)
(*                                                                         *)
(* Every handler that moves stock runs in one database transaction.  The   *)
(* database is InnoDB at its default isolation, REPEATABLE READ:           *)
(*   - a plain SELECT reads the transaction's snapshot, taken by its first *)
(*     plain SELECT, overlaid with the rows the transaction has updated;   *)
(*   - SELECT ... FOR UPDATE waits for the row lock, which is then held to *)
(*     the end of the transaction, and reads the latest committed row;     *)
(*   - inserting a row with a foreign key to a product takes a shared lock  *)
(*     on the product row, also held to the end;                           *)
(*   - a cycle of lock waits is broken by rolling one transaction back.    *)
(* TypeORM's save(entity) first re-reads the row with a plain SELECT and   *)
(* updates only the columns in which the entity differs from THAT read; if *)
(* none differs it sends no UPDATE.  These behaviours are external to the  *)
(* repository and are kept here because the handlers depend on them.       *)
(***************************************************************************)
EXTENDS Integers, Sequences

CONSTANTS
    Products,      \* rows of the products table
    Sessions,      \* request handlers that may run a transaction at once
    Editors,       \* request handlers running ProductsService.update
    Operations,    \* the stock-moving handlers that are called
    Quantities,    \* quantities a request may name
    Costs,         \* unit costs a request may name
    CartLength,    \* most lines in one sale, purchase or return
    InitialStock,  \* stock a product may start with
    ReceiptLimit,  \* 2147483647: largest stock a receipt may lead to
    ColumnLimit,   \* 4294967295: largest value of the unsigned int column
    LedgerBound    \* bound: no request starts once a ledger sum passes it

\* Handlers whose first read of the product is the locking one.
LockFirst == {"stockIn", "adjust", "revalue"}
\* Handlers that read without a lock before they lock a product, and so fix
\* their snapshot earlier.
ReadFirst == {"sale", "packageSale", "purchase", "customerReturn", "supplierReturn"}
\* Handlers that insert a line naming a product before they lock the product.
\* A package's line names no product, and a supplier return's comes later.
Referring == {"sale", "purchase", "customerReturn"}

ASSUME ProductsAssumption == Products # {}
ASSUME OperationsAssumption == Operations \subseteq LockFirst \cup ReadFirst
ASSUME QuantitiesAssumption == Quantities \subseteq Nat \ {0}
ASSUME CostsAssumption == Costs \subseteq Nat
ASSUME LimitsAssumption ==
    /\ CartLength \in Nat
    /\ ReceiptLimit \in Nat
    /\ ColumnLimit \in Nat
    /\ ReceiptLimit <= ColumnLimit
    /\ InitialStock \subseteq 0..ColumnLimit
    /\ LedgerBound \in Nat

VARIABLES
    row,     \* committed products rows: stock and purchase_cost_minor
    booked,  \* sum of the deltas of the committed stock_movements rows
    tx,      \* the open transaction of each session
    edit     \* the ProductsService.update call of each editor

vars == <<row, booked, tx, edit>>

Row == [stock : Int, cost : Int]
Line == [product : Products, delta : Int, value : Int]

NoRow == [stock |-> 0, cost |-> 0]
Idle == [op |-> "idle", todo |-> << >>, view |-> [p \in Products |-> NoRow],
         written |-> {}, shared |-> {}, held |-> {},
         moved |-> [p \in Products |-> 0]]
NoEdit == [phase |-> "idle", product |-> CHOOSE p \in Products : TRUE,
           entity |-> NoRow, read |-> NoRow]

Init ==
    /\ row \in [Products -> [stock : InitialStock, cost : Costs]]
    /\ booked = [p \in Products |-> row[p].stock]
    /\ tx = [s \in Sessions |-> Idle]
    /\ edit = [e \in Editors |-> NoEdit]

-----------------------------------------------------------------------------
(* What a request asks for.  A line's value is the money that comes with   *)
(* it: the purchase total, the cost handed back by a customer return, the  *)
(* new unit cost of a revaluation.                                         *)

Lines(deltas, values) == [product : Products, delta : deltas, value : values]
Removals == Lines({-q : q \in Quantities}, {0})
Receipts == {[product |-> p, delta |-> q, value |-> q * c] :
                p \in Products, q \in Quantities, c \in Costs}

LinesOf(op) ==
    CASE op = "stockIn" -> Lines(Quantities, {0})
      [] op = "adjust" -> Lines(Quantities, {0}) \cup Removals
      [] op = "revalue" -> Lines({0}, Costs)
      [] op \in {"sale", "packageSale", "supplierReturn"} -> Removals
      [] op \in {"purchase", "customerReturn"} -> Receipts

Requests(op) ==
    IF op \in LockFirst
    THEN [1..1 -> LinesOf(op)]
    ELSE UNION {[1..n -> LinesOf(op)] : n \in 1..CartLength}

-----------------------------------------------------------------------------
(* The effect of one line on the locked row.                               *)

\* Math.round(n / d) for n >= 0 and d > 0.
Rounded(n, d) == (2 * n + d) \div (2 * d)

NextStock(r, line) == r.stock + line.delta

\* Variant with a mistake the runs must find: a removal below zero is accepted.
AcceptsAnyRemoval(op, r, line) ==
    /\ op \in {"purchase", "customerReturn"} => NextStock(r, line) <= ReceiptLimit
    /\ op = "revalue" => r.cost # line.value

\* The handler's own check on the locked row.
Accepts(op, r, line) ==
    /\ NextStock(r, line) >= 0
    /\ op \in {"purchase", "customerReturn"} => NextStock(r, line) <= ReceiptLimit
    /\ op = "revalue" => r.cost # line.value

\* Variants with a mistake: the received value is subtracted, or is shared
\* among the received units only.
EntityLessValue(op, r, line) ==
    [stock |-> NextStock(r, line),
     cost  |-> IF op \in {"purchase", "customerReturn"}
               THEN Rounded(r.stock * r.cost - line.value, NextStock(r, line))
               ELSE r.cost]
EntityOverReceived(op, r, line) ==
    [stock |-> NextStock(r, line),
     cost  |-> IF op \in {"purchase", "customerReturn"}
               THEN Rounded(r.stock * r.cost + line.value, line.delta)
               ELSE r.cost]

\* The entity handed to save(): a receipt averages the cost, a revaluation
\* sets it.
Entity(op, r, line) ==
    [stock |-> NextStock(r, line),
     cost  |-> IF op = "revalue" THEN line.value
               ELSE IF op \in {"purchase", "customerReturn"}
               THEN Rounded(r.stock * r.cost + line.value, NextStock(r, line))
               ELSE r.cost]

-----------------------------------------------------------------------------
(* The database as the handlers see it.                                    *)

\* The row version an UPDATE or a locking read of session s works on.
Current(s, p) == IF p \in tx[s].written THEN tx[s].view[p] ELSE row[p]

\* What a plain SELECT of session s returns for p.  A lock-first handler takes
\* its snapshot only inside save(), when it holds the row already.
PlainRead(s, p) ==
    IF tx[s].op \in LockFirst THEN Current(s, p) ELSE tx[s].view[p]

\* The row after save(entity) when it read `read`: columns in which the two
\* differ come from the entity, the others keep the version underneath.
Saved(base, entity, read) ==
    [stock |-> IF entity.stock = read.stock THEN base.stock ELSE entity.stock,
     cost  |-> IF entity.cost = read.cost THEN base.cost ELSE entity.cost]

\* Variant with a mistake: the product is read without FOR UPDATE.
UnlockedAlways(p, others) == p \in Products

\* FOR UPDATE on p, or an UPDATE of p, is granted past the sessions in others.
Unlocked(p, others) == \A t \in others : p \notin tx[t].shared \cup tx[t].held

Working(s) == tx[s].op # "idle" /\ tx[s].todo # << >>
NextLine(s) == Head(tx[s].todo)

\* The lines to insert before the next product is locked: a sale inserts all of
\* its lines first, a purchase or a return each line before its own product.
Unreferred(s) ==
    {i \in DOMAIN tx[s].todo :
        /\ tx[s].op \in Referring
        /\ tx[s].op = "sale" \/ i = 1
        /\ tx[s].todo[i].product \notin tx[s].shared \cup tx[s].held}
NextReferred(s) == {tx[s].todo[i].product :
                       i \in {j \in Unreferred(s) : \A k \in Unreferred(s) : j <= k}}

WaitsFor(s, t) ==
    /\ Working(s)
    /\ IF Unreferred(s) # {}
       THEN NextReferred(s) \cap tx[t].held # {}
       ELSE NextLine(s).product \in tx[t].shared \cup tx[t].held

-----------------------------------------------------------------------------
(* Stock-moving handlers.                                                  *)

Opened(op, lines) ==
    [op |-> op, todo |-> lines, view |-> IF op \in ReadFirst THEN row ELSE Idle.view,
     written |-> {}, shared |-> {}, held |-> {}, moved |-> Idle.moved]

\* The handler opens its transaction.  What it turns away before its first
\* lock changes nothing.
Open(s, op, lines) ==
    /\ op \in Operations
    /\ tx[s].op = "idle"
    /\ \A p \in Products : booked[p] \in -LedgerBound..LedgerBound
    /\ tx' = [tx EXCEPT ![s] = Opened(op, lines)]
    /\ UNCHANGED <<row, booked, edit>>

\* A sale reads every product first and turns the cart away if the stock it
\* read is short for any one line.
InStock(lines) ==
    \A i \in DOMAIN lines : NextStock(row[lines[i].product], lines[i]) >= 0

StockIn(s) == \E lines \in Requests("stockIn") : Open(s, "stockIn", lines)
Adjust(s) == \E lines \in Requests("adjust") : Open(s, "adjust", lines)
RevalueCost(s) == \E lines \in Requests("revalue") : Open(s, "revalue", lines)
Sale(s) ==
    \E lines \in Requests("sale") : InStock(lines) /\ Open(s, "sale", lines)
PackageSale(s) ==
    \E lines \in Requests("packageSale") :
        InStock(lines) /\ Open(s, "packageSale", lines)
CreatePurchase(s) == \E lines \in Requests("purchase") : Open(s, "purchase", lines)
CreateSalesReturn(s) ==
    \E lines \in Requests("customerReturn") : Open(s, "customerReturn", lines)
CreateSupplierReturn(s) ==
    \E lines \in Requests("supplierReturn") : Open(s, "supplierReturn", lines)

\* A line is inserted; its foreign key locks the product shared.
Refer(s) ==
    \E p \in NextReferred(s) :
        /\ \A t \in Sessions \ {s} : p \notin tx[t].held
        /\ tx' = [tx EXCEPT ![s].shared = @ \cup {p}]
        /\ UNCHANGED <<row, booked, edit>>

\* The locked row, the entity computed from it, and save()'s read of it.
Locked(s) == Current(s, NextLine(s).product)
NextEntity(s) == Entity(tx[s].op, Locked(s), NextLine(s))
NextRead(s) == PlainRead(s, NextLine(s).product)
NextRow(s) == Saved(Locked(s), NextEntity(s), NextRead(s))

CanLock(s) ==
    Working(s) /\ Unreferred(s) = {} /\ Unlocked(NextLine(s).product, Sessions \ {s})
Fits(s) == Accepts(tx[s].op, Locked(s), NextLine(s)) /\ NextRow(s).stock <= ColumnLimit

\* The transaction after its next line: no UPDATE is sent for an entity that
\* equals save()'s read, the movement row is inserted in any case.
Applied(s) ==
    LET p == NextLine(s).product
        sent == NextEntity(s) # NextRead(s)
    IN  [op      |-> tx[s].op,
         todo    |-> Tail(tx[s].todo),
         view    |-> IF sent THEN [tx[s].view EXCEPT ![p] = NextRow(s)] ELSE tx[s].view,
         written |-> IF sent THEN tx[s].written \cup {p} ELSE tx[s].written,
         shared  |-> tx[s].shared,
         held    |-> tx[s].held \cup {p},
         moved   |-> [tx[s].moved EXCEPT ![p] = @ + NextLine(s).delta]]

\* One line: lock the product, check it, save() it, insert its movement.
Apply(s) ==
    /\ CanLock(s)
    /\ Fits(s)
    /\ tx' = [tx EXCEPT ![s] = Applied(s)]
    /\ UNCHANGED <<row, booked, edit>>

\* Variants with a mistake: the handler saves outside its transaction, or an
\* exception leaves the transaction open.
RollbackKeepsRows(s) ==
    /\ row' = [p \in Products |-> Current(s, p)]
    /\ tx' = [tx EXCEPT ![s] = Idle]
    /\ UNCHANGED <<booked, edit>>
RollbackKeepsLocks(s) ==
    /\ tx' = [tx EXCEPT ![s] = [Idle EXCEPT !.shared = tx[s].shared,
                                           !.held = tx[s].held]]
    /\ UNCHANGED <<row, booked, edit>>

\* The handler throws: the transaction is rolled back, its locks released.
Rollback(s) ==
    /\ tx' = [tx EXCEPT ![s] = Idle]
    /\ UNCHANGED <<row, booked, edit>>

\* The locked row fails the handler's check, or the column's range.
Reject(s) ==
    /\ CanLock(s)
    /\ ~Fits(s)
    /\ Rollback(s)

\* A later step of the handler throws, as when the month of its journal entry
\* is closed.  stockIn has no later step.
Refuse(s) ==
    /\ tx[s].op \notin {"idle", "stockIn"}
    /\ tx[s].todo = << >>
    /\ Rollback(s)

\* InnoDB finds a cycle of lock waits and rolls one of its members back.
DeadlockVictim(s) ==
    /\ \E C \in SUBSET Sessions :
          /\ s \in C
          /\ \A t \in C : /\ \E u \in C \ {t} : WaitsFor(t, u)
                         /\ \E u \in C \ {t} : WaitsFor(u, t)
    /\ Rollback(s)

Commit(s) ==
    /\ tx[s].op # "idle"
    /\ tx[s].todo = << >>
    /\ row' = [p \in Products |-> Current(s, p)]
    /\ booked' = [p \in Products |-> booked[p] + tx[s].moved[p]]
    /\ tx' = [tx EXCEPT ![s] = Idle]
    /\ UNCHANGED edit

-----------------------------------------------------------------------------
(* ProductsService.update: findOne and save with no transaction around     *)
(* them.  The edit changes the name, price, threshold or category; stock   *)
(* and cost travel in the entity.                                          *)

EditLoad(e) ==
    \E p \in Products :
        /\ edit[e].phase = "idle"
        /\ edit' = [edit EXCEPT ![e] = [phase |-> "loaded", product |-> p,
                                       entity |-> row[p], read |-> NoRow]]
        /\ UNCHANGED <<row, booked, tx>>

EditReload(e) ==
    /\ edit[e].phase = "loaded"
    /\ edit' = [edit EXCEPT ![e].phase = "reloaded",
                            ![e].read = row[edit[e].product]]
    /\ UNCHANGED <<row, booked, tx>>

EditWrite(e) ==
    LET p == edit[e].product
    IN  /\ edit[e].phase = "reloaded"
        /\ Unlocked(p, Sessions)
        /\ row' = [row EXCEPT ![p] = Saved(@, edit[e].entity, edit[e].read)]
        /\ edit' = [edit EXCEPT ![e] = NoEdit]
        /\ UNCHANGED <<booked, tx>>

-----------------------------------------------------------------------------
Request(s) ==
    \/ StockIn(s) \/ Adjust(s) \/ RevalueCost(s)
    \/ Sale(s) \/ PackageSale(s) \/ CreatePurchase(s)
    \/ CreateSalesReturn(s) \/ CreateSupplierReturn(s)
Handler(s) ==
    \/ Refer(s) \/ Apply(s) \/ Reject(s) \/ Refuse(s) \/ Commit(s)
    \/ DeadlockVictim(s)
Edit(e) == EditLoad(e) \/ EditReload(e) \/ EditWrite(e)

Next ==
    \/ \E s \in Sessions : Request(s) \/ Handler(s)
    \/ \E e \in Editors : Edit(e)

Spec == Init /\ [][Next]_vars

\* A request that can run is run.  The lock step needs strong fairness: other
\* requests may take the lock again and again, and InnoDB queues its waiters.
Fairness ==
    /\ \A s \in Sessions : SF_vars(Refer(s)) /\ SF_vars(Apply(s) \/ Reject(s))
    /\ \A s \in Sessions : WF_vars(Refuse(s) \/ Commit(s))
    /\ WF_vars(\E s \in Sessions : DeadlockVictim(s))

FairSpec == Spec /\ Fairness

-----------------------------------------------------------------------------
(* Properties.                                                             *)

Tx == [op : LockFirst \cup ReadFirst \cup {"idle"}, todo : Seq(Line),
       view : [Products -> Row], written : SUBSET Products,
       shared : SUBSET Products, held : SUBSET Products, moved : [Products -> Int]]
EditCall == [phase : {"idle", "loaded", "reloaded"}, product : Products,
             entity : Row, read : Row]

\* The variables keep their types; a row carries a natural unit cost, as its
\* unsigned column requires.
TypeOK ==
    /\ row \in [Products -> Row]
    /\ \A p \in Products : row[p].cost >= 0
    /\ booked \in [Products -> Int]
    /\ tx \in [Sessions -> Tx]
    /\ edit \in [Editors -> EditCall]

\* Stock is never negative and never beyond its column, whichever handlers run
\* at once and whatever the snapshots they saved against: the check is made on
\* the locked row, not on the stock the cart was built from.
StockInRange == \A p \in Products : row[p].stock \in 0..ColumnLimit

\* The moving average stays between the smallest and the largest unit cost
\* ever named, so rounding, a stale column or an empty shelf cannot drive the
\* cost of goods sold outside what was paid.
CostWithinPrices ==
    \A p \in Products : /\ \E c \in Costs : c <= row[p].cost
                       /\ \E c \in Costs : row[p].cost <= c

\* A product row that one open transaction has read FOR UPDATE is not held,
\* exclusively or through a foreign key, by another.
LockExclusive ==
    \A s, t \in Sessions :
        s # t => tx[s].held \cap (tx[t].shared \cup tx[t].held) = {}

\* While a transaction holds a product row nobody else, not even an unlocked
\* ProductsService.update, changes the committed row under it.
LockedRowStable ==
    [][\A s \in Sessions : \A p \in tx[s].held :
          tx'[s].op # "idle" => row'[p] = row[p]]_vars

\* products.stock equals the sum of the product's movements: the concurrency
\* test "keeps product stock and movement ledger in sync under concurrency".
LedgerInSync == \A p \in Products : row[p].stock = booked[p]

\* Every request that opens a transaction ends, committed or thrown, although
\* carts lock their products in the order of their lines.
RequestsEnd == \A s \in Sessions : tx[s].op # "idle" ~> tx[s].op = "idle"

\* Under the lock-first handlers, and under carts that only remove stock, the
\* transactions, locks and saves amount to one atomic move of stock and ledger
\* together, which leaves no stock negative.
Ledger == INSTANCE StockLedger
    WITH stock <- [p \in Products |-> row[p].stock]
ImplementsLedger == Ledger!Spec
=============================================================================
