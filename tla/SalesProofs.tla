------------------------------ MODULE SalesProofs ------------------------------
(***************************************************************************)
(* The invoices of a day are numbered without a gap, whatever overlaps;    *)
(* points and tier of a customer follow the spend and only sales change    *)
(* them, when requests on one customer do not overlap. For any number of   *)
(* sales, customers, connections, settings and days.                       *)
(***************************************************************************)
EXTENDS Sales, Arithmetic, TLAPS

-----------------------------------------------------------------------------
(* The inductive invariant.                                                *)

Fields == {"pc", "who", "bill", "redeem", "rules", "seen", "number", "day", "todo", "rows"}

\* A sale that has taken its number, and one that has inserted it.
Numbered(t) == t.pc \in {"numbered", "inserted", "saved"}
Inserted(t) == t.pc \in {"inserted", "saved"}

\* The numbers committed for each day are the first ones.
Initial == \A d \in Days : \E n \in Nat : issued[d] = 1 .. n

\* The number taken is at most one more than the last of its day, although the
\* day may have ended and other sales have committed since.
Near(t) ==
    Numbered(t) =>
        /\ t.day \in Days /\ t.number \in Nat \ {0}
        /\ \A m \in 1 .. t.number - 1 : m \in issued[t.day]

\* The unique key: a number inserted is not issued, and inserted once.
Unique ==
    /\ \A s \in Sessions : Inserted(tx[s]) => tx[s].number \notin issued[tx[s].day]
    /\ \A s, t \in Sessions :
          s # t /\ Inserted(tx[s]) /\ Inserted(tx[t]) =>
              ~(tx[s].number = tx[t].number /\ tx[s].day = tx[t].day)

NumberInv ==
    /\ issued = [d \in Days |-> issued[d]]
    /\ today \in Days
    /\ tx = [s \in Sessions |-> tx[s]]
    /\ \A s \in Sessions : DOMAIN tx[s] = Fields /\ Near(tx[s])
    /\ Initial
    /\ Unique

-----------------------------------------------------------------------------
(* Lemmas.                                                                 *)

LEMMA MaxOfNumbers ==
    ASSUME NEW n \in Nat
    PROVE  Max({0} \cup 1 .. n) = n
<1>1. n \in {0} \cup 1 .. n /\ \A y \in {0} \cup 1 .. n : n >= y
    OBVIOUS
<1>2. \A z \in {0} \cup 1 .. n : (\A y \in {0} \cup 1 .. n : z >= y) => z = n
    OBVIOUS
<1>3. (CHOOSE z \in {0} \cup 1 .. n : \A y \in {0} \cup 1 .. n : z >= y) = n
    BY <1>1, <1>2
<1> QED
    BY <1>3 DEF Max

LEMMA InitialIsConsecutive == ASSUME Initial PROVE NumbersConsecutive
<1> SUFFICES ASSUME NEW d \in Days PROVE issued[d] = 1 .. Cardinality(issued[d])
    BY DEF NumbersConsecutive
<1>1. PICK n \in Nat : issued[d] = 1 .. n
    BY DEF Initial
<1>2. Cardinality(1 .. n) = n
    BY FS_Interval
<1> QED
    BY <1>1, <1>2

LEMMA IdleRequest == DOMAIN Idle = Fields /\ Idle.pc = "idle"
BY DEF Idle, Fields

\* A step of one session that commits nothing.
LEMMA OpenStep ==
    ASSUME Parameters, NumberInv, NEW s \in Sessions, NEW t,
           tx' = [tx EXCEPT ![s] = t], UNCHANGED <<issued, today>>,
           DOMAIN t = Fields, Near(t),
           Inserted(t) =>
               /\ t.number \notin issued[t.day]
               /\ \A u \in Sessions \ {s} : Inserted(tx[u]) =>
                      ~(tx[u].number = t.number /\ tx[u].day = t.day)
    PROVE  NumberInv'
<1>1. \A u \in Sessions : tx'[u] = IF u = s THEN t ELSE tx[u]
    BY DEF NumberInv
<1>2. tx' = [u \in Sessions |-> tx'[u]]
    BY <1>1 DEF NumberInv
<1>3. (\A u \in Sessions : DOMAIN tx[u] = Fields /\ Near(tx[u]))'
    BY <1>1 DEF NumberInv, Near, Numbered
<1>4. Unique'
    BY <1>1 DEF NumberInv, Unique, Inserted
<1>5. Initial'
    BY DEF NumberInv, Initial
<1> QED
    BY <1>2, <1>3, <1>4, <1>5 DEF NumberInv

\* A request that has no number yet, or never has one.
LEMMA UnnumberedStep ==
    ASSUME Parameters, NumberInv, NEW s \in Sessions, NEW t,
           tx' = [tx EXCEPT ![s] = t], UNCHANGED <<issued, today>>,
           DOMAIN t = Fields, ~Numbered(t)
    PROVE  NumberInv'
<1>1. Near(t) /\ ~Inserted(t)
    BY DEF Near, Numbered, Inserted
<1> QED
    BY <1>1, OpenStep

LEMMA RollbackStep ==
    ASSUME Parameters, NumberInv, NEW s \in Sessions,
           tx' = [tx EXCEPT ![s] = Idle], UNCHANGED <<issued, today>>
    PROVE  NumberInv'
<1>1. ~Numbered(Idle)
    BY IdleRequest DEF Numbered
<1> QED
    BY <1>1, IdleRequest, UnnumberedStep

-----------------------------------------------------------------------------
(* Steps of a sale.                                                        *)

LEMMA InitNumbers == ASSUME Parameters, Init PROVE NumberInv
<1>1. \A s \in Sessions : tx[s] = Idle
    BY DEF Init
<1>2. \A s \in Sessions : ~Numbered(tx[s]) /\ ~Inserted(tx[s]) /\ DOMAIN tx[s] = Fields
    BY <1>1, IdleRequest DEF Numbered, Inserted
<1>3. Initial
    <2>1. 0 \in Nat /\ 1 .. 0 = {}
        OBVIOUS
    <2>2. \A d \in Days : issued[d] = {}
        BY DEF Init
    <2> QED
        BY <2>1, <2>2 DEF Initial
<1>4. today \in Days
    BY DEF Init, Days, Parameters
<1>5. issued = [d \in Days |-> issued[d]] /\ tx = [s \in Sessions |-> tx[s]]
    BY DEF Init
<1> QED
    BY <1>2, <1>3, <1>4, <1>5 DEF NumberInv, Near, Unique

LEMMA BeginStep ==
    ASSUME Parameters, NumberInv, NEW s \in Sessions, Begin(s)
    PROVE  NumberInv'
<1>1. PICK c \in Customers \cup {None}, bill \in Bills, redeem \in BOOLEAN :
        Open(s, [Idle EXCEPT !.pc = "begun", !.who = c, !.bill = bill,
                             !.redeem = redeem, !.rules = settings])
    BY DEF Begin
<1> DEFINE t == [Idle EXCEPT !.pc = "begun", !.who = c, !.bill = bill,
                             !.redeem = redeem, !.rules = settings]
<1>2. DOMAIN t = Fields /\ t.pc = "begun"
    BY DEF Idle, Fields
<1>3. tx' = [tx EXCEPT ![s] = t] /\ UNCHANGED <<issued, today>>
    BY <1>1 DEF Open
<1> HIDE DEF t
<1>4. ~Numbered(t)
    BY <1>2 DEF Numbered
<1> QED
    BY <1>2, <1>3, <1>4, UnnumberedStep

LEMMA PriceStep ==
    ASSUME Parameters, NumberInv, NEW s \in Sessions, Price(s)
    PROVE  NumberInv'
<1>1. CASE Rollback(s)
    BY <1>1, RollbackStep DEF Rollback
<1>2. ASSUME NEW row, Open(s, [tx[s] EXCEPT !.pc = "priced", !.seen = row])
      PROVE  NumberInv'
    <2> DEFINE t == [tx[s] EXCEPT !.pc = "priced", !.seen = row]
    <2>1. DOMAIN t = Fields /\ t.pc = "priced"
        BY DEF NumberInv, Fields
    <2>2. tx' = [tx EXCEPT ![s] = t] /\ UNCHANGED <<issued, today>>
        BY <1>2 DEF Open
    <2> HIDE DEF t
    <2>3. ~Numbered(t)
        BY <2>1 DEF Numbered
    <2> QED
        BY <2>1, <2>2, <2>3, UnnumberedStep
<1> QED
    BY <1>1, <1>2 DEF Price

\* The number is one more than the last: all below it are issued.
LEMMA NumberStep ==
    ASSUME Parameters, NumberInv, NEW s \in Sessions, Number(s)
    PROVE  NumberInv'
<1>1. CASE Rollback(s)
    BY <1>1, RollbackStep DEF Rollback
<1>2. CASE Open(s, [tx[s] EXCEPT !.pc = "numbered", !.number = NextNumber, !.day = today])
    <2>1. PICK n \in Nat : issued[today] = 1 .. n
        BY DEF NumberInv, Initial
    <2>2. NextNumber = n + 1
        BY <2>1, MaxOfNumbers DEF NextNumber
    <2> DEFINE t == [tx[s] EXCEPT !.pc = "numbered", !.number = NextNumber, !.day = today]
    <2>3. DOMAIN t = Fields /\ t.pc = "numbered" /\ t.number = NextNumber /\ t.day = today
        BY DEF NumberInv, Fields
    <2>4. tx' = [tx EXCEPT ![s] = t] /\ UNCHANGED <<issued, today>>
        BY <1>2 DEF Open
    <2> HIDE DEF t
    <2>5. Near(t)
        BY <2>1, <2>2, <2>3 DEF Near, NumberInv
    <2>6. ~Inserted(t)
        BY <2>3 DEF Inserted
    <2> QED
        BY <2>3, <2>4, <2>5, <2>6, OpenStep
<1> QED
    BY <1>1, <1>2 DEF Number

\* The unique key is free: no other sale has inserted the number.
LEMMA InsertStep ==
    ASSUME Parameters, NumberInv, NEW s \in Sessions, Insert(s)
    PROVE  NumberInv'
<1>1. CASE Rollback(s)
    BY <1>1, RollbackStep DEF Rollback
<1>2. CASE /\ tx[s].number \notin issued[tx[s].day]
           /\ Open(s, [tx[s] EXCEPT !.pc = "inserted"])
    <2> DEFINE t == [tx[s] EXCEPT !.pc = "inserted"]
    <2>1. /\ DOMAIN t = Fields /\ t.pc = "inserted"
          /\ t.number = tx[s].number /\ t.day = tx[s].day
        BY DEF NumberInv, Fields
    <2>2. tx' = [tx EXCEPT ![s] = t] /\ UNCHANGED <<issued, today>>
        BY <1>2 DEF Open
    <2> HIDE DEF t
    <2>3. Near(t)
        BY <2>1 DEF Insert, NumberInv, Near, Numbered
    <2>4. \A u \in Sessions \ {s} : Inserted(tx[u]) =>
              ~(tx[u].number = t.number /\ tx[u].day = t.day)
        BY <2>1 DEF Insert, TookNumberOf, Others, Inserted
    <2> QED
        BY <1>2, <2>1, <2>2, <2>3, <2>4, OpenStep
<1> QED
    BY <1>1, <1>2 DEF Insert

LEMMA SaveStep ==
    ASSUME Parameters, NumberInv, NEW s \in Sessions, SaveCustomer(s)
    PROVE  NumberInv'
<1>1. ASSUME NEW t, Open(s, t), DOMAIN t = Fields, t.pc = "saved",
             t.number = tx[s].number, t.day = tx[s].day
      PROVE  NumberInv'
    <2>1. tx' = [tx EXCEPT ![s] = t] /\ UNCHANGED <<issued, today>>
        BY <1>1 DEF Open
    <2>2. tx[s].pc = "inserted"
        BY DEF SaveCustomer
    <2>3. Near(t)
        BY <1>1, <2>2 DEF NumberInv, Near, Numbered
    <2>4. /\ t.number \notin issued[t.day]
          /\ \A u \in Sessions \ {s} : Inserted(tx[u]) =>
                 ~(tx[u].number = t.number /\ tx[u].day = t.day)
        BY <1>1, <2>2 DEF NumberInv, Unique, Inserted
    <2> QED
        BY <1>1, <2>1, <2>3, <2>4, OpenStep
<1>2. CASE Open(s, [tx[s] EXCEPT !.pc = "saved"])
    <2> DEFINE t == [tx[s] EXCEPT !.pc = "saved"]
    <2>1. /\ DOMAIN t = Fields /\ t.pc = "saved"
          /\ t.number = tx[s].number /\ t.day = tx[s].day
        BY DEF NumberInv, Fields
    <2>2. Open(s, t)
        BY <1>2
    <2> HIDE DEF t
    <2> QED
        BY <1>1, <2>1, <2>2
<1>3. ASSUME NEW rows, Open(s, [tx[s] EXCEPT !.pc = "saved", !.rows = rows])
      PROVE  NumberInv'
    <2> DEFINE t == [tx[s] EXCEPT !.pc = "saved", !.rows = rows]
    <2>1. /\ DOMAIN t = Fields /\ t.pc = "saved"
          /\ t.number = tx[s].number /\ t.day = tx[s].day
        BY DEF NumberInv, Fields
    <2>2. Open(s, t)
        BY <1>3
    <2> HIDE DEF t
    <2> QED
        BY <1>1, <2>1, <2>2
<1> QED
    BY <1>2, <1>3 DEF SaveCustomer

\* What is issued was not, and all below it was: it is the next of its day,
\* and every other number inserted for the day would have been the same.
LEMMA CommitStep ==
    ASSUME Parameters, NumberInv, NEW s \in Sessions, Commit(s)
    PROVE  NumberInv'
<1> DEFINE day == tx[s].day
           number == tx[s].number
<1>1. /\ tx[s].pc = "saved" /\ tx' = [tx EXCEPT ![s] = Idle] /\ today' = today
      /\ issued' = [issued EXCEPT ![day] = @ \cup {number}]
    BY DEF Commit
<1>2. /\ day \in Days /\ number \in Nat \ {0} /\ number \notin issued[day]
      /\ \A m \in 1 .. number - 1 : m \in issued[day]
    BY <1>1 DEF NumberInv, Near, Numbered, Unique, Inserted
<1>3. PICK n \in Nat : issued[day] = 1 .. n
    BY <1>2 DEF NumberInv, Initial
<1>4. number = n + 1
    <2>1. number > n
        BY <1>2, <1>3
    <2>2. number - 1 <= n
        BY <1>2, <1>3
    <2> QED
        BY <1>2, <2>1, <2>2
<1>5. \A d \in Days : issued'[d] = IF d = day THEN issued[d] \cup {number} ELSE issued[d]
    BY <1>1 DEF NumberInv
<1>6. issued'[day] = 1 .. n + 1
    <2>1. (1 .. n) \cup {n + 1} = 1 .. n + 1
        OBVIOUS
    <2>2. issued'[day] = issued[day] \cup {number}
        BY <1>2, <1>5
    <2> QED
        BY <1>3, <1>4, <2>1, <2>2
<1>7. \A u \in Sessions : tx'[u] = IF u = s THEN Idle ELSE tx[u]
    BY <1>1 DEF NumberInv
<1>8. Initial'
    <2> SUFFICES ASSUME NEW d \in Days PROVE \E m \in Nat : issued'[d] = 1 .. m
        BY DEF Initial
    <2>1. CASE d = day
        <3>1. n + 1 \in Nat
            OBVIOUS
        <3> QED
            BY <1>6, <2>1, <3>1
    <2>2. CASE d # day
        BY <1>5, <2>2 DEF NumberInv, Initial
    <2> QED
        BY <2>1, <2>2
<1>9. \A u \in Sessions : Near(tx[u])'
    <2> SUFFICES ASSUME NEW u \in Sessions, Numbered(tx'[u])
                 PROVE  /\ tx'[u].day \in Days /\ tx'[u].number \in Nat \ {0}
                        /\ \A m \in 1 .. tx'[u].number - 1 : m \in issued'[tx'[u].day]
        BY DEF Near, Numbered
    <2>1. u # s /\ tx'[u] = tx[u] /\ Near(tx[u])
        BY <1>7, IdleRequest DEF NumberInv, Numbered
    <2> QED
        BY <1>5, <2>1 DEF Near
<1>10. Unique'
    <2>1. ASSUME NEW u \in Sessions, Inserted(tx'[u])
          PROVE  u # s /\ tx'[u] = tx[u] /\ tx[u].number \notin issued'[tx[u].day]
        <3>1. u # s /\ tx'[u] = tx[u] /\ tx[u].day \in Days
            BY <1>7, <2>1, IdleRequest DEF NumberInv, Inserted, Numbered, Near
        <3>2. /\ tx[u].number \notin issued[tx[u].day]
              /\ ~(tx[u].number = number /\ tx[u].day = day)
            BY <1>1, <2>1, <3>1 DEF NumberInv, Unique, Inserted
        <3> QED
            BY <1>5, <3>1, <3>2
    <2> QED
        BY <2>1 DEF NumberInv, Unique, Inserted
<1>11. issued' = [d \in Days |-> issued'[d]] /\ tx' = [u \in Sessions |-> tx'[u]]
    BY <1>1, <1>5, <1>7 DEF NumberInv
<1>12. \A u \in Sessions : DOMAIN tx'[u] = Fields
    BY <1>7, IdleRequest DEF NumberInv
<1> QED
    BY <1>1, <1>8, <1>9, <1>10, <1>11, <1>12 DEF NumberInv

-----------------------------------------------------------------------------
(* Steps of the editors, which have no number.                             *)

LEMMA FoundStep ==
    ASSUME Parameters, NumberInv, NEW s \in Sessions, NEW rows, Open(s, Found(rows))
    PROVE  NumberInv'
<1>1. DOMAIN Found(rows) = Fields /\ Found(rows).pc = "found"
    BY DEF Found, Idle, Fields
<1>2. ~Numbered(Found(rows))
    BY <1>1 DEF Numbered
<1> QED
    BY <1>1, <1>2, UnnumberedStep DEF Open

LEMMA EditStep ==
    ASSUME Parameters, NumberInv, NEW s \in Sessions,
           FindCustomer(s) \/ SaveSettings(s) \/ FindCustomers(s)
               \/ Reread(s) \/ Update(s) \/ CommitEdit(s)
    PROVE  NumberInv'
<1>1. CASE FindCustomer(s) \/ FindCustomers(s)
    BY <1>1, FoundStep DEF FindCustomer, FindCustomers
<1>2. CASE SaveSettings(s)
    <2> DEFINE t == [Idle EXCEPT !.pc = "retier", !.rules = settings']
    <2>1. DOMAIN t = Fields /\ t.pc = "retier"
        BY DEF Idle, Fields
    <2>2. tx' = [tx EXCEPT ![s] = t] /\ UNCHANGED <<issued, today>>
        BY <1>2 DEF SaveSettings
    <2> HIDE DEF t
    <2>3. ~Numbered(t)
        BY <2>1 DEF Numbered
    <2> QED
        BY <2>1, <2>2, <2>3, UnnumberedStep
<1>3. CASE Reread(s)
    <2> DEFINE t == [tx[s] EXCEPT !.pc = "reread", !.seen = [c \in Drafted(s) |-> customer[c]]]
    <2>1. DOMAIN t = Fields /\ t.pc = "reread"
        BY DEF NumberInv, Fields
    <2>2. tx' = [tx EXCEPT ![s] = t] /\ UNCHANGED <<issued, today>>
        BY <1>3 DEF Reread, Open
    <2> HIDE DEF t
    <2>3. ~Numbered(t)
        BY <2>1 DEF Numbered
    <2> QED
        BY <2>1, <2>2, <2>3, UnnumberedStep
<1>4. CASE Update(s)
    <2>1. PICK c \in tx[s].todo :
            Open(s, [tx[s] EXCEPT !.pc = "writing", !.todo = @ \ {c},
                  !.rows[c] = Saved(customer[c], tx[s].seen[c], tx[s].rows[c])])
        BY <1>4 DEF Update
    <2> DEFINE t == [tx[s] EXCEPT !.pc = "writing", !.todo = @ \ {c},
                  !.rows[c] = Saved(customer[c], tx[s].seen[c], tx[s].rows[c])]
    <2>2. DOMAIN t = Fields /\ t.pc = "writing"
        BY DEF NumberInv, Fields
    <2>3. tx' = [tx EXCEPT ![s] = t] /\ UNCHANGED <<issued, today>>
        BY <2>1 DEF Open
    <2> HIDE DEF t
    <2>4. ~Numbered(t)
        BY <2>2 DEF Numbered
    <2> QED
        BY <2>2, <2>3, <2>4, UnnumberedStep
<1>5. CASE CommitEdit(s)
    BY <1>5, RollbackStep DEF CommitEdit
<1> QED
    BY <1>1, <1>2, <1>3, <1>4, <1>5

\* Every step keeps the invariant.
LEMMA NextNumbers ==
    ASSUME Parameters, NumberInv, [Next]_vars
    PROVE  NumberInv'
<1>1. ASSUME NEW s \in Sessions, Begin(s) \/ Price(s) \/ Number(s) PROVE NumberInv'
    BY <1>1, BeginStep, PriceStep, NumberStep
<1>2. ASSUME NEW s \in Sessions, Insert(s) \/ SaveCustomer(s) \/ Commit(s) PROVE NumberInv'
    BY <1>2, InsertStep, SaveStep, CommitStep
<1>3. ASSUME NEW s \in Sessions, Fail(s) \/ DeadlockVictim(s) PROVE NumberInv'
    BY <1>3, RollbackStep DEF Fail, DeadlockVictim, Rollback
<1>4. ASSUME NEW s \in Sessions,
             FindCustomer(s) \/ SaveSettings(s) \/ FindCustomers(s)
                 \/ Reread(s) \/ Update(s) \/ CommitEdit(s)
      PROVE  NumberInv'
    BY <1>4, EditStep
<1>5. CASE Midnight
    <2>1. UNCHANGED <<issued, tx>> /\ today' \in Days
        BY <1>5 DEF Midnight, NumberInv, Days, Parameters
    <2> QED
        BY <2>1 DEF NumberInv, Near, Numbered, Initial, Unique, Inserted
<1>6. CASE UNCHANGED vars
    BY <1>6 DEF vars, NumberInv, Near, Numbered, Initial, Unique, Inserted
<1> QED
    BY <1>1, <1>2, <1>3, <1>4, <1>5, <1>6 DEF Next, Request, Handler

-----------------------------------------------------------------------------
\* Invoice numbers leave no gap: InvoiceNumberService reads the last committed
\* number, and the unique key admits one of the sales that took the same.
THEOREM NumbersLeaveNoGap == ASSUME Parameters PROVE Spec => []NumbersConsecutive
<1>1. Init => NumberInv
    BY InitNumbers
<1>2. NumberInv /\ [Next]_vars => NumberInv'
    BY NextNumbers
<1>3. NumberInv => NumbersConsecutive
    BY InitialIsConsecutive DEF NumberInv
<1> QED
    BY <1>1, <1>2, <1>3, PTL DEF Spec

-----------------------------------------------------------------------------
(* Types: what a request holds while it works.                             *)

Sale(t) == t.pc \in {"begun", "priced", "numbered", "inserted", "saved"}
Priced(t) == t.pc \in {"priced", "numbered", "inserted", "saved"}
Edit(t) == t.pc \in {"retier", "found", "reread", "writing"}

\* The reward a redeeming sale takes is covered by the points and the bill.
Covered(t) ==
    LET reward == t.rules.tiers[TierFor(t.seen.points, t.rules.tiers)]
    IN  reward.redeem <= t.seen.points /\ reward.discount <= t.bill

WellFormed(t) ==
    /\ DOMAIN t = Fields
    /\ t.pc = "idle" \/ Sale(t) \/ Edit(t)
    /\ t.who \in Customers \cup {None} /\ t.bill \in Nat /\ t.redeem \in BOOLEAN
    /\ t.rows \in [DOMAIN t.rows -> Row] /\ DOMAIN t.rows \subseteq Customers
    /\ t.todo \subseteq DOMAIN t.rows /\ (Sale(t) => t.todo = {})
    /\ Sale(t) \/ t.pc = "retier" => t.rules \in Versions
    /\ Priced(t) /\ t.who # None => t.seen \in Row
    /\ Priced(t) /\ t.redeem => t.who # None /\ Covered(t)
    /\ t.pc \in {"reread", "writing"} => t.seen \in [DOMAIN t.rows -> Row]
    /\ Numbered(t) => t.number \in 1 .. MaxSequence /\ t.day \in Days

SalesTypes ==
    /\ settings \in Versions
    /\ customer \in [Customers -> Row]
    /\ redeemed \in [Customers -> Nat]
    /\ issued \in [Days -> SUBSET (1 .. MaxSequence)]
    /\ today \in Days
    /\ tx = [s \in Sessions |-> tx[s]]
    /\ \A s \in Sessions : WellFormed(tx[s])

\* The tier for some points is one of the tiers, or the first.
LEMMA TierForType ==
    ASSUME Parameters, NEW v \in Versions, NEW n \in Nat
    PROVE  TierFor(n, v.tiers) \in DOMAIN v.tiers /\ TierFor(n, v.tiers) \in Nat \ {0}
<1> DEFINE S == {i \in DOMAIN v.tiers : n >= v.tiers[i].minimum}
           f == [i \in S |-> i]
<1>1. v.tiers \in Seq(TierRule) /\ v.tiers # <<>>
    BY DEF Parameters
<1>2. Len(v.tiers) \in Nat \ {0} /\ DOMAIN v.tiers = 1 .. Len(v.tiers)
    BY <1>1
<1>3. IsFiniteSet(DOMAIN v.tiers)
    BY <1>2, FS_Interval
<1>4. IsFiniteSet(S)
    BY <1>3, FS_Subset
<1>5. \A i \in S : f[i] \in Int
    BY <1>2
<1>6. {f[i] : i \in S} = S
    OBVIOUS
<1> DEFINE V == {1} \cup S
<1>7. TierFor(n, v.tiers) = Max(V)
    BY DEF TierFor
<1> HIDE DEF f
<1>8. \E z \in {1} \cup {f[i] : i \in S} : \A y \in {1} \cup {f[i] : i \in S} : z >= y
    <2>1. 1 \in Int
        OBVIOUS
    <2> HIDE DEF S
    <2> QED
        BY <1>4, <1>5, <2>1, LargestValue
<1>9. \E z \in V : \A y \in V : z >= y
    BY <1>6, <1>8
<1>10. V \subseteq DOMAIN v.tiers
    BY <1>2
<1> HIDE DEF V
<1>11. Max(V) \in V
    BY <1>9 DEF Max
<1> QED
    BY <1>2, <1>7, <1>10, <1>11

\* Without points a customer is in the first tier: the thresholds rise.
LEMMA TierAtStart ==
    ASSUME Parameters, NEW v \in Versions
    PROVE  TierFor(0, v.tiers) = 1
<1> DEFINE V == {1} \cup {i \in DOMAIN v.tiers : 0 >= v.tiers[i].minimum}
<1>1. v.tiers \in Seq(TierRule) /\ ValidTiers(v.tiers)
    BY DEF Parameters
<1>2. /\ Len(v.tiers) \in Nat /\ DOMAIN v.tiers = 1 .. Len(v.tiers)
      /\ \A i \in DOMAIN v.tiers : v.tiers[i] \in TierRule
    BY <1>1
<1>3. ASSUME NEW i \in DOMAIN v.tiers, i # 1 PROVE ~(0 >= v.tiers[i].minimum)
    <2>1. v.tiers[i - 1].minimum < v.tiers[i].minimum
        BY <1>1, <1>3 DEF ValidTiers
    <2>2. i - 1 \in DOMAIN v.tiers
        BY <1>2, <1>3
    <2>3. v.tiers[i - 1].minimum \in Nat /\ v.tiers[i].minimum \in Nat
        BY <1>2, <2>2 DEF TierRule
    <2> QED
        BY <2>1, <2>3
<1>4. V = {1}
    BY <1>3
<1>5. Max({1}) = 1
    <2>1. \A x \in {1} : (\A y \in {1} : x >= y) <=> x = 1
        OBVIOUS
    <2> QED
        BY <2>1 DEF Max
<1> QED
    BY <1>4, <1>5 DEF TierFor

\* What is earned is a natural number, and earning adds up.
LEMMA EarnedType ==
    ASSUME Parameters, NEW v \in Versions, NEW a \in Nat, NEW b \in Nat, a <= b
    PROVE  /\ Earned(a, b, v) \in Nat
           /\ Earned(0, b, v) = Earned(0, a, v) + Earned(a, b, v)
           /\ Earned(0, a, v) \in Int /\ Earned(0, b, v) \in Int
<1>1. v.spend \in Nat /\ v.spend > 0 /\ v.points \in Nat
    BY DEF Parameters
<1> DEFINE p == a \div v.spend
           q == b \div v.spend
           z == 0 \div v.spend
<1>2. p \in Nat /\ q \in Nat /\ p <= q /\ z \in Nat
    BY <1>1, QuotientMonotone
<1> HIDE DEF p, q, z
<1>3. PICK k \in Nat : q = p + k
    <2>1. q - p \in Nat /\ q = p + (q - p)
        BY <1>2
    <2> QED
        BY <2>1
<1>4. (q - p) * v.points \in Nat
    <2>1. k * v.points \in Nat
        BY <1>1
    <2>2. q - p = k
        BY <1>2, <1>3
    <2> QED
        BY <2>1, <2>2
<1>5. (q - z) * v.points = (p - z) * v.points + (q - p) * v.points
    BY <1>1, <1>2
<1>6. (q - z) * v.points \in Int /\ (p - z) * v.points \in Int
    BY <1>1, <1>2
<1> QED
    BY <1>4, <1>5, <1>6 DEF Earned, p, q, z

LEMMA IdleWellFormed == ASSUME Parameters PROVE WellFormed(Idle)
BY IdleRequest DEF WellFormed, Idle, Sale, Priced, Edit, Numbered

\* What the sale leaves of the bill, the spend and the points is not negative.
LEMMA EntityTypes ==
    ASSUME Parameters, NEW s \in Sessions, WellFormed(tx[s]), Priced(tx[s]), tx[s].who # None
    PROVE  /\ Points(s) \in Nat /\ Discount(s) \in Nat /\ Entity(s) \in Row
           /\ Entity(s).spend = tx[s].seen.spend + tx[s].bill - Discount(s)
           /\ Entity(s).spend >= tx[s].seen.spend
           /\ Entity(s).points = tx[s].seen.points - Points(s)
                + Earned(tx[s].seen.spend, Entity(s).spend, tx[s].rules)
           /\ Entity(s).tier = TierFor(Entity(s).points, tx[s].rules.tiers)
           /\ Entity(s).name = tx[s].seen.name
<1> DEFINE t == tx[s]
           row == t.seen
           v == t.rules
           spend == row.spend + t.bill - Discount(s)
           points == row.points - Points(s) + Earned(row.spend, spend, v)
<1>1. /\ row \in Row /\ v \in Versions /\ t.bill \in Nat /\ t.redeem \in BOOLEAN
      /\ t.redeem => Covered(t)
    BY DEF WellFormed, Priced, Sale
<1>2. row.points \in Nat /\ row.spend \in Nat /\ row.name \in Names
    BY <1>1 DEF Row
<1>3. /\ Discount(s) \in Nat /\ Points(s) \in Nat
      /\ Discount(s) <= t.bill /\ Points(s) <= row.points
    <2>1. CASE t.redeem = FALSE
        BY <1>1, <1>2, <2>1 DEF Discount, Points
    <2>2. CASE t.redeem = TRUE
        <3> DEFINE reward == v.tiers[TierFor(row.points, v.tiers)]
        <3>1. TierFor(row.points, v.tiers) \in DOMAIN v.tiers
            BY <1>1, <1>2, TierForType
        <3>2. v.tiers \in Seq(TierRule)
            BY <1>1 DEF Parameters
        <3>3. reward \in TierRule
            BY <3>1, <3>2
        <3>4. reward.redeem \in Nat /\ reward.discount \in Nat
            BY <3>3 DEF TierRule
        <3>5. reward.redeem <= row.points /\ reward.discount <= t.bill
            BY <1>1, <2>2 DEF Covered
        <3>6. Discount(s) = reward.discount /\ Points(s) = reward.redeem
            BY <2>2 DEF Discount, Points, Reward
        <3> QED
            BY <3>4, <3>5, <3>6
    <2> QED
        BY <1>1, <2>1, <2>2
<1>4. spend \in Nat /\ row.spend <= spend
    BY <1>1, <1>2, <1>3
<1>5. points \in Nat
    <2>1. Earned(row.spend, spend, v) \in Nat
        BY <1>1, <1>2, <1>4, EarnedType
    <2> HIDE DEF spend
    <2> QED
        BY <1>2, <1>3, <2>1
<1>6. TierFor(points, v.tiers) \in Nat \ {0}
    <2> HIDE DEF points
    <2> QED
        BY <1>1, <1>5, TierForType
<1>7. Entity(s) = [row EXCEPT !.spend = spend, !.points = points,
                              !.tier = TierFor(points, v.tiers)]
    BY DEF Entity
<1> HIDE DEF spend, points
<1>8. /\ Entity(s) \in Row /\ Entity(s).spend = spend /\ Entity(s).points = points
      /\ Entity(s).tier = TierFor(points, v.tiers) /\ Entity(s).name = row.name
    BY <1>1, <1>4, <1>5, <1>6, <1>7 DEF Row
<1> QED
    BY <1>3, <1>4, <1>8 DEF spend, points

\* A saved row has each column from the row or from the entity.
LEMMA SavedType ==
    ASSUME NEW row \in Row, NEW reread, NEW entity \in Row
    PROVE  Saved(row, reread, entity) \in Row
<1> DEFINE new == [f \in DOMAIN row |-> IF entity[f] = reread[f] THEN row[f] ELSE entity[f]]
<1>1. DOMAIN row = {"name", "spend", "points", "tier"}
    BY DEF Row
<1>2. \A f \in DOMAIN row : new[f] = row[f] \/ new[f] = entity[f]
    OBVIOUS
<1>3. /\ row.name \in Names /\ row.spend \in Nat /\ row.points \in Nat /\ row.tier \in Nat \ {0}
      /\ entity.name \in Names /\ entity.spend \in Nat /\ entity.points \in Nat
      /\ entity.tier \in Nat \ {0}
    BY DEF Row
<1>4. /\ new.name \in Names /\ new.spend \in Nat /\ new.points \in Nat /\ new.tier \in Nat \ {0}
    BY <1>1, <1>2, <1>3
<1>5. new = [name |-> new.name, spend |-> new.spend, points |-> new.points, tier |-> new.tier]
    BY <1>1
<1> HIDE DEF new
<1>6. new \in Row
    BY <1>4, <1>5 DEF Row
<1> QED
    BY <1>6 DEF Saved, new

\* A row that was not changed since it was read is saved as the entity.
LEMMA SavedFresh ==
    ASSUME NEW row \in Row, NEW entity \in Row
    PROVE  Saved(row, row, entity) = entity
<1>1. DOMAIN row = DOMAIN entity
    BY DEF Row
<1>2. Saved(row, row, entity) = [f \in DOMAIN entity |-> entity[f]]
    <2>1. \A f \in DOMAIN row : (IF entity[f] = row[f] THEN row[f] ELSE entity[f]) = entity[f]
        OBVIOUS
    <2> QED
        BY <1>1, <2>1 DEF Saved
<1>3. entity = [f \in DOMAIN entity |-> entity[f]]
    BY DEF Row
<1> QED
    BY <1>2, <1>3

\* A request that goes on to t, and nothing is committed.
LEMMA OpenTypes ==
    ASSUME SalesTypes, NEW s \in Sessions, NEW t, Open(s, t), WellFormed(t)
    PROVE  SalesTypes'
<1>1. \A u \in Sessions : tx'[u] = IF u = s THEN t ELSE tx[u]
    BY DEF SalesTypes, Open
<1>2. tx' = [u \in Sessions |-> tx'[u]]
    BY <1>1 DEF SalesTypes, Open
<1>3. \A u \in Sessions : WellFormed(tx[u])'
    <2> SUFFICES ASSUME NEW u \in Sessions PROVE WellFormed(tx'[u])
        BY DEF WellFormed, Sale, Edit, Priced, Numbered, Covered
    <2> QED
        BY <1>1 DEF SalesTypes
<1> QED
    BY <1>2, <1>3 DEF SalesTypes, Open

LEMMA RollbackTypes ==
    ASSUME Parameters, SalesTypes, NEW s \in Sessions, Rollback(s)
    PROVE  SalesTypes'
BY OpenTypes, IdleWellFormed DEF Rollback, Open

\* The next number is at least 1.
LEMMA NextNumberType ==
    ASSUME SalesTypes, Parameters, NextNumber <= MaxSequence
    PROVE  NextNumber \in 1 .. MaxSequence
<1> DEFINE N == issued[today]
           f == [n \in N |-> n]
           V == {0} \cup N
<1>1. N \subseteq 1 .. MaxSequence /\ MaxSequence \in Nat
    BY DEF SalesTypes, Parameters
<1>2. IsFiniteSet(1 .. MaxSequence)
    BY <1>1, FS_Interval
<1>3. IsFiniteSet(N) /\ \A n \in N : f[n] \in Int
    BY <1>1, <1>2, FS_Subset
<1>4. {f[n] : n \in N} = N
    OBVIOUS
<1>5. \E z \in {0} \cup {f[n] : n \in N} : \A y \in {0} \cup {f[n] : n \in N} : z >= y
    <2>1. 0 \in Int
        OBVIOUS
    <2> HIDE DEF N, f
    <2> QED
        BY <1>3, <2>1, LargestValue
<1>6. \E z \in V : \A y \in V : z >= y
    BY <1>4, <1>5
<1>7. \A y \in V : y \in Nat
    BY <1>1
<1>8. NextNumber = Max(V) + 1
    BY DEF NextNumber
<1> HIDE DEF V
<1>9. Max(V) \in V
    BY <1>6 DEF Max
<1> QED
    BY <1>1, <1>7, <1>8, <1>9

\* Steps of a sale before its commit keep the types.
LEMMA SaleTypes ==
    ASSUME Parameters, SalesTypes, NEW s \in Sessions,
           Begin(s) \/ Price(s) \/ Number(s) \/ Insert(s) \/ SaveCustomer(s)
    PROVE  SalesTypes'
<1>1. WellFormed(tx[s]) /\ DOMAIN tx[s] = Fields
    BY DEF SalesTypes, WellFormed
<1>2. CASE Rollback(s)
    BY <1>2, RollbackTypes
<1>3. CASE Begin(s)
    <2>1. PICK c \in Customers \cup {None}, bill \in Bills, redeem \in BOOLEAN :
            Open(s, [Idle EXCEPT !.pc = "begun", !.who = c, !.bill = bill,
                                 !.redeem = redeem, !.rules = settings])
        BY <1>3 DEF Begin
    <2> DEFINE t == [Idle EXCEPT !.pc = "begun", !.who = c, !.bill = bill,
                                 !.redeem = redeem, !.rules = settings]
    <2>2. /\ DOMAIN t = Fields /\ t.pc = "begun" /\ t.who = c /\ t.bill = bill
          /\ t.redeem = redeem /\ t.rules = settings /\ t.rows = <<>> /\ t.todo = {}
        BY DEF Idle, Fields
    <2>3. bill \in Nat /\ settings \in Versions
        BY DEF Parameters, SalesTypes
    <2>4. Open(s, t)
        BY <2>1
    <2> HIDE DEF t
    <2>5. WellFormed(t)
        BY <2>2, <2>3 DEF WellFormed, Sale, Priced, Numbered
    <2> QED
        BY <2>4, <2>5, OpenTypes
<1>4. CASE Price(s) /\ Accepts(s)
    <2> DEFINE row == IF tx[s].who = None THEN None ELSE customer[tx[s].who]
               t == [tx[s] EXCEPT !.pc = "priced", !.seen = row]
    <2>1. Open(s, t) /\ tx[s].pc = "begun"
        BY <1>4 DEF Price
    <2>2. /\ DOMAIN t = Fields /\ t.pc = "priced" /\ t.seen = row
          /\ t.who = tx[s].who /\ t.bill = tx[s].bill /\ t.redeem = tx[s].redeem
          /\ t.rules = tx[s].rules /\ t.rows = tx[s].rows /\ t.todo = tx[s].todo
        BY <1>1 DEF Fields
    <2>3. t.who # None => t.seen = customer[t.who] /\ t.seen \in Row
        BY <1>1, <2>2 DEF SalesTypes, WellFormed
    <2>4. tx[s].rules \in Versions
        BY <1>1, <2>1 DEF WellFormed, Sale
    <2>5. t.redeem => t.who # None /\ Covered(t)
        BY <1>4, <2>2, <2>3 DEF Accepts, Eligible, Reward, Covered
    <2> HIDE DEF t
    <2>6. WellFormed(t)
        <3>1. /\ t.who \in Customers \cup {None} /\ t.bill \in Nat /\ t.redeem \in BOOLEAN
              /\ t.rows \in [DOMAIN t.rows -> Row] /\ DOMAIN t.rows \subseteq Customers
              /\ t.todo = {} /\ t.rules \in Versions
            BY <1>1, <2>1, <2>2, <2>4 DEF WellFormed, Sale
        <3>2. Sale(t) /\ ~Numbered(t) /\ t.pc \notin {"reread", "writing"}
            BY <2>2 DEF Sale, Numbered
        <3> HIDE DEF row
        <3> QED
            BY <2>2, <2>3, <2>5, <3>1, <3>2 DEF WellFormed
    <2> QED
        BY <2>1, <2>6, OpenTypes
<1>5. CASE Number(s) /\ NextNumber <= MaxSequence
    <2> DEFINE t == [tx[s] EXCEPT !.pc = "numbered", !.number = NextNumber, !.day = today]
    <2>1. Open(s, t) /\ tx[s].pc = "priced"
        BY <1>5 DEF Number
    <2>2. /\ DOMAIN t = Fields /\ t.pc = "numbered" /\ t.number = NextNumber /\ t.day = today
          /\ t.who = tx[s].who /\ t.bill = tx[s].bill /\ t.redeem = tx[s].redeem
          /\ t.rules = tx[s].rules /\ t.rows = tx[s].rows /\ t.todo = tx[s].todo
          /\ t.seen = tx[s].seen
        BY <1>1 DEF Fields
    <2>3. NextNumber \in 1 .. MaxSequence /\ today \in Days
        BY <1>5, NextNumberType DEF SalesTypes
    <2> HIDE DEF t
    <2>4. WellFormed(t)
        BY <1>1, <2>1, <2>2, <2>3 DEF WellFormed, Sale, Priced, Numbered, Covered
    <2> QED
        BY <2>1, <2>4, OpenTypes
<1>6. CASE Insert(s) /\ tx[s].number \notin issued[tx[s].day]
    <2> DEFINE t == [tx[s] EXCEPT !.pc = "inserted"]
    <2>1. Open(s, t) /\ tx[s].pc = "numbered"
        BY <1>6 DEF Insert
    <2>2. /\ DOMAIN t = Fields /\ t.pc = "inserted" /\ t.number = tx[s].number /\ t.day = tx[s].day
          /\ t.who = tx[s].who /\ t.bill = tx[s].bill /\ t.redeem = tx[s].redeem
          /\ t.rules = tx[s].rules /\ t.rows = tx[s].rows /\ t.todo = tx[s].todo
          /\ t.seen = tx[s].seen
        BY <1>1 DEF Fields
    <2> HIDE DEF t
    <2>3. WellFormed(t)
        BY <1>1, <2>1, <2>2 DEF WellFormed, Sale, Priced, Numbered, Covered
    <2> QED
        BY <2>1, <2>3, OpenTypes
<1>7. CASE SaveCustomer(s) /\ tx[s].who = None
    <2> DEFINE t == [tx[s] EXCEPT !.pc = "saved"]
    <2>1. Open(s, t) /\ tx[s].pc = "inserted"
        BY <1>7 DEF SaveCustomer
    <2>2. /\ DOMAIN t = Fields /\ t.pc = "saved" /\ t.number = tx[s].number /\ t.day = tx[s].day
          /\ t.who = tx[s].who /\ t.bill = tx[s].bill /\ t.redeem = tx[s].redeem
          /\ t.rules = tx[s].rules /\ t.rows = tx[s].rows /\ t.todo = tx[s].todo
          /\ t.seen = tx[s].seen
        BY <1>1 DEF Fields
    <2> HIDE DEF t
    <2>3. WellFormed(t)
        BY <1>1, <2>1, <2>2 DEF WellFormed, Sale, Priced, Numbered, Covered
    <2> QED
        BY <2>1, <2>3, OpenTypes
<1>8. CASE SaveCustomer(s) /\ tx[s].who # None
    <2> DEFINE c == tx[s].who
               new == Saved(customer[c], tx[s].seen, Entity(s))
               t == [tx[s] EXCEPT !.pc = "saved", !.rows = Only(c, new)]
    <2>1. Open(s, t) /\ tx[s].pc = "inserted"
        BY <1>8 DEF SaveCustomer
    <2>2. /\ DOMAIN t = Fields /\ t.pc = "saved" /\ t.number = tx[s].number /\ t.day = tx[s].day
          /\ t.who = tx[s].who /\ t.bill = tx[s].bill /\ t.redeem = tx[s].redeem
          /\ t.rules = tx[s].rules /\ t.rows = Only(c, new) /\ t.todo = tx[s].todo
          /\ t.seen = tx[s].seen
        BY <1>1 DEF Fields
    <2>3. new \in Row /\ c \in Customers
        <3>1. c \in Customers /\ customer[c] \in Row
            BY <1>1, <1>8 DEF SalesTypes, WellFormed
        <3>2. Entity(s) \in Row
            BY <1>1, <1>8, <2>1, EntityTypes DEF Priced
        <3> QED
            BY <3>1, <3>2, SavedType
    <2> HIDE DEF new
    <2>4. DOMAIN Only(c, new) = {c} /\ Only(c, new) \in [{c} -> Row]
        BY <2>3 DEF Only
    <2>5. tx[s].todo = {}
        BY <1>1, <2>1 DEF WellFormed, Sale
    <2> HIDE DEF t
    <2>6. WellFormed(t)
        BY <1>1, <2>1, <2>2, <2>3, <2>4, <2>5 DEF WellFormed, Sale, Priced, Numbered, Covered
    <2> QED
        BY <2>1, <2>6, OpenTypes
<1> QED
    BY <1>2, <1>3, <1>4, <1>5, <1>6, <1>7, <1>8 DEF Price, Number, Insert, SaveCustomer

\* What is installed is a row for every customer.
LEMMA InstalledTypes ==
    ASSUME SalesTypes, NEW s \in Sessions
    PROVE  Installed(s) \in [Customers -> Row]
BY DEF SalesTypes, WellFormed, Installed

\* A step that ends the request s and may change committed rows.
LEMMA EndTypes ==
    ASSUME Parameters, SalesTypes, NEW s \in Sessions, tx' = [tx EXCEPT ![s] = Idle],
           settings' \in Versions, today' \in Days, customer' \in [Customers -> Row],
           redeemed' \in [Customers -> Nat], issued' \in [Days -> SUBSET (1 .. MaxSequence)]
    PROVE  SalesTypes'
<1>1. \A u \in Sessions : tx'[u] = IF u = s THEN Idle ELSE tx[u]
    BY DEF SalesTypes
<1>2. tx' = [u \in Sessions |-> tx'[u]]
    BY <1>1 DEF SalesTypes
<1>3. \A u \in Sessions : WellFormed(tx[u])'
    <2> SUFFICES ASSUME NEW u \in Sessions PROVE WellFormed(tx'[u])
        BY DEF WellFormed, Sale, Edit, Priced, Numbered, Covered
    <2> QED
        BY <1>1, IdleWellFormed DEF SalesTypes
<1> QED
    BY <1>2, <1>3 DEF SalesTypes

\* The commit of a sale keeps the types.
LEMMA CommitTypes ==
    ASSUME Parameters, SalesTypes, NEW s \in Sessions, Commit(s)
    PROVE  SalesTypes'
<1>1. WellFormed(tx[s]) /\ tx[s].pc = "saved"
    BY DEF SalesTypes, Commit
<1>2. customer' \in [Customers -> Row]
    BY InstalledTypes DEF Commit
<1>3. issued' \in [Days -> SUBSET (1 .. MaxSequence)]
    BY <1>1 DEF Commit, SalesTypes, WellFormed, Numbered
<1>4. redeemed' \in [Customers -> Nat]
    <2> SUFFICES ASSUME NEW c \in Customers
                 PROVE  (IF c = tx[s].who THEN redeemed[c] + Points(s) ELSE redeemed[c]) \in Nat
        BY DEF Commit
    <2>1. redeemed[c] \in Nat
        BY DEF SalesTypes
    <2>2. CASE c = tx[s].who
        <3>1. tx[s].who # None
            BY <2>2 DEF Parameters
        <3>2. Points(s) \in Nat
            BY <1>1, <3>1, EntityTypes DEF Priced
        <3> QED
            BY <2>1, <2>2, <3>2
    <2>3. CASE c # tx[s].who
        BY <2>1, <2>3
    <2> QED
        BY <2>2, <2>3
<1>5. settings' = settings /\ today' = today /\ tx' = [tx EXCEPT ![s] = Idle]
    BY DEF Commit
<1> QED
    BY <1>2, <1>3, <1>4, <1>5, EndTypes DEF SalesTypes

\* Rows that an editor has found, with some of their columns changed.
LEMMA FoundTypes ==
    ASSUME Parameters, SalesTypes, NEW s \in Sessions, NEW rows,
           rows \in [DOMAIN rows -> Row], DOMAIN rows \subseteq Customers, Open(s, Found(rows))
    PROVE  SalesTypes'
<1> DEFINE t == Found(rows)
<1>1. /\ DOMAIN t = Fields /\ t.pc = "found" /\ t.rows = rows /\ t.todo = DOMAIN rows
      /\ t.who = None /\ t.bill = 0 /\ t.redeem = FALSE
    BY DEF Found, Idle, Fields
<1> HIDE DEF t
<1>2. WellFormed(t)
    <2>1. ~Sale(t) /\ Edit(t) /\ ~Priced(t) /\ ~Numbered(t) /\ t.pc # "retier"
            /\ t.pc \notin {"reread", "writing"}
        BY <1>1 DEF Sale, Edit, Priced, Numbered
    <2>2. t.rows \in [DOMAIN t.rows -> Row] /\ DOMAIN t.rows \subseteq Customers
        BY <1>1
    <2>3. t.bill \in Nat /\ t.redeem \in BOOLEAN /\ t.who \in Customers \cup {None}
        <3>1. t.bill \in Nat
            BY <1>1
        <3>2. t.redeem \in BOOLEAN
            BY <1>1
        <3> QED
            BY <1>1, <3>1, <3>2
    <2>4. t.todo \subseteq DOMAIN t.rows
        BY <1>1
    <2> QED
        BY <1>1, <2>1, <2>2, <2>3, <2>4 DEF WellFormed, Sale, Edit
<1> QED
    BY <1>2, OpenTypes DEF t

\* Steps of the editors keep the types.
LEMMA EditTypes ==
    ASSUME Parameters, SalesTypes, NEW s \in Sessions,
           FindCustomer(s) \/ SaveSettings(s) \/ FindCustomers(s)
               \/ Reread(s) \/ Update(s) \/ CommitEdit(s)
    PROVE  SalesTypes'
<1>1. WellFormed(tx[s]) /\ DOMAIN tx[s] = Fields
    BY DEF SalesTypes, WellFormed
<1>2. CASE FindCustomer(s)
    <2>1. PICK c \in Customers, n \in Names :
            Open(s, Found(Only(c, [customer[c] EXCEPT !.name = n])))
        BY <1>2 DEF FindCustomer
    <2> DEFINE new == [customer[c] EXCEPT !.name = n]
    <2>2. customer[c] \in Row
        BY DEF SalesTypes
    <2>3. new \in Row
        BY <2>2 DEF Row
    <2> HIDE DEF new
    <2>4. Only(c, new) \in [DOMAIN Only(c, new) -> Row] /\ DOMAIN Only(c, new) \subseteq Customers
        BY <2>3 DEF Only
    <2> QED
        BY <2>1, <2>4, FoundTypes DEF new
<1>3. CASE FindCustomers(s)
    <2> DEFINE rows == [c \in Customers |->
                [customer[c] EXCEPT !.tier = TierFor(customer[c].points, tx[s].rules.tiers)]]
    <2>1. Open(s, Found(rows)) /\ tx[s].rules \in Versions
        BY <1>1, <1>3 DEF FindCustomers, WellFormed
    <2>2. ASSUME NEW c \in Customers PROVE rows[c] \in Row
        <3>1. customer[c] \in Row /\ customer[c].points \in Nat
            BY DEF SalesTypes, Row
        <3>2. TierFor(customer[c].points, tx[s].rules.tiers) \in Nat \ {0}
            BY <2>1, <3>1, TierForType
        <3> QED
            BY <3>1, <3>2 DEF Row
    <2>3. rows \in [DOMAIN rows -> Row] /\ DOMAIN rows \subseteq Customers
        BY <2>2
    <2> HIDE DEF rows
    <2> QED
        BY <2>1, <2>3, FoundTypes
<1>4. CASE SaveSettings(s)
    <2> DEFINE t == [Idle EXCEPT !.pc = "retier", !.rules = settings']
    <2>1. /\ DOMAIN t = Fields /\ t.pc = "retier" /\ t.rules = settings' /\ t.who = None
          /\ t.bill = 0 /\ t.redeem = FALSE /\ t.rows = <<>> /\ t.todo = {}
        BY DEF Idle, Fields
    <2>2. tx' = [tx EXCEPT ![s] = t] /\ settings' \in Versions
        BY <1>4 DEF SaveSettings
    <2>3. UNCHANGED <<customer, redeemed, issued, today>>
        BY <1>4 DEF SaveSettings
    <2> HIDE DEF t
    <2>4. WellFormed(t)
        <3>1. ~Sale(t) /\ Edit(t) /\ ~Priced(t) /\ ~Numbered(t)
                /\ t.pc \notin {"reread", "writing"}
            BY <2>1 DEF Sale, Edit, Priced, Numbered
        <3>2. <<>> \in [DOMAIN <<>> -> Row] /\ DOMAIN <<>> = {}
            OBVIOUS
        <3>3. t.rows \in [DOMAIN t.rows -> Row] /\ DOMAIN t.rows = {}
            BY <2>1, <3>2
        <3>4. t.rows \in [DOMAIN t.rows -> Row] /\ DOMAIN t.rows \subseteq Customers
            BY <3>3
        <3>5. t.bill \in Nat
            BY <2>1
        <3>6. t.redeem \in BOOLEAN
            BY <2>1
        <3>7. t.who \in Customers \cup {None} /\ t.rules \in Versions
            BY <2>1, <2>2
        <3>8. t.todo \subseteq DOMAIN t.rows
            BY <2>1
        <3> QED
            BY <2>1, <3>1, <3>4, <3>5, <3>6, <3>7, <3>8 DEF WellFormed, Sale, Edit
    <2>5. \A u \in Sessions : tx'[u] = IF u = s THEN t ELSE tx[u]
        BY <2>2 DEF SalesTypes
    <2>6. tx' = [u \in Sessions |-> tx'[u]]
        BY <2>2, <2>5 DEF SalesTypes
    <2>7. \A u \in Sessions : WellFormed(tx[u])'
        <3> SUFFICES ASSUME NEW u \in Sessions PROVE WellFormed(tx'[u])
            BY DEF WellFormed, Sale, Edit, Priced, Numbered, Covered
        <3> QED
            BY <2>4, <2>5 DEF SalesTypes
    <2> QED
        BY <2>2, <2>3, <2>6, <2>7 DEF SalesTypes
<1>5. CASE Reread(s)
    <2> DEFINE seen == [c \in Drafted(s) |-> customer[c]]
               t == [tx[s] EXCEPT !.pc = "reread", !.seen = seen]
    <2>1. /\ DOMAIN t = Fields /\ t.pc = "reread" /\ t.seen = seen /\ t.who = tx[s].who
          /\ t.bill = tx[s].bill /\ t.redeem = tx[s].redeem /\ t.rows = tx[s].rows
          /\ t.todo = tx[s].todo
        BY <1>1 DEF Fields
    <2>2. Open(s, t)
        BY <1>5 DEF Reread
    <2>3. seen \in [DOMAIN t.rows -> Row]
        BY <1>1, <2>1 DEF Drafted, SalesTypes, WellFormed
    <2> HIDE DEF t, seen
    <2>4. WellFormed(t)
        BY <1>1, <2>1, <2>3 DEF WellFormed, Sale, Edit, Priced, Numbered
    <2> QED
        BY <2>2, <2>4, OpenTypes
<1>6. CASE Update(s)
    <2>1. PICK c \in tx[s].todo :
            Open(s, [tx[s] EXCEPT !.pc = "writing", !.todo = @ \ {c},
                  !.rows[c] = Saved(customer[c], tx[s].seen[c], tx[s].rows[c])])
        BY <1>6 DEF Update
    <2> DEFINE new == Saved(customer[c], tx[s].seen[c], tx[s].rows[c])
               t == [tx[s] EXCEPT !.pc = "writing", !.todo = @ \ {c}, !.rows[c] = new]
    <2>2. /\ DOMAIN t = Fields /\ t.pc = "writing" /\ t.who = tx[s].who
          /\ t.bill = tx[s].bill /\ t.redeem = tx[s].redeem /\ t.seen = tx[s].seen
          /\ t.todo = tx[s].todo \ {c} /\ t.rows = [tx[s].rows EXCEPT ![c] = new]
        BY <1>1 DEF Fields
    <2>3. Open(s, t)
        BY <2>1
    <2>4. /\ c \in DOMAIN tx[s].rows /\ customer[c] \in Row /\ tx[s].rows[c] \in Row
          /\ tx[s].pc \in {"reread", "writing"}
        BY <1>1, <1>6, <2>1 DEF SalesTypes, WellFormed, Update
    <2>5. new \in Row
        BY <2>4, SavedType
    <2> HIDE DEF t, new
    <2>6. DOMAIN t.rows = DOMAIN tx[s].rows /\ t.rows \in [DOMAIN tx[s].rows -> Row]
        BY <1>1, <2>2, <2>4, <2>5 DEF WellFormed
    <2>7. WellFormed(t)
        BY <1>1, <2>2, <2>4, <2>6 DEF WellFormed, Sale, Edit, Priced, Numbered
    <2> QED
        BY <2>3, <2>7, OpenTypes
<1>7. CASE CommitEdit(s)
    <2>1. customer' \in [Customers -> Row]
        BY <1>7, InstalledTypes DEF CommitEdit
    <2> QED
        BY <1>7, <2>1, EndTypes DEF CommitEdit, SalesTypes
<1> QED
    BY <1>2, <1>3, <1>4, <1>5, <1>6, <1>7

LEMMA InitTypes == ASSUME Parameters, Init PROVE SalesTypes
<1>1. \A n \in Names : NewCustomer(n) \in Row
    BY DEF NewCustomer, Row
<1>2. today \in Days
    BY DEF Init, Days, Parameters
<1>3. \A s \in Sessions : WellFormed(tx[s])
    BY IdleWellFormed DEF Init
<1> QED
    BY <1>1, <1>2, <1>3 DEF Init, SalesTypes

LEMMA NextTypes ==
    ASSUME Parameters, SalesTypes, [Next]_vars
    PROVE  SalesTypes'
<1>1. CASE Midnight
    <2>1. today' \in Days
        BY <1>1 DEF Midnight, SalesTypes, Days, Parameters
    <2> QED
        BY <1>1, <2>1 DEF Midnight, SalesTypes, WellFormed, Sale, Edit, Priced, Numbered, Covered
<1>2. CASE UNCHANGED vars
    BY <1>2 DEF vars, SalesTypes, WellFormed, Sale, Edit, Priced, Numbered, Covered
<1>3. ASSUME NEW s \in Sessions, Fail(s) \/ DeadlockVictim(s) PROVE SalesTypes'
    BY <1>3, RollbackTypes DEF Fail, DeadlockVictim
<1>4. ASSUME NEW s \in Sessions, Request(s) \/ Handler(s) PROVE SalesTypes'
    BY <1>4, SaleTypes, CommitTypes, EditTypes DEF Request, Handler
<1> QED
    BY <1>1, <1>2, <1>3, <1>4 DEF Next

\* Every variable keeps its type: however sales and edits overlap, no points,
\* spend or rows to be saved are ever negative.
THEOREM SalesTypeCorrect == ASSUME Parameters PROVE Spec => []TypeOK
<1>1. Init => SalesTypes
    BY InitTypes
<1>2. SalesTypes /\ [Next]_vars => SalesTypes'
    BY NextTypes
<1>3. SalesTypes => TypeOK
    BY DEF SalesTypes, TypeOK, WellFormed, Days
<1> QED
    BY <1>1, <1>2, <1>3, PTL DEF Spec

-----------------------------------------------------------------------------
(* Accounts: with one sale of a customer at a time and edits alone, and      *)
(* settings of one earning rate, the points follow the spend and the tiers   *)
(* fit the points.                                                           *)

\* What the two properties are promised for.
OneRate == \A u, v \in Versions : u.spend = v.spend /\ u.points = v.points

Drafting(t) == t.pc \in {"found", "reread", "writing"}
Fits(row) == row.tier = TierFor(row.points, settings.tiers)
Fitting == \A c \in Customers : Fits(customer[c])

\* The rows that the tier recalculation is about to save.
Retiered(t) == Drafting(t) /\ DOMAIN t.rows = Customers /\ \A c \in Customers : Fits(t.rows[c])

\* What a request read is what is still committed.
FreshSale(t) ==
    /\ Sale(t) => t.rules = settings
    /\ Sale(t) /\ (t.pc = "saved" => t.who = None) => DOMAIN t.rows = {}
    /\ Priced(t) /\ t.who # None => t.seen = customer[t.who]
FreshEdit(t) ==
    /\ t.pc = "retier" => t.rules = settings
    /\ Drafting(t) =>
         \A c \in DOMAIN t.rows :
            /\ t.rows[c].points = customer[c].points /\ t.rows[c].spend = customer[c].spend
            /\ Fits(customer[c]) => Fits(t.rows[c])
    /\ t.pc \in {"reread", "writing"} => \A c \in DOMAIN t.rows : t.seen[c] = customer[c]

\* A sale that is about to commit saves the entity it computed.
Settled(s) ==
    tx[s].pc = "saved" /\ tx[s].who # None =>
        DOMAIN tx[s].rows = {tx[s].who} /\ tx[s].rows[tx[s].who] = Entity(s)

\* An edit is alone, and a customer is in one sale.
Alone ==
    \A s, u \in Sessions : s # u =>
        /\ Edit(tx[s]) => tx[u].pc = "idle"
        /\ Sale(tx[s]) /\ Sale(tx[u]) /\ tx[s].who = tx[u].who => tx[s].who = None

TiersPending == \E s \in Sessions : tx[s].pc = "retier" \/ Retiered(tx[s])

AccountInv ==
    /\ SalesTypes
    /\ Alone
    /\ \A s \in Sessions : FreshSale(tx[s]) /\ FreshEdit(tx[s]) /\ Settled(s)
    /\ PointsFromSpend
    /\ Fitting \/ TiersPending

\* The ways in which a session may change its request.
MayBecome(s, t) ==
    \/ t.pc = "idle"
    \/ Sale(t) /\ Sale(tx[s]) /\ t.who = tx[s].who
    \/ Edit(t) /\ Edit(tx[s])
    \/ Sale(t) /\ \A u \in Others(s) :
          ~Edit(tx[u]) /\ (Sale(tx[u]) => t.who = None \/ tx[u].who # t.who)
    \/ Edit(t) /\ \A u \in Others(s) : tx[u].pc = "idle"

\* The tiers outlive the step.
TiersKept(s, t) == Fitting \/ t.pc = "retier" \/ Retiered(t) \/ ~Edit(tx[s])

\* A request that goes on to t, and nothing is committed.
LEMMA OpenAccounts ==
    ASSUME AccountInv, NEW s \in Sessions, NEW t, Open(s, t), SalesTypes',
           MayBecome(s, t), TiersKept(s, t), FreshSale(t), FreshEdit(t), Settled(s)'
    PROVE  AccountInv'
<1>1. \A u \in Sessions : tx'[u] = IF u = s THEN t ELSE tx[u]
    BY DEF SalesTypes, Open, AccountInv
<1>2. UNCHANGED <<settings, customer, redeemed>>
    BY DEF Open
<1>3. \A row : Fits(row)' <=> Fits(row)
    BY <1>2 DEF Fits
<1>4. WellFormed(t)
    <2>1. WellFormed(tx'[s])
        BY DEF SalesTypes, WellFormed, Sale, Edit, Priced, Numbered, Covered
    <2> QED
        BY <1>1, <2>1
<1>5. ASSUME NEW u \in Sessions PROVE (FreshSale(tx[u]) /\ FreshEdit(tx[u]) /\ Settled(u))'
    <2>1. FreshSale(tx[u])'
        BY <1>1, <1>2 DEF AccountInv, FreshSale, Sale, Priced
    <2>2. FreshEdit(tx[u])'
        BY <1>1, <1>2 DEF AccountInv, FreshEdit, Drafting, Fits
    <2>3. Settled(u)'
        <3>1. CASE u = s
            BY <3>1
        <3>2. CASE u # s
            <4>1. tx'[u] = tx[u] /\ Settled(u)
                BY <1>1, <3>2 DEF AccountInv
            <4> QED
                BY <4>1 DEF Settled, Entity, Discount, Points, Reward
        <3> QED
            BY <3>1, <3>2
    <2> QED
        BY <2>1, <2>2, <2>3
<1>6. Alone'
    <2> SUFFICES ASSUME NEW u \in Sessions, NEW w \in Sessions, u # w
                 PROVE  /\ Edit(tx'[u]) => tx'[w].pc = "idle"
                        /\ Sale(tx'[u]) /\ Sale(tx'[w]) /\ tx'[u].who = tx'[w].who
                               => tx'[u].who = None
        BY DEF Alone, Edit, Sale
    <2>1. CASE u # s /\ w # s
        BY <1>1, <2>1 DEF AccountInv, Alone
    <2>2. CASE u = s
        <3>1. tx'[u] = t /\ tx'[w] = tx[w] /\ w \in Others(s)
            BY <1>1, <2>2 DEF Others
        <3> QED
            BY <2>2, <3>1 DEF AccountInv, Alone, MayBecome, Edit, Sale
    <2>3. CASE w = s
        <3>1. tx'[w] = t /\ tx'[u] = tx[u] /\ u \in Others(s)
            BY <1>1, <2>3 DEF Others
        <3> QED
            BY <2>3, <3>1 DEF AccountInv, Alone, MayBecome, Edit, Sale
    <2> QED
        BY <2>1, <2>2, <2>3
<1>7. PointsFromSpend'
    BY <1>2 DEF AccountInv, PointsFromSpend
<1>8. (Fitting \/ TiersPending)'
    <2>1. CASE Fitting
        BY <1>2, <2>1 DEF Fitting, Fits
    <2>2. CASE t.pc = "retier" \/ Retiered(t)
        <3>1. tx'[s].pc = "retier" \/ Retiered(tx[s])'
            BY <1>1, <1>2, <2>2 DEF Retiered, Drafting, Fits
        <3> QED
            BY <3>1 DEF TiersPending
    <2>3. CASE ~Fitting /\ ~Edit(tx[s])
        <3>1. PICK u \in Sessions : tx[u].pc = "retier" \/ Retiered(tx[u])
            BY <2>3 DEF AccountInv, TiersPending
        <3>2. u # s
            BY <2>3, <3>1 DEF Edit, Retiered, Drafting
        <3>3. tx'[u].pc = "retier" \/ Retiered(tx[u])'
            BY <1>1, <1>2, <3>1, <3>2 DEF Retiered, Drafting, Fits
        <3> QED
            BY <3>3 DEF TiersPending
    <2> QED
        BY <2>1, <2>2, <2>3 DEF TiersKept
<1> QED
    BY <1>5, <1>6, <1>7, <1>8 DEF AccountInv

\* A sale that is given up.
LEMMA RollbackAccounts ==
    ASSUME Parameters, AccountInv, NEW s \in Sessions, ~Edit(tx[s]), Rollback(s)
    PROVE  AccountInv'
<1>1. Open(s, Idle)
    BY DEF Rollback, Open
<1>2. Idle.pc = "idle"
    BY DEF Idle
<1>3. SalesTypes'
    BY RollbackTypes DEF AccountInv
<1>4. FreshSale(Idle) /\ FreshEdit(Idle) /\ MayBecome(s, Idle) /\ TiersKept(s, Idle)
    BY <1>2 DEF FreshSale, FreshEdit, MayBecome, TiersKept, Sale, Priced, Drafting
<1>5. Settled(s)'
    <2>1. tx'[s] = Idle
        BY <1>1 DEF Open, AccountInv, SalesTypes
    <2> QED
        BY <1>2, <2>1 DEF Settled
<1> QED
    BY <1>1, <1>3, <1>4, <1>5, OpenAccounts

\* Steps of a sale up to its commit keep the accounts.
LEMMA SaleAccounts ==
    ASSUME Parameters, MayOverlap = FALSE, AccountInv, NEW s \in Sessions,
           Begin(s) \/ Price(s) \/ Number(s) \/ Insert(s) \/ SaveCustomer(s)
    PROVE  AccountInv'
<1>1. SalesTypes /\ SalesTypes'
    BY SaleTypes DEF AccountInv
<1>2. WellFormed(tx[s]) /\ DOMAIN tx[s] = Fields /\ FreshSale(tx[s])
    BY <1>1 DEF SalesTypes, WellFormed, AccountInv
<1>3. ASSUME Rollback(s), ~Edit(tx[s]) PROVE AccountInv'
    BY <1>3, RollbackAccounts
\* A sale that keeps its customer and goes on to be t.
<1>4. ASSUME NEW t, Open(s, t), Sale(t), ~Edit(tx[s]), MayBecome(s, t), FreshSale(t),
             t.pc # "saved" \/ t.who = None
      PROVE  AccountInv'
    <2>1. FreshEdit(t)
        BY <1>4 DEF FreshEdit, Sale, Drafting
    <2>2. TiersKept(s, t)
        BY <1>4 DEF TiersKept
    <2>3. Settled(s)'
        <3>1. tx'[s] = t
            BY <1>1, <1>4 DEF Open, SalesTypes
        <3> QED
            BY <1>4, <3>1 DEF Settled
    <2> QED
        BY <1>1, <1>4, <2>1, <2>2, <2>3, OpenAccounts
<1>5. CASE Begin(s)
    <2>1. PICK c \in Customers \cup {None}, bill \in Bills, redeem \in BOOLEAN :
            /\ AdmitSale(c)
            /\ Open(s, [Idle EXCEPT !.pc = "begun", !.who = c, !.bill = bill,
                                    !.redeem = redeem, !.rules = settings])
        BY <1>5 DEF Begin
    <2> DEFINE t == [Idle EXCEPT !.pc = "begun", !.who = c, !.bill = bill,
                                 !.redeem = redeem, !.rules = settings]
    <2>2. t.pc = "begun" /\ t.who = c /\ t.rules = settings /\ t.rows = <<>>
        BY DEF Idle
    <2>3. Open(s, t)
        BY <2>1
    <2> HIDE DEF t
    <2>4. Sale(t) /\ ~Priced(t) /\ DOMAIN t.rows = {}
        BY <2>2 DEF Sale, Priced
    <2>5. MayBecome(s, t)
        BY <2>1, <2>2, <2>4 DEF MayBecome, AdmitSale, EditOpen, Edit, Others
    <2>6. FreshSale(t)
        BY <2>2, <2>4 DEF FreshSale
    <2>7. ~Edit(tx[s])
        BY <1>5 DEF Begin, Busy, Edit
    <2> QED
        BY <1>4, <2>2, <2>3, <2>4, <2>5, <2>6, <2>7
<1>6. CASE Price(s)
    <2>1. Sale(tx[s]) /\ ~Edit(tx[s]) /\ tx[s].pc # "saved"
        BY <1>6 DEF Price, Sale, Edit
    <2>2. CASE Accepts(s)
        <3> DEFINE row == IF tx[s].who = None THEN None ELSE customer[tx[s].who]
                   t == [tx[s] EXCEPT !.pc = "priced", !.seen = row]
        <3>1. /\ t.pc = "priced" /\ t.seen = row /\ t.who = tx[s].who
              /\ t.rules = tx[s].rules /\ t.rows = tx[s].rows
            BY <1>2 DEF Fields
        <3>2. Open(s, t)
            BY <1>6, <2>2 DEF Price
        <3>3. tx[s].who # None => row = customer[tx[s].who]
            OBVIOUS
        <3> HIDE DEF t, row
        <3>4. Sale(t) /\ MayBecome(s, t)
            BY <2>1, <3>1 DEF Sale, MayBecome
        <3>5. FreshSale(t)
            BY <1>2, <2>1, <3>1, <3>3, <3>4 DEF FreshSale
        <3> QED
            BY <1>4, <2>1, <3>1, <3>2, <3>4, <3>5
    <2>3. CASE ~Accepts(s)
        BY <1>3, <1>6, <2>1, <2>3 DEF Price
    <2> QED
        BY <2>2, <2>3
<1>7. CASE Number(s)
    <2>1. Sale(tx[s]) /\ Priced(tx[s]) /\ ~Edit(tx[s]) /\ tx[s].pc # "saved"
        BY <1>7 DEF Number, Sale, Priced, Edit
    <2>2. CASE NextNumber <= MaxSequence
        <3> DEFINE t == [tx[s] EXCEPT !.pc = "numbered", !.number = NextNumber, !.day = today]
        <3>1. /\ t.pc = "numbered" /\ t.seen = tx[s].seen /\ t.who = tx[s].who
              /\ t.rules = tx[s].rules /\ t.rows = tx[s].rows
            BY <1>2 DEF Fields
        <3>2. Open(s, t)
            BY <1>7, <2>2 DEF Number
        <3> HIDE DEF t
        <3>3. Sale(t) /\ MayBecome(s, t)
            BY <2>1, <3>1 DEF Sale, MayBecome
        <3>4. FreshSale(t)
            BY <1>2, <2>1, <3>1, <3>3 DEF FreshSale
        <3> QED
            BY <1>4, <2>1, <3>1, <3>2, <3>3, <3>4
    <2>3. CASE ~(NextNumber <= MaxSequence)
        BY <1>3, <1>7, <2>1, <2>3 DEF Number
    <2> QED
        BY <2>2, <2>3
<1>8. CASE Insert(s)
    <2>1. Sale(tx[s]) /\ Priced(tx[s]) /\ ~Edit(tx[s]) /\ tx[s].pc # "saved"
        BY <1>8 DEF Insert, Sale, Priced, Edit
    <2>2. CASE tx[s].number \in issued[tx[s].day]
        BY <1>3, <1>8, <2>1, <2>2 DEF Insert
    <2>3. CASE tx[s].number \notin issued[tx[s].day]
        <3> DEFINE t == [tx[s] EXCEPT !.pc = "inserted"]
        <3>1. /\ t.pc = "inserted" /\ t.seen = tx[s].seen /\ t.who = tx[s].who
              /\ t.rules = tx[s].rules /\ t.rows = tx[s].rows
            BY <1>2 DEF Fields
        <3>2. Open(s, t)
            BY <1>8, <2>3 DEF Insert
        <3> HIDE DEF t
        <3>3. Sale(t) /\ MayBecome(s, t)
            BY <2>1, <3>1 DEF Sale, MayBecome
        <3>4. FreshSale(t)
            BY <1>2, <2>1, <3>1, <3>3 DEF FreshSale
        <3> QED
            BY <1>4, <2>1, <3>1, <3>2, <3>3, <3>4
    <2> QED
        BY <2>2, <2>3
<1>9. CASE SaveCustomer(s)
    <2>1. Sale(tx[s]) /\ Priced(tx[s]) /\ ~Edit(tx[s]) /\ tx[s].pc # "saved"
        BY <1>9 DEF SaveCustomer, Sale, Priced, Edit
    <2>2. CASE tx[s].who = None
        <3> DEFINE t == [tx[s] EXCEPT !.pc = "saved"]
        <3>1. /\ t.pc = "saved" /\ t.seen = tx[s].seen /\ t.who = tx[s].who
              /\ t.rules = tx[s].rules /\ t.rows = tx[s].rows
            BY <1>2 DEF Fields
        <3>2. Open(s, t)
            BY <1>9, <2>2 DEF SaveCustomer
        <3> HIDE DEF t
        <3>3. Sale(t) /\ MayBecome(s, t)
            BY <2>1, <3>1 DEF Sale, MayBecome
        <3>4. FreshSale(t)
            BY <1>2, <2>1, <2>2, <3>1, <3>3 DEF FreshSale
        <3> QED
            BY <1>4, <2>1, <2>2, <3>1, <3>2, <3>3, <3>4
    <2>3. CASE tx[s].who # None
        <3> DEFINE c == tx[s].who
                   new == Saved(customer[c], tx[s].seen, Entity(s))
                   rows == Only(c, new)
                   t == [tx[s] EXCEPT !.pc = "saved", !.rows = rows]
        <3>1. /\ t.pc = "saved" /\ t.seen = tx[s].seen /\ t.who = c /\ t.bill = tx[s].bill
              /\ t.redeem = tx[s].redeem /\ t.rules = tx[s].rules /\ t.rows = rows
            BY <1>2 DEF Fields
        <3>2. Open(s, t)
            BY <1>9, <2>3 DEF SaveCustomer
        <3>3. DOMAIN rows = {c} /\ rows[c] = new
            BY DEF Only
        <3>4. c \in Customers /\ tx[s].seen = customer[c] /\ customer[c] \in Row
            BY <1>1, <1>2, <2>1, <2>3 DEF WellFormed, FreshSale, SalesTypes
        <3>5. Entity(s) \in Row
            BY <1>2, <2>1, <2>3, EntityTypes
        <3>6. new = Entity(s)
            BY <3>4, <3>5, SavedFresh
        <3> HIDE DEF t, rows, new
        <3>7. Sale(t) /\ MayBecome(s, t)
            BY <2>1, <3>1 DEF Sale, MayBecome
        <3>8. FreshSale(t)
            BY <1>2, <2>1, <2>3, <3>1, <3>7 DEF FreshSale
        <3>9. FreshEdit(t)
            BY <3>1 DEF FreshEdit, Drafting
        <3>10. Settled(s)'
            <4>1. tx'[s] = t
                BY <1>1, <3>2 DEF Open, SalesTypes
            <4>2. Entity(s)' = Entity(s)
                BY <3>1, <4>1 DEF Entity, Discount, Points, Reward
            <4> QED
                BY <3>1, <3>3, <3>6, <4>1, <4>2 DEF Settled
        <3>11. TiersKept(s, t)
            BY <2>1 DEF TiersKept
        <3> QED
            BY <1>1, <3>2, <3>7, <3>8, <3>9, <3>10, <3>11, OpenAccounts
    <2> QED
        BY <2>2, <2>3
<1> QED
    BY <1>5, <1>6, <1>7, <1>8, <1>9

\* The commit of a sale keeps the accounts.
LEMMA CommitAccounts ==
    ASSUME Parameters, AccountInv, NEW s \in Sessions, Commit(s)
    PROVE  AccountInv'
<1> DEFINE t == tx[s]
           c == t.who
<1>1. SalesTypes /\ SalesTypes'
    BY CommitTypes DEF AccountInv
<1>2. /\ WellFormed(t) /\ t.pc = "saved" /\ Sale(t) /\ Priced(t) /\ ~Edit(t)
      /\ FreshSale(t) /\ Settled(s)
    BY <1>1 DEF SalesTypes, Commit, Sale, Priced, Edit, AccountInv
<1>3. /\ customer' = Installed(s) /\ settings' = settings /\ tx' = [tx EXCEPT ![s] = Idle]
      /\ redeemed' = [k \in Customers |->
                        IF k = tx[s].who THEN redeemed[k] + Points(s) ELSE redeemed[k]]
    BY DEF Commit
<1>4. \A u \in Sessions : tx'[u] = IF u = s THEN Idle ELSE tx[u]
    BY <1>1, <1>3 DEF SalesTypes
<1>5. \A k \in Customers : k # c => customer'[k] = customer[k] /\ redeemed'[k] = redeemed[k]
    <2> SUFFICES ASSUME NEW k \in Customers, k # c
                 PROVE  customer'[k] = customer[k] /\ redeemed'[k] = redeemed[k]
        OBVIOUS
    <2>1. k \notin DOMAIN t.rows
        BY <1>2 DEF FreshSale, Settled
    <2> QED
        BY <1>3, <2>1 DEF Installed
<1>6. ASSUME c # None
      PROVE  /\ c \in Customers /\ customer'[c] = Entity(s) /\ t.seen = customer[c]
             /\ t.rules = settings /\ redeemed'[c] = redeemed[c] + Points(s)
    <2>1. c \in Customers /\ t.seen = customer[c] /\ t.rules = settings
        BY <1>2, <1>6 DEF WellFormed, FreshSale
    <2>2. DOMAIN t.rows = {c} /\ t.rows[c] = Entity(s)
        BY <1>2, <1>6 DEF Settled
    <2> QED
        BY <1>3, <2>1, <2>2 DEF Installed
<1>7. PointsFromSpend'
    <2> SUFFICES ASSUME NEW k \in Customers
                 PROVE  customer'[k].points
                          = Earned(0, customer'[k].spend, settings) - redeemed'[k]
        BY <1>3 DEF PointsFromSpend
    <2>1. customer[k].points = Earned(0, customer[k].spend, settings) - redeemed[k]
        BY DEF AccountInv, PointsFromSpend
    <2>2. CASE k # c
        BY <1>5, <2>1, <2>2
    <2>3. CASE k = c
        <3>1. c # None
            BY <2>3 DEF Parameters
        <3>2. /\ customer'[k] = Entity(s) /\ t.seen = customer[k] /\ t.rules = settings
              /\ redeemed'[k] = redeemed[k] + Points(s)
            BY <1>6, <2>3, <3>1
        <3> DEFINE a == customer[k].spend
                   b == Entity(s).spend
                   p == customer[k].points
                   q == Entity(s).points
        <3>3. /\ Points(s) \in Nat /\ Entity(s) \in Row /\ b >= a
              /\ q = p - Points(s) + Earned(a, b, settings)
            BY <1>2, <3>1, <3>2, EntityTypes
        <3>4. a \in Nat /\ b \in Nat /\ p \in Nat /\ q \in Nat /\ redeemed[k] \in Nat
            BY <1>1, <3>3 DEF SalesTypes, Row
        <3>5. p = Earned(0, a, settings) - redeemed[k]
            BY <2>1
        <3> HIDE DEF a, b, p, q
        <3>6. /\ Earned(a, b, settings) \in Nat
              /\ Earned(0, b, settings) = Earned(0, a, settings) + Earned(a, b, settings)
              /\ Earned(0, a, settings) \in Int
            BY <1>1, <3>3, <3>4, EarnedType DEF SalesTypes
        <3>7. q = Earned(0, b, settings) - (redeemed[k] + Points(s))
            BY <3>3, <3>4, <3>5, <3>6
        <3> QED
            BY <3>2, <3>7 DEF b, q
    <2> QED
        BY <2>2, <2>3
<1>8. Alone'
    <2>1. Idle.pc = "idle"
        BY DEF Idle
    <2> SUFFICES ASSUME NEW u \in Sessions, NEW w \in Sessions, u # w
                 PROVE  /\ Edit(tx'[u]) => tx'[w].pc = "idle"
                        /\ Sale(tx'[u]) /\ Sale(tx'[w]) /\ tx'[u].who = tx'[w].who
                               => tx'[u].who = None
        BY DEF Alone, Edit, Sale
    <2> QED
        BY <1>4, <2>1 DEF AccountInv, Alone, Edit, Sale
<1>9. ASSUME NEW u \in Sessions PROVE (FreshSale(tx[u]) /\ FreshEdit(tx[u]) /\ Settled(u))'
    <2>1. CASE u = s
        <3>1. tx'[u] = Idle /\ Idle.pc = "idle"
            BY <1>4, <2>1 DEF Idle
        <3> QED
            BY <3>1 DEF FreshSale, FreshEdit, Settled, Sale, Priced, Drafting
    <2>2. CASE u # s
        <3>1. tx'[u] = tx[u] /\ ~Edit(tx[u])
            BY <1>2, <1>4, <2>2 DEF AccountInv, Alone
        <3>2. FreshSale(tx[u]) /\ Settled(u) /\ WellFormed(tx[u])
            BY <1>1 DEF AccountInv, SalesTypes
        <3>3. Sale(tx[u]) /\ tx[u].who # None => tx[u].who # c /\ tx[u].who \in Customers
            BY <1>2, <2>2, <3>2 DEF AccountInv, Alone, WellFormed
        <3>4. FreshSale(tx[u])'
            BY <1>3, <1>5, <3>1, <3>2, <3>3 DEF FreshSale, Sale, Priced
        <3>5. FreshEdit(tx[u])'
            BY <3>1 DEF FreshEdit, Edit, Drafting
        <3>6. Settled(u)'
            BY <3>1, <3>2 DEF Settled, Entity, Discount, Points, Reward
        <3> QED
            BY <3>4, <3>5, <3>6
    <2> QED
        BY <2>1, <2>2
<1>10. Fitting
    <2>1. ASSUME NEW u \in Sessions PROVE ~Edit(tx[u])
        BY <1>2 DEF AccountInv, Alone, Sale, Edit
    <2> QED
        BY <2>1 DEF AccountInv, TiersPending, Retiered, Drafting, Edit
<1>11. Fitting'
    <2> SUFFICES ASSUME NEW k \in Customers PROVE Fits(customer[k])'
        BY DEF Fitting, Fits
    <2>1. CASE k # c
        BY <1>3, <1>5, <1>10, <2>1 DEF Fitting, Fits
    <2>2. CASE k = c
        <3>1. c # None
            BY <2>2 DEF Parameters
        <3>2. customer'[k] = Entity(s) /\ t.rules = settings
            BY <1>6, <2>2, <3>1
        <3>3. Entity(s).tier = TierFor(Entity(s).points, t.rules.tiers)
            BY <1>2, <3>1, EntityTypes
        <3> QED
            BY <1>3, <3>2, <3>3 DEF Fits
    <2> QED
        BY <2>1, <2>2
<1> QED
    BY <1>1, <1>7, <1>8, <1>9, <1>11 DEF AccountInv

\* Rows that an editor has found: points and spend as committed, and no tier
\* that no longer fits.
LEMMA FoundAccounts ==
    ASSUME Parameters, AccountInv, NEW s \in Sessions, NEW rows, Open(s, Found(rows)), SalesTypes',
           MayBecome(s, Found(rows)),
           \A c \in DOMAIN rows :
              /\ rows[c].points = customer[c].points /\ rows[c].spend = customer[c].spend
              /\ Fits(customer[c]) => Fits(rows[c]),
           ~Edit(tx[s]) \/ (DOMAIN rows = Customers /\ \A c \in Customers : Fits(rows[c]))
    PROVE  AccountInv'
<1> DEFINE t == Found(rows)
<1>1. t.pc = "found" /\ t.rows = rows
    BY DEF Found, Idle
<1>2. Open(s, t) /\ MayBecome(s, t)
    OBVIOUS
<1> HIDE DEF t
<1>3. FreshSale(t) /\ FreshEdit(t)
    BY <1>1 DEF FreshSale, FreshEdit, Sale, Priced, Drafting
<1>4. TiersKept(s, t)
    BY <1>1 DEF TiersKept, Retiered, Drafting
<1>5. Settled(s)'
    <2>1. tx'[s] = t
        BY <1>2 DEF Open, AccountInv, SalesTypes
    <2> QED
        BY <1>1, <2>1 DEF Settled
<1> QED
    BY <1>2, <1>3, <1>4, <1>5, OpenAccounts

\* Steps of the editors keep the accounts.
LEMMA EditAccounts ==
    ASSUME Parameters, MayOverlap = FALSE, OneRate, AccountInv, NEW s \in Sessions,
           FindCustomer(s) \/ SaveSettings(s) \/ FindCustomers(s)
               \/ Reread(s) \/ Update(s) \/ CommitEdit(s)
    PROVE  AccountInv'
<1>1. SalesTypes /\ SalesTypes'
    BY EditTypes DEF AccountInv
<1>2. WellFormed(tx[s]) /\ DOMAIN tx[s] = Fields /\ FreshEdit(tx[s])
    BY <1>1 DEF SalesTypes, WellFormed, AccountInv
<1>3. CASE FindCustomer(s)
    <2>1. PICK c \in Customers, n \in Names :
            Open(s, Found(Only(c, [customer[c] EXCEPT !.name = n])))
        BY <1>3 DEF FindCustomer
    <2> DEFINE new == [customer[c] EXCEPT !.name = n]
               rows == Only(c, new)
    <2>2. customer[c] \in Row
        BY <1>1 DEF SalesTypes
    <2>3. /\ new.points = customer[c].points /\ new.spend = customer[c].spend
          /\ new.tier = customer[c].tier
        BY <2>2 DEF Row
    <2>4. DOMAIN rows = {c} /\ rows[c] = new
        BY DEF Only
    <2>5. Open(s, Found(rows))
        BY <2>1
    <2> HIDE DEF new, rows
    <2>6. Edit(Found(rows))
        BY DEF Found, Idle, Edit
    <2>7. (\A u \in Others(s) : tx[u].pc = "idle") /\ ~Edit(tx[s])
        BY <1>3 DEF FindCustomer, AdmitEdit, Busy, Edit, Others
    <2>8. MayBecome(s, Found(rows))
        BY <2>6, <2>7 DEF MayBecome
    <2>9. \A k \in DOMAIN rows :
              /\ rows[k].points = customer[k].points /\ rows[k].spend = customer[k].spend
              /\ Fits(customer[k]) => Fits(rows[k])
        BY <2>3, <2>4 DEF Fits
    <2> QED
        BY <1>1, <2>5, <2>7, <2>8, <2>9, FoundAccounts
<1>4. CASE FindCustomers(s)
    <2> DEFINE rows == [c \in Customers |->
                [customer[c] EXCEPT !.tier = TierFor(customer[c].points, tx[s].rules.tiers)]]
    <2>1. Open(s, Found(rows)) /\ tx[s].rules = settings /\ Edit(tx[s])
        BY <1>2, <1>4 DEF FindCustomers, FreshEdit, Edit
    <2>2. DOMAIN rows = Customers
        OBVIOUS
    <2>3. ASSUME NEW c \in Customers
          PROVE  /\ rows[c].points = customer[c].points /\ rows[c].spend = customer[c].spend
                 /\ Fits(rows[c])
        <3>1. customer[c] \in Row
            BY <1>1 DEF SalesTypes
        <3>2. /\ rows[c].points = customer[c].points /\ rows[c].spend = customer[c].spend
              /\ rows[c].tier = TierFor(customer[c].points, tx[s].rules.tiers)
            BY <3>1 DEF Row
        <3> HIDE DEF rows
        <3> QED
            BY <2>1, <3>2 DEF Fits
    <2> HIDE DEF rows
    <2>4. Edit(Found(rows))
        BY DEF Found, Idle, Edit
    <2>5. MayBecome(s, Found(rows))
        BY <2>1, <2>4 DEF MayBecome
    <2> QED
        BY <1>1, <2>1, <2>2, <2>3, <2>5, FoundAccounts
<1>5. CASE Reread(s)
    <2> DEFINE seen == [c \in Drafted(s) |-> customer[c]]
               t == [tx[s] EXCEPT !.pc = "reread", !.seen = seen]
    <2>1. /\ t.pc = "reread" /\ t.seen = seen /\ t.rows = tx[s].rows
        BY <1>2 DEF Fields
    <2>2. Open(s, t) /\ Edit(tx[s]) /\ Drafting(tx[s]) /\ tx[s].pc # "retier"
        BY <1>5 DEF Reread, Edit, Drafting
    <2>3. \A c \in DOMAIN t.rows : seen[c] = customer[c]
        BY <2>1 DEF Drafted
    <2> HIDE DEF t, seen
    <2>4. FreshSale(t) /\ FreshEdit(t)
        BY <1>2, <2>1, <2>2, <2>3 DEF FreshSale, FreshEdit, Sale, Priced, Drafting
    <2>5. MayBecome(s, t)
        BY <2>1, <2>2 DEF MayBecome, Edit
    <2>6. TiersKept(s, t)
        <3>1. ASSUME ~Fitting PROVE Retiered(tx[s])
            <4>1. PICK u \in Sessions : tx[u].pc = "retier" \/ Retiered(tx[u])
                BY <3>1 DEF AccountInv, TiersPending
            <4>2. u = s
                BY <2>2, <4>1 DEF AccountInv, Alone, Retiered, Drafting, Edit
            <4> QED
                BY <2>2, <4>1, <4>2
        <3> QED
            BY <2>1, <3>1 DEF TiersKept, Retiered, Drafting
    <2>7. Settled(s)'
        <3>1. tx'[s] = t
            BY <1>1, <2>2 DEF Open, SalesTypes
        <3> QED
            BY <2>1, <3>1 DEF Settled
    <2> QED
        BY <1>1, <2>2, <2>4, <2>5, <2>6, <2>7, OpenAccounts
<1>6. CASE Update(s)
    <2>1. PICK c \in tx[s].todo :
            Open(s, [tx[s] EXCEPT !.pc = "writing", !.todo = @ \ {c},
                  !.rows[c] = Saved(customer[c], tx[s].seen[c], tx[s].rows[c])])
        BY <1>6 DEF Update
    <2> DEFINE new == Saved(customer[c], tx[s].seen[c], tx[s].rows[c])
               t == [tx[s] EXCEPT !.pc = "writing", !.todo = @ \ {c}, !.rows[c] = new]
    <2>2. t.pc = "writing" /\ t.seen = tx[s].seen /\ t.rows = [tx[s].rows EXCEPT ![c] = new]
        BY <1>2 DEF Fields
    <2>3. Open(s, t)
        BY <2>1
    <2>4. tx[s].pc \in {"reread", "writing"} /\ Edit(tx[s]) /\ Drafting(tx[s]) /\ tx[s].pc # "retier"
        BY <1>6 DEF Update, Edit, Drafting
    <2>5. /\ c \in DOMAIN tx[s].rows /\ customer[c] \in Row /\ tx[s].rows[c] \in Row
          /\ tx[s].rows \in [DOMAIN tx[s].rows -> Row] /\ tx[s].seen[c] = customer[c]
        BY <1>1, <1>2, <2>4 DEF SalesTypes, WellFormed, FreshEdit
    <2>6. new = tx[s].rows[c]
        BY <2>5, SavedFresh
    <2> HIDE DEF t, new
    <2>7. t.rows = tx[s].rows
        BY <2>2, <2>5, <2>6
    <2>8. FreshSale(t) /\ FreshEdit(t)
        BY <1>2, <2>2, <2>4, <2>7 DEF FreshSale, FreshEdit, Sale, Priced, Drafting
    <2>9. MayBecome(s, t)
        BY <2>2, <2>4 DEF MayBecome, Edit
    <2>10. TiersKept(s, t)
        <3>1. ASSUME ~Fitting PROVE Retiered(tx[s])
            <4>1. PICK u \in Sessions : tx[u].pc = "retier" \/ Retiered(tx[u])
                BY <3>1 DEF AccountInv, TiersPending
            <4>2. u = s
                BY <2>4, <4>1 DEF AccountInv, Alone, Retiered, Drafting, Edit
            <4> QED
                BY <2>4, <4>1, <4>2
        <3> QED
            BY <2>2, <2>7, <3>1 DEF TiersKept, Retiered, Drafting
    <2>11. Settled(s)'
        <3>1. tx'[s] = t
            BY <1>1, <2>3 DEF Open, SalesTypes
        <3> QED
            BY <2>2, <3>1 DEF Settled
    <2> QED
        BY <1>1, <2>3, <2>8, <2>9, <2>10, <2>11, OpenAccounts
<1>7. CASE SaveSettings(s)
    <2> DEFINE t == [Idle EXCEPT !.pc = "retier", !.rules = settings']
    <2>1. t.pc = "retier" /\ t.rules = settings'
        BY DEF Idle
    <2>2. tx' = [tx EXCEPT ![s] = t] /\ UNCHANGED <<customer, redeemed>>
        BY <1>7 DEF SaveSettings
    <2> HIDE DEF t
    <2>3. \A u \in Sessions : tx'[u] = IF u = s THEN t ELSE tx[u]
        BY <1>1, <2>2 DEF SalesTypes
    <2>4. \A u \in Sessions : u # s => tx[u].pc = "idle"
        BY <1>7 DEF SaveSettings, AdmitEdit, Busy
    <2>5. Alone'
        BY <2>1, <2>3, <2>4 DEF Alone, Edit, Sale
    <2>6. ASSUME NEW u \in Sessions PROVE (FreshSale(tx[u]) /\ FreshEdit(tx[u]) /\ Settled(u))'
        <3>1. tx'[u].pc = "idle" \/ (tx'[u].pc = "retier" /\ tx'[u].rules = settings')
            BY <2>1, <2>3, <2>4
        <3> QED
            BY <3>1 DEF FreshSale, FreshEdit, Settled, Sale, Priced, Drafting
    <2>7. PointsFromSpend'
        <3>1. settings.spend = settings'.spend /\ settings.points = settings'.points
            BY <1>1 DEF OneRate, SalesTypes
        <3> QED
            BY <2>2, <3>1 DEF AccountInv, PointsFromSpend, Earned
    <2>8. TiersPending'
        BY <2>1, <2>3 DEF TiersPending
    <2> QED
        BY <1>1, <2>5, <2>6, <2>7, <2>8 DEF AccountInv
<1>8. CASE CommitEdit(s)
    <2>1. /\ customer' = Installed(s) /\ settings' = settings /\ redeemed' = redeemed
          /\ tx' = [tx EXCEPT ![s] = Idle]
          /\ Edit(tx[s]) /\ Drafting(tx[s]) /\ tx[s].pc # "retier"
        BY <1>8 DEF CommitEdit, Edit, Drafting
    <2>2. \A u \in Sessions : tx'[u].pc = "idle"
        <3>1. Idle.pc = "idle"
            BY DEF Idle
        <3>2. \A u \in Sessions : tx'[u] = IF u = s THEN Idle ELSE tx[u]
            BY <1>1, <2>1 DEF SalesTypes
        <3> QED
            BY <2>1, <3>1, <3>2 DEF AccountInv, Alone
    <2>3. Alone'
        BY <2>2 DEF Alone, Edit, Sale
    <2>4. ASSUME NEW u \in Sessions PROVE (FreshSale(tx[u]) /\ FreshEdit(tx[u]) /\ Settled(u))'
        BY <2>2 DEF FreshSale, FreshEdit, Settled, Sale, Priced, Drafting
    <2>5. ASSUME NEW c \in Customers
          PROVE  /\ customer'[c].points = customer[c].points
                 /\ customer'[c].spend = customer[c].spend
        BY <1>2, <2>1 DEF Installed, FreshEdit
    <2>6. PointsFromSpend'
        BY <2>1, <2>5 DEF AccountInv, PointsFromSpend
    <2>7. Fitting'
        <3> SUFFICES ASSUME NEW c \in Customers PROVE Fits(customer'[c])
            BY <2>1 DEF Fitting, Fits
        <3>1. customer'[c] = IF c \in DOMAIN tx[s].rows THEN tx[s].rows[c] ELSE customer[c]
            BY <2>1 DEF Installed
        <3>2. CASE Fitting
            BY <1>2, <2>1, <3>1, <3>2 DEF Fitting, FreshEdit
        <3>3. CASE ~Fitting
            <4>1. PICK u \in Sessions : tx[u].pc = "retier" \/ Retiered(tx[u])
                BY <3>3 DEF AccountInv, TiersPending
            <4>2. u = s
                BY <2>1, <4>1 DEF AccountInv, Alone, Retiered, Drafting, Edit
            <4>3. DOMAIN tx[s].rows = Customers /\ Fits(tx[s].rows[c])
                BY <2>1, <4>1, <4>2 DEF Retiered
            <4> QED
                BY <3>1, <4>3
        <3> QED
            BY <3>2, <3>3
    <2> QED
        BY <1>1, <2>3, <2>4, <2>6, <2>7 DEF AccountInv
<1> QED
    BY <1>3, <1>4, <1>5, <1>6, <1>7, <1>8

\* Only a sale is chosen to break a deadlock: an edit waits for nobody.
LEMMA VictimIsSale ==
    ASSUME AccountInv, NEW s \in Sessions, DeadlockVictim(s)
    PROVE  ~Edit(tx[s]) /\ Rollback(s)
<1> SUFFICES ASSUME Edit(tx[s]) PROVE FALSE
    BY DEF DeadlockVictim
<1>1. PICK u \in Sessions : u # s /\ WaitsFor(u, s)
    BY DEF DeadlockVictim
<1>2. tx[u].pc = "idle"
    BY <1>1 DEF AccountInv, Alone
<1> QED
    BY <1>1, <1>2 DEF WaitsFor

LEMMA InitAccounts == ASSUME Parameters, Init PROVE AccountInv
<1>1. SalesTypes
    BY InitTypes
<1>2. Idle.pc = "idle"
    BY DEF Idle
<1>3. \A s \in Sessions : tx[s] = Idle
    BY DEF Init
<1>4. Alone /\ \A s \in Sessions : FreshSale(tx[s]) /\ FreshEdit(tx[s]) /\ Settled(s)
    BY <1>2, <1>3 DEF Alone, FreshSale, FreshEdit, Settled, Sale, Priced, Edit, Drafting
<1>5. ASSUME NEW c \in Customers
      PROVE  customer[c].spend = 0 /\ customer[c].points = 0 /\ customer[c].tier = 1
    BY DEF Init, NewCustomer
<1>6. PointsFromSpend
    <2> SUFFICES ASSUME NEW c \in Customers
                 PROVE  customer[c].points = Earned(0, customer[c].spend, settings) - redeemed[c]
        BY DEF PointsFromSpend
    <2> DEFINE n == Earned(0, 0, settings)
    <2>1. n = n + n /\ n \in Nat
        BY <1>1, EarnedType DEF SalesTypes
    <2>2. redeemed[c] = 0
        BY DEF Init
    <2> HIDE DEF n
    <2>3. n = 0
        BY <2>1
    <2> QED
        BY <1>5, <2>2, <2>3 DEF n
<1>7. Fitting
    BY <1>1, <1>5, TierAtStart DEF Fitting, Fits, SalesTypes
<1> QED
    BY <1>1, <1>4, <1>6, <1>7 DEF AccountInv

\* Nothing is said of the numbers and the day.
LEMMA AccountsRest ==
    ASSUME AccountInv, SalesTypes', UNCHANGED <<settings, customer, redeemed, tx>>
    PROVE  AccountInv'
<1>1. \A s \in Sessions : FreshSale(tx[s])' /\ FreshEdit(tx[s])'
    <2>1. SUFFICES ASSUME NEW s \in Sessions PROVE FreshSale(tx[s])' /\ FreshEdit(tx[s])'
        OBVIOUS
    <2>2. FreshSale(tx[s]) /\ FreshEdit(tx[s])
        BY DEF AccountInv
    <2>3. FreshSale(tx[s])'
        BY <2>2 DEF FreshSale, Sale, Priced
    <2>4. FreshEdit(tx[s])'
        BY <2>2 DEF FreshEdit, Drafting, Fits
    <2> QED
        BY <2>3, <2>4
<1>2. \A s \in Sessions : Settled(s)'
    <2>1. SUFFICES ASSUME NEW s \in Sessions PROVE Settled(s)'
        OBVIOUS
    <2>2. Settled(s)
        BY DEF AccountInv
    <2>3. Entity(s)' = Entity(s)
        BY DEF Entity, Discount, Points, Reward
    <2> QED
        BY <2>2, <2>3 DEF Settled
<1>3. Alone' /\ PointsFromSpend'
    BY DEF AccountInv, Alone, PointsFromSpend, Edit, Sale
<1>4. (Fitting \/ TiersPending)'
    <2>1. Fitting \/ TiersPending
        BY DEF AccountInv
    <2> QED
        BY <2>1 DEF Fitting, TiersPending, Retiered, Drafting, Fits
<1> QED
    BY <1>1, <1>2, <1>3, <1>4 DEF AccountInv

LEMMA NextAccounts ==
    ASSUME Parameters, MayOverlap = FALSE, OneRate, AccountInv, [Next]_vars
    PROVE  AccountInv'
<1>1. CASE UNCHANGED vars
    <2>1. SalesTypes'
        BY <1>1, NextTypes DEF AccountInv
    <2>2. UNCHANGED <<settings, customer, redeemed, tx>>
        BY <1>1 DEF vars
    <2> QED
        BY <2>1, <2>2, AccountsRest
<1>2. CASE Midnight
    <2>1. SalesTypes'
        BY <1>2, NextTypes DEF AccountInv, Next
    <2>2. UNCHANGED <<settings, customer, redeemed, tx>>
        BY <1>2 DEF Midnight
    <2> QED
        BY <2>1, <2>2, AccountsRest
<1>3. ASSUME NEW s \in Sessions,
             Request(s) \/ Handler(s) \/ Fail(s) \/ DeadlockVictim(s)
      PROVE  AccountInv'
    <2>1. CASE Begin(s) \/ Price(s) \/ Number(s) \/ Insert(s) \/ SaveCustomer(s)
        BY <2>1, SaleAccounts
    <2>2. CASE FindCustomer(s) \/ SaveSettings(s) \/ FindCustomers(s)
                 \/ Reread(s) \/ Update(s) \/ CommitEdit(s)
        BY <2>2, EditAccounts
    <2>3. CASE Commit(s)
        BY <2>3, CommitAccounts
    <2>4. CASE Fail(s)
        BY <2>4, RollbackAccounts DEF Fail, Edit
    <2>5. CASE DeadlockVictim(s)
        BY <2>5, VictimIsSale, RollbackAccounts
    <2> QED
        BY <1>3, <2>1, <2>2, <2>3, <2>4, <2>5 DEF Request, Handler
<1> QED
    BY <1>1, <1>2, <1>3 DEF Next

LEMMA AccountsSettled == ASSUME AccountInv PROVE PointsFromSpend /\ TierFitsPoints
<1> SUFFICES ASSUME \A s \in Sessions : ~Busy(s) PROVE Fitting
    BY DEF AccountInv, TierFitsPoints, Fitting, Fits
<1> QED
    BY DEF AccountInv, TiersPending, Retiered, Drafting, Busy

\* A customer's points are those the cumulative spend has earned less those the
\* committed sales redeemed, and with no request open the tier is that of the
\* points under the settings saved last (CheckoutService, LoyaltySettingsService):
\* for requests on one customer that do not overlap and one earning rate.
THEOREM AccountsFollow ==
    ASSUME Parameters, MayOverlap = FALSE, OneRate
    PROVE  Spec => [](PointsFromSpend /\ TierFitsPoints)
<1>1. Init => AccountInv
    BY InitAccounts
<1>2. AccountInv /\ [Next]_vars => AccountInv'
    BY NextAccounts
<1>3. AccountInv => PointsFromSpend /\ TierFitsPoints
    BY AccountsSettled
<1> QED
    BY <1>1, <1>2, <1>3, PTL DEF Spec
=============================================================================
