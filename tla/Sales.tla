------------------------------- MODULE Sales -------------------------------
(* Checkout: the invoice number, the customer's spend, points and tier, and *)
(* the connections of the pool, beside the two requests that also rewrite   *)
(* customer rows, the edit of a customer and of the loyalty settings.       *)
(* The stock and the journal entry of a sale are in Inventory and           *)
(* AccountingPeriods: here they are one more reason to roll back.           *)
EXTENDS Integers, Sequences, FiniteSets, FiniteSetsExt

CONSTANTS
    Customers, Names,
    Sessions,     \* requests that may be open at once
    Operations,   \* a subset of {"sale", "rename", "settings"}
    Bills,        \* subtotals less the manual discount
    Versions,     \* loyalty settings: spend, points, tiers
    Pool,         \* connections of the mysql2 pool
    MaxSequence,  \* 9999
    LastDay,      \* bound on the calendar
    SpendLimit,   \* bound on what a customer spends
    MayOverlap,   \* requests on one customer may overlap, and edits overlap sales
    None

VARIABLES
    settings,   \* the loyalty_settings row
    customer,   \* committed customers rows
    redeemed,   \* points redeemed, summed over each customer's committed sales
    issued,     \* committed invoice numbers of each day
    today,      \* the salon's local date
    tx          \* the request of each session

vars == <<settings, customer, redeemed, issued, today, tx>>

Days == 1 .. LastDay

\* validateTiers: in order, and points and discount of a reward zero together.
ValidTiers(tiers) ==
    /\ \A i \in DOMAIN tiers \ {1} : tiers[i - 1].minimum < tiers[i].minimum
    /\ \A i \in DOMAIN tiers : (tiers[i].redeem = 0) = (tiers[i].discount = 0)

\* A tier: the threshold, and the points and discount of its reward.
TierRule == [minimum : Nat, redeem : Nat, discount : Nat]

\* What is assumed of the parameters.
Parameters ==
    /\ Bills \subseteq Nat /\ SpendLimit \in Nat /\ Pool \in Nat \ {0}
    /\ MaxSequence \in Nat /\ LastDay \in Nat \ {0} /\ MayOverlap \in BOOLEAN
    /\ None \notin Customers /\ None \notin Versions
    /\ \A v \in Versions :
         /\ v.spend \in Nat \ {0} /\ v.points \in Nat \ {0}
         /\ v.tiers \in Seq(TierRule) \ {<<>>} /\ ValidTiers(v.tiers)

\* The highest tier whose threshold the points reach; SILVER is 1.
TierFor(points, tiers) ==
    Max({1} \cup {i \in DOMAIN tiers : points >= tiers[i].minimum})

\* Variant with a mistake: every sale earns by itself.
EarnedBySale(before, after, v) == ((after - before) \div v.spend) * v.points

\* Points for the steps of the cumulative spend that this sale completes.
Earned(before, after, v) ==
    ((after \div v.spend) - (before \div v.spend)) * v.points

Only(c, row) == [k \in {c} |-> row]

NewCustomer(name) == [name |-> name, spend |-> 0, points |-> 0, tier |-> 1]

Idle == [pc |-> "idle", who |-> None, bill |-> 0, redeem |-> FALSE, rules |-> None,
         seen |-> None, number |-> 0, day |-> 0, todo |-> {}, rows |-> <<>>]

Init ==
    /\ settings \in Versions
    /\ customer \in [Customers -> {NewCustomer(n) : n \in Names}]
    /\ redeemed = [c \in Customers |-> 0]
    /\ issued = [d \in Days |-> {}]
    /\ today = 1
    /\ tx = [s \in Sessions |-> Idle]

-----------------------------------------------------------------------------
(* Connections and locks.                                                  *)

InTransaction(s) == tx[s].pc \in {"priced", "numbered", "inserted", "saved", "writing"}
FreeConnection == Cardinality({s \in Sessions : InTransaction(s)}) < Pool

\* The foreign key of the inserted sale holds the customer row shared, the
\* UPDATE of a customer holds it exclusively.
Shares(s, c) == tx[s].pc = "inserted" /\ tx[s].who = c
Writes(s, c) == InTransaction(s) /\ c \in DOMAIN tx[s].rows \ tx[s].todo
Others(s) == Sessions \ {s}

\* Variant with a mistake: the customer is saved on another connection, where
\* the sale's own lock is in the way.
MayWriteElsewhere(s, c) == \A t \in Sessions : ~Shares(t, c) /\ ~Writes(t, c)

MayWrite(s, c) == \A t \in Others(s) : ~Shares(t, c) /\ ~Writes(t, c)

\* Another sale has inserted the same number and not committed.
TookNumberOf(t, s) ==
    /\ tx[t].pc \in {"inserted", "saved"}
    /\ tx[t].number = tx[s].number /\ tx[t].day = tx[s].day

\* save(entity): the columns in which the entity differs from the reread row
\* replace those of the row under the UPDATE.
Saved(row, reread, entity) ==
    [f \in DOMAIN row |-> IF entity[f] = reread[f] THEN row[f] ELSE entity[f]]

Rollback(s) ==
    /\ tx' = [tx EXCEPT ![s] = Idle]
    /\ UNCHANGED <<settings, customer, redeemed, issued, today>>

Open(s, request) ==
    /\ tx' = [tx EXCEPT ![s] = request]
    /\ UNCHANGED <<settings, customer, redeemed, issued, today>>

Busy(t) == tx[t].pc # "idle"
EditOpen == \E t \in Sessions : tx[t].pc \in {"retier", "found", "reread", "writing"}

\* With MayOverlap FALSE: one sale of a customer at a time, edits alone.
AdmitSale(c) ==
    MayOverlap \/ (~EditOpen /\ \A t \in Sessions : c = None \/ tx[t].who # c)
AdmitEdit == MayOverlap \/ \A t \in Sessions : ~Busy(t)

-----------------------------------------------------------------------------
(* CheckoutService.checkout.                                               *)

\* The settings are read before the transaction, on a connection of their own.
Begin(s) ==
    /\ "sale" \in Operations
    /\ ~Busy(s)
    /\ FreeConnection
    /\ \E c \in Customers \cup {None}, bill \in Bills, redeem \in BOOLEAN :
        /\ AdmitSale(c)
        /\ c # None => customer[c].spend + bill <= SpendLimit
        /\ Open(s, [Idle EXCEPT !.pc = "begun", !.who = c, !.bill = bill,
                                !.redeem = redeem, !.rules = settings])

\* What a redeeming sale must meet on the customer as its snapshot shows it.
Reward(s, row) == tx[s].rules.tiers[TierFor(row.points, tx[s].rules.tiers)]
Eligible(s, row) ==
    LET reward == Reward(s, row)
    IN  /\ reward.redeem >= 1 /\ reward.discount >= 1
        /\ row.points >= reward.redeem
        /\ reward.discount <= tx[s].bill

Accepts(s) ==
    tx[s].redeem => tx[s].who # None /\ Eligible(s, customer[tx[s].who])

\* The transaction takes a connection and its first read fixes the snapshot.
Price(s) ==
    /\ tx[s].pc = "begun"
    /\ FreeConnection
    /\ IF Accepts(s)
       THEN LET row == IF tx[s].who = None THEN None ELSE customer[tx[s].who]
            IN  Open(s, [tx[s] EXCEPT !.pc = "priced", !.seen = row])
       ELSE Rollback(s)

\* Variant with a mistake: numbers still uncommitted count as issued.
NextNumberOfAll ==
    Max({0} \cup issued[today]
            \cup {tx[t].number : t \in {t \in Sessions : tx[t].day = today}}) + 1

\* InvoiceNumberService.next: one more than the last committed of the day.
NextNumber == Max({0} \cup issued[today]) + 1

\* It reads on a second connection, while the transaction keeps the first.
Number(s) ==
    /\ tx[s].pc = "priced"
    /\ FreeConnection
    /\ IF NextNumber <= MaxSequence
       THEN Open(s, [tx[s] EXCEPT !.pc = "numbered", !.number = NextNumber, !.day = today])
       ELSE Rollback(s)

\* INSERT of the sale: waits for the unique key and for the customer's row.
Insert(s) ==
    /\ tx[s].pc = "numbered"
    /\ \A t \in Others(s) : ~TookNumberOf(t, s) /\ ~Writes(t, tx[s].who)
    /\ IF tx[s].number \in issued[tx[s].day]
       THEN Rollback(s)
       ELSE Open(s, [tx[s] EXCEPT !.pc = "inserted"])

\* Out of stock on the locked row, month closed, account missing.
Fail(s) == tx[s].pc = "inserted" /\ Rollback(s)

\* The discount and points of the reward, none without one.
Discount(s) == IF tx[s].redeem THEN Reward(s, tx[s].seen).discount ELSE 0
Points(s) == IF tx[s].redeem THEN Reward(s, tx[s].seen).redeem ELSE 0

\* The customer entity at the end of a sale.
Entity(s) ==
    LET row    == tx[s].seen
        spend  == row.spend + tx[s].bill - Discount(s)
        points == row.points - Points(s) + Earned(row.spend, spend, tx[s].rules)
    IN  [row EXCEPT !.spend = spend, !.points = points,
                    !.tier = TierFor(points, tx[s].rules.tiers)]

\* customerRepo.save: the row is reread in the transaction's snapshot.
SaveCustomer(s) ==
    /\ tx[s].pc = "inserted"
    /\ IF tx[s].who = None
       THEN Open(s, [tx[s] EXCEPT !.pc = "saved"])
       ELSE LET c == tx[s].who
            IN  /\ MayWrite(s, c)
                /\ Open(s, [tx[s] EXCEPT !.pc = "saved",
                        !.rows = Only(c, Saved(customer[c], tx[s].seen, Entity(s)))])

Installed(s) ==
    [c \in Customers |-> IF c \in DOMAIN tx[s].rows THEN tx[s].rows[c] ELSE customer[c]]

Commit(s) ==
    /\ tx[s].pc = "saved"
    /\ customer' = Installed(s)
    /\ issued' = [issued EXCEPT ![tx[s].day] = @ \cup {tx[s].number}]
    /\ redeemed' = [c \in Customers |->
                      IF c = tx[s].who THEN redeemed[c] + Points(s) ELSE redeemed[c]]
    /\ tx' = [tx EXCEPT ![s] = Idle]
    /\ UNCHANGED <<settings, today>>

-----------------------------------------------------------------------------
(* The editors: find, then save, which rereads and then updates.           *)

Found(rows) == [Idle EXCEPT !.pc = "found", !.rows = rows, !.todo = DOMAIN rows]

\* CustomersService.update: only the name changes in memory.
FindCustomer(s) ==
    /\ "rename" \in Operations
    /\ ~Busy(s)
    /\ AdmitEdit
    /\ FreeConnection
    /\ \E c \in Customers, n \in Names :
         Open(s, Found(Only(c, [customer[c] EXCEPT !.name = n])))

\* LoyaltySettingsService.update: the settings row is saved at once.
SaveSettings(s) ==
    /\ "settings" \in Operations
    /\ ~Busy(s)
    /\ AdmitEdit
    /\ FreeConnection
    /\ settings' \in Versions \ {settings}
    /\ tx' = [tx EXCEPT ![s] = [Idle EXCEPT !.pc = "retier", !.rules = settings']]
    /\ UNCHANGED <<customer, redeemed, issued, today>>

\* Then all customers are found and given the tier of their points.
FindCustomers(s) ==
    /\ tx[s].pc = "retier"
    /\ FreeConnection
    /\ Open(s, Found([c \in Customers |->
           [customer[c] EXCEPT !.tier = TierFor(customer[c].points, tx[s].rules.tiers)]]))

Drafted(s) == DOMAIN tx[s].rows

\* save() rereads every row and keeps what differs.
Reread(s) ==
    /\ tx[s].pc = "found"
    /\ FreeConnection
    /\ Open(s, [tx[s] EXCEPT !.pc = "reread",
                             !.seen = [c \in Drafted(s) |-> customer[c]]])

\* UPDATE of one row with a difference, in the transaction of the save.
Update(s) ==
    /\ tx[s].pc = "writing" \/ (tx[s].pc = "reread" /\ FreeConnection)
    /\ \E c \in tx[s].todo :
        /\ MayWrite(s, c)
        /\ Open(s, [tx[s] EXCEPT !.pc = "writing", !.todo = @ \ {c},
              !.rows[c] = Saved(customer[c], tx[s].seen[c], tx[s].rows[c])])

CommitEdit(s) ==
    /\ tx[s].pc = "writing"
    /\ tx[s].todo = {}
    /\ customer' = Installed(s)
    /\ tx' = [tx EXCEPT ![s] = Idle]
    /\ UNCHANGED <<settings, redeemed, issued, today>>

-----------------------------------------------------------------------------
\* A session waits for a row or a key another holds.
WaitsFor(s, t) ==
    \/ tx[s].pc = "numbered" /\ (TookNumberOf(t, s) \/ Writes(t, tx[s].who))
    \/ tx[s].pc = "inserted" /\ (Shares(t, tx[s].who) \/ Writes(t, tx[s].who))
    \/ /\ tx[s].pc = "writing"
       /\ \A c \in tx[s].todo : ~MayWrite(s, c)
       /\ \E c \in tx[s].todo : Shares(t, c) \/ Writes(t, c)

DeadlockVictim(s) ==
    /\ \E C \in SUBSET Sessions :
         /\ s \in C
         /\ \A u \in C : (\E t \in C \ {u} : WaitsFor(u, t)) /\ (\E t \in C \ {u} : WaitsFor(t, u))
    /\ Rollback(s)

Midnight ==
    /\ today < LastDay
    /\ today' = today + 1
    /\ UNCHANGED <<settings, customer, redeemed, issued, tx>>

Request(s) == Begin(s) \/ FindCustomer(s) \/ SaveSettings(s)
Handler(s) ==
    \/ Price(s) \/ Number(s) \/ Insert(s) \/ SaveCustomer(s) \/ Commit(s)
    \/ FindCustomers(s) \/ Reread(s) \/ Update(s) \/ CommitEdit(s)

Next ==
    \/ \E s \in Sessions : Request(s) \/ Handler(s) \/ Fail(s) \/ DeadlockVictim(s)
    \/ Midnight

Spec == Init /\ [][Next]_vars

\* Connections and locks are handed out in the order in which they were asked
\* for; everything else only has to be scheduled.
Fairness ==
    /\ \A s \in Sessions : SF_vars(Handler(s))
    /\ WF_vars(\E s \in Sessions : DeadlockVictim(s))
FairSpec == Spec /\ Fairness

-----------------------------------------------------------------------------
(* Properties.                                                             *)

Row == [name : Names, spend : Nat, points : Nat, tier : Nat \ {0}]

\* The variables keep their types; points and spend are never negative.
TypeOK ==
    /\ settings \in Versions
    /\ customer \in [Customers -> Row]
    /\ redeemed \in [Customers -> Nat]
    /\ issued \in [Days -> SUBSET (1 .. MaxSequence)]
    /\ today \in 1 .. LastDay
    /\ \A s \in Sessions : tx[s].rows \in [DOMAIN tx[s].rows -> Row]

\* The invoices of a day are numbered 1, 2, 3 ... without a gap, whatever
\* sales take the same number, fail after taking one, or cross midnight.
NumbersConsecutive ==
    \A d \in Days : issued[d] = 1 .. Cardinality(issued[d])

\* A customer's points are those the cumulative spend has earned less those the
\* sales have redeemed, however the spend is split into sales (one sale of a
\* customer at a time; settings of one earning rate).
PointsFromSpend ==
    \A c \in Customers :
        customer[c].points = Earned(0, customer[c].spend, settings) - redeemed[c]

\* While no request is open every customer has the tier that the settings give
\* for the points, also after new settings (same condition).
TierFitsPoints ==
    (\A s \in Sessions : ~Busy(s)) =>
        \A c \in Customers : customer[c].tier = TierFor(customer[c].points, settings.tiers)

\* Every request ends: with fewer sales at once than connections, none waits
\* for ever for its second connection, and deadlocks on a customer are broken.
RequestsEnd == \A s \in Sessions : Busy(s) ~> ~Busy(s)
=============================================================================
