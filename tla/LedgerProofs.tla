----------------------------- MODULE LedgerProofs -----------------------------
(***************************************************************************)
(* The books balance, reversals cancel, bank statements reconcile and the  *)
(* reports agree with the ledger, for any documents, requests open at once *)
(* and dates.                                                              *)
(*                                                                         *)
(* JournalInv gives every entry the lines of its document or, if it is a   *)
(* reversal, their opposites. EntryInv says what each request holds, and   *)
(* that no two hold the same: it makes reversals cancel. BankInv adds what *)
(* the locks on the BANK account and on cleared lines keep still while a   *)
(* statement is entered. The books and the reports follow from JournalInv  *)
(* by sums over lines, accounts and days.                                  *)
(***************************************************************************)
EXTENDS Reports, Arithmetic, TLAPS

-----------------------------------------------------------------------------
(* Accounts and lines.                                                      *)

LEMMA FiniteAccounts ==
    /\ IsFiniteSet(Assets) /\ IsFiniteSet(Liabilities) /\ IsFiniteSet(Equities)
    /\ IsFiniteSet(Gains) /\ IsFiniteSet(Losses) /\ IsFiniteSet(Revenues)
    /\ IsFiniteSet(Costs) /\ IsFiniteSet(Accounts)
<1>1. \A a, b, c : IsFiniteSet({a, b, c})
    <2> TAKE a, b, c
    <2>1. IsFiniteSet({a}) /\ IsFiniteSet({b}) /\ IsFiniteSet({c})
        BY FS_Singleton
    <2>2. {a, b, c} = {a} \cup ({b} \cup {c})
        OBVIOUS
    <2>3. IsFiniteSet({b} \cup {c})
        BY <2>1, FS_Union
    <2>4. IsFiniteSet({a} \cup ({b} \cup {c}))
        BY <2>1, <2>3, FS_Union
    <2> QED
        BY <2>2, <2>4
<1>2. IsFiniteSet(Gains) /\ IsFiniteSet(Losses)
    BY <1>1 DEF Gains, Losses
<1>3. IsFiniteSet(Assets)
    <2>1. Assets = {"CASH", "BANK", "MOBILE_WALLET"} \cup {"CARD_CLEARING", "INVENTORY", "EMPLOYEE_ADVANCES"}
        BY DEF Assets
    <2> QED
        BY <1>1, <2>1, FS_Union
<1>4. IsFiniteSet(Liabilities) /\ IsFiniteSet(Equities)
    <2>1. Liabilities = {"VAT_PAYABLE", "ACCOUNTS_PAYABLE", "CARD_PAYABLE"} \cup {"OTHER_PAYABLE"}
        BY DEF Liabilities
    <2>2. Equities = {"OWNER_CAPITAL"} \cup {"OWNER_DRAWINGS"}
        BY DEF Equities
    <2>3. \A a : IsFiniteSet({a})
        BY FS_Singleton
    <2>4. IsFiniteSet(Liabilities)
        BY <1>1, <2>1, <2>3, FS_Union
    <2>5. IsFiniteSet(Equities)
        BY <2>2, <2>3, FS_Union
    <2> QED
        BY <2>4, <2>5
<1>5. IsFiniteSet(Revenues) /\ IsFiniteSet(Costs)
    <2>1. IsFiniteSet({"SALES_REVENUE"}) /\ IsFiniteSet({"COST_OF_GOODS_SOLD", "PAYROLL_EXPENSE", "EXPENSE_RENT"})
        BY <1>1, FS_Singleton
    <2> QED
        BY <1>2, <2>1, FS_Union DEF Revenues, Costs
<1>6. IsFiniteSet(Accounts)
    <2>1. IsFiniteSet(Assets \cup Liabilities)
        BY <1>3, <1>4, FS_Union
    <2>2. IsFiniteSet((Assets \cup Liabilities) \cup Equities)
        BY <1>4, <2>1, FS_Union
    <2>3. IsFiniteSet(((Assets \cup Liabilities) \cup Equities) \cup Revenues)
        BY <1>5, <2>2, FS_Union
    <2> QED
        BY <1>5, <2>3, FS_Union DEF Accounts
<1> QED
    BY <1>2, <1>3, <1>4, <1>5, <1>6

\* What a line adds to its account, and to an account.
NetOf == [l \in Line |-> l.debit - l.credit]
On(a) == [l \in Line |-> IF l.account = a THEN l.debit - l.credit ELSE 0]

\* Lines of different accounts.
Single(lines) == \A k, l \in lines : k.account = l.account => k = l

LEMMA MovementSum ==
    ASSUME NEW lines, IsFiniteSet(lines), lines \subseteq Line, NEW a
    PROVE  Movement(lines, a) = SumFunctionOnSet(On(a), lines) /\ Movement(lines, a) \in Int
<1> DEFINE f == [l \in lines |-> IF l.account = a THEN l.debit - l.credit ELSE 0]
<1>1. Movement(lines, a) = SumFunctionOnSet(f, lines)
    BY DEF Movement, SumFunction
<1>2. \A l \in lines : f[l] \in Int /\ On(a)[l] = f[l]
    BY DEF On, Line
<1> HIDE DEF f
<1> QED
    BY <1>1, <1>2, SumInt, SumSame

\* All accounts together move by what the lines are worth.
LEMMA MovementsAddUp ==
    ASSUME NEW lines, IsFiniteSet(lines), lines \subseteq Line,
           NEW r, \A a \in Accounts : r[a] = Movement(lines, a)
    PROVE  SumFunctionOnSet(r, Accounts) = SumFunctionOnSet(NetOf, lines)
<1> DEFINE m == [a \in Accounts |-> On(a)]
           k == [l \in lines |-> [a \in Accounts |-> On(a)[l]]]
<1>1. \A a \in Accounts, l \in lines : m[a][l] \in Int /\ k[l][a] = m[a][l]
    BY DEF On, Line
<1>2. \A a \in Accounts : r[a] = SumFunctionOnSet(m[a], lines)
    BY MovementSum
<1>3. \A l \in lines : NetOf[l] = SumFunctionOnSet(k[l], Accounts)
    <2> SUFFICES ASSUME NEW l \in lines
                 PROVE  NetOf[l] = SumFunctionOnSet(k[l], Accounts)
        OBVIOUS
    <2> DEFINE own == l.account
               row == k[l]
               rest == Accounts \ {own}
    <2>1. own \in Accounts /\ l \in Line /\ NetOf[l] \in Int
        BY DEF Line, NetOf
    <2>2. row[own] = NetOf[l] /\ (\A a \in Accounts : row[a] \in Int) /\ (\A a \in rest : row[a] = 0)
        BY <2>1 DEF On, NetOf, Line
    <2>3. IsFiniteSet(rest)
        BY FiniteAccounts, FS_Subset
    <2> HIDE DEF row, own, k
    <2>4. SumFunctionOnSet(row, Accounts) = row[own] + SumFunctionOnSet(row, rest)
        BY <2>1, <2>2, FiniteAccounts, SumTake
    <2>5. SumFunctionOnSet(row, rest) = 0
        BY <2>2, <2>3, SumZero
    <2>6. SumFunctionOnSet(row, Accounts) = NetOf[l]
        BY <2>1, <2>2, <2>4, <2>5
    <2> QED
        BY <2>6 DEF row
<1> DEFINE A == Accounts
           n == NetOf
<1>4. IsFiniteSet(A)
    BY FiniteAccounts
<1>5. Table(A, lines, m, r, k, n)
    BY <1>1, <1>2, <1>3 DEF Table
<1> HIDE DEF m, k, A, n
<1>6. SumFunctionOnSet(r, A) = SumFunctionOnSet(n, lines)
    BY <1>4, <1>5, SumSwap
<1> QED
    BY <1>6 DEF A, n

\* The movement of an account with one line, or none, among those posted.
LEMMA MovementOf ==
    ASSUME NEW W, IsFiniteSet(W), W \subseteq Line, Single(W), NEW a
    PROVE  /\ \A l \in W : l.account = a => Movement(Posted(W), a) = l.debit - l.credit
           /\ (\A l \in W : l.account # a) => Movement(Posted(W), a) = 0
<1> DEFINE P == Posted(W)
<1>1. P \subseteq W /\ P \subseteq Line /\ \A l \in W : l \notin P => l.debit - l.credit = 0
    BY DEF Posted, Line
<1>2. IsFiniteSet(P)
    BY <1>1, FS_Subset
<1>3. Movement(P, a) = SumFunctionOnSet(On(a), P)
    BY <1>1, <1>2, MovementSum
<1>4. ASSUME NEW l \in W, l.account = a PROVE Movement(P, a) = l.debit - l.credit
    <2>1. \A k \in P \ {l} : On(a)[k] = 0
        BY <1>1, <1>4 DEF Single, On
    <2>2. IsFiniteSet(P \ {l})
        BY <1>2, FS_Subset
    <2>3. SumFunctionOnSet(On(a), P \ {l}) = 0
        BY <2>1, <2>2, SumZero
    <2>4. CASE l \in P
        <3>1. \A k \in P : On(a)[k] \in Int
            BY <1>1 DEF On, Line
        <3>2. On(a)[l] = l.debit - l.credit /\ On(a)[l] \in Int
            BY <1>4 DEF On, Line
        <3> HIDE DEF P
        <3>3. SumFunctionOnSet(On(a), P) = On(a)[l] + SumFunctionOnSet(On(a), P \ {l})
            BY <1>2, <2>4, <3>1, SumTake
        <3> QED
            BY <1>3, <2>3, <3>2, <3>3
    <2>5. CASE l \notin P
        <3>1. P \ {l} = P
            BY <2>5
        <3>2. l.debit - l.credit = 0
            BY <1>1, <2>5
        <3> HIDE DEF P
        <3> QED
            BY <1>3, <2>3, <3>1, <3>2
    <2> QED
        BY <2>4, <2>5
<1>5. ASSUME \A l \in W : l.account # a PROVE Movement(P, a) = 0
    <2>1. \A k \in P : On(a)[k] = 0
        BY <1>1, <1>5 DEF On
    <2> HIDE DEF P
    <2> QED
        BY <1>2, <1>3, <2>1, SumZero
<1> QED
    BY <1>4, <1>5

-----------------------------------------------------------------------------
(* The lines of a document.                                                 *)

\* Lines of different accounts on one side each, worth nothing together.
Even(lines) ==
    /\ IsFiniteSet(lines) /\ lines \subseteq Line /\ Single(lines)
    /\ \A l \in lines : l.debit = 0 \/ l.credit = 0
    /\ SumFunctionOnSet(NetOf, lines) = 0
Sound(lines) == Even(lines) /\ \A l \in lines : (l.debit = 0) # (l.credit = 0)

\* A set of lines, one of each account, with what it is worth.
Worth(lines, n) ==
    /\ IsFiniteSet(lines) /\ lines \subseteq Line /\ Single(lines)
    /\ \A l \in lines : l.debit = 0 \/ l.credit = 0
    /\ SumFunctionOnSet(NetOf, lines) = n

LEMMA NoLines == Worth({}, 0)
BY FS_EmptySet, SumEmpty DEF Worth, Single

LEMMA AnotherLine ==
    ASSUME NEW lines, NEW n \in Int, Worth(lines, n),
           NEW k \in Line, k.debit = 0 \/ k.credit = 0, \A l \in lines : l.account # k.account
    PROVE  Worth(lines \cup {k}, n + (k.debit - k.credit))
<1> DEFINE all == lines \cup {k}
<1>1. IsFiniteSet(all) /\ all \subseteq Line /\ Single(all) /\ k \in all
    BY FS_AddElement DEF Worth, Single
<1>2. \A l \in all : NetOf[l] \in Int
    BY <1>1 DEF NetOf, Line
<1>3. NetOf[k] = k.debit - k.credit
    BY DEF NetOf
<1>4. all \ {k} = lines
    OBVIOUS
<1>5. \A l \in all : l.debit = 0 \/ l.credit = 0
    BY DEF Worth
<1> HIDE DEF all
<1>6. SumFunctionOnSet(NetOf, all) = NetOf[k] + SumFunctionOnSet(NetOf, all \ {k})
    BY <1>1, <1>2, SumTake
<1>7. k.debit - k.credit \in Int
    BY DEF Line
<1>8. SumFunctionOnSet(NetOf, all) = n + (k.debit - k.credit)
    <2>1. SumFunctionOnSet(NetOf, lines) = n
        BY DEF Worth
    <2>2. SumFunctionOnSet(NetOf, all) = NetOf[k] + SumFunctionOnSet(NetOf, lines)
        BY <1>4, <1>6
    <2>3. SumFunctionOnSet(NetOf, all) = (k.debit - k.credit) + n
        BY ONLY <1>3, <2>1, <2>2
    <2> QED
        BY ONLY <1>7, <2>3, n \in Int
<1>9. Worth(all, n + (k.debit - k.credit))
    BY <1>1, <1>5, <1>8 DEF Worth
<1> QED
    BY <1>9 DEF all

LEMMA OneLine ==
    ASSUME NEW a \in Accounts, NEW n \in Nat
    PROVE  /\ Debit(a, n) \in Line /\ Debit(a, n).account = a
           /\ Debit(a, n).debit = n /\ Debit(a, n).credit = 0
           /\ Credit(a, n) \in Line /\ Credit(a, n).account = a
           /\ Credit(a, n).debit = 0 /\ Credit(a, n).credit = n
BY DEF Debit, Credit, Line

LEMMA TwoLines ==
    ASSUME NEW a \in Accounts, NEW b \in Accounts, a # b, NEW n \in Nat
    PROVE  Even(Entry(a, b, n))
<1> DEFINE k == Debit(a, n)
           l == Credit(b, n)
<1>1. /\ k \in Line /\ k.account = a /\ k.debit = n /\ k.credit = 0
      /\ l \in Line /\ l.account = b /\ l.debit = 0 /\ l.credit = n
    BY OneLine
<1>2. Entry(a, b, n) = ({} \cup {k}) \cup {l}
    BY DEF Entry
<1> HIDE DEF k, l
<1>3. Worth({} \cup {k}, 0 + (k.debit - k.credit))
    BY <1>1, NoLines, AnotherLine
<1>4. Worth(({} \cup {k}) \cup {l}, 0 + (k.debit - k.credit) + (l.debit - l.credit))
    BY <1>1, <1>3, AnotherLine
<1>5. 0 + (k.debit - k.credit) + (l.debit - l.credit) = 0
    BY <1>1
<1> QED
    BY <1>2, <1>4, <1>5 DEF Worth, Even

LEMMA PostedSound ==
    ASSUME NEW lines, Even(lines)
    PROVE  Sound(Posted(lines))
<1> DEFINE some == Posted(lines)
           rest == lines \ some
<1>1. /\ some \subseteq lines /\ some \subseteq Line /\ IsFiniteSet(some) /\ IsFiniteSet(rest)
    BY FS_Subset DEF Posted, Even
<1>2. \A l \in lines : l \in Line /\ NetOf[l] \in Int /\ NetOf[l] = l.debit - l.credit
    BY DEF Even, NetOf, Line
<1>3. \A l \in rest : NetOf[l] = 0
    BY <1>2 DEF Posted, Line
<1>4. \A l \in some : (l.debit = 0) # (l.credit = 0)
    <2> SUFFICES ASSUME NEW l \in some PROVE (l.debit = 0) # (l.credit = 0)
        OBVIOUS
    <2>1. l.debit \in Nat /\ l.credit \in Nat /\ l.debit + l.credit > 0
        BY <1>1 DEF Posted, Line
    <2>2. l.debit = 0 \/ l.credit = 0
        BY <1>1 DEF Even
    <2> QED
        BY <2>1, <2>2
<1>5. Single(some)
    BY <1>1 DEF Even, Single
<1> HIDE DEF some
<1>6. SumFunctionOnSet(NetOf, rest) = 0
    BY <1>1, <1>3, SumZero
<1>7. SumFunctionOnSet(NetOf, lines) = SumFunctionOnSet(NetOf, some) + SumFunctionOnSet(NetOf, rest)
    BY <1>1, <1>2, SumSplit DEF Even
<1>8. SumFunctionOnSet(NetOf, some) \in Int
    BY <1>1, <1>2, SumInt
<1>9. SumFunctionOnSet(NetOf, some) = 0
    BY <1>6, <1>7, <1>8 DEF Even
<1>10. \A l \in some : l.debit = 0 \/ l.credit = 0
    BY <1>1 DEF Even
<1> QED
    BY <1>1, <1>4, <1>5, <1>9, <1>10 DEF Sound, Even, some

\* An entry with an amount is posted whole.
LEMMA EntryPosted ==
    ASSUME NEW a \in Accounts, NEW b \in Accounts, NEW n \in Amounts
    PROVE  Posted(Entry(a, b, n)) = Entry(a, b, n)
BY DEF Posted, Entry, Debit, Credit, Amounts

LEMMA ThreeLines ==
    ASSUME NEW k1 \in Line, NEW k2 \in Line, NEW k3 \in Line,
           \A l \in {k1, k2, k3} : l.debit = 0 \/ l.credit = 0,
           k1.account # k2.account, k1.account # k3.account, k2.account # k3.account,
           (k1.debit - k1.credit) + (k2.debit - k2.credit) + (k3.debit - k3.credit) = 0
    PROVE  Even({k1, k2, k3})
<1> DEFINE net(k) == k.debit - k.credit
<1>1. \A k \in Line : net(k) \in Int
    BY DEF Line
<1> HIDE DEF net
<1>2. \A lines, n, k : n \in Int /\ Worth(lines, n) /\ k \in Line /\ (k.debit = 0 \/ k.credit = 0)
                       /\ (\A l \in lines : l.account # k.account)
                           => Worth(lines \cup {k}, n + net(k))
    BY AnotherLine DEF net
<1>3. Worth({} \cup {k1}, 0 + net(k1))
    BY <1>2, NoLines
<1>4. Worth({k1} \cup {k2}, 0 + net(k1) + net(k2))
    <2>1. {} \cup {k1} = {k1} /\ 0 + net(k1) \in Int
        BY <1>1
    <2> QED
        BY <1>2, <1>3, <2>1
<1>5. Worth({k1, k2} \cup {k3}, 0 + net(k1) + net(k2) + net(k3))
    <2>1. {k1} \cup {k2} = {k1, k2} /\ 0 + net(k1) + net(k2) \in Int
        BY <1>1
    <2> QED
        BY <1>2, <1>4, <2>1
<1>6. {k1, k2} \cup {k3} = {k1, k2, k3}
    OBVIOUS
<1>7. 0 + net(k1) + net(k2) + net(k3) = 0
    BY <1>1 DEF net
<1> QED
    BY <1>5, <1>6, <1>7 DEF Worth, Even

LEMMA FiveLines ==
    ASSUME NEW k1 \in Line, NEW k2 \in Line, NEW k3 \in Line, NEW k4 \in Line, NEW k5 \in Line,
           \A l \in {k1, k2, k3, k4, k5} : l.debit = 0 \/ l.credit = 0,
           k1.account # k2.account, k1.account # k3.account, k1.account # k4.account,
           k1.account # k5.account, k2.account # k3.account, k2.account # k4.account,
           k2.account # k5.account, k3.account # k4.account, k3.account # k5.account,
           k4.account # k5.account,
           (k1.debit - k1.credit) + (k2.debit - k2.credit) + (k3.debit - k3.credit)
               + (k4.debit - k4.credit) + (k5.debit - k5.credit) = 0
    PROVE  Even({k1, k2, k3, k4, k5})
<1> DEFINE net(k) == k.debit - k.credit
<1>1. \A k \in Line : net(k) \in Int
    BY DEF Line
<1> HIDE DEF net
<1>2. \A lines, n, k : n \in Int /\ Worth(lines, n) /\ k \in Line /\ (k.debit = 0 \/ k.credit = 0)
                       /\ (\A l \in lines : l.account # k.account)
                           => Worth(lines \cup {k}, n + net(k))
    BY AnotherLine DEF net
<1>3. Worth({} \cup {k1}, 0 + net(k1))
    BY <1>2, NoLines
<1>4. Worth({k1} \cup {k2}, 0 + net(k1) + net(k2))
    <2>1. {} \cup {k1} = {k1} /\ 0 + net(k1) \in Int
        BY <1>1
    <2> QED
        BY <1>2, <1>3, <2>1
<1>5. Worth({k1, k2} \cup {k3}, 0 + net(k1) + net(k2) + net(k3))
    <2>1. {k1} \cup {k2} = {k1, k2} /\ 0 + net(k1) + net(k2) \in Int
        BY <1>1
    <2> QED
        BY <1>2, <1>4, <2>1
<1>6. Worth({k1, k2, k3} \cup {k4}, 0 + net(k1) + net(k2) + net(k3) + net(k4))
    <2>1. {k1, k2} \cup {k3} = {k1, k2, k3} /\ 0 + net(k1) + net(k2) + net(k3) \in Int
        BY <1>1
    <2> QED
        BY <1>2, <1>5, <2>1
<1>7. Worth({k1, k2, k3, k4} \cup {k5}, 0 + net(k1) + net(k2) + net(k3) + net(k4) + net(k5))
    <2>1. {k1, k2, k3} \cup {k4} = {k1, k2, k3, k4} /\ 0 + net(k1) + net(k2) + net(k3) + net(k4) \in Int
        BY <1>1
    <2> QED
        BY <1>2, <1>6, <2>1
<1>8. {k1, k2, k3, k4} \cup {k5} = {k1, k2, k3, k4, k5}
    OBVIOUS
<1>9. 0 + net(k1) + net(k2) + net(k3) + net(k4) + net(k5) = 0
    BY <1>1 DEF net
<1> QED
    BY <1>7, <1>8, <1>9 DEF Worth, Even

\* The lines of a document, and what they move on the accounts of the reports.
Moves(d, sales, vat, cogs, payroll, rent) ==
    /\ Sound(Lines(d))
    /\ Movement(Lines(d), "SALES_REVENUE") = sales
    /\ Movement(Lines(d), "VAT_PAYABLE") = vat
    /\ Movement(Lines(d), "COST_OF_GOODS_SOLD") = cogs
    /\ Movement(Lines(d), "PAYROLL_EXPENSE") = payroll
    /\ Movement(Lines(d), "EXPENSE_RENT") = rent

LEMMA SettledOn ==
    ASSUME NEW method \in {"CASH", "CARD", "BANK", "MOBILE", "CREDIT", "OTHER"}
    PROVE  /\ method \in {"CASH", "BANK", "MOBILE"} => Settlement(method) \in {"CASH", "BANK", "MOBILE_WALLET"}
           /\ method = "CREDIT" => Settlement(method) = "ACCOUNTS_PAYABLE"
           /\ method \in {"CASH", "CARD", "BANK", "MOBILE"} =>
                 Collection(method) \in {"CASH", "BANK", "MOBILE_WALLET", "CARD_CLEARING"}
           /\ method \in {"CASH", "BANK", "CARD", "MOBILE", "OTHER"} =>
                 PaidFrom(method) \in {"CASH", "BANK", "MOBILE_WALLET", "CARD_PAYABLE", "OTHER_PAYABLE"}
<1>1. method \in {"CASH", "BANK", "MOBILE"} => Settlement(method) \in {"CASH", "BANK", "MOBILE_WALLET"}
    BY DEF Settlement
<1>2. method = "CREDIT" => Settlement(method) = "ACCOUNTS_PAYABLE"
    BY DEF Settlement
<1> QED
    BY <1>1, <1>2 DEF Collection, PaidFrom

LEMMA MovedOn ==
    ASSUME NEW lines, Even(lines), NEW a
    PROVE  /\ \A l \in lines : l.account = a => Movement(Posted(lines), a) = l.debit - l.credit
           /\ (\A l \in lines : l.account # a) => Movement(Posted(lines), a) = 0
BY MovementOf DEF Even

LEMMA NamesOfAccounts == \A a \in {"CASH", "BANK", "MOBILE_WALLET", "CARD_CLEARING", "INVENTORY",
        "EMPLOYEE_ADVANCES", "VAT_PAYABLE", "ACCOUNTS_PAYABLE", "CARD_PAYABLE", "OTHER_PAYABLE",
        "OWNER_CAPITAL", "OWNER_DRAWINGS", "SALES_REVENUE", "COST_OF_GOODS_SOLD", "PAYROLL_EXPENSE",
        "EXPENSE_RENT", "INVENTORY_ADJUSTMENT_GAIN", "SUPPLIER_RETURN_GAIN", "INVENTORY_REVALUATION_GAIN",
        "INVENTORY_SHRINKAGE", "SUPPLIER_RETURN_LOSS", "INVENTORY_REVALUATION_LOSS"} : a \in Accounts
BY DEF Accounts, Assets, Liabilities, Equities, Revenues, Costs, Gains, Losses

LEMMA SaleMoves ==
    ASSUME NEW d \in Document, d.kind = "sale"
    PROVE  Moves(d, 0 - d.net, 0 - d.vat, d.cogs, 0, 0)
<1>1. d.net \in Nat /\ d.vat \in Nat /\ d.cogs \in Nat /\ d.method \in {"CASH", "CARD", "BANK", "MOBILE"}
    BY DEF Document
<1> DEFINE paid == Debit(Collection(d.method), d.net + d.vat)
           sold == Credit("SALES_REVENUE", d.net)
           taxed == Credit("VAT_PAYABLE", d.vat)
           cost == Debit("COST_OF_GOODS_SOLD", d.cogs)
           goods == Credit("INVENTORY", d.cogs)
           all == {paid, sold, taxed, cost, goods}
<1>2. Collection(d.method) \in {"CASH", "BANK", "MOBILE_WALLET", "CARD_CLEARING"}
    BY <1>1, SettledOn
<1>3. /\ paid \in Line /\ paid.account = Collection(d.method) /\ paid.debit = d.net + d.vat /\ paid.credit = 0
      /\ sold \in Line /\ sold.account = "SALES_REVENUE" /\ sold.debit = 0 /\ sold.credit = d.net
      /\ taxed \in Line /\ taxed.account = "VAT_PAYABLE" /\ taxed.debit = 0 /\ taxed.credit = d.vat
      /\ cost \in Line /\ cost.account = "COST_OF_GOODS_SOLD" /\ cost.debit = d.cogs /\ cost.credit = 0
      /\ goods \in Line /\ goods.account = "INVENTORY" /\ goods.debit = 0 /\ goods.credit = d.cogs
    <2>1. /\ Collection(d.method) \in Accounts /\ "SALES_REVENUE" \in Accounts
          /\ "VAT_PAYABLE" \in Accounts /\ "COST_OF_GOODS_SOLD" \in Accounts /\ "INVENTORY" \in Accounts
        BY <1>2, NamesOfAccounts
    <2>2. d.net + d.vat \in Nat
        BY <1>1
    <2> QED
        BY <1>1, <2>1, <2>2, OneLine
<1>4. Lines(d) = Posted(all)
    BY DEF Lines, SaleLines
<1> HIDE DEF paid, sold, taxed, cost, goods
<1>5. Even(all)
    <2>1. (paid.debit - paid.credit) + (sold.debit - sold.credit) + (taxed.debit - taxed.credit)
             + (cost.debit - cost.credit) + (goods.debit - goods.credit) = 0
        BY <1>1, <1>3
    <2>2. \A l \in {paid, sold, taxed, cost, goods} : l.debit = 0 \/ l.credit = 0
        BY <1>3
    <2> QED
        BY <1>2, <1>3, <2>1, <2>2, FiveLines
<1>6. /\ \A a, l : l \in all /\ l.account = a => Movement(Lines(d), a) = l.debit - l.credit
      /\ \A a : (\A l \in all : l.account # a) => Movement(Lines(d), a) = 0
    BY <1>4, <1>5, MovedOn
<1>7. Sound(Lines(d))
    BY <1>4, <1>5, PostedSound
<1>8. Movement(Lines(d), "PAYROLL_EXPENSE") = 0 /\ Movement(Lines(d), "EXPENSE_RENT") = 0
    <2>1. \A l \in all : l.account # "PAYROLL_EXPENSE" /\ l.account # "EXPENSE_RENT"
        BY <1>2, <1>3
    <2> QED
        BY <1>6, <2>1
<1>9. /\ Movement(Lines(d), "SALES_REVENUE") = 0 - d.net /\ Movement(Lines(d), "VAT_PAYABLE") = 0 - d.vat
      /\ Movement(Lines(d), "COST_OF_GOODS_SOLD") = d.cogs - 0
    BY <1>3, <1>6
<1> QED
    BY <1>1, <1>7, <1>8, <1>9 DEF Moves

LEMMA ReturnMoves ==
    ASSUME NEW d \in Document, d.kind = "salesReturn"
    PROVE  Moves(d, d.net, d.vat, 0 - d.cogs, 0, 0)
<1>1. d.net \in Nat /\ d.vat \in Nat /\ d.cogs \in Nat /\ d.method \in {"CASH", "BANK", "MOBILE"}
    BY DEF Document
<1> DEFINE sold == Debit("SALES_REVENUE", d.net)
           taxed == Debit("VAT_PAYABLE", d.vat)
           goods == Debit("INVENTORY", d.cogs)
           cost == Credit("COST_OF_GOODS_SOLD", d.cogs)
           paid == Credit(Settlement(d.method), d.net + d.vat)
           all == {sold, taxed, goods, cost, paid}
<1>2. Settlement(d.method) \in {"CASH", "BANK", "MOBILE_WALLET"}
    BY <1>1, SettledOn
<1>3. /\ paid \in Line /\ paid.account = Settlement(d.method) /\ paid.debit = 0 /\ paid.credit = d.net + d.vat
      /\ sold \in Line /\ sold.account = "SALES_REVENUE" /\ sold.debit = d.net /\ sold.credit = 0
      /\ taxed \in Line /\ taxed.account = "VAT_PAYABLE" /\ taxed.debit = d.vat /\ taxed.credit = 0
      /\ cost \in Line /\ cost.account = "COST_OF_GOODS_SOLD" /\ cost.debit = 0 /\ cost.credit = d.cogs
      /\ goods \in Line /\ goods.account = "INVENTORY" /\ goods.debit = d.cogs /\ goods.credit = 0
    <2>1. /\ Settlement(d.method) \in Accounts /\ "SALES_REVENUE" \in Accounts
          /\ "VAT_PAYABLE" \in Accounts /\ "COST_OF_GOODS_SOLD" \in Accounts /\ "INVENTORY" \in Accounts
        BY <1>2, NamesOfAccounts
    <2>2. d.net + d.vat \in Nat
        BY <1>1
    <2> QED
        BY <1>1, <2>1, <2>2, OneLine
<1>4. Lines(d) = Posted(all)
    BY DEF Lines, SalesReturnLines
<1> HIDE DEF paid, sold, taxed, cost, goods
<1>5. Even(all)
    <2>1. (sold.debit - sold.credit) + (taxed.debit - taxed.credit) + (goods.debit - goods.credit)
             + (cost.debit - cost.credit) + (paid.debit - paid.credit) = 0
        BY <1>1, <1>3
    <2>2. \A l \in {sold, taxed, goods, cost, paid} : l.debit = 0 \/ l.credit = 0
        BY <1>3
    <2> QED
        BY <1>2, <1>3, <2>1, <2>2, FiveLines
<1>6. /\ \A a, l : l \in all /\ l.account = a => Movement(Lines(d), a) = l.debit - l.credit
      /\ \A a : (\A l \in all : l.account # a) => Movement(Lines(d), a) = 0
    BY <1>4, <1>5, MovedOn
<1>7. Sound(Lines(d))
    BY <1>4, <1>5, PostedSound
<1>8. Movement(Lines(d), "PAYROLL_EXPENSE") = 0 /\ Movement(Lines(d), "EXPENSE_RENT") = 0
    <2>1. \A l \in all : l.account # "PAYROLL_EXPENSE" /\ l.account # "EXPENSE_RENT"
        BY <1>2, <1>3
    <2> QED
        BY <1>6, <2>1
<1>9. /\ Movement(Lines(d), "SALES_REVENUE") = d.net - 0 /\ Movement(Lines(d), "VAT_PAYABLE") = d.vat - 0
      /\ Movement(Lines(d), "COST_OF_GOODS_SOLD") = 0 - d.cogs
    BY <1>3, <1>6
<1> QED
    BY <1>1, <1>7, <1>8, <1>9 DEF Moves

LEMMA EntryMoves ==
    ASSUME NEW a \in Accounts, NEW b \in Accounts, a # b, NEW n \in Nat
    PROVE  /\ Sound(Posted(Entry(a, b, n)))
           /\ Movement(Posted(Entry(a, b, n)), a) = n
           /\ Movement(Posted(Entry(a, b, n)), b) = 0 - n
           /\ \A c : c \notin {a, b} => Movement(Posted(Entry(a, b, n)), c) = 0
<1> DEFINE k == Debit(a, n)
           l == Credit(b, n)
           both == Entry(a, b, n)
<1>1. k.account = a /\ k.debit = n /\ k.credit = 0 /\ l.account = b /\ l.debit = 0 /\ l.credit = n
    BY OneLine
<1>2. both = {k, l}
    BY DEF Entry
<1>3. Even(both)
    BY TwoLines
<1> HIDE DEF k, l, both
<1>4. Sound(Posted(both))
    BY <1>3, PostedSound
<1>5. /\ \A x \in both : x.account = a => Movement(Posted(both), a) = x.debit - x.credit
      /\ \A x \in both : x.account = b => Movement(Posted(both), b) = x.debit - x.credit
      /\ \A c : (\A x \in both : x.account # c) => Movement(Posted(both), c) = 0
    BY <1>3, MovedOn
<1>6. Movement(Posted(both), a) = n /\ Movement(Posted(both), b) = 0 - n
    BY <1>1, <1>2, <1>5
<1>7. \A c : c \notin {a, b} => Movement(Posted(both), c) = 0
    BY <1>1, <1>2, <1>5
<1> QED
    BY <1>4, <1>6, <1>7 DEF both

\* The accounts of the reports.
Reported == {"SALES_REVENUE", "VAT_PAYABLE", "COST_OF_GOODS_SOLD", "PAYROLL_EXPENSE", "EXPENSE_RENT"}
\* Accounts of the balance sheet, without the VAT owed.
Balances == (Assets \cup Liabilities \cup Equities) \ {"VAT_PAYABLE"}

LEMMA BalancesAreAccounts == Balances \subseteq Accounts /\ Balances \cap Reported = {}
BY DEF Balances, Reported, Accounts, Assets, Liabilities, Equities

\* An entry that leaves the accounts of the reports alone.
LEMMA StillEntry ==
    ASSUME NEW d, NEW a \in Accounts \ Reported, NEW b \in Accounts \ Reported, a # b, NEW n \in Nat,
           Lines(d) = Posted(Entry(a, b, n))
    PROVE  Moves(d, 0, 0, 0, 0, 0)
<1>1. \A c \in Reported : c \notin {a, b}
    OBVIOUS
<1>2. \A c \in Reported : Movement(Lines(d), c) = 0
    BY <1>1, EntryMoves
<1>3. Sound(Lines(d))
    BY EntryMoves
<1> QED
    BY <1>2, <1>3 DEF Moves, Reported

LEMMA PurchaseMoves ==
    ASSUME NEW d \in Document, d.kind \in {"purchase", "supplierPayment"}
    PROVE  Moves(d, 0, 0, 0, 0, 0)
<1>1. d.method \in {"CASH", "BANK", "MOBILE", "CREDIT"} /\ d.amount \in Amounts /\ d.amount \in Nat
    BY DEF Document, Amounts
<1>2. d.kind = "supplierPayment" => d.method \in {"CASH", "BANK", "MOBILE"}
    BY DEF Document
<1>3. Settlement(d.method) \in {"CASH", "BANK", "MOBILE_WALLET", "ACCOUNTS_PAYABLE"}
    BY <1>1, SettledOn
<1>4. d.kind = "supplierPayment" => Settlement(d.method) \in {"CASH", "BANK", "MOBILE_WALLET"}
    BY <1>1, <1>2, SettledOn
<1> DEFINE b == Settlement(d.method)
<1>5. b \in Accounts \ Reported /\ "INVENTORY" \in Accounts \ Reported /\ "ACCOUNTS_PAYABLE" \in Accounts \ Reported
    BY <1>3, NamesOfAccounts DEF Reported
<1>6. CASE d.kind = "purchase"
    <2>1. Lines(d) = Entry("INVENTORY", b, d.amount)
        BY <1>6 DEF Lines, PurchaseLines
    <2>2. "INVENTORY" # b
        BY <1>3
    <2> HIDE DEF b
    <2>3. Lines(d) = Posted(Entry("INVENTORY", b, d.amount))
        BY <1>1, <1>5, <2>1, EntryPosted
    <2> QED
        BY <1>1, <1>5, <2>2, <2>3, StillEntry
<1>7. CASE d.kind = "supplierPayment"
    <2>1. Lines(d) = Entry("ACCOUNTS_PAYABLE", b, d.amount)
        BY <1>7 DEF Lines, SupplierPaymentLines
    <2>2. "ACCOUNTS_PAYABLE" # b
        BY <1>4, <1>7
    <2> HIDE DEF b
    <2>3. Lines(d) = Posted(Entry("ACCOUNTS_PAYABLE", b, d.amount))
        BY <1>1, <1>5, <2>1, EntryPosted
    <2> QED
        BY <1>1, <1>5, <2>2, <2>3, StillEntry
<1> QED
    BY <1>6, <1>7

LEMMA SupplierReturnMoves ==
    ASSUME NEW d \in Document, d.kind = "supplierReturn"
    PROVE  Moves(d, 0, 0, 0, 0, 0)
<1>1. d.method \in {"CASH", "BANK", "MOBILE", "CREDIT"} /\ d.amount \in Nat /\ d.value \in Nat
    BY DEF Document, Amounts
<1> DEFINE a == Settlement(d.method)
           paid == Debit(a, d.amount)
           goods == Credit("INVENTORY", d.value)
           rest == IF d.amount < d.value THEN Debit("SUPPLIER_RETURN_LOSS", d.value - d.amount)
                                         ELSE Credit("SUPPLIER_RETURN_GAIN", d.amount - d.value)
           all == {paid, goods, rest}
<1>2. a \in {"CASH", "BANK", "MOBILE_WALLET", "ACCOUNTS_PAYABLE"}
    BY <1>1, SettledOn
<1>3. /\ a \in Accounts /\ "INVENTORY" \in Accounts
      /\ "SUPPLIER_RETURN_LOSS" \in Accounts /\ "SUPPLIER_RETURN_GAIN" \in Accounts
    BY <1>2, NamesOfAccounts
<1>4. /\ paid \in Line /\ paid.account = a /\ paid.debit = d.amount /\ paid.credit = 0
      /\ goods \in Line /\ goods.account = "INVENTORY" /\ goods.debit = 0 /\ goods.credit = d.value
    <2> HIDE DEF a
    <2> QED
        BY <1>1, <1>3, OneLine
<1>5. /\ rest \in Line /\ rest.account \in {"SUPPLIER_RETURN_LOSS", "SUPPLIER_RETURN_GAIN"}
      /\ rest.debit = 0 \/ rest.credit = 0
      /\ rest.debit - rest.credit = d.value - d.amount
    <2>1. CASE d.amount < d.value
        <3>1. d.value - d.amount \in Nat
            BY <1>1, <2>1
        <3>2. rest = Debit("SUPPLIER_RETURN_LOSS", d.value - d.amount)
            BY <2>1
        <3> HIDE DEF rest
        <3> QED
            BY <1>1, <1>3, <3>1, <3>2, OneLine
    <2>2. CASE ~(d.amount < d.value)
        <3>1. d.amount - d.value \in Nat
            BY <1>1, <2>2
        <3>2. rest = Credit("SUPPLIER_RETURN_GAIN", d.amount - d.value)
            BY <2>2
        <3>3. 0 - (d.amount - d.value) = d.value - d.amount
            BY <1>1
        <3> HIDE DEF rest
        <3> QED
            BY <1>1, <1>3, <3>1, <3>2, <3>3, OneLine
    <2> QED
        BY <2>1, <2>2
<1>6. Lines(d) = Posted(all)
    BY DEF Lines, SupplierReturnLines
<1> HIDE DEF paid, goods, rest, a
<1>7. Even(all)
    <2>1. (paid.debit - paid.credit) + (goods.debit - goods.credit) + (rest.debit - rest.credit) = 0
        BY <1>1, <1>4, <1>5
    <2>2. \A l \in {paid, goods, rest} : l.debit = 0 \/ l.credit = 0
        BY <1>4, <1>5
    <2>3. paid.account # goods.account /\ paid.account # rest.account /\ goods.account # rest.account
        BY <1>2, <1>4, <1>5
    <2> QED
        BY <1>4, <1>5, <2>1, <2>2, <2>3, ThreeLines
<1>8. \A c \in Reported : Movement(Lines(d), c) = 0
    <2>1. \A c \in Reported : \A l \in all : l.account # c
        BY <1>2, <1>4, <1>5 DEF Reported
    <2> QED
        BY <1>6, <1>7, <2>1, MovedOn
<1>9. Sound(Lines(d))
    BY <1>6, <1>7, PostedSound
<1> QED
    BY <1>8, <1>9 DEF Moves, Reported

LEMMA AdjustmentMoves ==
    ASSUME NEW d \in Document, d.kind \in {"adjustment", "revaluation"}
    PROVE  Moves(d, 0, 0, 0, 0, 0)
<1>1. d.amount \in Nat
    BY DEF Document
<1> DEFINE gain == IF d.kind = "adjustment" THEN "INVENTORY_ADJUSTMENT_GAIN" ELSE "INVENTORY_REVALUATION_GAIN"
           loss == IF d.kind = "adjustment" THEN "INVENTORY_SHRINKAGE" ELSE "INVENTORY_REVALUATION_LOSS"
<1>2. Lines(d) = IF d.sign < 0 THEN Posted(Entry(loss, "INVENTORY", d.amount))
                               ELSE Posted(Entry("INVENTORY", gain, d.amount))
    BY DEF Lines, AdjustmentLines, RevaluationLines
<1>3. /\ gain \in Accounts \ Reported /\ loss \in Accounts \ Reported /\ "INVENTORY" \in Accounts \ Reported
      /\ gain # "INVENTORY" /\ loss # "INVENTORY"
    BY NamesOfAccounts DEF Reported
<1> HIDE DEF gain, loss
<1> QED
    BY <1>1, <1>2, <1>3, StillEntry

LEMMA ExpenseMoves ==
    ASSUME NEW d \in Document, d.kind = "expense"
    PROVE  Moves(d, 0, 0, 0, 0, d.amount)
<1>1. d.method \in {"CASH", "BANK", "CARD", "MOBILE", "OTHER"} /\ d.amount \in Amounts /\ d.amount \in Nat
    BY DEF Document, Amounts
<1> DEFINE b == PaidFrom(d.method)
<1>2. b \in {"CASH", "BANK", "MOBILE_WALLET", "CARD_PAYABLE", "OTHER_PAYABLE"}
    BY <1>1, SettledOn
<1>3. b \in Accounts /\ b \notin Reported /\ "EXPENSE_RENT" \in Accounts /\ "EXPENSE_RENT" # b
    BY <1>2, NamesOfAccounts DEF Reported
<1>4. Lines(d) = Entry("EXPENSE_RENT", b, d.amount)
    BY DEF Lines, ExpenseLines
<1> HIDE DEF b
<1>5. Lines(d) = Posted(Entry("EXPENSE_RENT", b, d.amount))
    BY <1>1, <1>3, <1>4, EntryPosted
<1>6. Movement(Lines(d), "EXPENSE_RENT") = d.amount /\ Sound(Lines(d))
    BY <1>1, <1>3, <1>5, EntryMoves
<1>7. \A c \in Reported \ {"EXPENSE_RENT"} : Movement(Lines(d), c) = 0
    BY <1>1, <1>3, <1>5, EntryMoves
<1> QED
    BY <1>6, <1>7 DEF Moves, Reported

LEMMA SalaryMoves ==
    ASSUME NEW d \in Document, d.kind = "salary"
    PROVE  Moves(d, 0, 0, 0, IF d.type # "ADVANCE" THEN d.amount ELSE 0, 0)
<1>1. /\ d.method \in {"CASH", "BANK", "MOBILE"} /\ d.amount \in Amounts /\ d.amount \in Nat
      /\ d.type \in {"REGULAR", "BONUS", "OVERTIME", "ADVANCE", "ADVANCE_ADJUSTMENT"}
    BY DEF Document, Amounts
<1> DEFINE a == IF d.type = "ADVANCE" THEN "EMPLOYEE_ADVANCES" ELSE "PAYROLL_EXPENSE"
           b == IF d.type = "ADVANCE_ADJUSTMENT" THEN "EMPLOYEE_ADVANCES" ELSE Settlement(d.method)
<1>2. Settlement(d.method) \in {"CASH", "BANK", "MOBILE_WALLET"}
    BY <1>1, SettledOn
<1>3. a \in Accounts /\ b \in Accounts /\ b \notin Reported /\ a # b
    BY <1>1, <1>2, NamesOfAccounts DEF Reported
<1>4. Lines(d) = Entry(a, b, d.amount)
    BY DEF Lines, SalaryLines
<1>5. /\ d.type # "ADVANCE" => a = "PAYROLL_EXPENSE"
      /\ d.type = "ADVANCE" => a \notin Reported
    BY DEF Reported
<1> HIDE DEF a, b
<1>6. Lines(d) = Posted(Entry(a, b, d.amount))
    BY <1>1, <1>3, <1>4, EntryPosted
<1>7. Movement(Lines(d), a) = d.amount /\ Sound(Lines(d)) /\ \A c : c \notin {a, b} => Movement(Lines(d), c) = 0
    BY <1>1, <1>3, <1>6, EntryMoves
<1>8. \A c \in Reported \ {a} : Movement(Lines(d), c) = 0
    BY <1>3, <1>7
<1>9. CASE d.type # "ADVANCE"
    BY <1>5, <1>7, <1>8, <1>9 DEF Moves, Reported
<1>10. CASE d.type = "ADVANCE"
    BY <1>5, <1>7, <1>8, <1>10 DEF Moves, Reported
<1> QED
    BY <1>9, <1>10

LEMMA VoucherMoves ==
    ASSUME NEW d \in Document, d.kind = "voucher"
    PROVE  Moves(d, 0, 0, 0, 0, 0)
<1>1. /\ d.method \in {"CASH", "BANK"} /\ d.amount \in Amounts /\ d.amount \in Nat
      /\ d.type \in {"OWNER_CONTRIBUTION", "OWNER_WITHDRAWAL", "CASH_BANK_TRANSFER"}
    BY DEF Document, Amounts
<1> DEFINE other == IF d.method = "CASH" THEN "BANK" ELSE "CASH"
           a == CASE d.type = "OWNER_CONTRIBUTION" -> d.method
                  [] d.type = "OWNER_WITHDRAWAL"   -> "OWNER_DRAWINGS"
                  [] d.type = "CASH_BANK_TRANSFER" -> other
           b == IF d.type = "OWNER_CONTRIBUTION" THEN "OWNER_CAPITAL" ELSE d.method
<1>2. Lines(d) = Entry(a, b, d.amount)
    BY <1>1 DEF Lines, VoucherLines
<1>3. /\ a \in {"CASH", "BANK", "OWNER_DRAWINGS"} /\ b \in {"CASH", "BANK", "OWNER_CAPITAL"} /\ a # b
    BY <1>1
<1>4. a \in Accounts \ Reported /\ b \in Accounts \ Reported
    BY <1>3, NamesOfAccounts DEF Reported
<1> HIDE DEF a, b
<1>5. Lines(d) = Posted(Entry(a, b, d.amount))
    BY <1>1, <1>2, <1>4, EntryPosted
<1> QED
    BY <1>1, <1>3, <1>4, <1>5, StillEntry

\* What a document of each kind moves on the accounts of the reports.
SalesOf(d) == IF d.kind = "sale" THEN 0 - d.net ELSE IF d.kind = "salesReturn" THEN d.net ELSE 0
VatOf(d) == IF d.kind = "sale" THEN 0 - d.vat ELSE IF d.kind = "salesReturn" THEN d.vat ELSE 0
CogsOf(d) == IF d.kind = "sale" THEN d.cogs ELSE IF d.kind = "salesReturn" THEN 0 - d.cogs ELSE 0
PayrollOf(d) == IF d.kind = "salary" /\ d.type # "ADVANCE" THEN d.amount ELSE 0
RentOf(d) == IF d.kind = "expense" THEN d.amount ELSE 0

LEMMA DocumentMoves ==
    ASSUME NEW d \in Document
    PROVE  Moves(d, SalesOf(d), VatOf(d), CogsOf(d), PayrollOf(d), RentOf(d))
<1> USE DEF SalesOf, VatOf, CogsOf, PayrollOf, RentOf
<1>1. d.kind \in {"sale", "salesReturn", "purchase", "supplierPayment", "supplierReturn", "adjustment",
                  "revaluation", "expense", "salary", "voucher"}
    BY DEF Document
<1>2. CASE d.kind = "sale"
    BY <1>2, SaleMoves
<1>3. CASE d.kind = "salesReturn"
    BY <1>3, ReturnMoves
<1>4. CASE d.kind \in {"purchase", "supplierPayment"}
    BY <1>4, PurchaseMoves
<1>5. CASE d.kind = "supplierReturn"
    BY <1>5, SupplierReturnMoves
<1>6. CASE d.kind \in {"adjustment", "revaluation"}
    BY <1>6, AdjustmentMoves
<1>7. CASE d.kind = "expense"
    BY <1>7, ExpenseMoves
<1>8. CASE d.kind = "salary"
    BY <1>8, SalaryMoves
<1>9. CASE d.kind = "voucher"
    BY <1>9, VoucherMoves
<1> QED
    BY <1>1, <1>2, <1>3, <1>4, <1>5, <1>6, <1>7, <1>8, <1>9

LEMMA OppositeSound ==
    ASSUME NEW lines, Sound(lines)
    PROVE  Sound(Opposite(lines))
<1> DEFINE turn == [l \in Line |-> [account |-> l.account, debit |-> l.credit, credit |-> l.debit]]
           image == {turn[l] : l \in lines}
           minus == [l \in lines |-> 0 - NetOf[l]]
<1>1. lines \subseteq Line /\ IsFiniteSet(lines)
    BY DEF Sound, Even
<1>2. Opposite(lines) = image
    BY <1>1 DEF Opposite
<1>3. \A l \in Line : /\ turn[l] \in Line /\ turn[l].account = l.account
                      /\ turn[l].debit = l.credit /\ turn[l].credit = l.debit
    BY DEF Line
<1>4. /\ \A k, l \in lines : k.account = l.account => k = l
      /\ \A l \in lines : (l.debit = 0 \/ l.credit = 0) /\ ((l.debit = 0) # (l.credit = 0))
    BY DEF Sound, Even, Single
<1>5. \A l \in Line : NetOf[l] = l.debit - l.credit /\ NetOf[l] \in Int /\ l.debit \in Nat /\ l.credit \in Nat
    BY DEF NetOf, Line
<1> HIDE DEF turn
<1>6. \A k, l \in lines : turn[k] = turn[l] => k = l
    BY <1>1, <1>3, <1>4
<1>7. \A l \in lines : NetOf[turn[l]] = 0 - NetOf[l]
    BY <1>1, <1>3, <1>5
<1>8. Single(image)
    BY <1>1, <1>3, <1>4 DEF Single
<1>9. image \subseteq Line /\ \A l \in image : (l.debit = 0 \/ l.credit = 0) /\ ((l.debit = 0) # (l.credit = 0))
    <2> SUFFICES ASSUME NEW l \in lines
                 PROVE  /\ turn[l] \in Line
                        /\ turn[l].debit = 0 \/ turn[l].credit = 0
                        /\ (turn[l].debit = 0) # (turn[l].credit = 0)
        OBVIOUS
    <2> QED
        BY <1>1, <1>3, <1>4
<1>10. IsFiniteSet(image) /\ SumFunctionOnSet(NetOf, image) = SumFunctionOnSet(minus, lines)
    <2>1. \A l \in lines : NetOf[turn[l]] \in Int /\ minus[l] = NetOf[turn[l]]
        BY <1>1, <1>5, <1>7
    <2> HIDE DEF minus
    <2> QED
        BY <1>1, <1>6, <2>1, SumImage
<1>11. SumFunctionOnSet(minus, lines) = 0
    <2> DEFINE zero == [l \in lines |-> 0]
    <2>1. \A l \in lines : NetOf[l] \in Int /\ minus[l] \in Int /\ zero[l] = NetOf[l] + minus[l] /\ zero[l] = 0
        BY <1>1, <1>5
    <2> HIDE DEF minus, zero
    <2>2. SumFunctionOnSet(zero, lines) = SumFunctionOnSet(NetOf, lines) + SumFunctionOnSet(minus, lines)
        BY <1>1, <2>1, SumPlus
    <2>3. SumFunctionOnSet(zero, lines) = 0 /\ SumFunctionOnSet(minus, lines) \in Int
        BY <1>1, <2>1, SumZero, SumInt
    <2>4. SumFunctionOnSet(NetOf, lines) = 0
        BY DEF Sound, Even
    <2> QED
        BY <2>2, <2>3, <2>4
<1> QED
    BY <1>2, <1>8, <1>9, <1>10, <1>11 DEF Sound, Even

-----------------------------------------------------------------------------
(* Books.                                                                   *)

\* A finite set of entries with sound lines.
Kept(book) == IsFiniteSet(book) /\ \A e \in book : Sound(e.lines)

LEMMA NetDebitIs ==
    ASSUME NEW book, Kept(book), NEW a, NEW f, \A e \in book : f[e] = Movement(e.lines, a)
    PROVE  /\ NetDebit(book, a) = SumFunctionOnSet(f, book) /\ NetDebit(book, a) \in Int
           /\ \A e \in book : f[e] \in Int
<1> DEFINE g == [e \in book |-> Movement(e.lines, a)]
<1>1. \A e \in book : g[e] \in Int /\ f[e] = g[e]
    BY MovementSum DEF Kept, Sound, Even
<1>2. NetDebit(book, a) = SumFunctionOnSet(g, book)
    BY DEF NetDebit, SumFunction
<1>3. IsFiniteSet(book)
    BY DEF Kept
<1> HIDE DEF g
<1>4. SumFunctionOnSet(g, book) = SumFunctionOnSet(f, book) /\ SumFunctionOnSet(g, book) \in Int
    BY <1>1, <1>3, SumSame, SumInt
<1> QED
    BY <1>1, <1>2, <1>4

LEMMA NetDebitInt == ASSUME NEW book, Kept(book), NEW a PROVE NetDebit(book, a) \in Int
<1> DEFINE f == [e \in book |-> Movement(e.lines, a)]
<1>1. \A e \in book : f[e] = Movement(e.lines, a)
    OBVIOUS
<1> HIDE DEF f
<1> QED
    BY <1>1, NetDebitIs

LEMMA NetDebitsIs ==
    ASSUME NEW book, Kept(book), NEW A, IsFiniteSet(A), NEW f, \A a \in A : f[a] = NetDebit(book, a)
    PROVE  NetDebits(book, A) = SumFunctionOnSet(f, A) /\ NetDebits(book, A) \in Int
<1> DEFINE g == [a \in A |-> NetDebit(book, a)]
<1>1. \A a \in A : g[a] \in Int /\ f[a] = g[a]
    BY NetDebitInt
<1>2. NetDebits(book, A) = SumFunctionOnSet(g, A)
    BY DEF NetDebits, SumFunction
<1> HIDE DEF g
<1>3. SumFunctionOnSet(g, A) = SumFunctionOnSet(f, A) /\ SumFunctionOnSet(g, A) \in Int
    BY <1>1, SumSame, SumInt
<1> QED
    BY <1>2, <1>3

\* The accounts of A and of B together.
LEMMA NetDebitsJoin ==
    ASSUME NEW book, Kept(book), NEW A, IsFiniteSet(A), NEW B, IsFiniteSet(B), A \cap B = {}
    PROVE  NetDebits(book, A \cup B) = NetDebits(book, A) + NetDebits(book, B)
<1> DEFINE both == A \cup B
           f == [a \in both |-> NetDebit(book, a)]
<1>1. \A a \in both : f[a] = NetDebit(book, a) /\ f[a] \in Int
    BY NetDebitInt
<1>2. IsFiniteSet(both) /\ A \subseteq both /\ B \subseteq both /\ both \ A = B
    BY FS_Union
<1> HIDE DEF both, f
<1>3. SumFunctionOnSet(f, both) = SumFunctionOnSet(f, A) + SumFunctionOnSet(f, both \ A)
    BY <1>1, <1>2, SumSplit
<1>4. /\ NetDebits(book, both) = SumFunctionOnSet(f, both) /\ NetDebits(book, A) = SumFunctionOnSet(f, A)
      /\ NetDebits(book, B) = SumFunctionOnSet(f, B)
    <2>1. (\A a \in A : f[a] = NetDebit(book, a)) /\ (\A a \in B : f[a] = NetDebit(book, a))
        BY <1>1, <1>2
    <2> QED
        BY <1>1, <1>2, <2>1, NetDebitsIs
<1>5. NetDebits(book, both) = NetDebits(book, A) + NetDebits(book, B)
    BY <1>2, <1>3, <1>4
<1> QED
    BY <1>5 DEF both

\* Sound entries leave all accounts together at nothing.
LEMMA AllAccounts ==
    ASSUME NEW book, Kept(book)
    PROVE  NetDebits(book, Accounts) = 0
<1> DEFINE A == Accounts
           m == [a \in A |-> [e \in book |-> Movement(e.lines, a)]]
           k == [e \in book |-> [a \in A |-> Movement(e.lines, a)]]
           r == [a \in A |-> NetDebit(book, a)]
           c == [e \in book |-> 0]
<1>1. IsFiniteSet(A) /\ IsFiniteSet(book)
    BY FiniteAccounts DEF Kept
<1>2. \A e \in book : IsFiniteSet(e.lines) /\ e.lines \subseteq Line /\ SumFunctionOnSet(NetOf, e.lines) = 0
    BY DEF Kept, Sound, Even
<1>3. \A a \in A, e \in book : m[a][e] \in Int /\ k[e][a] = m[a][e]
    BY <1>2, MovementSum
<1>4. \A a \in A : r[a] = SumFunctionOnSet(m[a], book)
    <2> SUFFICES ASSUME NEW a \in A PROVE r[a] = SumFunctionOnSet(m[a], book)
        OBVIOUS
    <2> DEFINE f == m[a]
    <2>1. \A e \in book : f[e] = Movement(e.lines, a)
        OBVIOUS
    <2> HIDE DEF m, f
    <2>2. NetDebit(book, a) = SumFunctionOnSet(f, book)
        BY <2>1, NetDebitIs
    <2> QED
        BY <2>2 DEF f
<1>5. \A e \in book : c[e] = SumFunctionOnSet(k[e], A)
    <2> SUFFICES ASSUME NEW e \in book PROVE c[e] = SumFunctionOnSet(k[e], A)
        OBVIOUS
    <2> DEFINE f == k[e]
               lines == e.lines
    <2>1. \A a \in Accounts : f[a] = Movement(lines, a)
        OBVIOUS
    <2>2. IsFiniteSet(lines) /\ lines \subseteq Line /\ SumFunctionOnSet(NetOf, lines) = 0
        BY <1>2
    <2> HIDE DEF f, k, lines
    <2>3. SumFunctionOnSet(f, Accounts) = SumFunctionOnSet(NetOf, lines)
        BY <2>1, <2>2, MovementsAddUp
    <2>4. SumFunctionOnSet(f, Accounts) = 0
        BY <2>2, <2>3
    <2> QED
        BY <2>4 DEF f
<1>6. Table(A, book, m, r, k, c)
    BY <1>3, <1>4, <1>5 DEF Table
<1>7. \A e \in book : c[e] = 0
    OBVIOUS
<1>8. \A a \in A : r[a] = NetDebit(book, a)
    OBVIOUS
<1> HIDE DEF A, m, r, k, c
<1>9. SumFunctionOnSet(r, A) = SumFunctionOnSet(c, book)
    BY <1>1, <1>6, SumSwap
<1>10. SumFunctionOnSet(c, book) = 0
    BY <1>1, <1>7, SumZero
<1>11. NetDebits(book, A) = SumFunctionOnSet(r, A)
    BY <1>1, <1>8, NetDebitsIs
<1> QED
    BY <1>9, <1>10, <1>11 DEF A

LEMMA TrialBalance ==
    ASSUME NEW book, Kept(book)
    PROVE  TotalDebits(book) = TotalCredits(book)
<1> DEFINE A == Accounts
           net == [a \in A |-> NetDebit(book, a)]
           debits == [a \in A |-> Positive(NetDebit(book, a))]
           credits == [a \in A |-> Positive(-NetDebit(book, a))]
<1>1. IsFiniteSet(A)
    BY FiniteAccounts
<1>2. \A a \in A : NetDebit(book, a) \in Int
    BY NetDebitInt
<1>3. \A n \in Int : Positive(n) \in Int /\ Positive(-n) \in Int /\ Positive(n) = n + Positive(-n)
    BY DEF Positive
<1>4. \A a \in A : /\ net[a] = NetDebit(book, a) /\ net[a] \in Int
                   /\ credits[a] \in Int /\ debits[a] \in Int /\ debits[a] = net[a] + credits[a]
    BY <1>2, <1>3
<1>5. TotalDebits(book) = SumFunctionOnSet(debits, A) /\ TotalCredits(book) = SumFunctionOnSet(credits, A)
    BY DEF TotalDebits, TotalCredits, SumFunction
<1> HIDE DEF A, net, debits, credits
<1>6. SumFunctionOnSet(debits, A) = SumFunctionOnSet(net, A) + SumFunctionOnSet(credits, A)
    BY <1>1, <1>4, SumPlus
<1>7. NetDebits(book, A) = SumFunctionOnSet(net, A)
    BY <1>1, <1>4, NetDebitsIs
<1>8. NetDebits(book, A) = 0
    BY AllAccounts DEF A
<1>9. SumFunctionOnSet(credits, A) \in Int
    BY <1>1, <1>4, SumInt
<1> QED
    BY <1>5, <1>6, <1>7, <1>8, <1>9

LEMMA BalanceSheet ==
    ASSUME NEW book, Kept(book)
    PROVE  TotalAssets(book) = TotalLiabilities(book) + Earnings(book) - NetDebits(book, Equities)
<1>1. Assets \cap Liabilities = {} /\ (Assets \cup Liabilities) \cap Equities = {}
      /\ (Assets \cup Liabilities \cup Equities) \cap Revenues = {}
      /\ (Assets \cup Liabilities \cup Equities \cup Revenues) \cap Costs = {}
    BY DEF Assets, Liabilities, Equities, Revenues, Costs, Gains, Losses
<1>2. IsFiniteSet(Assets) /\ IsFiniteSet(Liabilities) /\ IsFiniteSet(Equities) /\ IsFiniteSet(Revenues)
      /\ IsFiniteSet(Costs)
    BY FiniteAccounts
<1>3. /\ NetDebits(book, Assets) \in Int /\ NetDebits(book, Liabilities) \in Int
      /\ NetDebits(book, Equities) \in Int /\ NetDebits(book, Revenues) \in Int /\ NetDebits(book, Costs) \in Int
    <2> SUFFICES ASSUME NEW A, IsFiniteSet(A) PROVE NetDebits(book, A) \in Int
        BY <1>2
    <2> DEFINE f == [a \in A |-> NetDebit(book, a)]
    <2>1. \A a \in A : f[a] = NetDebit(book, a)
        OBVIOUS
    <2> HIDE DEF f
    <2> QED
        BY <2>1, NetDebitsIs
<1>4. NetDebits(book, Assets \cup Liabilities) = NetDebits(book, Assets) + NetDebits(book, Liabilities)
    BY <1>1, <1>2, NetDebitsJoin
<1> DEFINE two == Assets \cup Liabilities
           three == two \cup Equities
           four == three \cup Revenues
<1>5. IsFiniteSet(two)
    BY <1>2, FS_Union
<1>6. IsFiniteSet(three)
    BY <1>2, <1>5, FS_Union
<1>7. IsFiniteSet(four)
    BY <1>2, <1>6, FS_Union
<1>8. two \cap Equities = {} /\ three \cap Revenues = {} /\ four \cap Costs = {}
    BY <1>1
<1>9. Accounts = four \cup Costs
    BY DEF Accounts
<1> HIDE DEF two, three, four
<1>10. NetDebits(book, two \cup Equities) = NetDebits(book, two) + NetDebits(book, Equities)
    BY <1>2, <1>5, <1>8, NetDebitsJoin
<1>11. NetDebits(book, three \cup Revenues) = NetDebits(book, three) + NetDebits(book, Revenues)
    BY <1>2, <1>6, <1>8, NetDebitsJoin
<1>12. NetDebits(book, four \cup Costs) = NetDebits(book, four) + NetDebits(book, Costs)
    BY <1>2, <1>7, <1>8, NetDebitsJoin
<1>13. NetDebits(book, Accounts) = NetDebits(book, Assets) + NetDebits(book, Liabilities)
          + NetDebits(book, Equities) + NetDebits(book, Revenues) + NetDebits(book, Costs)
    BY <1>4, <1>9, <1>10, <1>11, <1>12 DEF two, three, four
<1> QED
    BY <1>3, <1>13, AllAccounts DEF TotalAssets, TotalLiabilities, Earnings

-----------------------------------------------------------------------------
(* The journal as it is kept: every entry has the lines of its document, or  *)
(* their opposites.                                                         *)

LineKeys == [entry : Ids, version : Nat, line : Line]
Statement == [day : Days, opening : Int, closing : Int, cleared : SUBSET LineKeys]
Journals == [Ids -> JournalEntry \cup {None}]

Faithful(e) ==
    /\ e \in JournalEntry /\ e.doc \in Documents /\ e.day \in Days /\ e.version \in 1 .. MaxVersion
    /\ e.reverses \in Ids \cup {None}
    /\ e.lines = IF e.reverses = None THEN Lines(e.doc) ELSE Opposite(Lines(e.doc))

Entries(j) ==
    /\ j \in Journals
    /\ \A i \in Ids : j[i] # None => Faithful(j[i]) /\ j[i].id = i

LEMMA FaithfulSound ==
    ASSUME Parameters, NEW e, Faithful(e)
    PROVE  Sound(e.lines)
<1>1. e.doc \in Document
    BY DEF Faithful, Parameters
<1>2. Sound(Lines(e.doc))
    BY <1>1, DocumentMoves DEF Moves
<1>3. Sound(Opposite(Lines(e.doc)))
    BY <1>2, OppositeSound
<1> QED
    BY <1>2, <1>3 DEF Faithful

LEMMA FiniteImage ==
    ASSUME NEW T, IsFiniteSet(T), NEW h, \A x, y \in T : h[x] = h[y] => x = y
    PROVE  IsFiniteSet({h[x] : x \in T})
<1> DEFINE f == [y \in {h[x] : x \in T} |-> 0]
           g == [x \in T |-> 0]
<1>1. \A x \in T : f[h[x]] \in Int /\ g[x] = f[h[x]]
    OBVIOUS
<1> HIDE DEF f, g
<1>2. /\ IsFiniteSet({h[x] : x \in T})
      /\ SumFunctionOnSet(f, {h[x] : x \in T}) = SumFunctionOnSet(g, T)
    BY <1>1, SumImage
<1> QED
    BY <1>2

LEMMA FiniteIds == Parameters => IsFiniteSet(Ids) /\ IsFiniteSet(Days)
BY FS_Interval DEF Ids, Days, Parameters

LEMMA BookKept ==
    ASSUME Parameters, NEW j, Entries(j)
    PROVE  /\ IsFiniteSet(Book(j))
           /\ \A e \in Book(j) : Faithful(e) /\ e.id \in Ids /\ j[e.id] = e
           /\ \A b \in SUBSET Book(j) : Kept(b)
<1> DEFINE used == {i \in Ids : j[i] # None}
<1>1. IsFiniteSet(used)
    BY FiniteIds, FS_Subset
<1>2. \A x, y \in used : j[x] = j[y] => x = y
    BY DEF Entries
<1>3. IsFiniteSet({j[i] : i \in used})
    <2> HIDE DEF used
    <2> QED
        BY <1>1, <1>2, FiniteImage
<1>4. IsFiniteSet(Book(j))
    BY <1>3 DEF Book
<1>5. \A e \in Book(j) : Faithful(e) /\ e.id \in Ids /\ j[e.id] = e
    BY DEF Book, Entries
<1>6. \A e \in Book(j) : Sound(e.lines)
    BY <1>5, FaithfulSound
<1>7. \A b \in SUBSET Book(j) : Kept(b)
    BY <1>4, <1>6, FS_Subset DEF Kept
<1> QED
    BY <1>4, <1>5, <1>7

\* What holds of the books whenever the entries are faithful.
LEMMA BooksOfEntries ==
    ASSUME Parameters, Entries(journal)
    PROVE  OneSided /\ BooksBalance
<1>1. OneSided
    BY FaithfulSound DEF OneSided, Entries, Sound
<1>2. \A day \in Days : Kept(AsOf(journal, day))
    BY BookKept DEF AsOf
<1>3. BooksBalance
    BY <1>2, TrialBalance, BalanceSheet DEF BooksBalance
<1> QED
    BY <1>1, <1>3

-----------------------------------------------------------------------------
(* What every request carries.                                              *)

Phases == {"idle", "deleted", "reversing", "reconciling", "written"}
Request ==
    [pc : Phases, entry : Ids \cup {None}, at : Ids \cup {None}, new : JournalEntry \cup {None},
     on : {None} \cup [journal : Journals] \cup Statement, clears : SUBSET LineKeys]

Shaped(r) ==
    /\ r \in Request
    /\ r.pc \in {"deleted", "reversing"} => r.entry \in Ids
    /\ r.pc # "written" => r.at = None
    /\ r.pc = "reconciling" \/ (r.pc = "written" /\ r.at = None) => r.entry = None
    /\ r.pc = "deleted" => r.new = None
    /\ r.clears # {} => r.pc = "written" /\ r.at = None
    /\ r.pc = "reversing" => Faithful(r.new) /\ r.new.reverses = None
    /\ r.pc = "written" /\ r.at # None /\ r.new # None => Faithful(r.new) /\ r.new.id = r.at
    /\ r.pc = "reconciling" => r.on \in [journal : Journals] /\ Entries(r.on.journal)
    /\ r.pc = "written" /\ r.at = None => r.on \in Statement

JournalInv ==
    /\ Entries(journal)
    /\ statements \in Seq(Statement)
    /\ request \in [Sessions -> Request]
    /\ \A s \in Sessions : Shaped(request[s])

LEMMA LinesKept ==
    ASSUME Parameters, NEW j, Entries(j)
    PROVE  /\ IsFiniteSet(LinesOf(j)) /\ LinesOf(j) \subseteq LineKeys
           /\ IsFiniteSet(BankLines(j)) /\ BankLines(j) \subseteq LinesOf(j)
<1> DEFINE used == {i \in Ids : j[i] # None}
           keys(i) == LineIds(i, j[i])
           h == [i \in used |-> keys(i)]
<1>1. IsFiniteSet(used)
    BY FiniteIds, FS_Subset
<1>2. ASSUME NEW i \in used
      PROVE  /\ IsFiniteSet(h[i]) /\ h[i] \subseteq LineKeys /\ \A x \in h[i] : x.entry = i
    <2>1. Faithful(j[i]) /\ Sound(j[i].lines)
        BY FaithfulSound DEF Entries
    <2>2. j[i].version \in Nat /\ j[i].lines \subseteq Line /\ IsFiniteSet(j[i].lines)
        BY <2>1 DEF Faithful, Sound, Even
    <2> DEFINE lines == j[i].lines
               n == j[i].version
               key == [l \in lines |-> [entry |-> i, version |-> n, line |-> l]]
    <2>3. \A k, l \in lines : key[k] = key[l] => k = l
        <3> SUFFICES ASSUME NEW k \in lines, NEW l \in lines, key[k] = key[l] PROVE k = l
            OBVIOUS
        <3>1. key[k].line = k /\ key[l].line = l
            OBVIOUS
        <3> QED
            BY <3>1
    <2>4. LineIds(i, j[i]) = {key[l] : l \in lines}
        BY DEF LineIds
    <2>5. IsFiniteSet({key[l] : l \in lines})
        <3> HIDE DEF lines, key
        <3> QED
            BY <2>2, <2>3, FiniteImage DEF lines
    <2>6. h[i] = LineIds(i, j[i])
        OBVIOUS
    <2>7. LineIds(i, j[i]) \subseteq LineKeys /\ \A x \in LineIds(i, j[i]) : x.entry = i
        BY <2>2 DEF LineIds, LineKeys
    <2> QED
        BY <2>4, <2>5, <2>6, <2>7
<1>3. LinesOf(j) = UNION {h[i] : i \in used}
    BY DEF LinesOf
<1> HIDE DEF used, h
<1>4. \A x, y \in used : x # y => h[x] \cap h[y] = {}
    BY <1>2
<1>5. IsFiniteSet(UNION {h[i] : i \in used})
    <2> DEFINE f == [x \in UNION {h[i] : i \in used} |-> 0]
               g == [i \in used |-> SumFunctionOnSet(f, h[i])]
    <2>1. \A i \in used : \A x \in h[i] : f[x] \in Int
        OBVIOUS
    <2>2. \A i \in used : g[i] = SumFunctionOnSet(f, h[i])
        OBVIOUS
    <2>3. \A i \in used : IsFiniteSet(h[i])
        BY <1>2
    <2>4. Parts(used, h, f, g)
        BY <1>4, <2>1, <2>2, <2>3 DEF Parts
    <2> HIDE DEF f, g
    <2> QED
        BY <1>1, <2>4, SumUnion
<1>6. IsFiniteSet(LinesOf(j)) /\ LinesOf(j) \subseteq LineKeys
    BY <1>2, <1>3, <1>5
<1>7. BankLines(j) \subseteq LinesOf(j)
    BY DEF BankLines
<1>8. IsFiniteSet(BankLines(j))
    BY <1>6, <1>7, FS_Subset
<1> QED
    BY <1>6, <1>7, <1>8

LEMMA AmountInt ==
    ASSUME NEW keys, IsFiniteSet(keys), keys \subseteq LineKeys
    PROVE  Amount(keys) \in Int
<1> DEFINE f == [x \in keys |-> x.line.debit - x.line.credit]
<1>1. \A x \in keys : f[x] \in Int
    BY DEF LineKeys, Line
<1>2. Amount(keys) = SumFunctionOnSet(f, keys)
    BY DEF Amount, SumFunction
<1> HIDE DEF f
<1> QED
    BY <1>1, <1>2, SumInt

LEMMA IdleShaped == Parameters => Shaped(Idle)
BY DEF Shaped, Idle, Request, Phases, Parameters

LEMMA FreshMin ==
    ASSUME Parameters, Fresh # {}
    PROVE  Min(Fresh) \in Fresh /\ Min(Fresh) \in Ids /\ Min(Fresh) # None
<1>1. Fresh \subseteq Ids /\ Fresh \subseteq Nat
    BY DEF Fresh, Ids
<1>2. PICK x \in Fresh : \A y \in Fresh : x <= y
    BY <1>1, LeastNumber
<1>3. Min(Fresh) \in Fresh
    BY <1>2 DEF Min
<1> QED
    BY <1>1, <1>3 DEF Parameters

LEMMA NewEntryFaithful ==
    ASSUME Parameters, NEW i \in Ids, NEW d \in Documents, NEW day \in Days, NEW n \in 1 .. MaxVersion
    PROVE  /\ Faithful(NewEntry(i, d, day, n)) /\ NewEntry(i, d, day, n).id = i
           /\ NewEntry(i, d, day, n) # None
           /\ NewEntry(i, d, day, n).reverses = None
           /\ \A b \in BOOLEAN :
                 LET e == [NewEntry(i, d, day, n) EXCEPT !.edited = b]
                 IN  Faithful(e) /\ e.id = i /\ e.reverses = None /\ e.edited = b /\ e # None
<1>1. d \in Document
    BY DEF Parameters
<1>2. Lines(d) \subseteq Line
    BY <1>1, DocumentMoves DEF Moves, Sound, Even
<1>3. i \in Nat /\ day \in Nat /\ n \in Nat
    BY DEF Ids, Days
<1> DEFINE e == NewEntry(i, d, day, n)
<1>4. ASSUME NEW x \in JournalEntry, x.id = i, x.doc = d, x.day = day, x.version = n, x.reverses = None,
             x.lines = Lines(d)
      PROVE  Faithful(x) /\ x # None
    BY <1>4 DEF Faithful, Parameters
<1>5. e \in JournalEntry
    BY <1>1, <1>2, <1>3 DEF NewEntry, JournalEntry
<1>6. e.id = i /\ e.doc = d /\ e.day = day /\ e.version = n /\ e.reverses = None /\ e.lines = Lines(d)
    BY DEF NewEntry
<1>7. ASSUME NEW b \in BOOLEAN
      PROVE  LET x == [e EXCEPT !.edited = b]
             IN  Faithful(x) /\ x.id = i /\ x.reverses = None /\ x.edited = b /\ x # None
    <2> DEFINE x == [e EXCEPT !.edited = b]
    <2>1. x.id = i /\ x.doc = d /\ x.day = day /\ x.version = n /\ x.reverses = None /\ x.lines = Lines(d)
          /\ x.edited = b
        BY DEF NewEntry
    <2>2. x \in JournalEntry
        BY <1>5 DEF JournalEntry
    <2> HIDE DEF x, e
    <2> QED
        BY <1>4, <2>1, <2>2 DEF x
<1> HIDE DEF e
<1>8. Faithful(e) /\ e # None
    BY <1>4, <1>5, <1>6
<1> QED
    BY <1>6, <1>7, <1>8 DEF e

-----------------------------------------------------------------------------
(* What each action leaves in its request.                                  *)

LEMMA PostLeaves ==
    ASSUME Parameters, JournalInv, NEW s \in Sessions, Post(s)
    PROVE  \E r : /\ Step(s, r) /\ Shaped(r) /\ MayInsert(s, r.new.lines)
                  /\ r.pc = "written" /\ r.entry = None /\ r.at \in Fresh /\ r.at # None
                  /\ r.new # None /\ r.new.reverses = None
<1>1. PICK d \in Documents, day \in Days :
          /\ MayInsert(s, Lines(d))
          /\ Step(s, [Idle EXCEPT !.pc = "written", !.at = Min(Fresh), !.new = NewEntry(Min(Fresh), d, day, 1)])
    BY DEF Post
<1> DEFINE i == Min(Fresh)
           e == NewEntry(i, d, day, 1)
           r == [Idle EXCEPT !.pc = "written", !.at = i, !.new = e]
<1>2. i \in Fresh /\ i \in Ids /\ i # None
    BY FreshMin DEF Post
<1>3. Faithful(e) /\ e.id = i /\ e # None /\ e.reverses = None
    <2>1. 1 \in 1 .. MaxVersion
        BY DEF Parameters
    <2> HIDE DEF i
    <2> QED
        BY <1>2, <2>1, NewEntryFaithful
<1>4. e.lines = Lines(d)
    BY DEF NewEntry
<1> HIDE DEF i, e
<1>5. /\ r.pc = "written" /\ r.entry = None /\ r.at = i /\ r.new = e /\ r.on = None /\ r.clears = {}
    BY DEF Idle
<1>6. r \in Request
    BY <1>2, <1>3 DEF Idle, Request, Phases, Faithful
<1>7. Step(s, r)
    BY <1>1 DEF e, i
<1> HIDE DEF r
<1>8. Shaped(r)
    BY <1>2, <1>3, <1>5, <1>6 DEF Shaped
<1> QED
    BY <1>1, <1>2, <1>3, <1>4, <1>5, <1>7, <1>8

LEMMA DeleteLinesLeaves ==
    ASSUME Parameters, JournalInv, NEW s \in Sessions, DeleteLines(s)
    PROVE  \E r : /\ Step(s, r) /\ Shaped(r) /\ r.pc = "deleted" /\ r.entry \in Ids
                  /\ IsExpense(r.entry) /\ EntryFree(s, r.entry)
                  /\ LineIds(r.entry, journal[r.entry]) \cap Cleared = {}
<1>1. PICK i \in Ids : /\ IsExpense(i) /\ EntryFree(s, i) /\ LineIds(i, journal[i]) \cap Cleared = {}
                       /\ Step(s, [Idle EXCEPT !.pc = "deleted", !.entry = i])
    BY DEF DeleteLines
<1> DEFINE r == [Idle EXCEPT !.pc = "deleted", !.entry = i]
<1>2. r.pc = "deleted" /\ r.entry = i /\ r.at = None /\ r.new = None /\ r.on = None /\ r.clears = {}
    BY DEF Idle
<1>3. r \in Request
    BY DEF Idle, Request, Phases
<1>4. Step(s, r)
    BY <1>1
<1> HIDE DEF r
<1>5. Shaped(r)
    BY <1>2, <1>3 DEF Shaped
<1> QED
    BY <1>1, <1>2, <1>4, <1>5

LEMMA RewriteLeaves ==
    ASSUME Parameters, JournalInv, NEW s \in Sessions, Rewrite(s), IsExpense(request[s].entry)
    PROVE  /\ request[s].pc = "deleted" /\ request[s].entry \in Ids
           /\ \E r : /\ Step(s, r) /\ Shaped(r) /\ MayInsert(s, r.new.lines)
                     /\ r.pc = "written" /\ r.entry = request[s].entry /\ r.at = r.entry
                     /\ r.new # None /\ r.new.reverses = None /\ r.new.edited = Reversed(r.entry)
<1> DEFINE q == request[s]
           i == q.entry
           n == journal[i].version + 1
<1>1. q \in Request /\ q.pc = "deleted" /\ i \in Ids /\ q.clears = {}
    BY DEF Rewrite, JournalInv, Shaped
<1>2. PICK d \in Documents, day \in Days :
          /\ MayInsert(s, Lines(d))
          /\ Step(s, [q EXCEPT !.pc = "written", !.at = i,
                      !.new = [NewEntry(i, d, day, n) EXCEPT !.edited = Reversed(i)]])
    BY DEF Rewrite
<1>3. n \in 1 .. MaxVersion
    <2>1. journal[i] # None /\ journal[i].version < MaxVersion
        BY DEF Rewrite, IsExpense
    <2>2. Faithful(journal[i])
        BY <1>1, <2>1 DEF JournalInv, Entries
    <2> QED
        BY <2>1, <2>2 DEF Faithful, Parameters
<1> DEFINE b == Reversed(i)
           new == NewEntry(i, d, day, n)
           e == [new EXCEPT !.edited = b]
           r == [q EXCEPT !.pc = "written", !.at = i, !.new = e]
<1>4. b \in BOOLEAN
    BY DEF Reversed
<1>5. Faithful(e) /\ e.id = i /\ e.reverses = None /\ e.edited = b /\ e # None
    <2> HIDE DEF b, n, i
    <2> QED
        BY <1>1, <1>3, <1>4, NewEntryFaithful
<1>6. e.lines = Lines(d)
    BY DEF NewEntry
<1>7. Step(s, r)
    BY <1>2
<1>8. i # None
    BY <1>1 DEF Ids, Parameters
<1> HIDE DEF e, b, n, new
<1>9. r.pc = "written" /\ r.entry = i /\ r.at = i /\ r.new = e /\ r.clears = q.clears
    BY <1>1 DEF Request
<1>10. r \in Request
    BY <1>1, <1>5 DEF Request, Phases, Faithful
<1> HIDE DEF r, i, q
<1>11. Shaped(r)
    BY <1>1, <1>5, <1>8, <1>9, <1>10 DEF Shaped
<1>12. MayInsert(s, r.new.lines)
    BY <1>2, <1>6, <1>9
<1> QED
    BY <1>1, <1>5, <1>7, <1>9, <1>11, <1>12 DEF q, i, b

LEMMA RemoveLeaves ==
    ASSUME Parameters, JournalInv, NEW s \in Sessions, Remove(s)
    PROVE  /\ request[s].pc = "deleted" /\ request[s].entry \in Ids
           /\ \/ Step(s, Idle)
              \/ \E r : /\ Step(s, r) /\ Shaped(r) /\ r.pc = "written"
                        /\ r.entry = request[s].entry /\ r.at = r.entry /\ r.new = None
                        /\ ~Reversed(r.entry)
<1> DEFINE q == request[s]
           r == [q EXCEPT !.pc = "written", !.at = q.entry]
<1>1. q \in Request /\ q.pc = "deleted" /\ q.entry \in Ids /\ q.new = None /\ q.clears = {}
    BY DEF Remove, JournalInv, Shaped
<1>2. Step(s, Idle) \/ (~Reversed(q.entry) /\ Step(s, r))
    BY DEF Remove, Rollback
<1>3. r.pc = "written" /\ r.entry = q.entry /\ r.at = q.entry /\ r.new = q.new /\ r.clears = q.clears
    BY <1>1 DEF Request
<1>4. r \in Request
    BY <1>1 DEF Request, Phases
<1>5. q.entry # None
    BY <1>1 DEF Ids, Parameters
<1> HIDE DEF r
<1>6. Shaped(r)
    BY <1>1, <1>3, <1>4, <1>5 DEF Shaped
<1> QED
    BY <1>1, <1>2, <1>3, <1>6

LEMMA LockEntryLeaves ==
    ASSUME Parameters, JournalInv, NEW s \in Sessions, LockEntry(s)
    PROVE  \E r : /\ Step(s, r) /\ Shaped(r) /\ r.pc = "reversing" /\ r.entry \in Ids
                  /\ EntryFree(s, r.entry) /\ Reversible(r.entry) /\ r.new = journal[r.entry]
<1>1. PICK i \in Ids : /\ EntryFree(s, i) /\ Reversible(i)
                       /\ Step(s, [Idle EXCEPT !.pc = "reversing", !.entry = i, !.new = journal[i]])
    BY DEF LockEntry
<1> DEFINE e == journal[i]
           r == [Idle EXCEPT !.pc = "reversing", !.entry = i, !.new = e]
<1>2. Faithful(e) /\ e # None /\ e.reverses = None
    BY <1>1 DEF Reversible, JournalInv, Entries
<1>3. Step(s, r)
    BY <1>1
<1> HIDE DEF e
<1>4. r.pc = "reversing" /\ r.entry = i /\ r.at = None /\ r.new = e /\ r.on = None /\ r.clears = {}
    BY DEF Idle
<1>5. r \in Request
    BY <1>2 DEF Idle, Request, Phases, Faithful
<1> HIDE DEF r
<1>6. Shaped(r)
    BY <1>2, <1>4, <1>5 DEF Shaped
<1> QED
    BY <1>1, <1>3, <1>4, <1>6 DEF e

LEMMA ReverseLeaves ==
    ASSUME Parameters, JournalInv, NEW s \in Sessions, Reverse(s)
    PROVE  /\ request[s].pc = "reversing" /\ request[s].entry \in Ids
           /\ \/ Step(s, Idle)
              \/ \E r : /\ Step(s, r) /\ Shaped(r) /\ MayInsert(s, r.new.lines)
                        /\ r.pc = "written" /\ r.entry = request[s].entry
                        /\ r.at \in Fresh /\ r.at # None
                        /\ r.new # None /\ r.new.reverses = r.entry
                        /\ r.new.lines = Opposite(request[s].new.lines)
<1> DEFINE q == request[s]
           i == q.entry
           old == q.new
           lines == Opposite(old.lines)
           k == Min(Fresh)
<1>1. q \in Request /\ q.pc = "reversing" /\ i \in Ids /\ Faithful(old) /\ old.reverses = None /\ q.clears = {}
    BY DEF Reverse, JournalInv, Shaped
<1>2. CASE Fresh = {}
    BY <1>1, <1>2 DEF Reverse, Rollback
<1>3. CASE Fresh # {}
    <2>1. PICK day \in Days :
              /\ MayInsert(s, lines)
              /\ Step(s, [q EXCEPT !.pc = "written", !.at = k,
                          !.new = [@ EXCEPT !.id = k, !.day = day, !.version = 1, !.reverses = i,
                                            !.edited = FALSE, !.lines = lines]])
        BY <1>3 DEF Reverse
    <2> DEFINE e == [old EXCEPT !.id = k, !.day = day, !.version = 1, !.reverses = i,
                                !.edited = FALSE, !.lines = lines]
               r == [q EXCEPT !.pc = "written", !.at = k, !.new = e]
    <2>2. Step(s, r)
        BY <2>1
    <2>3. k \in Fresh /\ k \in Ids /\ k # None
        BY <1>3, FreshMin
    <2>4. i # None /\ i \in Nat /\ k \in Nat /\ day \in Nat
        BY <1>1, <2>3 DEF Ids, Days, Parameters
    <2>5. Sound(lines)
        BY <1>1, FaithfulSound, OppositeSound
    <2>6. lines \subseteq Line /\ lines = Opposite(Lines(old.doc)) /\ old.doc \in Documents /\ old \in JournalEntry
        BY <1>1, <2>5 DEF Faithful, Sound, Even
    <2> HIDE DEF lines, old, k, i, q
    <2>7. /\ e.id = k /\ e.day = day /\ e.version = 1 /\ e.reverses = i /\ e.lines = lines
          /\ e.doc = old.doc
        BY <2>6 DEF JournalEntry
    <2>8. e \in JournalEntry
        BY <2>4, <2>6 DEF JournalEntry
    <2> HIDE DEF e
    <2>9. Faithful(e) /\ e # None
        BY <1>1, <2>4, <2>6, <2>7, <2>8 DEF Faithful, Parameters
    <2>10. /\ r.pc = "written" /\ r.entry = i /\ r.at = k /\ r.new = e /\ r.clears = q.clears
        BY <1>1 DEF Request, i
    <2>11. r \in Request
        BY <1>1, <2>3, <2>8 DEF Request, Phases
    <2> HIDE DEF r
    <2>12. Shaped(r)
        BY <1>1, <2>3, <2>7, <2>9, <2>10, <2>11 DEF Shaped
    <2>13. MayInsert(s, r.new.lines)
        BY <2>1, <2>7, <2>10
    <2> QED
        BY <1>1, <2>2, <2>3, <2>7, <2>9, <2>10, <2>12, <2>13 DEF lines, i, q, old
<1> QED
    BY <1>2, <1>3

LEMMA LockBankLeaves ==
    ASSUME Parameters, JournalInv, NEW s \in Sessions, LockBank(s)
    PROVE  \E r : /\ Step(s, r) /\ Shaped(r) /\ r.pc = "reconciling"
                  /\ BankFree(s) /\ r.on.journal = journal
<1> DEFINE r == [Idle EXCEPT !.pc = "reconciling", !.on = [journal |-> journal]]
<1>1. /\ r.pc = "reconciling" /\ r.entry = None /\ r.at = None /\ r.new = None /\ r.clears = {}
      /\ r.on = [journal |-> journal]
    BY DEF Idle
<1>2. r.on.journal = journal /\ r.on \in [journal : Journals] /\ Entries(r.on.journal)
    BY <1>1 DEF JournalInv, Entries
<1>3. r \in Request
    BY <1>2 DEF Idle, Request, Phases
<1>4. Step(s, r) /\ BankFree(s)
    BY DEF LockBank
<1> HIDE DEF r
<1>5. Shaped(r)
    BY <1>1, <1>2, <1>3 DEF Shaped
<1> QED
    BY <1>1, <1>2, <1>4, <1>5

LEMMA PreviousStatement ==
    JournalInv /\ statements # <<>> =>
        /\ Len(statements) \in DOMAIN statements /\ Len(statements) \in Nat \ {0}
        /\ Previous \in Statement
BY DEF JournalInv, Previous

LEMMA ReconcileLeaves ==
    ASSUME Parameters, JournalInv, NEW s \in Sessions, Reconcile(s)
    PROVE  /\ request[s].pc = "reconciling" /\ Entries(request[s].on.journal)
           /\ \/ Step(s, Idle)
              \/ \E r : /\ Step(s, r) /\ Shaped(r) /\ r.pc = "written" /\ r.at = None /\ r.entry = None
                        /\ r.on \in Statement /\ r.clears = r.on.cleared
                        /\ r.on.opening \in MayOpen
                        /\ statements # <<>> => Previous.day < r.on.day
                        /\ r.on.closing = r.on.opening + Amount(r.clears)
                        /\ r.clears \subseteq LinesOf(journal)
                        /\ r.clears \subseteq Candidates(request[s].on.journal, r.on.day)
                        /\ \A x \in r.clears, t \in Others(s) : ~HoldsEntry(t, x.entry)
<1> DEFINE q == request[s]
           j == q.on.journal
<1>1. q \in Request /\ q.pc = "reconciling" /\ q.at = None /\ q.entry = None /\ Entries(j)
    BY DEF Reconcile, JournalInv, Shaped
<1>2. PICK day \in Days, opening \in MayOpen, keys \in SUBSET BankLines(j) :
          /\ statements # <<>> => Previous.day < day
          /\ MayClear(keys, j, day)
          /\ \A x \in keys, t \in Others(s) : ~HoldsEntry(t, x.entry)
          /\ IF keys \subseteq LinesOf(journal)
             THEN Step(s, [q EXCEPT !.pc = "written", !.clears = keys,
                    !.on = [day |-> day, opening |-> opening,
                            closing |-> opening + Amount(keys), cleared |-> keys]])
             ELSE Rollback(s)
    BY DEF Reconcile
<1>3. CASE ~(keys \subseteq LinesOf(journal))
    BY <1>1, <1>2, <1>3 DEF Rollback
<1>4. CASE keys \subseteq LinesOf(journal)
    <2> DEFINE closing == opening + Amount(keys)
               on == [day |-> day, opening |-> opening, closing |-> closing, cleared |-> keys]
               r == [q EXCEPT !.pc = "written", !.clears = keys, !.on = on]
    <2>1. Step(s, r)
        BY <1>2, <1>4
    <2>2. keys \subseteq LineKeys /\ IsFiniteSet(keys)
        BY <1>1, LinesKept, FS_Subset
    <2>3. opening \in Int
        BY PreviousStatement DEF MayOpen, Parameters, Statement
    <2>4. closing \in Int
        BY <2>2, <2>3, AmountInt
    <2> HIDE DEF closing
    <2>5. on \in Statement
        BY <2>2, <2>3, <2>4 DEF Statement
    <2>6. on.day = day /\ on.opening = opening /\ on.closing = closing /\ on.cleared = keys
        OBVIOUS
    <2> HIDE DEF on, q, j
    <2>7. /\ r.pc = "written" /\ r.entry = None /\ r.at = None /\ r.on = on /\ r.clears = keys
        BY <1>1 DEF Request
    <2>8. r \in Request
        BY <1>1, <2>2, <2>5 DEF Request, Phases
    <2> HIDE DEF r
    <2>9. Shaped(r)
        BY <2>5, <2>7, <2>8 DEF Shaped
    <2> QED
        BY <1>1, <1>2, <1>4, <2>1, <2>5, <2>6, <2>7, <2>9 DEF closing, q, j, MayClear
<1> QED
    BY <1>3, <1>4

-----------------------------------------------------------------------------
(* Entries, reversals and the requests that hold them.                      *)

ExpenseIn(j, i) == j[i] # None /\ j[i].reverses = None /\ j[i].doc.kind = "expense"
ReversedIn(j, i) == \E r \in Ids : j[r] # None /\ j[r].reverses = i
Holds(r) == r.pc \in {"reversing", "deleted", "written"} /\ r.entry \in Ids

\* What a request that holds an entry, or has written one, knows of a journal.
Posting(r, j) == r.entry = None /\ j[r.at] = None /\ r.new # None /\ r.new.reverses = None
Editing(r, j) ==
    /\ r.entry = r.at /\ ExpenseIn(j, r.at)
    /\ IF r.new = None THEN ~ReversedIn(j, r.at)
       ELSE r.new.reverses = None /\ r.new.edited = ReversedIn(j, r.at)
Reverting(r, j) ==
    /\ r.entry \in Ids /\ j[r.at] = None /\ r.new # None /\ r.new.reverses = r.entry
    /\ j[r.entry] # None /\ j[r.entry].reverses = None /\ ~ReversedIn(j, r.entry)
    /\ r.new.lines = Opposite(j[r.entry].lines)
Held(r, j) ==
    /\ r.pc = "deleted" => ExpenseIn(j, r.entry)
    /\ r.pc = "reversing" =>
          j[r.entry] # None /\ j[r.entry].reverses = None /\ ~ReversedIn(j, r.entry) /\ r.new = j[r.entry]
    /\ r.pc = "written" /\ r.at # None => Posting(r, j) \/ Editing(r, j) \/ Reverting(r, j)

\* A reversal cancels its entry until that is edited, and is the only one.
Cancels(j) ==
    \A r \in Ids : j[r] # None /\ j[r].reverses # None =>
        /\ j[j[r].reverses] # None /\ j[j[r].reverses].reverses = None
        /\ j[j[r].reverses].edited \/ j[r].lines = Opposite(j[j[r].reverses].lines)
        /\ \A q \in Ids \ {r} : j[q] # None => j[q].reverses # j[r].reverses

Apart(q, r) ==
    /\ ~(Holds(q) /\ Holds(r) /\ q.entry = r.entry)
    /\ ~(q.pc = "written" /\ r.pc = "written" /\ q.at # None /\ q.at = r.at)

EntryInv ==
    /\ Cancels(journal)
    /\ \A s \in Sessions : Held(request[s], journal)
    /\ \A s, t \in Sessions : s # t => Apart(request[s], request[t])

LEMMA InJournal ==
    ASSUME NEW i
    PROVE  (IsExpense(i) <=> ExpenseIn(journal, i)) /\ (Reversed(i) <=> ReversedIn(journal, i))
BY DEF IsExpense, ExpenseIn, Reversed, ReversedIn

LEMMA HoldsIs ==
    ASSUME NEW s, NEW i \in Ids
    PROVE  HoldsEntry(s, i) <=> Holds(request[s]) /\ request[s].entry = i
BY DEF HoldsEntry, Holds

LEMMA StepIs ==
    ASSUME JournalInv, NEW s \in Sessions, NEW r, Step(s, r)
    PROVE  /\ journal' = journal /\ statements' = statements
           /\ request'[s] = r /\ \A t \in Sessions \ {s} : request'[t] = request[t]
           /\ DOMAIN request' = Sessions
BY DEF Step, JournalInv

LEMMA StepJournalInv ==
    ASSUME JournalInv, NEW s \in Sessions, NEW r, Step(s, r), Shaped(r)
    PROVE  JournalInv'
<1>1. request' \in [Sessions -> Request]
    BY DEF Step, JournalInv, Shaped
<1>2. \A t \in Sessions : Shaped(request'[t])
    BY StepIs DEF JournalInv
<1> QED
    BY <1>1, <1>2, StepIs DEF JournalInv

LEMMA StepEntryInv ==
    ASSUME JournalInv, EntryInv, NEW s \in Sessions, NEW r, Step(s, r), Held(r, journal),
           \A t \in Sessions : t # s => Apart(r, request[t])
    PROVE  EntryInv'
<1>1. \A t \in Sessions : Held(request'[t], journal')
    BY StepIs DEF EntryInv
<1>2. \A q, p : Apart(q, p) => Apart(p, q)
    BY DEF Apart
<1>3. \A t, u \in Sessions : t # u => Apart(request'[t], request'[u])
    BY <1>2, StepIs DEF EntryInv
<1>4. Cancels(journal')
    BY StepIs DEF EntryInv
<1> QED
    BY <1>1, <1>3, <1>4 DEF EntryInv

LEMMA IdleEntryInv ==
    ASSUME Parameters, JournalInv, EntryInv, NEW s \in Sessions, Step(s, Idle)
    PROVE  JournalInv' /\ EntryInv'
<1>1. Held(Idle, journal) /\ \A q : Apart(Idle, q)
    BY DEF Idle, Held, Apart, Holds
<1>2. EntryInv'
    BY <1>1, StepEntryInv
<1> QED
    BY <1>2, IdleShaped, StepJournalInv

\* A fresh entry is no draft of another request, and none is in the journal.
LEMMA FreshIs ==
    ASSUME NEW i \in Fresh
    PROVE  /\ journal[i] = None /\ i \in Ids
           /\ \A t \in Sessions : request[t].pc = "written" => request[t].at # i
BY DEF Fresh, Drafts, Wrote

LEMMA PostKeeps ==
    ASSUME Parameters, JournalInv, EntryInv, NEW s \in Sessions, Post(s)
    PROVE  JournalInv' /\ EntryInv'
<1>1. PICK r : /\ Step(s, r) /\ Shaped(r)
               /\ r.pc = "written" /\ r.entry = None /\ r.at \in Fresh /\ r.at # None
               /\ r.new # None /\ r.new.reverses = None
    BY PostLeaves
<1>2. Held(r, journal)
    BY <1>1, FreshIs DEF Held, Posting
<1>3. None \notin Ids
    BY DEF Ids, Parameters
<1>4. \A t \in Sessions : t # s => Apart(r, request[t])
    BY <1>1, <1>3, FreshIs DEF Apart, Holds
<1>5. EntryInv'
    BY <1>1, <1>2, <1>4, StepEntryInv
<1> QED
    BY <1>1, <1>5, StepJournalInv

\* Who gets a free entry, and is no writer, is apart from everyone.
LEMMA FreeApart ==
    ASSUME NEW s \in Sessions, NEW r, r.entry \in Ids, EntryFree(s, r.entry), r.pc # "written"
    PROVE  \A t \in Sessions : t # s => Apart(r, request[t])
<1>1. \A t \in Sessions : t # s => ~HoldsEntry(t, r.entry)
    BY DEF EntryFree, Others
<1> QED
    BY <1>1, HoldsIs DEF Apart

LEMMA DeleteLinesKeeps ==
    ASSUME Parameters, JournalInv, EntryInv, NEW s \in Sessions, DeleteLines(s)
    PROVE  JournalInv' /\ EntryInv'
<1>1. PICK r : /\ Step(s, r) /\ Shaped(r) /\ r.pc = "deleted" /\ r.entry \in Ids
               /\ IsExpense(r.entry) /\ EntryFree(s, r.entry)
    BY DeleteLinesLeaves
<1>2. Held(r, journal)
    BY <1>1, InJournal DEF Held
<1>3. \A t \in Sessions : t # s => Apart(r, request[t])
    BY <1>1, FreeApart
<1>4. EntryInv'
    BY <1>1, <1>2, <1>3, StepEntryInv
<1> QED
    BY <1>1, <1>4, StepJournalInv

\* A draft of an entry that is in the journal is that of its holder.
LEMMA DraftOfHolder ==
    ASSUME Parameters, EntryInv, NEW t \in Sessions, request[t].pc = "written", request[t].at \in Ids,
           journal[request[t].at] # None
    PROVE  Holds(request[t]) /\ request[t].entry = request[t].at
<1>1. request[t].at # None
    BY DEF Ids, Parameters
<1>2. Posting(request[t], journal) \/ Editing(request[t], journal) \/ Reverting(request[t], journal)
    BY <1>1 DEF EntryInv, Held
<1> QED
    BY <1>2 DEF Posting, Editing, Reverting, Holds

LEMMA EditKeeps ==
    ASSUME Parameters, JournalInv, EntryInv, NEW s \in Sessions, request[s].pc = "deleted",
           NEW r, Step(s, r), Shaped(r), r.pc = "written", r.entry = request[s].entry, r.at = r.entry,
           r.entry \in Ids, Editing(r, journal)
    PROVE  JournalInv' /\ EntryInv'
<1>1. Held(r, journal)
    BY DEF Held
<1>2. ASSUME NEW t \in Sessions, t # s PROVE Apart(r, request[t])
    <2>1. Apart(request[s], request[t]) /\ Holds(request[s])
        BY <1>2 DEF EntryInv, Holds
    <2>2. ~(Holds(request[t]) /\ request[t].entry = r.entry)
        BY <2>1 DEF Apart
    <2>3. journal[r.at] # None
        BY DEF Editing, ExpenseIn
    <2>4. ~(request[t].pc = "written" /\ r.at = request[t].at)
        BY <2>2, <2>3, DraftOfHolder
    <2> QED
        BY <2>2, <2>4 DEF Apart
<1>3. EntryInv'
    BY <1>1, <1>2, StepEntryInv
<1> QED
    BY <1>3, StepJournalInv

LEMMA RewriteKeeps ==
    ASSUME Parameters, JournalInv, EntryInv, NEW s \in Sessions, Rewrite(s)
    PROVE  JournalInv' /\ EntryInv'
<1>1. request[s].pc = "deleted"
    BY DEF Rewrite
<1>2. ExpenseIn(journal, request[s].entry)
    BY <1>1 DEF EntryInv, Held
<1>3. PICK r : /\ Step(s, r) /\ Shaped(r) /\ r.pc = "written" /\ r.entry = request[s].entry /\ r.at = r.entry
               /\ r.entry \in Ids /\ r.new # None /\ r.new.reverses = None /\ r.new.edited = Reversed(r.entry)
    BY <1>2, InJournal, RewriteLeaves
<1>4. Reversed(r.entry) = ReversedIn(journal, r.entry)
    BY InJournal DEF Reversed, ReversedIn
<1>5. Editing(r, journal)
    BY <1>2, <1>3, <1>4 DEF Editing
<1> QED
    BY <1>1, <1>3, <1>5, EditKeeps

LEMMA RemoveKeeps ==
    ASSUME Parameters, JournalInv, EntryInv, NEW s \in Sessions, Remove(s)
    PROVE  JournalInv' /\ EntryInv'
<1>1. request[s].pc = "deleted" /\ request[s].entry \in Ids
    BY RemoveLeaves
<1>2. ExpenseIn(journal, request[s].entry)
    BY <1>1 DEF EntryInv, Held
<1>3. CASE Step(s, Idle)
    BY <1>3, IdleEntryInv
<1>4. CASE ~Step(s, Idle)
    <2>1. PICK r : /\ Step(s, r) /\ Shaped(r) /\ r.pc = "written" /\ r.entry = request[s].entry
                   /\ r.at = r.entry /\ r.new = None /\ ~Reversed(r.entry)
        BY <1>4, RemoveLeaves
    <2>2. Editing(r, journal)
        BY <1>2, <2>1, InJournal DEF Editing
    <2> QED
        BY <1>1, <2>1, <2>2, EditKeeps
<1> QED
    BY <1>3, <1>4

LEMMA LockEntryKeeps ==
    ASSUME Parameters, JournalInv, EntryInv, NEW s \in Sessions, LockEntry(s)
    PROVE  JournalInv' /\ EntryInv'
<1>1. PICK r : /\ Step(s, r) /\ Shaped(r) /\ r.pc = "reversing" /\ r.entry \in Ids
               /\ EntryFree(s, r.entry) /\ Reversible(r.entry) /\ r.new = journal[r.entry]
    BY LockEntryLeaves
<1>2. Held(r, journal)
    BY <1>1, InJournal DEF Held, Reversible
<1>3. \A t \in Sessions : t # s => Apart(r, request[t])
    BY <1>1, FreeApart
<1>4. EntryInv'
    BY <1>1, <1>2, <1>3, StepEntryInv
<1> QED
    BY <1>1, <1>4, StepJournalInv

LEMMA ReverseKeeps ==
    ASSUME Parameters, JournalInv, EntryInv, NEW s \in Sessions, Reverse(s)
    PROVE  JournalInv' /\ EntryInv'
<1>1. request[s].pc = "reversing" /\ request[s].entry \in Ids
    BY ReverseLeaves
<1> DEFINE i == request[s].entry
<1>2. journal[i] # None /\ journal[i].reverses = None /\ ~ReversedIn(journal, i) /\ request[s].new = journal[i]
    BY <1>1 DEF EntryInv, Held
<1>3. CASE Step(s, Idle)
    BY <1>3, IdleEntryInv
<1>4. CASE ~Step(s, Idle)
    <2>1. PICK r : /\ Step(s, r) /\ Shaped(r) /\ r.pc = "written" /\ r.entry = i /\ r.at \in Fresh /\ r.at # None
                   /\ r.new # None /\ r.new.reverses = r.entry /\ r.new.lines = Opposite(request[s].new.lines)
        BY <1>4, ReverseLeaves
    <2>2. Reverting(r, journal)
        BY <1>1, <1>2, <2>1, FreshIs DEF Reverting
    <2>3. Held(r, journal)
        BY <2>1, <2>2 DEF Held
    <2>4. ASSUME NEW t \in Sessions, t # s PROVE Apart(r, request[t])
        <3>1. Apart(request[s], request[t]) /\ Holds(request[s])
            BY <1>1, <2>4 DEF EntryInv, Holds
        <3> QED
            BY <2>1, <3>1, FreshIs DEF Apart
    <2>5. EntryInv'
        BY <2>1, <2>3, <2>4, StepEntryInv
    <2> QED
        BY <2>1, <2>5, StepJournalInv
<1> QED
    BY <1>3, <1>4

LEMMA LockBankKeeps ==
    ASSUME Parameters, JournalInv, EntryInv, NEW s \in Sessions, LockBank(s)
    PROVE  JournalInv' /\ EntryInv'
<1>1. PICK r : Step(s, r) /\ Shaped(r) /\ r.pc = "reconciling"
    BY LockBankLeaves
<1>2. Held(r, journal) /\ \A q : Apart(r, q)
    BY <1>1 DEF Held, Apart, Holds
<1>3. EntryInv'
    BY <1>1, <1>2, StepEntryInv
<1> QED
    BY <1>1, <1>3, StepJournalInv

LEMMA ReconcileKeeps ==
    ASSUME Parameters, JournalInv, EntryInv, NEW s \in Sessions, Reconcile(s)
    PROVE  JournalInv' /\ EntryInv'
<1>1. CASE Step(s, Idle)
    BY <1>1, IdleEntryInv
<1>2. CASE ~Step(s, Idle)
    <2>1. PICK r : Step(s, r) /\ Shaped(r) /\ r.pc = "written" /\ r.at = None /\ r.entry = None
        BY <1>2, ReconcileLeaves
    <2>2. None \notin Ids
        BY DEF Ids, Parameters
    <2>3. Held(r, journal) /\ \A q : Apart(r, q)
        BY <2>1, <2>2 DEF Held, Apart, Holds
    <2>4. EntryInv'
        BY <2>1, <2>3, StepEntryInv
    <2> QED
        BY <2>1, <2>4, StepJournalInv
<1> QED
    BY <1>1, <1>2

\* A committed entry replaces, adds or removes one entry of the journal.
LEMMA CommitEntryKeeps ==
    ASSUME Parameters, JournalInv, EntryInv, NEW s \in Sessions, Commit(s), request[s].at # None
    PROVE  JournalInv' /\ EntryInv'
<1> DEFINE q == request[s]
           k == q.at
           j == journal
           h == journal'
<1>1. /\ q.pc = "written" /\ k \in Ids /\ Shaped(q)
      /\ h = [j EXCEPT ![k] = q.new] /\ statements' = statements
      /\ request' = [request EXCEPT ![s] = Idle]
    BY DEF Commit, Wrote, JournalInv, Shaped, Request
<1>2. /\ h[k] = q.new /\ \A i \in Ids \ {k} : h[i] = j[i]
      /\ request'[s] = Idle /\ \A t \in Sessions \ {s} : request'[t] = request[t]
    BY <1>1 DEF JournalInv, Entries, Journals
<1>3. JournalInv'
    <2>1. q.new \in JournalEntry \cup {None} /\ (q.new # None => Faithful(q.new) /\ q.new.id = k)
        BY <1>1 DEF Shaped, Request
    <2>2. Entries(h)
        <3>1. h \in Journals
            BY <1>1, <2>1 DEF JournalInv, Entries, Journals
        <3>2. \A i \in Ids : h[i] # None => Faithful(h[i]) /\ h[i].id = i
            BY <1>2, <2>1 DEF JournalInv, Entries
        <3> QED
            BY <3>1, <3>2 DEF Entries
    <2>3. request' \in [Sessions -> Request]
        BY <1>1, IdleShaped DEF JournalInv, Shaped
    <2>4. \A t \in Sessions : Shaped(request'[t])
        BY <1>2, IdleShaped DEF JournalInv
    <2> QED
        BY <1>1, <2>2, <2>3, <2>4 DEF JournalInv
<1>4. Posting(q, j) \/ Editing(q, j) \/ Reverting(q, j)
    BY <1>1 DEF EntryInv, Held
<1>5. None \notin Ids
    BY DEF Ids, Parameters
<1>6. \A i \in Ids : j[i] # None => j[i].reverses \in Ids \cup {None}
    BY DEF JournalInv, Entries, Faithful
<1> HIDE DEF j, h, q, k
<1>7. Cancels(j)
    BY DEF EntryInv, j
<1>8. Cancels(h)
    <2> SUFFICES ASSUME NEW r \in Ids, h[r] # None, h[r].reverses # None
                 PROVE  /\ h[h[r].reverses] # None /\ h[h[r].reverses].reverses = None
                        /\ h[h[r].reverses].edited \/ h[r].lines = Opposite(h[h[r].reverses].lines)
                        /\ \A p \in Ids \ {r} : h[p] # None => h[p].reverses # h[r].reverses
        BY DEF Cancels
    <2>1. CASE Posting(q, j)
        BY <1>1, <1>2, <1>5, <1>6, <1>7, <2>1 DEF Posting, Cancels, k
    <2>2. CASE Editing(q, j)
        <3>1. r # k
            BY <1>2, <2>2 DEF Editing
        <3>2. h[r] = j[r] /\ j[r].reverses \in Ids
            BY <1>2, <1>6, <3>1
        <3>3. j[r].reverses = k => ReversedIn(j, k)
            BY <3>2 DEF ReversedIn
        <3>4. \A p \in Ids \ {r} : h[p] # None => h[p].reverses # h[r].reverses
            <4>1. \A p \in Ids \ {r} : j[p] # None => j[p].reverses # j[r].reverses
                BY <1>7, <3>2 DEF Cancels
            <4>2. h[k] # None => h[k].reverses = None
                BY <1>2, <2>2 DEF Editing
            <4> QED
                BY <1>2, <1>5, <3>2, <4>1, <4>2
        <3>5. CASE j[r].reverses = k
            <4>1. q.new # None /\ q.new.reverses = None /\ q.new.edited
                BY <2>2, <3>3, <3>5 DEF Editing, k
            <4> QED
                BY <1>2, <3>2, <3>4, <3>5, <4>1
        <3>6. CASE j[r].reverses # k
            <4>1. h[j[r].reverses] = j[j[r].reverses]
                BY <1>2, <3>2, <3>6
            <4>2. /\ j[j[r].reverses] # None /\ j[j[r].reverses].reverses = None
                  /\ j[j[r].reverses].edited \/ j[r].lines = Opposite(j[j[r].reverses].lines)
                BY <1>7, <3>2 DEF Cancels
            <4> QED
                BY <3>2, <3>4, <4>1, <4>2
        <3> QED
            BY <3>5, <3>6
    <2>3. CASE Reverting(q, j)
        <3>1. /\ j[k] = None /\ q.new.reverses = q.entry /\ q.entry \in Ids \ {k}
              /\ j[q.entry] # None /\ j[q.entry].reverses = None /\ ~ReversedIn(j, q.entry)
              /\ q.new.lines = Opposite(j[q.entry].lines)
            BY <2>3 DEF Reverting, k
        <3>2. h[q.entry] = j[q.entry]
            BY <1>2, <3>1
        <3>3. \A p \in Ids : j[p] # None => j[p].reverses # q.entry
            BY <3>1 DEF ReversedIn
        <3>4. CASE r = k
            <4>1. h[r].reverses = q.entry
                BY <1>2, <3>1, <3>4
            <4>2. \A p \in Ids \ {r} : h[p] # None => h[p].reverses # q.entry
                BY <1>2, <3>3, <3>4
            <4> QED
                BY <1>2, <3>1, <3>2, <3>4, <4>1, <4>2
        <3>5. CASE r # k
            <4>1. h[r] = j[r] /\ j[r].reverses \in Ids
                BY <1>2, <1>6, <3>5
            <4>2. /\ j[j[r].reverses] # None /\ j[j[r].reverses].reverses = None
                  /\ j[j[r].reverses].edited \/ j[r].lines = Opposite(j[j[r].reverses].lines)
                  /\ \A p \in Ids \ {r} : j[p] # None => j[p].reverses # j[r].reverses
                BY <1>7, <4>1 DEF Cancels
            <4>3. j[r].reverses # k /\ h[j[r].reverses] = j[j[r].reverses]
                BY <1>2, <3>1, <4>1, <4>2
            <4>4. \A p \in Ids \ {r} : h[p] # None => h[p].reverses # h[r].reverses
                BY <1>2, <3>1, <3>3, <4>1, <4>2
            <4> QED
                BY <4>1, <4>2, <4>3, <4>4
        <3> QED
            BY <3>4, <3>5
    <2> QED
        BY <1>4, <2>1, <2>2, <2>3
<1>9. ASSUME NEW t \in Sessions, t # s
      PROVE  Held(request[t], h)
    <2> DEFINE p == request[t]
               i == p.entry
    <2>1. Apart(q, p) /\ Held(p, j) /\ Shaped(p)
        BY <1>9 DEF EntryInv, JournalInv, q, j
    <2>2. p.pc = "written" /\ p.at # None => p.at \in Ids \ {k}
        BY <1>1, <1>5, <2>1 DEF Apart, Shaped, Request, k
    <2>3. ~(Holds(q) /\ Holds(p) /\ q.entry = p.entry)
        BY <2>1 DEF Apart
    <2>4. Holds(p) /\ j[i] # None => i \in Ids \ {k}
        <3>1. Editing(q, j) => Holds(q) /\ q.entry = k
            BY <1>1 DEF Editing, Holds, k
        <3> QED
            BY <1>4, <2>3, <3>1 DEF Posting, Reverting, Holds, k
    <2>5. Holds(p) /\ j[i] # None => (ReversedIn(h, i) <=> ReversedIn(j, i))
        <3> SUFFICES ASSUME Holds(p), j[i] # None PROVE ReversedIn(h, i) <=> ReversedIn(j, i)
            OBVIOUS
        <3>1. i \in Ids
            BY DEF Holds
        <3>2. j[k] = None \/ j[k].reverses # i
            BY <1>4, <1>5, <3>1 DEF Posting, Editing, ExpenseIn, Reverting, k
        <3>3. q.new = None \/ q.new.reverses # i
            <4>1. Reverting(q, j) => Holds(q)
                BY <1>1 DEF Reverting, Holds
            <4> QED
                BY <1>4, <1>5, <2>3, <3>1, <4>1 DEF Posting, Editing, Reverting
        <3> QED
            BY <1>2, <3>2, <3>3 DEF ReversedIn
    <2> HIDE DEF p, i
    <2>6. p.pc = "deleted" => ExpenseIn(h, i)
        <3> SUFFICES ASSUME p.pc = "deleted" PROVE ExpenseIn(h, i)
            OBVIOUS
        <3>1. Holds(p) /\ ExpenseIn(j, i)
            BY <2>1 DEF Held, Shaped, Holds, i
        <3> QED
            BY <1>2, <2>4, <3>1 DEF ExpenseIn
    <2>7. p.pc = "reversing" =>
             h[i] # None /\ h[i].reverses = None /\ ~ReversedIn(h, i) /\ p.new = h[i]
        <3> SUFFICES ASSUME p.pc = "reversing"
                     PROVE  h[i] # None /\ h[i].reverses = None /\ ~ReversedIn(h, i) /\ p.new = h[i]
            OBVIOUS
        <3>1. Holds(p) /\ j[i] # None /\ j[i].reverses = None /\ ~ReversedIn(j, i) /\ p.new = j[i]
            BY <2>1 DEF Held, Shaped, Holds, i
        <3> QED
            BY <1>2, <2>4, <2>5, <3>1
    <2>8. p.pc = "written" /\ p.at # None => Posting(p, h) \/ Editing(p, h) \/ Reverting(p, h)
        <3> SUFFICES ASSUME p.pc = "written", p.at # None
                     PROVE  Posting(p, h) \/ Editing(p, h) \/ Reverting(p, h)
            OBVIOUS
        <3>1. h[p.at] = j[p.at]
            BY <1>2, <2>2
        <3>2. CASE Posting(p, j)
            BY <3>1, <3>2 DEF Posting
        <3>3. CASE Editing(p, j)
            <4>1. Holds(p) /\ i = p.at /\ j[i] # None
                BY <2>2, <3>3 DEF Editing, ExpenseIn, Holds, i
            <4>2. ReversedIn(h, p.at) = ReversedIn(j, p.at)
                BY <2>5, <4>1 DEF ReversedIn
            <4> QED
                BY <3>1, <3>3, <4>2 DEF Editing, ExpenseIn
        <3>4. CASE Reverting(p, j)
            <4>1. Holds(p) /\ j[i] # None
                BY <3>4 DEF Reverting, Holds, i
            <4>2. h[i] = j[i] /\ ~ReversedIn(h, i)
                BY <1>2, <2>4, <2>5, <3>4, <4>1 DEF Reverting, i
            <4> QED
                BY <3>1, <3>4, <4>2 DEF Reverting, i
        <3> QED
            BY <2>1, <3>2, <3>3, <3>4 DEF Held
    <2>9. Held(p, h)
        BY <2>6, <2>7, <2>8 DEF Held, i
    <2> QED
        BY <2>9 DEF p
<1>10. \A t \in Sessions : Held(request'[t], h)
    BY <1>2, <1>9 DEF Held, Idle
<1>11. \A p : Apart(Idle, p) /\ Apart(p, Idle)
    BY DEF Apart, Holds, Idle
<1>12. \A t, u \in Sessions : t # u => Apart(request'[t], request'[u])
    BY <1>2, <1>11 DEF EntryInv
<1> QED
    BY <1>3, <1>8, <1>10, <1>12 DEF EntryInv, h

LEMMA CommitStatementKeeps ==
    ASSUME Parameters, JournalInv, EntryInv, NEW s \in Sessions, Commit(s), request[s].at = None
    PROVE  /\ JournalInv' /\ EntryInv' /\ journal' = journal
           /\ request[s].on \in Statement /\ statements' = Append(statements, request[s].on)
           /\ request'[s] = Idle /\ \A t \in Sessions \ {s} : request'[t] = request[t]
<1>1. /\ request[s].pc = "written" /\ Shaped(request[s])
      /\ statements' = Append(statements, request[s].on) /\ journal' = journal
      /\ request' = [request EXCEPT ![s] = Idle]
    BY DEF Commit, Wrote, JournalInv
<1>2. request'[s] = Idle /\ \A t \in Sessions \ {s} : request'[t] = request[t]
    BY <1>1 DEF JournalInv
<1>3. request[s].on \in Statement
    BY <1>1 DEF Shaped
<1>4. JournalInv'
    <2>1. request' \in [Sessions -> Request]
        BY <1>1, IdleShaped DEF JournalInv, Shaped
    <2>2. \A t \in Sessions : Shaped(request'[t])
        BY <1>2, IdleShaped DEF JournalInv
    <2>3. statements' \in Seq(Statement)
        BY <1>1, <1>3 DEF JournalInv
    <2> QED
        BY <1>1, <2>1, <2>2, <2>3 DEF JournalInv
<1>5. \A p : Held(Idle, journal) /\ Apart(Idle, p) /\ Apart(p, Idle)
    BY DEF Apart, Holds, Idle, Held
<1>6. Cancels(journal')
    BY <1>1 DEF EntryInv
<1>7. \A t \in Sessions : Held(request'[t], journal')
    BY <1>1, <1>2, <1>5 DEF EntryInv
<1>8. \A t, u \in Sessions : t # u => Apart(request'[t], request'[u])
    BY <1>2, <1>5 DEF EntryInv
<1> QED
    BY <1>1, <1>2, <1>3, <1>4, <1>6, <1>7, <1>8 DEF EntryInv

LEMMA NextKeeps ==
    ASSUME Parameters, JournalInv, EntryInv, Next
    PROVE  JournalInv' /\ EntryInv'
<1> SUFFICES ASSUME NEW s \in Sessions,
                    \/ Post(s) \/ DeleteLines(s) \/ Rewrite(s) \/ Remove(s)
                    \/ LockEntry(s) \/ Reverse(s) \/ LockBank(s) \/ Reconcile(s)
                    \/ Commit(s) \/ Fail(s)
             PROVE  JournalInv' /\ EntryInv'
    BY DEF Next
<1>1. CASE Post(s)
    BY <1>1, PostKeeps
<1>2. CASE DeleteLines(s)
    BY <1>2, DeleteLinesKeeps
<1>3. CASE Rewrite(s)
    BY <1>3, RewriteKeeps
<1>4. CASE Remove(s)
    BY <1>4, RemoveKeeps
<1>5. CASE LockEntry(s)
    BY <1>5, LockEntryKeeps
<1>6. CASE Reverse(s)
    BY <1>6, ReverseKeeps
<1>7. CASE LockBank(s)
    BY <1>7, LockBankKeeps
<1>8. CASE Reconcile(s)
    BY <1>8, ReconcileKeeps
<1>9. CASE Commit(s)
    BY <1>9, CommitEntryKeeps, CommitStatementKeeps
<1>10. CASE Fail(s)
    BY <1>10, IdleEntryInv DEF Fail, Rollback
<1> QED
    BY <1>1, <1>2, <1>3, <1>4, <1>5, <1>6, <1>7, <1>8, <1>9, <1>10

LEMMA InitKept ==
    ASSUME Parameters, Init
    PROVE  JournalInv /\ EntryInv
<1>1. journal \in Journals /\ \A i \in Ids : journal[i] = None
    BY DEF Init, Journals
<1>2. JournalInv
    BY <1>1, IdleShaped DEF Init, JournalInv, Entries, Shaped
<1>3. EntryInv
    BY <1>1 DEF Init, EntryInv, Cancels, Held, Apart, Holds, Idle
<1> QED
    BY <1>2, <1>3

LEMMA StutterKeeps ==
    ASSUME JournalInv, EntryInv, UNCHANGED vars
    PROVE  JournalInv' /\ EntryInv'
BY DEF vars, JournalInv, EntryInv

LEMMA EntriesKept == Parameters /\ Spec => [](JournalInv /\ EntryInv)
<1> SUFFICES ASSUME Parameters PROVE Spec => [](JournalInv /\ EntryInv)
    OBVIOUS
<1>1. Init => JournalInv /\ EntryInv
    BY InitKept
<1>2. (JournalInv /\ EntryInv) /\ [Next]_vars => (JournalInv /\ EntryInv)'
    BY NextKeeps, StutterKeeps
<1> QED
    BY <1>1, <1>2, PTL DEF Spec

-----------------------------------------------------------------------------
(* Bank statements.                                                         *)

ClearedIn(st) == UNION {st[n].cleared : n \in DOMAIN st}
HasBankLine(e) == \E l \in e.lines : l.account = "BANK"

HasBank(r) == r.pc = "reconciling" \/ (r.pc = "written" /\ r.at = None)
UsesBank(r) == r.pc = "written" /\ r.new # None /\ HasBankLine(r.new)
\* The lines of the entry are deleted.
Edits(r) == r.pc = "deleted" \/ (r.pc = "written" /\ r.at # None /\ r.entry = r.at)

\* What a request knows of a journal j and of the statements st.
Banks(r, j, st) ==
    /\ Edits(r) => LineIds(r.entry, j[r.entry]) \cap ClearedIn(st) = {}
    /\ r.pc = "reconciling" =>
          \A i \in Ids : j[i] # None /\ HasBankLine(j[i]) => j[i] = r.on.journal[i]
    /\ r.pc = "written" /\ r.at = None =>
          /\ r.clears = r.on.cleared /\ r.on.closing = r.on.opening + Amount(r.on.cleared)
          /\ st # <<>> => r.on.opening = st[Len(st)].closing /\ st[Len(st)].day < r.on.day
          /\ r.on.cleared \subseteq BankLines(j)
          /\ \A x \in r.on.cleared : j[x.entry].day <= r.on.day
          /\ r.on.cleared \cap ClearedIn(st) = {}

BankApart(q, r) ==
    /\ ~(HasBank(q) /\ (HasBank(r) \/ UsesBank(r)))
    /\ ~(Edits(q) /\ \E x \in r.clears : x.entry = q.entry)

\* The statements follow each other, and clear lines that are in the journal.
Chained(j, st) ==
    /\ \A n \in DOMAIN st :
          /\ n > 1 => st[n].opening = st[n - 1].closing
          /\ st[n].closing = st[n].opening + Amount(st[n].cleared)
          /\ st[n].cleared \subseteq BankLines(j)
          /\ \A x \in st[n].cleared : j[x.entry].day <= st[n].day
          /\ \A m \in 1 .. n - 1 : st[m].cleared \cap st[n].cleared = {} /\ st[m].day < st[n].day
    /\ st # <<>> => Amount(ClearedIn(st)) = st[Len(st)].closing - st[1].opening

BankInv ==
    /\ Chained(journal, statements)
    /\ \A s \in Sessions : Banks(request[s], journal, statements)
    /\ \A s, t \in Sessions : s # t => BankApart(request[s], request[t])

LEMMA KeyIs ==
    ASSUME NEW j, NEW x
    PROVE  /\ x \in LinesOf(j) <=>
                 /\ x.entry \in Ids /\ j[x.entry] # None /\ x \in LineIds(x.entry, j[x.entry])
           /\ x \in LinesOf(j) => x.line \in j[x.entry].lines
           /\ \A i : x \in LineIds(i, j[i]) => x.entry = i
BY DEF LinesOf, LineIds

LEMMA BankIs ==
    ASSUME NEW s
    PROVE  /\ HoldsBank(s) <=> HasBank(request[s])
           /\ SharesBank(s) <=> UsesBank(request[s])
           /\ Cleared = ClearedIn(statements)
BY DEF HoldsBank, HasBank, SharesBank, UsesBank, Wrote, HasBankLine, Cleared, ClearedIn

LEMMA StepBankInv ==
    ASSUME JournalInv, BankInv, NEW s \in Sessions, NEW r, Step(s, r), Banks(r, journal, statements),
           \A t \in Sessions : t # s => BankApart(r, request[t]) /\ BankApart(request[t], r)
    PROVE  BankInv'
<1>1. \A t \in Sessions : Banks(request'[t], journal', statements')
    BY StepIs DEF BankInv
<1>2. \A t, u \in Sessions : t # u => BankApart(request'[t], request'[u])
    BY StepIs DEF BankInv
<1>3. Chained(journal', statements')
    BY StepIs DEF BankInv
<1> QED
    BY <1>1, <1>2, <1>3 DEF BankInv

\* A request that is not about the bank.
Plain(r) == ~HasBank(r) /\ ~UsesBank(r) /\ ~Edits(r) /\ r.clears = {}

LEMMA PlainBankInv ==
    ASSUME JournalInv, BankInv, NEW s \in Sessions, NEW r, Step(s, r), Plain(r)
    PROVE  BankInv'
<1>1. \A q : BankApart(r, q) /\ BankApart(q, r)
    BY DEF BankApart, Plain
<1>2. Banks(r, journal, statements)
    BY DEF Banks, Plain, HasBank
<1> QED
    BY <1>1, <1>2, StepBankInv

LEMMA IdleBankInv ==
    ASSUME JournalInv, BankInv, NEW s \in Sessions, Step(s, Idle)
    PROVE  BankInv'
<1>1. Plain(Idle)
    BY DEF Plain, Idle, HasBank, UsesBank, Edits
<1> QED
    BY <1>1, PlainBankInv

\* New lines of the bank account are not inserted under a reconciliation.
LEMMA InsertApart ==
    ASSUME NEW s \in Sessions, NEW r, r.pc = "written", r.at # None, r.new # None, r.clears = {},
           MayInsert(s, r.new.lines), NEW t \in Sessions, t # s
    PROVE  /\ BankApart(request[t], r)
           /\ (\A x \in request[t].clears : Edits(r) => x.entry # r.entry) => BankApart(r, request[t])
<1>1. HasBankLine(r.new) => ~HasBank(request[t])
    BY BankIs DEF MayInsert, Others, HasBankLine
<1>2. ~HasBank(r)
    BY DEF HasBank
<1> QED
    BY <1>1, <1>2 DEF BankApart, UsesBank

LEMMA PostBankKeeps ==
    ASSUME Parameters, JournalInv, BankInv, NEW s \in Sessions, Post(s)
    PROVE  BankInv'
<1>1. PICK r : /\ Step(s, r) /\ Shaped(r) /\ MayInsert(s, r.new.lines)
               /\ r.pc = "written" /\ r.entry = None /\ r.at \in Fresh /\ r.at # None
               /\ r.new # None /\ r.new.reverses = None
    BY PostLeaves
<1>2. r.clears = {} /\ ~Edits(r)
    BY <1>1 DEF Shaped, Edits
<1>3. Banks(r, journal, statements)
    BY <1>1, <1>2 DEF Banks
<1>4. \A t \in Sessions : t # s => BankApart(r, request[t]) /\ BankApart(request[t], r)
    BY <1>1, <1>2, InsertApart
<1> QED
    BY <1>1, <1>3, <1>4, StepBankInv

LEMMA DeleteLinesBankKeeps ==
    ASSUME Parameters, JournalInv, BankInv, NEW s \in Sessions, DeleteLines(s)
    PROVE  BankInv'
<1>1. PICK r : /\ Step(s, r) /\ Shaped(r) /\ r.pc = "deleted" /\ r.entry \in Ids
               /\ IsExpense(r.entry) /\ EntryFree(s, r.entry)
               /\ LineIds(r.entry, journal[r.entry]) \cap Cleared = {}
    BY DeleteLinesLeaves
<1>2. r.clears = {} /\ ~HasBank(r) /\ ~UsesBank(r)
    BY <1>1 DEF Shaped, HasBank, UsesBank
<1>3. Banks(r, journal, statements)
    BY <1>1, BankIs DEF Banks
<1>4. ASSUME NEW t \in Sessions, t # s
      PROVE  BankApart(r, request[t]) /\ BankApart(request[t], r)
    <2>1. ~HoldsLines(t, r.entry)
        BY <1>1, <1>4 DEF EntryFree, Others
    <2>2. \A x \in request[t].clears : x.entry # r.entry
        BY <2>1 DEF HoldsLines, Wrote, JournalInv, Shaped
    <2> QED
        BY <1>2, <2>2 DEF BankApart
<1> QED
    BY <1>1, <1>3, <1>4, StepBankInv

\* An edit goes on with the entry whose lines it deleted.
LEMMA EditBankKeeps ==
    ASSUME Parameters, JournalInv, BankInv, NEW s \in Sessions, request[s].pc = "deleted",
           NEW r, Step(s, r), Shaped(r), r.pc = "written", r.entry = request[s].entry, r.at = r.entry,
           r.entry \in Ids, r.new = None \/ MayInsert(s, r.new.lines)
    PROVE  BankInv'
<1>1. r.at # None
    BY DEF Ids, Parameters
<1>2. r.clears = {} /\ ~HasBank(r) /\ Edits(r) /\ Edits(request[s])
    BY <1>1 DEF Shaped, HasBank, Edits
<1>3. Banks(r, journal, statements)
    BY <1>1, <1>2 DEF Banks, BankInv
<1>4. ASSUME NEW t \in Sessions, t # s
      PROVE  BankApart(r, request[t]) /\ BankApart(request[t], r)
    <2>1. \A x \in request[t].clears : x.entry # r.entry
        BY <1>2, <1>4 DEF BankInv, BankApart
    <2>2. CASE r.new = None
        BY <1>2, <2>1, <2>2 DEF BankApart, UsesBank
    <2>3. CASE r.new # None
        BY <1>1, <1>2, <1>4, <2>1, <2>3, InsertApart
    <2> QED
        BY <2>2, <2>3
<1> QED
    BY <1>3, <1>4, StepBankInv

LEMMA RewriteBankKeeps ==
    ASSUME Parameters, JournalInv, EntryInv, BankInv, NEW s \in Sessions, Rewrite(s)
    PROVE  BankInv'
<1>1. request[s].pc = "deleted"
    BY DEF Rewrite
<1>2. IsExpense(request[s].entry)
    BY <1>1, InJournal DEF EntryInv, Held
<1>3. PICK r : /\ Step(s, r) /\ Shaped(r) /\ r.pc = "written" /\ r.entry = request[s].entry /\ r.at = r.entry
               /\ r.entry \in Ids /\ MayInsert(s, r.new.lines)
    BY <1>2, RewriteLeaves
<1> QED
    BY <1>1, <1>3, EditBankKeeps

LEMMA RemoveBankKeeps ==
    ASSUME Parameters, JournalInv, BankInv, NEW s \in Sessions, Remove(s)
    PROVE  BankInv'
<1>1. request[s].pc = "deleted" /\ request[s].entry \in Ids
    BY RemoveLeaves
<1>2. CASE Step(s, Idle)
    BY <1>2, IdleBankInv
<1>3. CASE ~Step(s, Idle)
    <2>1. PICK r : /\ Step(s, r) /\ Shaped(r) /\ r.pc = "written" /\ r.entry = request[s].entry
                   /\ r.at = r.entry /\ r.new = None
        BY <1>3, RemoveLeaves
    <2> QED
        BY <1>1, <2>1, EditBankKeeps
<1> QED
    BY <1>2, <1>3

LEMMA LockEntryBankKeeps ==
    ASSUME Parameters, JournalInv, BankInv, NEW s \in Sessions, LockEntry(s)
    PROVE  BankInv'
<1>1. PICK r : Step(s, r) /\ Shaped(r) /\ r.pc = "reversing"
    BY LockEntryLeaves
<1>2. Plain(r)
    BY <1>1 DEF Shaped, Plain, HasBank, UsesBank, Edits
<1> QED
    BY <1>1, <1>2, PlainBankInv

LEMMA ReverseBankKeeps ==
    ASSUME Parameters, JournalInv, EntryInv, BankInv, NEW s \in Sessions, Reverse(s)
    PROVE  BankInv'
<1>1. request[s].pc = "reversing" /\ request[s].entry \in Ids
    BY ReverseLeaves
<1>2. journal[request[s].entry] # None
    BY <1>1 DEF EntryInv, Held
<1>3. CASE Step(s, Idle)
    BY <1>3, IdleBankInv
<1>4. CASE ~Step(s, Idle)
    <2>1. PICK r : /\ Step(s, r) /\ Shaped(r) /\ MayInsert(s, r.new.lines)
                   /\ r.pc = "written" /\ r.entry = request[s].entry
                   /\ r.at \in Fresh /\ r.at # None /\ r.new # None
        BY <1>4, ReverseLeaves
    <2>2. r.clears = {} /\ ~Edits(r)
        BY <1>2, <2>1, FreshIs DEF Shaped, Edits
    <2>3. Banks(r, journal, statements)
        BY <2>1, <2>2 DEF Banks
    <2>4. \A t \in Sessions : t # s => BankApart(r, request[t]) /\ BankApart(request[t], r)
        BY <2>1, <2>2, InsertApart
    <2> QED
        BY <2>1, <2>3, <2>4, StepBankInv
<1> QED
    BY <1>3, <1>4

LEMMA LockBankBankKeeps ==
    ASSUME Parameters, JournalInv, BankInv, NEW s \in Sessions, LockBank(s)
    PROVE  BankInv'
<1>1. PICK r : /\ Step(s, r) /\ Shaped(r) /\ r.pc = "reconciling" /\ BankFree(s) /\ r.on.journal = journal
    BY LockBankLeaves
<1>2. r.clears = {} /\ ~Edits(r) /\ ~UsesBank(r)
    BY <1>1 DEF Shaped, Edits, UsesBank
<1>3. Banks(r, journal, statements)
    BY <1>1, <1>2 DEF Banks
<1>4. \A t \in Sessions : t # s => ~HasBank(request[t]) /\ ~UsesBank(request[t])
    BY <1>1, BankIs DEF BankFree, Others
<1>5. \A t \in Sessions : t # s => BankApart(r, request[t]) /\ BankApart(request[t], r)
    BY <1>2, <1>4 DEF BankApart
<1> QED
    BY <1>1, <1>3, <1>5, StepBankInv

LEMMA ReconcileBankKeeps ==
    ASSUME Parameters, JournalInv, EntryInv, BankInv, NEW s \in Sessions, Reconcile(s)
    PROVE  BankInv'
<1> DEFINE q == request[s]
           j == q.on.journal
<1>1. q.pc = "reconciling" /\ Entries(j)
    BY ReconcileLeaves
<1>2. CASE Step(s, Idle)
    BY <1>2, IdleBankInv
<1>3. CASE ~Step(s, Idle)
    <2>1. PICK r : /\ Step(s, r) /\ Shaped(r) /\ r.pc = "written" /\ r.at = None /\ r.entry = None
                   /\ r.on \in Statement /\ r.clears = r.on.cleared
                   /\ r.on.opening \in MayOpen
                   /\ statements # <<>> => Previous.day < r.on.day
                   /\ r.on.closing = r.on.opening + Amount(r.clears)
                   /\ r.clears \subseteq LinesOf(journal)
                   /\ r.clears \subseteq Candidates(j, r.on.day)
                   /\ \A x \in r.clears, t \in Others(s) : ~HoldsEntry(t, x.entry)
        BY <1>3, ReconcileLeaves
    <2> HIDE DEF j, q
    <2>2. ~Edits(r)
        BY <2>1 DEF Edits
    <2>3. ASSUME NEW x \in r.clears
          PROVE  /\ x \in BankLines(journal) /\ x \notin Cleared /\ x.entry \in Ids
                 /\ journal[x.entry].day <= r.on.day
        <3>1. x \in LinesOf(journal) /\ x \in BankLines(j) /\ j[x.entry].day <= r.on.day /\ x \notin Cleared
            BY <2>1 DEF Candidates
        <3>2. x.line.account = "BANK"
            BY <3>1 DEF BankLines
        <3>3. x.entry \in Ids /\ journal[x.entry] # None /\ x.line \in journal[x.entry].lines
            BY <3>1, KeyIs
        <3>4. journal[x.entry] = j[x.entry]
            BY <1>1, <3>2, <3>3 DEF BankInv, Banks, HasBankLine, j, q
        <3> QED
            BY <3>1, <3>2, <3>3, <3>4 DEF BankLines
    <2>4. statements # <<>> => r.on.opening = statements[Len(statements)].closing
                               /\ statements[Len(statements)].day < r.on.day
        BY <2>1 DEF MayOpen, Previous
    <2>5. Banks(r, journal, statements)
        BY <2>1, <2>2, <2>3, <2>4, BankIs DEF Banks
    <2>6. ASSUME NEW t \in Sessions, t # s
          PROVE  BankApart(r, request[t]) /\ BankApart(request[t], r)
        <3>1. BankApart(q, request[t]) /\ BankApart(request[t], q)
            BY <2>6 DEF BankInv, q
        <3>2. ~HasBank(request[t]) /\ ~UsesBank(request[t])
            BY <1>1, <3>1 DEF BankApart, HasBank
        <3>3. Edits(request[t]) => request[t].pc \in {"deleted", "written"}
            BY DEF Edits
        <3>4. \A x \in r.clears : Edits(request[t]) => x.entry # request[t].entry
            BY <2>1, <2>3, <2>6, <3>3 DEF HoldsEntry, Others
        <3> QED
            BY <2>2, <3>2, <3>4 DEF BankApart
    <2> QED
        BY <2>1, <2>5, <2>6, StepBankInv
<1> QED
    BY <1>2, <1>3

\* A committed entry leaves the bank lines alone that are cleared or being cleared.
LEMMA CommitEntryBankKeeps ==
    ASSUME Parameters, JournalInv, EntryInv, BankInv, NEW s \in Sessions, Commit(s), request[s].at # None
    PROVE  BankInv'
<1> DEFINE q == request[s]
           k == q.at
           j == journal
           h == journal'
           st == statements
<1>1. /\ q.pc = "written" /\ k \in Ids /\ q.at # None
      /\ h = [j EXCEPT ![k] = q.new] /\ statements' = st
      /\ request' = [request EXCEPT ![s] = Idle]
    BY DEF Commit, Wrote, JournalInv, Shaped, Request
<1>2. /\ h[k] = q.new /\ \A i \in Ids \ {k} : h[i] = j[i]
      /\ request'[s] = Idle /\ \A t \in Sessions \ {s} : request'[t] = request[t]
    BY <1>1 DEF JournalInv, Entries, Journals
<1>3. Posting(q, j) \/ Editing(q, j) \/ Reverting(q, j)
    BY <1>1 DEF EntryInv, Held
<1>4. Chained(j, st) /\ Banks(q, j, st)
    BY DEF BankInv
<1> HIDE DEF j, h, q, k, st
<1>5. j[k] = None \/ (Edits(q) /\ q.entry = k)
    BY <1>1, <1>3 DEF Posting, Editing, Reverting, Edits, k
\* Such a key stays a key of the bank account.
<1> DEFINE Stays(x) == x \in BankLines(h) /\ h[x.entry] = j[x.entry]
<1>6. ASSUME NEW x, x \in BankLines(j), x.entry # k
      PROVE  Stays(x)
    <2>1. x \in LinesOf(j) /\ x.line.account = "BANK"
        BY <1>6 DEF BankLines
    <2>2. x.entry \in Ids /\ j[x.entry] # None /\ x \in LineIds(x.entry, j[x.entry])
        BY <2>1, KeyIs
    <2>3. h[x.entry] = j[x.entry]
        BY <1>2, <1>6, <2>2
    <2>4. x \in LinesOf(h)
        BY <2>2, <2>3, KeyIs
    <2> QED
        BY <2>1, <2>3, <2>4 DEF BankLines
<1>7. \A x \in BankLines(j) : j[x.entry] # None /\ x \in LineIds(x.entry, j[x.entry])
    BY KeyIs DEF BankLines
<1>8. ASSUME NEW x \in ClearedIn(st) PROVE x \in BankLines(j) /\ x.entry # k
    <2>1. x \in BankLines(j)
        BY <1>4 DEF ClearedIn, Chained
    <2>2. x.entry = k => x \in LineIds(k, j[k]) /\ j[k] # None
        BY <1>7, <2>1
    <2>3. Edits(q) /\ q.entry = k => x \notin LineIds(k, j[k])
        BY <1>4 DEF Banks
    <2> QED
        BY <1>5, <2>1, <2>2, <2>3
<1>9. Chained(h, st)
    <2>1. \A n \in DOMAIN st : \A x \in st[n].cleared : Stays(x)
        BY <1>6, <1>8 DEF ClearedIn
    <2> QED
        BY <1>4, <2>1 DEF Chained
<1>10. ASSUME NEW t \in Sessions, t # s
       PROVE  Banks(request[t], h, st)
    <2> DEFINE p == request[t]
    <2>1. Apart(q, p) /\ Held(p, j) /\ BankApart(q, p) /\ BankApart(p, q) /\ Banks(p, j, st) /\ Shaped(p)
        BY <1>10 DEF EntryInv, BankInv, JournalInv, q, j, st
    <2>2. Edits(p) => h[p.entry] = j[p.entry]
        <3> SUFFICES ASSUME Edits(p) PROVE h[p.entry] = j[p.entry]
            OBVIOUS
        <3>1. p.entry \in Ids /\ p.pc \in {"deleted", "written"}
            BY <2>1 DEF Edits, Shaped, Request
        <3>2. j[p.entry] # None
            <4>1. CASE p.pc = "deleted"
                BY <2>1, <4>1 DEF Held, ExpenseIn
            <4>2. CASE p.pc = "written"
                <5>1. p.at # None /\ p.entry = p.at /\ p.at # None
                    BY <4>2 DEF Edits
                <5>2. Posting(p, j) \/ Editing(p, j) \/ Reverting(p, j)
                    BY <2>1, <4>2, <5>1 DEF Held
                <5> QED
                    BY <5>1, <5>2 DEF Posting, Editing, Reverting, ExpenseIn
            <4> QED
                BY <3>1, <4>1, <4>2
        <3>3. Holds(p) /\ (Edits(q) /\ q.entry = k => Holds(q))
            BY <1>1, <3>1 DEF Holds
        <3>4. p.entry # k
            BY <1>5, <2>1, <3>2, <3>3 DEF Apart
        <3> QED
            BY <1>2, <3>1, <3>4
    <2>3. p.pc = "reconciling" =>
             \A i \in Ids : h[i] # None /\ HasBankLine(h[i]) => h[i] = p.on.journal[i]
        <3> SUFFICES ASSUME p.pc = "reconciling", NEW i \in Ids, h[i] # None, HasBankLine(h[i])
                     PROVE  h[i] = p.on.journal[i]
            OBVIOUS
        <3>1. i # k
            BY <1>1, <1>2, <2>1 DEF BankApart, HasBank, UsesBank
        <3> QED
            BY <1>2, <2>1, <3>1 DEF Banks
    <2>4. p.pc = "written" /\ p.at = None => \A x \in p.on.cleared : Stays(x)
        <3> SUFFICES ASSUME p.pc = "written", p.at = None, NEW x \in p.on.cleared
                     PROVE  Stays(x)
            OBVIOUS
        <3>1. x \in BankLines(j) /\ x \in p.clears
            BY <2>1 DEF Banks
        <3>2. x.entry = k => j[k] # None
            BY <1>7, <3>1
        <3>3. x.entry # k
            BY <1>5, <2>1, <3>1, <3>2 DEF BankApart
        <3> QED
            BY <1>6, <3>1, <3>3
    <2> HIDE DEF p
    <2>5. Banks(p, h, st)
        BY <2>1, <2>2, <2>3, <2>4 DEF Banks
    <2> QED
        BY <2>5 DEF p
<1>11. /\ Banks(Idle, h, st) /\ \A p : BankApart(Idle, p) /\ (Shaped(p) => BankApart(p, Idle))
    BY DEF Banks, Edits, Idle, BankApart, HasBank, UsesBank
<1>12. \A t \in Sessions : Banks(request'[t], h, st)
    BY <1>2, <1>10, <1>11
<1>13. \A t, u \in Sessions : t # u => BankApart(request'[t], request'[u])
    BY <1>2, <1>11 DEF BankInv, JournalInv
<1> QED
    BY <1>1, <1>9, <1>12, <1>13 DEF BankInv, h, st

LEMMA AmountOf ==
    ASSUME NEW keys, IsFiniteSet(keys), keys \subseteq LineKeys,
           NEW f, \A x \in keys : f[x] = x.line.debit - x.line.credit
    PROVE  /\ Amount(keys) = SumFunctionOnSet(f, keys) /\ Amount(keys) \in Int
           /\ \A x \in keys : f[x] \in Int
<1> DEFINE g == [x \in keys |-> x.line.debit - x.line.credit]
<1>1. \A x \in keys : f[x] \in Int /\ g[x] = f[x]
    BY DEF LineKeys, Line
<1>2. Amount(keys) = SumFunctionOnSet(g, keys)
    BY DEF Amount, SumFunction
<1> HIDE DEF g
<1>3. SumFunctionOnSet(f, keys) = SumFunctionOnSet(g, keys)
    BY <1>1, SumSame
<1>4. SumFunctionOnSet(f, keys) \in Int
    BY <1>1, SumInt
<1> QED
    BY <1>1, <1>2, <1>3, <1>4

LEMMA AmountSplit ==
    ASSUME NEW keys, IsFiniteSet(keys), keys \subseteq LineKeys, NEW some, some \subseteq keys
    PROVE  /\ Amount(keys) = Amount(some) + Amount(keys \ some)
           /\ Amount(some) \in Int /\ Amount(keys \ some) \in Int
<1> DEFINE f == [x \in keys |-> x.line.debit - x.line.credit]
           rest == keys \ some
<1>1. IsFiniteSet(some) /\ IsFiniteSet(rest) /\ some \subseteq LineKeys /\ rest \subseteq LineKeys
    BY FS_Subset
<1>2. /\ \A x \in keys : f[x] = x.line.debit - x.line.credit
      /\ \A x \in some : f[x] = x.line.debit - x.line.credit
      /\ \A x \in rest : f[x] = x.line.debit - x.line.credit
    OBVIOUS
<1> HIDE DEF f
<1>3. SumFunctionOnSet(f, keys) = SumFunctionOnSet(f, some) + SumFunctionOnSet(f, keys \ some)
    <2>1. \A x \in keys : f[x] \in Int
        BY <1>2, AmountOf
    <2> QED
        BY <2>1, SumSplit
<1>4. Amount(keys) = SumFunctionOnSet(f, keys)
    BY <1>2, AmountOf
<1>5. Amount(some) = SumFunctionOnSet(f, some) /\ Amount(some) \in Int
    BY <1>1, <1>2, AmountOf
<1> HIDE DEF rest
<1>6. Amount(rest) = SumFunctionOnSet(f, rest) /\ Amount(rest) \in Int
    BY <1>1, <1>2, AmountOf
<1> QED
    BY <1>3, <1>4, <1>5, <1>6 DEF rest

LEMMA CommitStatementBankKeeps ==
    ASSUME Parameters, JournalInv, EntryInv, BankInv, NEW s \in Sessions, Commit(s), request[s].at = None
    PROVE  BankInv'
<1> DEFINE q == request[s]
           j == journal
           st == statements
           on == q.on
           all == Append(st, on)
<1>1. /\ journal' = j /\ on \in Statement /\ statements' = all
      /\ request'[s] = Idle /\ \A t \in Sessions \ {s} : request'[t] = request[t]
    BY CommitStatementKeeps
<1>2. /\ Chained(j, st) /\ Banks(q, j, st) /\ q.pc = "written" /\ q.at = None
      /\ st \in Seq(Statement) /\ Entries(j)
    BY DEF BankInv, Commit, Wrote, JournalInv
<1> HIDE DEF q, j, st, on
<1> DEFINE n == Len(st)
<1>3. /\ n \in Nat /\ DOMAIN st = 1 .. n /\ DOMAIN all = 1 .. n + 1 /\ Len(all) = n + 1
      /\ all[n + 1] = on /\ \A m \in 1 .. n : all[m] = st[m]
      /\ all # <<>> /\ (st # <<>> <=> n > 0)
    BY <1>1, <1>2
<1> HIDE DEF n, all
<1>4. /\ q.clears = on.cleared /\ on.closing = on.opening + Amount(on.cleared)
      /\ n > 0 => on.opening = st[n].closing /\ st[n].day < on.day
      /\ on.cleared \subseteq BankLines(j)
      /\ \A x \in on.cleared : j[x.entry].day <= on.day
      /\ on.cleared \cap ClearedIn(st) = {}
    BY <1>2, <1>3 DEF Banks, on, n
<1>5. ClearedIn(all) = ClearedIn(st) \cup on.cleared
    <2>1. \A x : x \in ClearedIn(all) <=> \E m \in 1 .. n + 1 : x \in all[m].cleared
        BY <1>3 DEF ClearedIn
    <2>2. \A x : x \in ClearedIn(st) <=> \E m \in 1 .. n : x \in st[m].cleared
        BY <1>3 DEF ClearedIn
    <2>3. \A m \in 1 .. n + 1 : m \in 1 .. n \/ m = n + 1
        BY <1>3
    <2>4. n + 1 \in 1 .. n + 1 /\ \A m \in 1 .. n : m \in 1 .. n + 1
        BY <1>3
    <2> QED
        BY <1>3, <2>1, <2>2, <2>3, <2>4
<1>6. \A m \in 1 .. n : st[m] \in Statement /\ st[m].day \in Nat /\ st[m].opening \in Int /\ st[m].closing \in Int
    <2>1. \A m \in 1 .. n : st[m] \in Statement
        BY <1>2, <1>3
    <2> QED
        BY <2>1 DEF Statement, Days
<1>7. on.day \in Nat /\ on.opening \in Int /\ on.closing \in Int
    BY <1>1 DEF Statement, Days
<1>8. ClearedIn(st) \subseteq BankLines(j)
    BY <1>2 DEF ClearedIn, Chained
<1>9. Chained(j, all)
    <2>1. ASSUME NEW m \in 1 .. n + 1
          PROVE  /\ m > 1 => all[m].opening = all[m - 1].closing
                 /\ all[m].closing = all[m].opening + Amount(all[m].cleared)
                 /\ all[m].cleared \subseteq BankLines(j)
                 /\ \A x \in all[m].cleared : j[x.entry].day <= all[m].day
                 /\ \A i \in 1 .. m - 1 : all[i].cleared \cap all[m].cleared = {} /\ all[i].day < all[m].day
        <3>1. CASE m \in 1 .. n
            <4>1. (m > 1 => m - 1 \in 1 .. n) /\ \A i \in 1 .. m - 1 : i \in 1 .. n
                BY <1>3, <3>1
            <4> QED
                BY <1>2, <1>3, <3>1, <4>1 DEF Chained
        <3>2. CASE m = n + 1
            <4>1. m - 1 = n /\ (m > 1 => n > 0 /\ n \in 1 .. n)
                BY <1>3, <3>2
            <4>2. m > 1 => all[m].opening = all[m - 1].closing
                BY <1>3, <1>4, <3>2, <4>1
            <4>3. ASSUME NEW i \in 1 .. n PROVE st[i].cleared \cap on.cleared = {} /\ st[i].day < on.day
                <5>1. st[i].cleared \subseteq ClearedIn(st)
                    BY <1>3, <4>3 DEF ClearedIn
                <5>2. n > 0 /\ n \in 1 .. n /\ (i = n \/ i \in 1 .. n - 1)
                    BY <1>3, <4>3
                <5>3. i = n \/ st[i].day < st[n].day
                    BY <1>2, <1>3, <5>2 DEF Chained
                <5>4. st[i].day < on.day
                    BY <1>4, <1>6, <1>7, <5>2, <5>3
                <5> QED
                    BY <1>4, <5>1, <5>4
            <4> QED
                BY <1>3, <1>4, <3>2, <4>1, <4>2, <4>3
        <3> QED
            BY <1>3, <3>1, <3>2
    <2>2. Amount(ClearedIn(all)) = on.closing - all[1].opening
        <3> DEFINE keys == ClearedIn(all)
                   old == ClearedIn(st)
                   new == on.cleared
        <3>1. keys \subseteq BankLines(j) /\ keys \ old = new /\ old \subseteq keys
            BY <1>4, <1>5, <1>8
        <3>2. IsFiniteSet(keys) /\ keys \subseteq LineKeys
            BY <1>2, <3>1, LinesKept, FS_Subset
        <3> HIDE DEF keys, old, new
        <3>3. Amount(keys) = Amount(old) + Amount(new) /\ Amount(old) \in Int /\ Amount(new) \in Int
            BY <3>1, <3>2, AmountSplit
        <3>4. CASE n = 0
            <4>1. old = {}
                BY <1>3, <3>4 DEF old, ClearedIn
            <4>2. Amount({}) = 0
                <5> DEFINE f == [x \in {} |-> x.line.debit - x.line.credit]
                <5>1. Amount({}) = SumFunctionOnSet(f, {})
                    BY DEF Amount, SumFunction
                <5> QED
                    BY <5>1, SumEmpty
            <4>3. all[1] = on
                BY <1>3, <3>4
            <4> QED
                BY <1>4, <1>7, <3>3, <4>1, <4>2, <4>3 DEF keys, new
        <3>5. CASE n > 0
            <4>1. 1 \in 1 .. n /\ n \in 1 .. n
                BY <1>3, <3>5
            <4>2. Amount(old) = st[n].closing - st[1].opening
                BY <1>2, <1>3, <3>5 DEF Chained, old, n
            <4>3. all[1] = st[1] /\ st[1].opening \in Int /\ st[n].closing \in Int
                BY <1>3, <1>6, <4>1
            <4>4. on.closing = st[n].closing + Amount(new)
                BY <1>4, <3>5 DEF new
            <4> QED
                BY <3>3, <4>2, <4>3, <4>4 DEF keys
        <3> QED
            BY <1>3, <3>4, <3>5
    <2> QED
        BY <1>3, <2>1, <2>2 DEF Chained
<1>10. ASSUME NEW t \in Sessions, t # s
       PROVE  Banks(request[t], j, all)
    <2> DEFINE p == request[t]
    <2>1. BankApart(q, p) /\ BankApart(p, q) /\ Banks(p, j, st) /\ Shaped(p)
        BY <1>10 DEF BankInv, JournalInv, q, j, st
    <2>2. ~HasBank(p)
        BY <1>2, <2>1 DEF BankApart, HasBank
    <2>3. Edits(p) => LineIds(p.entry, j[p.entry]) \cap ClearedIn(all) = {}
        <3> SUFFICES ASSUME Edits(p) PROVE LineIds(p.entry, j[p.entry]) \cap ClearedIn(all) = {}
            OBVIOUS
        <3>1. LineIds(p.entry, j[p.entry]) \cap ClearedIn(st) = {}
            BY <2>1 DEF Banks
        <3>2. \A x \in on.cleared : x.entry # p.entry
            BY <1>4, <2>1 DEF BankApart
        <3>3. \A x \in LineIds(p.entry, j[p.entry]) : x.entry = p.entry
            BY KeyIs
        <3> QED
            BY <1>5, <3>1, <3>2, <3>3
    <2> HIDE DEF p
    <2>4. Banks(p, j, all)
        BY <2>2, <2>3 DEF Banks, HasBank
    <2> QED
        BY <2>4 DEF p
<1>11. /\ Banks(Idle, j, all) /\ \A p : BankApart(Idle, p) /\ BankApart(p, Idle)
    BY DEF Banks, Edits, Idle, BankApart, HasBank, UsesBank
<1>12. \A t \in Sessions : Banks(request'[t], j, all)
    BY <1>1, <1>10, <1>11
<1>13. \A t, u \in Sessions : t # u => BankApart(request'[t], request'[u])
    BY <1>1, <1>11 DEF BankInv
<1> QED
    BY <1>1, <1>9, <1>12, <1>13 DEF BankInv

LEMMA NextBankKeeps ==
    ASSUME Parameters, JournalInv, EntryInv, BankInv, Next
    PROVE  BankInv'
<1> SUFFICES ASSUME NEW s \in Sessions,
                    \/ Post(s) \/ DeleteLines(s) \/ Rewrite(s) \/ Remove(s)
                    \/ LockEntry(s) \/ Reverse(s) \/ LockBank(s) \/ Reconcile(s)
                    \/ Commit(s) \/ Fail(s)
             PROVE  BankInv'
    BY DEF Next
<1>1. CASE Post(s)
    BY <1>1, PostBankKeeps
<1>2. CASE DeleteLines(s)
    BY <1>2, DeleteLinesBankKeeps
<1>3. CASE Rewrite(s)
    BY <1>3, RewriteBankKeeps
<1>4. CASE Remove(s)
    BY <1>4, RemoveBankKeeps
<1>5. CASE LockEntry(s)
    BY <1>5, LockEntryBankKeeps
<1>6. CASE Reverse(s)
    BY <1>6, ReverseBankKeeps
<1>7. CASE LockBank(s)
    BY <1>7, LockBankBankKeeps
<1>8. CASE Reconcile(s)
    BY <1>8, ReconcileBankKeeps
<1>9. CASE Commit(s)
    BY <1>9, CommitEntryBankKeeps, CommitStatementBankKeeps
<1>10. CASE Fail(s)
    BY <1>10, IdleBankInv DEF Fail, Rollback
<1> QED
    BY <1>1, <1>2, <1>3, <1>4, <1>5, <1>6, <1>7, <1>8, <1>9, <1>10

LedgerInv == JournalInv /\ EntryInv /\ BankInv

LEMMA InitLedger == ASSUME Parameters, Init PROVE LedgerInv
<1>1. BankInv
    BY DEF Init, BankInv, Chained, Banks, BankApart, HasBank, UsesBank, Edits, Idle
<1> QED
    BY <1>1, InitKept DEF LedgerInv

LEMMA NextLedger == ASSUME Parameters, LedgerInv, [Next]_vars PROVE LedgerInv'
<1>1. Next => LedgerInv'
    BY NextKeeps, NextBankKeeps DEF LedgerInv
<1>2. UNCHANGED vars => LedgerInv'
    BY StutterKeeps DEF LedgerInv, BankInv, vars
<1> QED
    BY <1>1, <1>2

LEMMA LedgerKept == Parameters /\ Spec => []LedgerInv
<1> SUFFICES ASSUME Parameters PROVE Spec => []LedgerInv
    OBVIOUS
<1>1. Init => LedgerInv
    BY InitLedger
<1>2. LedgerInv /\ [Next]_vars => LedgerInv'
    BY NextLedger
<1> QED
    BY <1>1, <1>2, PTL DEF Spec

-----------------------------------------------------------------------------
(* The statements and the ledger.                                           *)

\* The bank lines dated up to a day are worth what the ledger says.
LEMMA BankOfLedger ==
    ASSUME Parameters, NEW j, Entries(j), NEW day \in Days
    PROVE  Amount({x \in BankLines(j) : j[x.entry].day <= day}) = NetDebit(AsOf(j, day), "BANK")
<1> DEFINE used == {i \in Ids : j[i] # None /\ j[i].day <= day}
           keys(i) == {x \in LineIds(i, j[i]) : x.line.account = "BANK"}
           h == [i \in used |-> keys(i)]
           D == {x \in BankLines(j) : j[x.entry].day <= day}
           f == [x \in D |-> x.line.debit - x.line.credit]
           g == [i \in used |-> Movement(j[i].lines, "BANK")]
           e == [i \in used |-> j[i]]
           book == AsOf(j, day)
           w == [b \in book |-> Movement(b.lines, "BANK")]
<1>1. IsFiniteSet(used)
    BY FiniteIds, FS_Subset
<1>2. IsFiniteSet(D) /\ D \subseteq LineKeys
    BY LinesKept, FS_Subset
<1>3. D = UNION {h[i] : i \in used}
    <2>1. \A x : x \in D <=> /\ x \in LinesOf(j) /\ x.line.account = "BANK" /\ j[x.entry].day <= day
        BY DEF BankLines
    <2>2. \A x : x \in UNION {h[i] : i \in used} <=> \E i \in used : x \in LineIds(i, j[i]) /\ x.line.account = "BANK"
        <3>1. \A i \in used : h[i] = {x \in LineIds(i, j[i]) : x.line.account = "BANK"}
            OBVIOUS
        <3> HIDE DEF h, used, D
        <3> QED
            BY <3>1
    <2>3. \A x : x \in D => \E i \in used : x \in LineIds(i, j[i]) /\ x.line.account = "BANK"
        BY <2>1, KeyIs
    <2>4. \A x : (\E i \in used : x \in LineIds(i, j[i]) /\ x.line.account = "BANK") => x \in D
        BY <2>1, KeyIs
    <2> HIDE DEF D, h
    <2> QED
        BY <2>2, <2>3, <2>4
<1>4. \A x \in D : f[x] = x.line.debit - x.line.credit
    OBVIOUS
<1>5. \A a, b \in used : a # b => h[a] \cap h[b] = {}
    BY KeyIs
<1>6. \A i \in used : h[i] \subseteq D
    BY <1>3
<1>7. ASSUME NEW i \in used
      PROVE  IsFiniteSet(h[i]) /\ g[i] = SumFunctionOnSet(f, h[i])
    <2> DEFINE lines == j[i].lines
               some == {l \in lines : l.account = "BANK"}
               n == j[i].version
               key == [l \in some |-> [entry |-> i, version |-> n, line |-> l]]
               v == [l \in some |-> On("BANK")[l]]
               rest == lines \ some
    <2>1. IsFiniteSet(lines) /\ lines \subseteq Line
        BY FaithfulSound DEF Entries, Sound, Even
    <2>2. IsFiniteSet(some) /\ IsFiniteSet(rest) /\ some \subseteq lines
        BY <2>1, FS_Subset
    <2>3. h[i] = {key[l] : l \in some}
        <3>1. h[i] = {x \in LineIds(i, j[i]) : x.line.account = "BANK"}
            OBVIOUS
        <3>2. LineIds(i, j[i]) = {[entry |-> i, version |-> n, line |-> l] : l \in lines}
            BY DEF LineIds
        <3>3. \A l \in some : key[l] = [entry |-> i, version |-> n, line |-> l]
            OBVIOUS
        <3>4. \A x : x \in {key[l] : l \in some} <=> \E l \in some : x = [entry |-> i, version |-> n, line |-> l]
            <4> HIDE DEF key, some, n, lines
            <4>1. \A x : x \in {key[l] : l \in some} <=> \E l \in some : x = key[l]
                OBVIOUS
            <4>2. \A x : (\E l \in some : x = key[l])
                          <=> \E l \in some : x = [entry |-> i, version |-> n, line |-> l]
                BY <3>3
            <4> QED
                BY <4>1, <4>2
        <3>5. \A x : x \in h[i] <=> \E l \in lines : x = [entry |-> i, version |-> n, line |-> l] /\ l.account = "BANK"
            <4> HIDE DEF key, some, n, lines, h
            <4> QED
                BY <3>1, <3>2
        <3>6. \A x : x \in h[i] <=> x \in {key[l] : l \in some}
            <4> HIDE DEF key, n, lines, h
            <4> QED
                BY <3>4, <3>5
        <3> HIDE DEF key, some, h
        <3> QED
            BY <3>6
    <2>4. \A k, l \in some : key[k] = key[l] => k = l
        <3> SUFFICES ASSUME NEW k \in some, NEW l \in some, key[k] = key[l] PROVE k = l
            OBVIOUS
        <3>1. key[k].line = k /\ key[l].line = l
            OBVIOUS
        <3> QED
            BY <3>1
    <2>5. \A l \in some : f[key[l]] \in Int /\ v[l] = f[key[l]]
        <3> SUFFICES ASSUME NEW l \in some PROVE f[key[l]] \in Int /\ v[l] = f[key[l]]
            OBVIOUS
        <3>1. key[l] \in D
            BY <1>6, <2>3
        <3>2. key[l].line = l /\ l \in Line /\ l.account = "BANK"
            BY <2>1
        <3>3. f[key[l]] = l.debit - l.credit
            BY <3>1, <3>2
        <3>4. On("BANK")[l] = l.debit - l.credit
            BY <3>2 DEF On
        <3>5. v[l] = On("BANK")[l]
            OBVIOUS
        <3>6. l.debit \in Int /\ l.credit \in Int
            BY <3>2 DEF Line
        <3> HIDE DEF f, v, key
        <3> QED
            BY <3>3, <3>4, <3>5, <3>6
    <2>6. /\ \A l \in lines : On("BANK")[l] \in Int
          /\ \A l \in rest : On("BANK")[l] = 0
          /\ \A l \in some : On("BANK")[l] \in Int /\ v[l] = On("BANK")[l]
        BY <2>1 DEF On, Line
    <2>7. g[i] = Movement(lines, "BANK")
        OBVIOUS
    <2> HIDE DEF key, v, f, g, h, some, rest, lines
    <2>8. IsFiniteSet({key[l] : l \in some}) /\ SumFunctionOnSet(f, {key[l] : l \in some}) = SumFunctionOnSet(v, some)
        BY <2>2, <2>4, <2>5, SumImage
    <2>9. Movement(lines, "BANK") = SumFunctionOnSet(On("BANK"), lines)
        BY <2>1, MovementSum
    <2>10. SumFunctionOnSet(On("BANK"), lines)
              = SumFunctionOnSet(On("BANK"), some) + SumFunctionOnSet(On("BANK"), lines \ some)
        BY <2>1, <2>2, <2>6, SumSplit
    <2>11. SumFunctionOnSet(On("BANK"), lines \ some) = 0
        BY <2>2, <2>6, SumZero DEF rest
    <2>12. /\ SumFunctionOnSet(On("BANK"), some) = SumFunctionOnSet(v, some)
           /\ SumFunctionOnSet(On("BANK"), some) \in Int
        BY <2>2, <2>6, SumSame, SumInt
    <2> QED
        BY <2>3, <2>7, <2>8, <2>9, <2>10, <2>11, <2>12
<1>8. Amount(D) = SumFunctionOnSet(f, D) /\ \A x \in D : f[x] \in Int
    <2> HIDE DEF D, f
    <2> QED
        BY <1>2, <1>4, AmountOf
<1>9. SumFunctionOnSet(f, D) = SumFunctionOnSet(g, used)
    <2>1. \A i \in used : IsFiniteSet(h[i])
        BY <1>7
    <2>2. \A i \in used : g[i] = SumFunctionOnSet(f, h[i])
        BY <1>7
    <2>3. \A i \in used : \A x \in h[i] : f[x] \in Int
        BY <1>6, <1>8
    <2> HIDE DEF f, g, h, D, used
    <2>4. Parts(used, h, f, g)
        BY <1>5, <2>1, <2>2, <2>3 DEF Parts
    <2>5. SumFunctionOnSet(f, UNION {h[i] : i \in used}) = SumFunctionOnSet(g, used)
        BY <1>1, <2>4, SumUnion
    <2> QED
        BY <1>3, <2>5
<1>10. book = {e[i] : i \in used}
    BY DEF AsOf, Book
<1>11. \A a, b \in used : e[a] = e[b] => a = b
    BY DEF Entries
<1>12. Kept(book)
    BY BookKept DEF AsOf
<1>13. \A b \in book : w[b] = Movement(b.lines, "BANK")
    OBVIOUS
<1>14. \A i \in used : g[i] = w[e[i]]
    BY <1>10
<1> HIDE DEF f, g, h, D, used, e, book, w
<1>15. NetDebit(book, "BANK") = SumFunctionOnSet(w, book) /\ \A b \in book : w[b] \in Int
    BY <1>12, <1>13, NetDebitIs
<1>16. \A i \in used : w[e[i]] \in Int /\ g[i] = w[e[i]]
    BY <1>10, <1>14, <1>15
<1>17. /\ IsFiniteSet({e[i] : i \in used})
       /\ SumFunctionOnSet(w, {e[i] : i \in used}) = SumFunctionOnSet(g, used)
    BY <1>1, <1>11, <1>16, SumImage
<1>18. Amount(D) = NetDebit(book, "BANK")
    BY <1>8, <1>9, <1>10, <1>15, <1>17
<1> QED
    BY <1>18 DEF D, book

LEMMA BankBookOf ==
    ASSUME Parameters, LedgerInv
    PROVE  BankBookReconciles
<1> SUFFICES ASSUME statements # <<>>, NEW day \in Previous.day .. LastDay
             PROVE  Previous.closing - statements[1].opening + Amount(Candidates(journal, day))
                        = NetDebit(AsOf(journal, day), "BANK")
    BY DEF BankBookReconciles
<1> DEFINE D == {x \in BankLines(journal) : journal[x.entry].day <= day}
           n == Len(statements)
           all == ClearedIn(statements)
<1>1. /\ n \in Nat \ {0} /\ DOMAIN statements = 1 .. n
      /\ \A m \in 1 .. n : statements[m] \in Statement
      /\ Previous = statements[n]
    BY DEF LedgerInv, JournalInv, Previous
<1> HIDE DEF n
<1>2. \A m \in 1 .. n : statements[m].day \in Days /\ statements[m].opening \in Int /\ statements[m].closing \in Int
    BY <1>1 DEF Statement
<1>3. Previous.day \in Days /\ day \in Days
    <2>1. Previous.day \in Days
        BY <1>1, <1>2 DEF Previous
    <2> QED
        BY <2>1 DEF Days, Parameters
<1>4. Chained(journal, statements) /\ Entries(journal)
    BY DEF LedgerInv, BankInv, JournalInv
<1>5. all \subseteq D
    <2> SUFFICES ASSUME NEW m \in 1 .. n, NEW x \in statements[m].cleared
                 PROVE  x \in BankLines(journal) /\ journal[x.entry].day <= day
        BY <1>1 DEF ClearedIn
    <2>1. x \in BankLines(journal) /\ journal[x.entry].day <= statements[m].day
        BY <1>1, <1>4 DEF Chained
    <2>2. journal[x.entry].day \in Nat
        <3>1. x.entry \in Ids /\ journal[x.entry] # None
            BY <2>1, KeyIs DEF BankLines
        <3> QED
            BY <1>4, <3>1 DEF Entries, Faithful, Days
    <2>3. m = n \/ m \in 1 .. n - 1
        BY <1>1
    <2>4. statements[m].day <= Previous.day
        <3>1. n \in DOMAIN statements /\ \A i \in 1 .. n - 1 : statements[i].day < statements[n].day
            BY <1>1, <1>4 DEF Chained
        <3> QED
            BY <1>1, <1>2, <2>3, <3>1 DEF Days
    <2>5. statements[m].day \in Nat /\ Previous.day \in Nat /\ Previous.day <= day /\ day \in Nat
        BY <1>2, <1>3 DEF Days
    <2> QED
        BY <2>1, <2>2, <2>4, <2>5
<1>6. IsFiniteSet(D) /\ D \subseteq LineKeys
    BY <1>4, LinesKept, FS_Subset
<1>7. Candidates(journal, day) = D \ all
    BY BankIs DEF Candidates
<1>8. Amount(all) = Previous.closing - statements[1].opening
    BY <1>1, <1>4 DEF Chained, n
<1>9. Amount(D) = NetDebit(AsOf(journal, day), "BANK")
    BY <1>3, <1>4, BankOfLedger
<1>10. Previous.closing \in Int /\ statements[1].opening \in Int
    <2>1. 1 \in 1 .. n /\ n \in 1 .. n
        BY <1>1
    <2> QED
        BY <1>1, <1>2, <2>1
<1> HIDE DEF D, all
<1>11. Amount(D) = Amount(all) + Amount(D \ all) /\ Amount(all) \in Int /\ Amount(D \ all) \in Int
    BY <1>5, <1>6, AmountSplit
<1> QED
    BY <1>7, <1>8, <1>9, <1>10, <1>11

-----------------------------------------------------------------------------
(* The reports.                                                             *)

\* A sum over those entries of a set that count.
LEMMA SumWhere ==
    ASSUME NEW S, IsFiniteSet(S), NEW T, T \subseteq S, NEW f, \A x \in T : f[x] \in Int,
           NEW g, \A x \in S : g[x] = IF x \in T THEN f[x] ELSE 0
    PROVE  SumFunctionOnSet(g, S) = SumFunctionOnSet(f, T) /\ \A x \in S : g[x] \in Int
<1>1. \A x \in S : g[x] \in Int
    OBVIOUS
<1>2. IsFiniteSet(T) /\ IsFiniteSet(S \ T)
    BY FS_Subset
<1>3. SumFunctionOnSet(g, S) = SumFunctionOnSet(g, T) + SumFunctionOnSet(g, S \ T)
    BY <1>1, SumSplit
<1>4. SumFunctionOnSet(g, S \ T) = 0
    BY <1>2, SumZero
<1>5. SumFunctionOnSet(f, T) = SumFunctionOnSet(g, T) /\ SumFunctionOnSet(g, T) \in Int
    BY <1>1, <1>2, SumSame, SumInt
<1> QED
    BY <1>1, <1>3, <1>4, <1>5

LEMMA NetDebitsOne ==
    ASSUME NEW book, Kept(book), NEW a
    PROVE  NetDebits(book, {a}) = NetDebit(book, a)
<1> DEFINE A == {a}
           f == [x \in A |-> NetDebit(book, x)]
<1>1. \A x \in A : f[x] = NetDebit(book, x)
    OBVIOUS
<1>2. IsFiniteSet(A) /\ a \in A
    BY FS_Singleton
<1>3. f[a] = NetDebit(book, a) /\ f[a] \in Int
    BY <1>1, <1>2, NetDebitInt
<1> HIDE DEF f
<1>4. SumFunctionOnSet(f, {a}) = f[a]
    BY <1>3, SumOne
<1> HIDE DEF A
<1>5. NetDebits(book, A) = SumFunctionOnSet(f, A)
    BY <1>1, <1>2, NetDebitsIs
<1> QED
    BY <1>3, <1>4, <1>5 DEF A

\* The entries of a range of days, and its rows.
LEMMA RowsIn ==
    ASSUME Parameters, Entries(journal), NEW days
    PROVE  /\ Kept(Between(days)) /\ IsFiniteSet(Between(days))
           /\ \A e \in Between(days) : Faithful(e) /\ e.doc \in Document
           /\ \A kind : /\ Rows(kind, days) \subseteq Between(days) /\ IsFiniteSet(Rows(kind, days))
                        /\ \A e \in Rows(kind, days) : e.doc.kind = kind /\ e.day \in days /\ e.reverses = None
<1>1. Between(days) \subseteq Book(journal)
    BY DEF Between
<1>2. Kept(Between(days)) /\ \A e \in Between(days) : Faithful(e)
    BY <1>1, BookKept
<1>3. IsFiniteSet(Between(days))
    BY <1>2 DEF Kept
<1>4. \A e \in Between(days) : e.doc \in Document
    BY <1>2 DEF Faithful, Parameters
<1>5. ASSUME NEW kind
      PROVE  /\ Rows(kind, days) \subseteq Between(days) /\ IsFiniteSet(Rows(kind, days))
             /\ \A e \in Rows(kind, days) : e.doc.kind = kind /\ e.day \in days /\ e.reverses = None
    <2>1. /\ Rows(kind, days) \subseteq Between(days)
          /\ \A e \in Rows(kind, days) : e.doc.kind = kind /\ e.day \in days /\ e.reverses = None
        BY DEF Rows, Between
    <2> QED
        BY <1>3, <2>1, FS_Subset
<1> QED
    BY <1>2, <1>3, <1>4, <1>5

\* The documents of a book without reversals, and what they move.
LEMMA BookMoves ==
    ASSUME NEW book, \A e \in book : Faithful(e) /\ e.doc \in Document /\ e.reverses = None
    PROVE  \A e \in book :
             /\ Movement(e.lines, "SALES_REVENUE") = SalesOf(e.doc)
             /\ Movement(e.lines, "VAT_PAYABLE") = VatOf(e.doc)
             /\ Movement(e.lines, "COST_OF_GOODS_SOLD") = CogsOf(e.doc)
             /\ Movement(e.lines, "PAYROLL_EXPENSE") = PayrollOf(e.doc)
             /\ Movement(e.lines, "EXPENSE_RENT") = RentOf(e.doc)
BY DocumentMoves DEF Moves, Faithful

LEMMA AmountsOf ==
    ASSUME NEW d \in Document
    PROVE  /\ d.kind \in {"sale", "salesReturn"} => d.net \in Nat /\ d.vat \in Nat /\ d.cogs \in Nat
           /\ d.kind \in {"expense", "salary"} => d.amount \in Nat
BY DEF Document, Amounts

\* What the documents of a range are worth to the reports.
LEMMA TotalsInt ==
    ASSUME Parameters, Entries(journal), NEW days
    PROVE  /\ Total(Rows("sale", days), Paid) \in Int /\ Total(Rows("salesReturn", days), Paid) \in Int
           /\ Total(Rows("sale", days), Cost) \in Int /\ Total(Rows("salesReturn", days), Cost) \in Int
           /\ SalaryPayments(days) \in Int /\ ShopExpenses(days) \in Int
<1> DEFINE sold == Rows("sale", days)
           back == Rows("salesReturn", days)
           wages == {e \in Rows("salary", days) : e.doc.type # "ADVANCE"}
           spent == Rows("expense", days)
           paidS == [e \in sold |-> Paid(e.doc)]
           paidR == [e \in back |-> Paid(e.doc)]
           costS == [e \in sold |-> Cost(e.doc)]
           costR == [e \in back |-> Cost(e.doc)]
           pay == [e \in wages |-> Amounted(e.doc)]
           rent == [e \in spent |-> Amounted(e.doc)]
<1>1. /\ IsFiniteSet(sold) /\ IsFiniteSet(back) /\ IsFiniteSet(wages) /\ IsFiniteSet(spent)
      /\ \A e \in sold : e.doc \in Document /\ e.doc.kind = "sale"
      /\ \A e \in back : e.doc \in Document /\ e.doc.kind = "salesReturn"
      /\ \A e \in wages : e.doc \in Document /\ e.doc.kind = "salary"
      /\ \A e \in spent : e.doc \in Document /\ e.doc.kind = "expense"
    <2>1. /\ IsFiniteSet(Rows("salary", days)) /\ wages \subseteq Rows("salary", days)
          /\ IsFiniteSet(sold) /\ IsFiniteSet(back) /\ IsFiniteSet(spent)
        BY RowsIn
    <2>2. IsFiniteSet(wages)
        BY <2>1, FS_Subset
    <2>3. \A kind : \A e \in Rows(kind, days) : e.doc \in Document /\ e.doc.kind = kind
        BY RowsIn
    <2> QED
        BY <2>1, <2>2, <2>3
<1>2. /\ (\A e \in sold : paidS[e] \in Int /\ costS[e] \in Int)
      /\ (\A e \in back : paidR[e] \in Int /\ costR[e] \in Int)
      /\ (\A e \in wages : pay[e] \in Int) /\ (\A e \in spent : rent[e] \in Int)
    BY <1>1, AmountsOf DEF Paid, Cost, Amounted
<1>3. /\ Total(sold, Paid) = SumFunctionOnSet(paidS, sold) /\ Total(back, Paid) = SumFunctionOnSet(paidR, back)
      /\ Total(sold, Cost) = SumFunctionOnSet(costS, sold) /\ Total(back, Cost) = SumFunctionOnSet(costR, back)
    BY DEF Total, SumFunction
<1>4. /\ SalaryPayments(days) = SumFunctionOnSet(pay, wages)
      /\ ShopExpenses(days) = SumFunctionOnSet(rent, spent)
    BY DEF SalaryPayments, ShopExpenses, Total, SumFunction
<1> HIDE DEF sold, back, wages, spent, paidS, paidR, costS, costR, pay, rent
<1>5. /\ SumFunctionOnSet(paidS, sold) \in Int /\ SumFunctionOnSet(paidR, back) \in Int
      /\ SumFunctionOnSet(costS, sold) \in Int /\ SumFunctionOnSet(costR, back) \in Int
    BY <1>1, <1>2, SumInt
<1>6. SumFunctionOnSet(pay, wages) \in Int /\ SumFunctionOnSet(rent, spent) \in Int
    BY <1>1, <1>2, SumInt
<1>7. /\ Total(sold, Paid) \in Int /\ Total(back, Paid) \in Int
      /\ Total(sold, Cost) \in Int /\ Total(back, Cost) \in Int
    BY <1>3, <1>5
<1> QED
    BY <1>4, <1>6, <1>7 DEF sold, back

LEMMA RevenueOfRange ==
    ASSUME Parameters, Entries(journal), NEW days, \A e \in Between(days) : e.reverses = None
    PROVE  NetDebit(Between(days), "SALES_REVENUE") + NetDebit(Between(days), "VAT_PAYABLE")
               = Total(Rows("salesReturn", days), Paid) - Total(Rows("sale", days), Paid)
<1> DEFINE book == Between(days)
           sold == Rows("sale", days)
           back == Rows("salesReturn", days)
           sales == [e \in book |-> SalesOf(e.doc)]
           vat == [e \in book |-> VatOf(e.doc)]
           both == [e \in book |-> SalesOf(e.doc) + VatOf(e.doc)]
           paidS == [e \in sold |-> Paid(e.doc)]
           paidR == [e \in back |-> Paid(e.doc)]
           plus == [e \in book |-> IF e \in sold THEN paidS[e] ELSE 0]
           minus == [e \in book |-> IF e \in back THEN paidR[e] ELSE 0]
<1>1. /\ Kept(book) /\ IsFiniteSet(book) /\ sold \subseteq book /\ back \subseteq book
      /\ \A e \in book : Faithful(e) /\ e.doc \in Document /\ e.reverses = None
    BY RowsIn
<1>2. \A e \in book : (e \in sold <=> e.doc.kind = "sale") /\ (e \in back <=> e.doc.kind = "salesReturn")
    BY DEF Rows, Between
<1>3. \A e \in book : /\ sales[e] = Movement(e.lines, "SALES_REVENUE")
                      /\ vat[e] = Movement(e.lines, "VAT_PAYABLE")
    BY <1>1, BookMoves
<1>4. (\A e \in sold : paidS[e] \in Int) /\ (\A e \in back : paidR[e] \in Int)
    BY <1>1, <1>2, AmountsOf DEF Paid
<1>5. \A e \in book : /\ plus[e] = IF e \in sold THEN paidS[e] ELSE 0
                      /\ minus[e] = IF e \in back THEN paidR[e] ELSE 0
                      /\ both[e] = sales[e] + vat[e]
    OBVIOUS
<1>6. \A e \in book : minus[e] = both[e] + plus[e]
    <2> SUFFICES ASSUME NEW e \in book PROVE minus[e] = both[e] + plus[e]
        OBVIOUS
    <2>1. e.doc \in Document
        BY <1>1
    <2>2. CASE e.doc.kind = "sale"
        <3>1. e \in sold /\ e \notin back /\ e.doc.net \in Nat /\ e.doc.vat \in Nat
            BY <1>2, <2>1, <2>2, AmountsOf
        <3>2. plus[e] = e.doc.net + e.doc.vat /\ minus[e] = 0
            BY <3>1 DEF Paid
        <3>3. both[e] = (0 - e.doc.net) + (0 - e.doc.vat)
            BY <2>2 DEF SalesOf, VatOf
        <3> QED
            BY <3>1, <3>2, <3>3
    <2>3. CASE e.doc.kind = "salesReturn"
        <3>1. e \notin sold /\ e \in back /\ e.doc.net \in Nat /\ e.doc.vat \in Nat
            BY <1>2, <2>1, <2>3, AmountsOf
        <3>2. plus[e] = 0 /\ minus[e] = e.doc.net + e.doc.vat
            BY <3>1 DEF Paid
        <3>3. both[e] = e.doc.net + e.doc.vat
            BY <2>3 DEF SalesOf, VatOf
        <3> QED
            BY <3>1, <3>2, <3>3
    <2>4. CASE e.doc.kind # "sale" /\ e.doc.kind # "salesReturn"
        <3>1. e \notin sold /\ e \notin back
            BY <1>2, <2>4
        <3>2. plus[e] = 0 /\ minus[e] = 0
            BY <3>1
        <3>3. both[e] = 0
            BY <2>4 DEF SalesOf, VatOf
        <3> QED
            BY <3>2, <3>3
    <2> QED
        BY <2>2, <2>3, <2>4
<1>7. Total(sold, Paid) = SumFunctionOnSet(paidS, sold) /\ Total(back, Paid) = SumFunctionOnSet(paidR, back)
    BY DEF Total, SumFunction
<1> HIDE DEF book, sold, back, sales, vat, both, paidS, paidR, plus, minus
<1>8. NetDebit(book, "SALES_REVENUE") = SumFunctionOnSet(sales, book) /\ \A e \in book : sales[e] \in Int
    BY <1>1, <1>3, NetDebitIs
<1>9. NetDebit(book, "VAT_PAYABLE") = SumFunctionOnSet(vat, book) /\ \A e \in book : vat[e] \in Int
    BY <1>1, <1>3, NetDebitIs
<1>10. SumFunctionOnSet(both, book) = SumFunctionOnSet(sales, book) + SumFunctionOnSet(vat, book)
    BY <1>1, <1>5, <1>8, <1>9, SumPlus
<1>11. SumFunctionOnSet(plus, book) = SumFunctionOnSet(paidS, sold) /\ \A e \in book : plus[e] \in Int
    BY <1>1, <1>4, <1>5, SumWhere
<1>12. SumFunctionOnSet(minus, book) = SumFunctionOnSet(paidR, back) /\ \A e \in book : minus[e] \in Int
    BY <1>1, <1>4, <1>5, SumWhere
<1>13. SumFunctionOnSet(minus, book) = SumFunctionOnSet(both, book) + SumFunctionOnSet(plus, book)
    BY <1>1, <1>5, <1>6, <1>8, <1>9, <1>11, SumPlus
<1>14. SumFunctionOnSet(both, book) \in Int /\ SumFunctionOnSet(plus, book) \in Int
    BY <1>1, <1>5, <1>8, <1>9, <1>11, SumInt
<1>15. NetDebit(book, "SALES_REVENUE") + NetDebit(book, "VAT_PAYABLE") = Total(back, Paid) - Total(sold, Paid)
    BY <1>7, <1>8, <1>9, <1>10, <1>11, <1>12, <1>13, <1>14
<1> QED
    BY <1>15 DEF book, sold, back

LEMMA CogsOfRange ==
    ASSUME Parameters, Entries(journal), NEW days, \A e \in Between(days) : e.reverses = None
    PROVE  NetDebit(Between(days), "COST_OF_GOODS_SOLD") = ComputeCogs(days)
<1> DEFINE book == Between(days)
           sold == Rows("sale", days)
           back == Rows("salesReturn", days)
           cogs == [e \in book |-> CogsOf(e.doc)]
           costS == [e \in sold |-> Cost(e.doc)]
           costR == [e \in back |-> Cost(e.doc)]
           plus == [e \in book |-> IF e \in sold THEN costS[e] ELSE 0]
           minus == [e \in book |-> IF e \in back THEN costR[e] ELSE 0]
<1>1. /\ Kept(book) /\ IsFiniteSet(book) /\ sold \subseteq book /\ back \subseteq book
      /\ \A e \in book : Faithful(e) /\ e.doc \in Document /\ e.reverses = None
    BY RowsIn
<1>2. \A e \in book : (e \in sold <=> e.doc.kind = "sale") /\ (e \in back <=> e.doc.kind = "salesReturn")
    BY DEF Rows, Between
<1>3. \A e \in book : cogs[e] = Movement(e.lines, "COST_OF_GOODS_SOLD")
    BY <1>1, BookMoves
<1>4. (\A e \in sold : costS[e] \in Int) /\ (\A e \in back : costR[e] \in Int)
    BY <1>1, <1>2, AmountsOf DEF Cost
<1>5. \A e \in book : /\ plus[e] = IF e \in sold THEN costS[e] ELSE 0
                      /\ minus[e] = IF e \in back THEN costR[e] ELSE 0
    OBVIOUS
<1>6. \A e \in book : plus[e] = cogs[e] + minus[e]
    <2> SUFFICES ASSUME NEW e \in book PROVE plus[e] = cogs[e] + minus[e]
        OBVIOUS
    <2>1. e.doc \in Document
        BY <1>1
    <2>2. CASE e.doc.kind = "sale"
        <3>1. e \in sold /\ e \notin back /\ e.doc.cogs \in Nat
            BY <1>2, <2>1, <2>2, AmountsOf
        <3>2. plus[e] = e.doc.cogs /\ minus[e] = 0 /\ cogs[e] = e.doc.cogs
            BY <2>2, <3>1 DEF Cost, CogsOf
        <3> QED
            BY <3>1, <3>2
    <2>3. CASE e.doc.kind = "salesReturn"
        <3>1. e \notin sold /\ e \in back /\ e.doc.cogs \in Nat
            BY <1>2, <2>1, <2>3, AmountsOf
        <3>2. plus[e] = 0 /\ minus[e] = e.doc.cogs /\ cogs[e] = 0 - e.doc.cogs
            BY <2>3, <3>1 DEF Cost, CogsOf
        <3> QED
            BY <3>1, <3>2
    <2>4. CASE e.doc.kind # "sale" /\ e.doc.kind # "salesReturn"
        <3>1. e \notin sold /\ e \notin back
            BY <1>2, <2>4
        <3>2. plus[e] = 0 /\ minus[e] = 0
            BY <3>1
        <3>3. cogs[e] = 0
            BY <2>4 DEF CogsOf
        <3> QED
            BY <3>2, <3>3
    <2> QED
        BY <2>2, <2>3, <2>4
<1>7. Total(sold, Cost) = SumFunctionOnSet(costS, sold) /\ Total(back, Cost) = SumFunctionOnSet(costR, back)
    BY DEF Total, SumFunction
<1> HIDE DEF book, sold, back, cogs, costS, costR, plus, minus
<1>8. NetDebit(book, "COST_OF_GOODS_SOLD") = SumFunctionOnSet(cogs, book) /\ \A e \in book : cogs[e] \in Int
    BY <1>1, <1>3, NetDebitIs
<1>9. SumFunctionOnSet(plus, book) = SumFunctionOnSet(costS, sold) /\ \A e \in book : plus[e] \in Int
    BY <1>1, <1>4, <1>5, SumWhere
<1>10. SumFunctionOnSet(minus, book) = SumFunctionOnSet(costR, back) /\ \A e \in book : minus[e] \in Int
    BY <1>1, <1>4, <1>5, SumWhere
<1>11. SumFunctionOnSet(plus, book) = SumFunctionOnSet(cogs, book) + SumFunctionOnSet(minus, book)
    BY <1>1, <1>6, <1>8, <1>10, SumPlus
<1>12. SumFunctionOnSet(cogs, book) \in Int /\ SumFunctionOnSet(minus, book) \in Int
    BY <1>1, <1>8, <1>10, SumInt
<1>13. NetDebit(book, "COST_OF_GOODS_SOLD") = Total(sold, Cost) - Total(back, Cost)
    BY <1>7, <1>8, <1>9, <1>10, <1>11, <1>12
<1> QED
    BY <1>13 DEF book, sold, back, ComputeCogs

LEMMA SpendingOfRange ==
    ASSUME Parameters, Entries(journal), NEW days, \A e \in Between(days) : e.reverses = None
    PROVE  /\ NetDebit(Between(days), "PAYROLL_EXPENSE") = SalaryPayments(days)
           /\ NetDebit(Between(days), "EXPENSE_RENT") = ShopExpenses(days)
<1> DEFINE book == Between(days)
           wages == {e \in Rows("salary", days) : e.doc.type # "ADVANCE"}
           spent == Rows("expense", days)
           pay == [e \in wages |-> Amounted(e.doc)]
           rent == [e \in spent |-> Amounted(e.doc)]
           payroll == [e \in book |-> PayrollOf(e.doc)]
           rents == [e \in book |-> RentOf(e.doc)]
<1>1. /\ Kept(book) /\ IsFiniteSet(book) /\ wages \subseteq book /\ spent \subseteq book
      /\ \A e \in book : Faithful(e) /\ e.doc \in Document /\ e.reverses = None
    BY RowsIn
<1>2. \A e \in book : /\ e \in wages <=> e.doc.kind = "salary" /\ e.doc.type # "ADVANCE"
                      /\ e \in spent <=> e.doc.kind = "expense"
    BY DEF Rows, Between
<1>3. \A e \in book : /\ payroll[e] = Movement(e.lines, "PAYROLL_EXPENSE")
                      /\ rents[e] = Movement(e.lines, "EXPENSE_RENT")
    BY <1>1, BookMoves
<1>4. (\A e \in wages : pay[e] \in Int) /\ (\A e \in spent : rent[e] \in Int)
    BY <1>1, <1>2, AmountsOf DEF Amounted
<1>5. \A e \in book : payroll[e] = IF e \in wages THEN pay[e] ELSE 0
    BY <1>2 DEF PayrollOf, Amounted
<1>6. \A e \in book : rents[e] = IF e \in spent THEN rent[e] ELSE 0
    BY <1>2 DEF RentOf, Amounted
<1>7. SalaryPayments(days) = SumFunctionOnSet(pay, wages) /\ ShopExpenses(days) = SumFunctionOnSet(rent, spent)
    BY DEF SalaryPayments, ShopExpenses, Total, SumFunction
<1> HIDE DEF book, wages, spent, pay, rent, payroll, rents
<1>8. NetDebit(book, "PAYROLL_EXPENSE") = SumFunctionOnSet(payroll, book)
    BY <1>1, <1>3, NetDebitIs
<1>9. NetDebit(book, "EXPENSE_RENT") = SumFunctionOnSet(rents, book)
    BY <1>1, <1>3, NetDebitIs
<1>10. SumFunctionOnSet(payroll, book) = SumFunctionOnSet(pay, wages)
    BY <1>1, <1>4, <1>5, SumWhere
<1>11. SumFunctionOnSet(rents, book) = SumFunctionOnSet(rent, spent)
    BY <1>1, <1>4, <1>6, SumWhere
<1> QED
    BY <1>7, <1>8, <1>9, <1>10, <1>11 DEF book

LEMMA NetDebitsInt ==
    ASSUME NEW book, Kept(book), NEW A, IsFiniteSet(A)
    PROVE  NetDebits(book, A) \in Int
<1> DEFINE f == [a \in A |-> NetDebit(book, a)]
<1>1. \A a \in A : f[a] = NetDebit(book, a) /\ f[a] \in Int
    BY NetDebitInt
<1> HIDE DEF f
<1>2. NetDebits(book, A) = SumFunctionOnSet(f, A)
    BY <1>1, NetDebitsIs
<1> QED
    BY <1>1, <1>2, SumInt

\* What the accounts of revenue and of cost consist of.
LEMMA EarningsOf ==
    ASSUME NEW book, Kept(book)
    PROVE  /\ NetDebits(book, Revenues) = NetDebit(book, "SALES_REVENUE") + NetDebits(book, Gains)
           /\ NetDebits(book, {"PAYROLL_EXPENSE", "EXPENSE_RENT"})
                  = NetDebit(book, "PAYROLL_EXPENSE") + NetDebit(book, "EXPENSE_RENT")
           /\ NetDebits(book, Costs)
                  = NetDebit(book, "COST_OF_GOODS_SOLD") + NetDebits(book, {"PAYROLL_EXPENSE", "EXPENSE_RENT"})
                        + NetDebits(book, Losses)
           /\ NetDebits(book, Gains) \in Int /\ NetDebits(book, Losses) \in Int
           /\ NetDebits(book, {"PAYROLL_EXPENSE", "EXPENSE_RENT"}) \in Int
<1> DEFINE sales == {"SALES_REVENUE"}
           cogs == {"COST_OF_GOODS_SOLD"}
           payroll == {"PAYROLL_EXPENSE"}
           rent == {"EXPENSE_RENT"}
           running == {"PAYROLL_EXPENSE", "EXPENSE_RENT"}
<1>1. /\ IsFiniteSet(sales) /\ IsFiniteSet(cogs) /\ IsFiniteSet(payroll) /\ IsFiniteSet(rent)
      /\ IsFiniteSet(Gains) /\ IsFiniteSet(Losses)
    BY FS_Singleton, FiniteAccounts
<1>2. running = payroll \cup rent /\ payroll \cap rent = {}
    OBVIOUS
<1>3. IsFiniteSet(running)
    <2> HIDE DEF payroll, rent, running
    <2> QED
        BY <1>1, <1>2, FS_Union
<1>4. Revenues = sales \cup Gains /\ sales \cap Gains = {}
    BY DEF Revenues, Gains
<1>5. /\ Costs = (cogs \cup running) \cup Losses
      /\ cogs \cap running = {} /\ (cogs \cup running) \cap Losses = {}
    BY DEF Costs, Losses
<1>6. IsFiniteSet(cogs \cup running)
    BY <1>1, <1>3, FS_Union
<1>7. /\ NetDebits(book, sales) = NetDebit(book, "SALES_REVENUE")
      /\ NetDebits(book, cogs) = NetDebit(book, "COST_OF_GOODS_SOLD")
      /\ NetDebits(book, payroll) = NetDebit(book, "PAYROLL_EXPENSE")
      /\ NetDebits(book, rent) = NetDebit(book, "EXPENSE_RENT")
    BY NetDebitsOne
<1> HIDE DEF sales, cogs, payroll, rent, running
<1>8. NetDebits(book, sales \cup Gains) = NetDebits(book, sales) + NetDebits(book, Gains)
    BY <1>1, <1>4, NetDebitsJoin
<1>9. NetDebits(book, payroll \cup rent) = NetDebits(book, payroll) + NetDebits(book, rent)
    BY <1>1, <1>2, NetDebitsJoin
<1>10. NetDebits(book, cogs \cup running) = NetDebits(book, cogs) + NetDebits(book, running)
    BY <1>1, <1>3, <1>5, NetDebitsJoin
<1>11. NetDebits(book, (cogs \cup running) \cup Losses)
           = NetDebits(book, cogs \cup running) + NetDebits(book, Losses)
    BY <1>1, <1>5, <1>6, NetDebitsJoin
<1>12. NetDebits(book, Gains) \in Int /\ NetDebits(book, Losses) \in Int /\ NetDebits(book, running) \in Int
    BY <1>1, <1>3, NetDebitsInt
<1>13. NetDebits(book, Revenues) = NetDebit(book, "SALES_REVENUE") + NetDebits(book, Gains)
    BY <1>4, <1>7, <1>8
<1>14. NetDebits(book, running) = NetDebit(book, "PAYROLL_EXPENSE") + NetDebit(book, "EXPENSE_RENT")
    BY <1>2, <1>7, <1>9
<1>15. NetDebits(book, Costs)
           = NetDebit(book, "COST_OF_GOODS_SOLD") + NetDebits(book, running) + NetDebits(book, Losses)
    BY <1>5, <1>7, <1>10, <1>11
<1> QED
    BY <1>12, <1>13, <1>14, <1>15 DEF running

LEMMA ReportOf == ASSUME Parameters, Entries(journal) PROVE ReportAgreesWithLedger
<1> SUFFICES ASSUME NEW days \in Ranges, \A e \in Between(days) : e.reverses = None
             PROVE  NetOperatingResult(days)
                        = Earnings(Between(days)) - NetDebit(Between(days), "VAT_PAYABLE")
    BY DEF ReportAgreesWithLedger
<1> DEFINE book == Between(days)
<1>1. Kept(book)
    BY RowsIn
<1>2. /\ NetDebit(book, "SALES_REVENUE") + NetDebit(book, "VAT_PAYABLE")
             = Total(Rows("salesReturn", days), Paid) - Total(Rows("sale", days), Paid)
      /\ NetDebit(book, "COST_OF_GOODS_SOLD") = ComputeCogs(days)
    BY RevenueOfRange, CogsOfRange
<1>3. /\ NetDebit(book, "PAYROLL_EXPENSE") = SalaryPayments(days)
      /\ NetDebit(book, "EXPENSE_RENT") = ShopExpenses(days)
    BY SpendingOfRange
<1>4. /\ Total(Rows("sale", days), Paid) \in Int /\ Total(Rows("salesReturn", days), Paid) \in Int
      /\ SalaryPayments(days) \in Int /\ ShopExpenses(days) \in Int
    BY TotalsInt
<1>5. /\ InventoryGains(days) = -NetDebits(book, Gains)
      /\ InventoryLosses(days) = NetDebits(book, Losses)
    BY DEF InventoryGains, InventoryLosses
<1>6. /\ NetOperatingResult(days)
             = TotalRevenue(days) - ComputeCogs(days)
                   - (SalaryPayments(days) + ShopExpenses(days) + InventoryLosses(days))
      /\ TotalRevenue(days)
             = Total(Rows("sale", days), Paid) - Total(Rows("salesReturn", days), Paid) + InventoryGains(days)
    BY DEF NetOperatingResult, TotalRevenue
<1>7. Earnings(book) = -NetDebits(book, Revenues) - NetDebits(book, Costs)
    BY DEF Earnings
<1> HIDE DEF book
<1>8. /\ NetDebits(book, Revenues) = NetDebit(book, "SALES_REVENUE") + NetDebits(book, Gains)
      /\ NetDebits(book, {"PAYROLL_EXPENSE", "EXPENSE_RENT"})
             = NetDebit(book, "PAYROLL_EXPENSE") + NetDebit(book, "EXPENSE_RENT")
      /\ NetDebits(book, Costs)
             = NetDebit(book, "COST_OF_GOODS_SOLD") + NetDebits(book, {"PAYROLL_EXPENSE", "EXPENSE_RENT"})
                   + NetDebits(book, Losses)
      /\ NetDebits(book, Gains) \in Int /\ NetDebits(book, Losses) \in Int
    BY <1>1, EarningsOf
<1>9. /\ NetDebit(book, "SALES_REVENUE") \in Int /\ NetDebit(book, "VAT_PAYABLE") \in Int
      /\ NetDebit(book, "COST_OF_GOODS_SOLD") \in Int
    BY <1>1, NetDebitInt
<1>10. NetOperatingResult(days) = Earnings(book) - NetDebit(book, "VAT_PAYABLE")
    BY <1>2, <1>3, <1>4, <1>5, <1>6, <1>7, <1>8, <1>9
<1> QED
    BY <1>10 DEF book

LEMMA PaidInt == ASSUME NEW doc, doc.net \in Nat, doc.vat \in Nat PROVE Paid(doc) \in Int
BY DEF Paid

\* A total over a range of days is the sum of the totals of its days.
LEMMA TotalByDay ==
    ASSUME Parameters, Entries(journal), NEW days, IsFiniteSet(days), NEW kind \in {"sale", "salesReturn"},
           NEW s, \A day \in days : s[day] = Total(Rows(kind, {day}), Paid)
    PROVE  Total(Rows(kind, days), Paid) = SumFunctionOnSet(s, days)
<1> DEFINE all == Rows(kind, days)
           X == [day \in days |-> Rows(kind, {day})]
           f == [e \in all |-> Paid(e.doc)]
<1>1. \A day \in days : X[day] = Rows(kind, {day})
    OBVIOUS
<1>2. all = UNION {X[day] : day \in days}
    BY DEF Rows
<1>3. \A day \in days : X[day] \subseteq all /\ \A e \in X[day] : e.day = day
    BY <1>1 DEF Rows
<1>4. \A day \in days : IsFiniteSet(X[day])
    BY <1>1, RowsIn
<1>5. \A i, j \in days : i # j => X[i] \cap X[j] = {}
    BY <1>3
<1>6. \A e \in all : f[e] = Paid(e.doc) /\ f[e] \in Int
    <2>1. \A e \in all : e.doc \in Document /\ e.doc.kind = kind
        BY RowsIn
    <2>2. \A e \in all : e.doc.net \in Nat /\ e.doc.vat \in Nat
        <3> SUFFICES ASSUME NEW e \in all PROVE e.doc.net \in Nat /\ e.doc.vat \in Nat
            OBVIOUS
        <3> HIDE DEF all
        <3>1. e.doc \in Document /\ e.doc.kind \in {"sale", "salesReturn"}
            BY <2>1
        <3> QED
            BY <3>1, AmountsOf
    <2>3. \A e \in all : f[e] = Paid(e.doc)
        OBVIOUS
    <2> HIDE DEF all, f
    <2> QED
        BY <2>2, <2>3, PaidInt
<1>7. \A day \in days : s[day] = SumFunctionOnSet(f, X[day])
    <2> SUFFICES ASSUME NEW day \in days PROVE s[day] = SumFunctionOnSet(f, X[day])
        OBVIOUS
    <2> DEFINE rows == Rows(kind, {day})
               g == [e \in rows |-> Paid(e.doc)]
    <2>1. s[day] = SumFunctionOnSet(g, rows)
        BY DEF Total, SumFunction
    <2>2. rows = X[day]
        BY <1>1
    <2>3. IsFiniteSet(rows)
        BY <1>4, <2>2
    <2>4. \A e \in rows : g[e] = f[e] /\ g[e] \in Int
        BY <1>3, <1>6, <2>2
    <2> HIDE DEF f, g, rows, X
    <2>5. SumFunctionOnSet(g, rows) = SumFunctionOnSet(f, rows)
        BY <2>3, <2>4, SumSame
    <2> QED
        BY <2>1, <2>2, <2>5
<1>8. Total(all, Paid) = SumFunctionOnSet(f, all)
    BY DEF Total, SumFunction
<1> HIDE DEF all, X, f
<1>9. Parts(days, X, f, s)
    BY <1>3, <1>4, <1>5, <1>6, <1>7 DEF Parts
<1>10. SumFunctionOnSet(f, UNION {X[day] : day \in days}) = SumFunctionOnSet(s, days)
    BY <1>9, SumUnion
<1> QED
    BY <1>2, <1>8, <1>10 DEF all

LEMMA TrendOf == ASSUME Parameters, Entries(journal) PROVE TrendAddsUp
<1> SUFFICES ASSUME NEW days \in Ranges
             PROVE  /\ SumFunction(Trend(days)) = TotalRevenue(days) - InventoryGains(days)
                    /\ (\A e \in Between(days) : e.reverses = None) =>
                           BreakdownTotal(days)
                               = NetDebits(Between(days), Costs \ (Losses \cup {"COST_OF_GOODS_SOLD"}))
    BY DEF TrendAddsUp
<1>1. IsFiniteSet(days)
    BY FS_Interval DEF Ranges, Days, Parameters
<1>2. Kept(Between(days))
    BY RowsIn
<1>3. SumFunction(Trend(days)) = TotalRevenue(days) - InventoryGains(days)
    <2> DEFINE sold == [day \in days |-> Total(Rows("sale", {day}), Paid)]
               back == [day \in days |-> Total(Rows("salesReturn", {day}), Paid)]
               point == [day \in days |-> TrendPoint(day)]
    <2>1. \A day \in days : sold[day] \in Int /\ back[day] \in Int
        BY TotalsInt
    <2>2. \A day \in days : /\ sold[day] = Total(Rows("sale", {day}), Paid)
                            /\ back[day] = Total(Rows("salesReturn", {day}), Paid)
        OBVIOUS
    <2>3. \A day \in days : sold[day] = point[day] + back[day] /\ point[day] \in Int
        BY <2>1 DEF TrendPoint
    <2>4. SumFunction(Trend(days)) = SumFunctionOnSet(point, days)
        BY DEF Trend, SumFunction
    <2> HIDE DEF sold, back, point
    <2>5. /\ Total(Rows("sale", days), Paid) = SumFunctionOnSet(sold, days)
          /\ Total(Rows("salesReturn", days), Paid) = SumFunctionOnSet(back, days)
        BY <1>1, <2>2, TotalByDay
    <2>6. SumFunctionOnSet(sold, days) = SumFunctionOnSet(point, days) + SumFunctionOnSet(back, days)
        BY <1>1, <2>1, <2>3, SumPlus
    <2>7. SumFunctionOnSet(point, days) \in Int /\ SumFunctionOnSet(back, days) \in Int
        BY <1>1, <2>1, <2>3, SumInt
    <2>8. NetDebits(Between(days), Gains) \in Int
        BY <1>2, EarningsOf
    <2>9. InventoryGains(days) \in Int
        BY <2>8 DEF InventoryGains
    <2> QED
        BY <2>4, <2>5, <2>6, <2>7, <2>9 DEF TotalRevenue
<1>4. ASSUME \A e \in Between(days) : e.reverses = None
      PROVE  BreakdownTotal(days) = NetDebits(Between(days), Costs \ (Losses \cup {"COST_OF_GOODS_SOLD"}))
    <2>1. Costs \ (Losses \cup {"COST_OF_GOODS_SOLD"}) = {"PAYROLL_EXPENSE", "EXPENSE_RENT"}
        BY DEF Costs, Losses
    <2>2. /\ NetDebit(Between(days), "PAYROLL_EXPENSE") = SalaryPayments(days)
          /\ NetDebit(Between(days), "EXPENSE_RENT") = ShopExpenses(days)
        BY <1>4, SpendingOfRange
    <2>3. NetDebits(Between(days), {"PAYROLL_EXPENSE", "EXPENSE_RENT"})
              = NetDebit(Between(days), "PAYROLL_EXPENSE") + NetDebit(Between(days), "EXPENSE_RENT")
        BY <1>2, EarningsOf
    <2>4. SalaryPayments(days) \in Int /\ ShopExpenses(days) \in Int
        BY TotalsInt
    <2>5. BreakdownTotal(days) = NetDebits(Between(days), {"PAYROLL_EXPENSE", "EXPENSE_RENT"})
        BY <2>2, <2>3, <2>4 DEF BreakdownTotal
    <2> QED
        BY <2>1, <2>5
<1> QED
    BY <1>3, <1>4

-----------------------------------------------------------------------------
(* What the invariant says.                                                 *)

LEMMA BooksOf ==
    ASSUME Parameters, LedgerInv
    PROVE  OneSided /\ BooksBalance /\ ReportAgreesWithLedger /\ TrendAddsUp
BY BooksOfEntries, ReportOf, TrendOf DEF LedgerInv, JournalInv

LEMMA BanksOf ==
    ASSUME Parameters, LedgerInv
    PROVE  ReversalCancels /\ StatementsChain /\ BankBookReconciles
BY BankBookOf DEF LedgerInv, EntryInv, Cancels, ReversalCancels, BankInv, Chained, StatementsChain

-----------------------------------------------------------------------------
(* The theorems.                                                            *)

\* Whatever is posted, edited, removed and reversed by requests open at once,
\* every line has one side, and on every date the trial balance balances and
\* assets equal liabilities and the owner's capital less drawings plus earnings.
THEOREM BooksOfTheLedger == Parameters /\ Spec => [](OneSided /\ BooksBalance)
<1> SUFFICES ASSUME Parameters PROVE Spec => [](OneSided /\ BooksBalance)
    OBVIOUS
<1>1. LedgerInv => OneSided /\ BooksBalance
    BY BooksOf
<1>2. Spec => []LedgerInv
    BY LedgerKept
<1> QED
    BY <1>1, <1>2, PTL

\* A reversal and its entry cancel until the expense behind it is edited, and
\* no entry is reversed twice.
THEOREM ReversalsCancel == Parameters /\ Spec => []ReversalCancels
<1> SUFFICES ASSUME Parameters PROVE Spec => []ReversalCancels
    OBVIOUS
<1>1. LedgerInv => ReversalCancels
    BY BanksOf
<1>2. Spec => []LedgerInv
    BY LedgerKept
<1> QED
    BY <1>1, <1>2, PTL

\* Every statement opens where the one before closed and clears lines that
\* stay in the journal, and from the last one on the bank book agrees with
\* the ledger.
THEOREM StatementsReconcile == Parameters /\ Spec => [](StatementsChain /\ BankBookReconciles)
<1> SUFFICES ASSUME Parameters PROVE Spec => [](StatementsChain /\ BankBookReconciles)
    OBVIOUS
<1>1. LedgerInv => StatementsChain /\ BankBookReconciles
    BY BanksOf
<1>2. Spec => []LedgerInv
    BY LedgerKept
<1> QED
    BY <1>1, <1>2, PTL

\* The variables keep their types.
THEOREM LedgerTypeCorrect == Parameters /\ Spec => []TypeOK
<1> SUFFICES ASSUME Parameters PROVE Spec => []TypeOK
    OBVIOUS
<1>1. LedgerInv => TypeOK
    <2> SUFFICES ASSUME LedgerInv PROVE TypeOK
        OBVIOUS
    <2>1. \A i \in Ids : journal[i] # None =>
              /\ journal[i].day \in Days /\ journal[i].version \in 1 .. MaxVersion
              /\ journal[i].reverses \in Ids \cup {None}
        BY DEF LedgerInv, JournalInv, Entries, Faithful
    <2>2. \A s \in Sessions : request[s].at \in Ids \cup {None}
        BY DEF LedgerInv, JournalInv, Request
    <2>3. \A m, n \in DOMAIN statements : m < n => statements[m].day < statements[n].day
        <3> SUFFICES ASSUME NEW m \in DOMAIN statements, NEW n \in DOMAIN statements, m < n
                     PROVE  statements[m].day < statements[n].day
            OBVIOUS
        <3>1. m \in 1 .. n - 1
            BY DEF LedgerInv, JournalInv
        <3> QED
            BY <3>1 DEF LedgerInv, BankInv, Chained
    <2> QED
        BY <2>1, <2>2, <2>3 DEF TypeOK
<1>2. Spec => []LedgerInv
    BY LedgerKept
<1> QED
    BY <1>1, <1>2, PTL

\* In every range of dates without a reversal the operating result of the
\* summary is the ledger's earnings plus the VAT charged and the breakdown is
\* the payroll and shop accounts; the daily trend always adds up to the
\* revenue of the summary.
THEOREM ReportsOfTheLedger == Parameters /\ Spec => [](ReportAgreesWithLedger /\ TrendAddsUp)
<1> SUFFICES ASSUME Parameters PROVE Spec => [](ReportAgreesWithLedger /\ TrendAddsUp)
    OBVIOUS
<1>1. LedgerInv => ReportAgreesWithLedger /\ TrendAddsUp
    BY BooksOf
<1>2. Spec => []LedgerInv
    BY LedgerKept
<1> QED
    BY <1>1, <1>2, PTL
=============================================================================
