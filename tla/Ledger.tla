------------------------------- MODULE Ledger -------------------------------
(* The journal: posting, rewriting and removing entries, reversing them, and *)
(* bank statements that clear lines of the BANK account, with the row locks  *)
(* and foreign keys through which requests open at once meet.                *)
EXTENDS Postings, Sequences

CONSTANTS
    Documents,    \* what is posted; the expenses among them may be edited
    Sessions,     \* requests that may be open at once
    Operations,   \* a subset of {"post", "rewrite", "remove", "reverse", "reconcile"}
    MaxEntries,   \* bound on journal entries
    MaxVersion,   \* bound on the rewritings of an expense
    Openings,     \* balances a first bank statement may open with
    LastDay,      \* bound on dates
    None

Ids == 1 .. MaxEntries
Days == 1 .. LastDay

JournalEntry ==
    [id : Nat, doc : Document, day : Nat, version : Nat, reverses : Nat \cup {None},
     edited : BOOLEAN, lines : SUBSET Line]

\* What is assumed of the parameters.
Parameters ==
    /\ Documents \subseteq Document /\ Openings \subseteq Int
    /\ MaxEntries \in Nat /\ MaxVersion \in Nat \ {0} /\ LastDay \in Nat
    /\ None \notin Nat /\ None \notin JournalEntry

VARIABLES
    journal,      \* committed entries with their lines
    statements,   \* committed bank reconciliations, in the order of commit
    request       \* the transaction of each session

vars == <<journal, statements, request>>

Idle == [pc |-> "idle", entry |-> None, at |-> None, new |-> None, on |-> None, clears |-> {}]

Init ==
    /\ journal = [i \in Ids |-> None]
    /\ statements = <<>>
    /\ request = [s \in Sessions |-> Idle]

\* The entries of a journal, and its lines with their primary keys: rewriting
\* an entry deletes its lines and inserts others.
Book(j) == {j[i] : i \in {i \in Ids : j[i] # None}}
LineIds(i, e) == {[entry |-> i, version |-> e.version, line |-> l] : l \in e.lines}
LinesOf(j) == UNION {LineIds(i, j[i]) : i \in {i \in Ids : j[i] # None}}
BankLines(j) == {x \in LinesOf(j) : x.line.account = "BANK"}
Amount(lineIds) == SumFunction([x \in lineIds |-> x.line.debit - x.line.credit])

Cleared == UNION {statements[n].cleared : n \in DOMAIN statements}

-----------------------------------------------------------------------------
(* Locks, held until the transaction ends.                                 *)

Others(s) == Sessions \ {s}
Wrote(s) == request[s].pc = "written"

\* An entry and its lines are held by a reversal from its first read, by an
\* edit once it has deleted the lines.
HoldsEntry(s, i) == request[s].entry = i /\ request[s].pc \in {"reversing", "deleted", "written"}
\* The inserted reconciliation lines hold the journal lines they refer to.
HoldsLines(s, i) == Wrote(s) /\ \E x \in request[s].clears : x.entry = i
\* The BANK row is held by a reconciliation, and shared by inserted lines.
HoldsBank(s) == request[s].pc = "reconciling" \/ (Wrote(s) /\ request[s].at = None)
SharesBank(s) ==
    Wrote(s) /\ request[s].new # None /\ \E l \in request[s].new.lines : l.account = "BANK"

EntryFree(s, i) == \A t \in Others(s) : ~HoldsEntry(t, i) /\ ~HoldsLines(t, i)
BankFree(s) == \A t \in Others(s) : ~HoldsBank(t) /\ ~SharesBank(t)
MayInsert(s, lines) ==
    (\E l \in lines : l.account = "BANK") => \A t \in Others(s) : ~HoldsBank(t)

Step(s, r) ==
    /\ request' = [request EXCEPT ![s] = r]
    /\ UNCHANGED <<journal, statements>>
Rollback(s) == Step(s, Idle)

Drafts == {request[s].at : s \in {s \in Sessions : Wrote(s)}}
Fresh == {i \in Ids : journal[i] = None /\ i \notin Drafts}

-----------------------------------------------------------------------------
(* Documents.                                                              *)

NewEntry(i, d, day, version) ==
    [id |-> i, doc |-> d, day |-> day, version |-> version, reverses |-> None, edited |-> FALSE,
     lines |-> Lines(d)]

\* A document of the shop posts its entry within its own transaction.
Post(s) ==
    /\ "post" \in Operations
    /\ request[s].pc = "idle"
    /\ Fresh # {}
    /\ \E d \in Documents, day \in Days :
        /\ MayInsert(s, Lines(d))
        /\ Step(s, [Idle EXCEPT !.pc = "written", !.at = Min(Fresh),
                                !.new = NewEntry(Min(Fresh), d, day, 1)])

IsExpense(i) == journal[i] # None /\ journal[i].reverses = None /\ journal[i].doc.kind = "expense"
Reversed(i) == \E r \in Ids : journal[r] # None /\ journal[r].reverses = i

\* DELETE of an expense's lines; a cleared line is held by its foreign key.
DeleteLines(s) ==
    /\ {"rewrite", "remove"} \cap Operations # {}
    /\ request[s].pc = "idle"
    /\ \E i \in Ids :
        /\ IsExpense(i)
        /\ EntryFree(s, i)
        /\ LineIds(i, journal[i]) \cap Cleared = {}
        /\ Step(s, [Idle EXCEPT !.pc = "deleted", !.entry = i])

\* upsertExpenseEntry: the entry keeps its key and gets new lines.
Rewrite(s) ==
    /\ "rewrite" \in Operations
    /\ request[s].pc = "deleted"
    /\ LET i == request[s].entry
           old == journal[i]
       IN  /\ old.version < MaxVersion
           /\ \E d \in Documents, day \in Days :
                /\ d.kind = "expense"
                /\ MayInsert(s, Lines(d))
                /\ Step(s, [request[s] EXCEPT !.pc = "written", !.at = i,
                     !.new = [NewEntry(i, d, day, old.version + 1)
                              EXCEPT !.edited = Reversed(i)]])

\* removeExpenseEntry: a reversed entry is held by its reversal's foreign key.
Remove(s) ==
    /\ "remove" \in Operations
    /\ request[s].pc = "deleted"
    /\ IF Reversed(request[s].entry) THEN Rollback(s)
       ELSE Step(s, [request[s] EXCEPT !.pc = "written", !.at = request[s].entry])

-----------------------------------------------------------------------------
(* reverseJournalEntry.                                                    *)

Reversible(i) ==
    /\ journal[i] # None
    /\ journal[i].reverses = None
    /\ ~Reversed(i)
    /\ journal[i].lines # {}

\* SELECT ... FOR UPDATE of the entry with its lines, then the checks.
LockEntry(s) ==
    /\ "reverse" \in Operations
    /\ request[s].pc = "idle"
    /\ \E i \in Ids :
        /\ EntryFree(s, i)
        /\ Reversible(i)
        /\ Step(s, [Idle EXCEPT !.pc = "reversing", !.entry = i, !.new = journal[i]])

\* The reversal is another entry; the request keeps the original locked.
Reverse(s) ==
    /\ request[s].pc = "reversing"
    /\ LET i == request[s].entry
           lines == Opposite(request[s].new.lines)
       IN  IF Fresh = {} THEN Rollback(s)
           ELSE /\ MayInsert(s, lines)
                /\ \E day \in Days :
                     Step(s, [request[s] EXCEPT !.pc = "written", !.at = Min(Fresh),
                              !.new = [@ EXCEPT !.id = Min(Fresh), !.day = day, !.version = 1, !.reverses = i,
                                                !.edited = FALSE, !.lines = lines]])

-----------------------------------------------------------------------------
(* createBankReconciliation.                                               *)

Previous == statements[Len(statements)]
\* Variant with a mistake: any balance may be typed in.
MayOpenAnywhere == Openings

\* Each statement opens where the one before closed, the first anywhere.
MayOpen == IF statements = <<>> THEN Openings ELSE {Previous.closing}

\* Lines as the form lists them for a statement date.
Candidates(j, day) ==
    {x \in BankLines(j) : j[x.entry].day <= day} \ Cleared

\* The BANK row is locked; the read after it fixes the snapshot.
LockBank(s) ==
    /\ "reconcile" \in Operations
    /\ request[s].pc = "idle"
    /\ BankFree(s)
    /\ Step(s, [Idle EXCEPT !.pc = "reconciling", !.on = [journal |-> journal]])

MayClear(lineIds, j, day) == lineIds \subseteq Candidates(j, day)

\* Insert of the statement and of a line for each cleared journal line, which
\* must still exist and not be held by who deletes it.
Reconcile(s) ==
    /\ request[s].pc = "reconciling"
    /\ \E day \in Days, opening \in MayOpen, lineIds \in SUBSET BankLines(request[s].on.journal) :
        /\ statements # <<>> => Previous.day < day
        /\ MayClear(lineIds, request[s].on.journal, day)
        /\ \A x \in lineIds, t \in Others(s) : ~HoldsEntry(t, x.entry)
        /\ IF lineIds \subseteq LinesOf(journal)
           THEN Step(s, [request[s] EXCEPT !.pc = "written", !.clears = lineIds,
                  !.on = [day |-> day, opening |-> opening,
                          closing |-> opening + Amount(lineIds), cleared |-> lineIds]])
           ELSE Rollback(s)

-----------------------------------------------------------------------------
Commit(s) ==
    LET r == request[s]
    IN  /\ Wrote(s)
        /\ IF r.at # None
           THEN journal' = [journal EXCEPT ![r.at] = r.new] /\ UNCHANGED statements
           ELSE statements' = Append(statements, r.on) /\ UNCHANGED journal
        /\ request' = [request EXCEPT ![s] = Idle]

\* A closed month, a missing account or a deadlock undoes the transaction.
Fail(s) == request[s].pc # "idle" /\ Rollback(s)

Next ==
    \E s \in Sessions :
        \/ Post(s) \/ DeleteLines(s) \/ Rewrite(s) \/ Remove(s)
        \/ LockEntry(s) \/ Reverse(s) \/ LockBank(s) \/ Reconcile(s)
        \/ Commit(s) \/ Fail(s)

Spec == Init /\ [][Next]_vars

-----------------------------------------------------------------------------
(* Properties.                                                             *)

AsOf(j, day) == {e \in Book(j) : e.day <= day}

\* The variables keep their types: dates, versions and numbers within bounds,
\* and statements in order of date.
TypeOK ==
    /\ \A i \in Ids : journal[i] # None =>
          /\ journal[i].day \in Days /\ journal[i].version \in 1 .. MaxVersion
          /\ journal[i].reverses \in Ids \cup {None}
    /\ \A m, n \in DOMAIN statements : m < n => statements[m].day < statements[n].day
    /\ \A s \in Sessions : request[s].at \in Ids \cup {None}

\* Every line posted has one side only (chk_journal_line_one_sided): no sale of
\* nothing, free return or goods without value makes the INSERT fail.
OneSided ==
    \A i \in Ids : journal[i] # None =>
        \A l \in journal[i].lines : (l.debit = 0) # (l.credit = 0)

\* On every date the trial balance balances, and assets equal liabilities and
\* the owner's capital less drawings plus earnings.
BooksBalance ==
    \A day \in Days :
        LET book == AsOf(journal, day)
        IN  /\ TotalDebits(book) = TotalCredits(book)
            /\ TotalAssets(book) = TotalLiabilities(book) + Earnings(book)
                   - NetDebits(book, Equities)

\* "a balanced balance sheet" (accounting-bank-reconciliation.integration.spec.ts):
\* the totals that getBalanceSheet returns are equal on every date.
BalanceSheetBalances ==
    \A day \in Days :
        LET book == AsOf(journal, day)
        IN  TotalAssets(book) = TotalLiabilities(book) + TotalEquity(book)

\* A reversal and the entry it reverses cancel on every account, as long as
\* the expense behind the entry is not edited again; no entry is reversed twice.
ReversalCancels ==
    \A r \in Ids : journal[r] # None /\ journal[r].reverses # None =>
        /\ \A q \in Ids \ {r} : journal[q] # None => journal[q].reverses # journal[r].reverses
        /\ LET original == journal[journal[r].reverses]
           IN  /\ original # None
               /\ original.edited \/ journal[r].lines = Opposite(original.lines)

\* Each statement opens where the one before closed and closes at that balance
\* plus the lines it cleared as they are in the journal now; a line is
\* cleared once, and edits of expenses never take a cleared line away.
StatementsChain ==
    \A n \in DOMAIN statements :
        LET s == statements[n]
        IN  /\ n > 1 => s.opening = statements[n - 1].closing
            /\ s.closing = s.opening + Amount(s.cleared)
            /\ s.cleared \subseteq BankLines(journal)
            /\ \A m \in 1 .. n - 1 : statements[m].cleared \cap s.cleared = {}

\* On every date since the last statement, its balance and the candidates that
\* getBankReconciliation lists add up to the BANK account of the ledger (less
\* what the first statement opened with).
BankBookReconciles ==
    statements # <<>> =>
        \A day \in Previous.day .. LastDay :
            Previous.closing - statements[1].opening + Amount(Candidates(journal, day))
                = NetDebit(AsOf(journal, day), "BANK")
=============================================================================
