------------------------- MODULE AccountingPeriods -------------------------
(***************************************************************************)
(* Journal entries and the closing of accounting months.                   *)
(*                                                                         *)
(* Every business document (an expense, a sale, a voucher, ...) has one    *)
(* journal entry, whose header carries its date and memo and whose lines   *)
(* carry its amount.  A TypeORM subscriber guards every INSERT, UPDATE and *)
(* DELETE of a header: it inserts the month's accounting_periods row,      *)
(* ignoring a duplicate, reads it FOR UPDATE and throws if it is closed.   *)
(* In InnoDB a duplicate INSERT leaves a shared lock on the row, which the *)
(* locking read then turns into an exclusive one.                          *)
(* save(header) sends no UPDATE, and so calls no subscriber, if the header *)
(* equals the row it re-read in the transaction's snapshot.                *)
(***************************************************************************)
EXTENDS Integers

CONSTANTS
    Docs,        \* identities of business documents
    Sessions,    \* request handlers that may run a transaction at once
    Operations,  \* handlers that are called: post, update, remove, close
    Changes,     \* columns an update may change: month, payee, amount
    Months,      \* calendar months that documents are dated in
    Now,         \* the current month
    Payees,      \* what a header says besides its date
    Amounts,     \* what the lines say
    None         \* no such row

ASSUME OperationsAssumption == Operations \subseteq {"post", "update", "remove", "close"}
ASSUME ChangesAssumption == Changes \subseteq {"month", "payee", "amount"}
ASSUME MonthsAssumption == Months \subseteq Nat /\ Now \in Nat

Entry == [month : Months, payee : Payees, amount : Amounts]
ASSUME NoneAssumption == None \notin Entry

VARIABLES
    period,   \* committed accounting_periods rows: absent, open or closed
    expense,  \* committed documents
    journal,  \* committed journal entries, header and lines
    tx,       \* the open transaction of each session
    overlapped \* history: documents that two updates have had open at once

vars == <<period, expense, journal, tx, overlapped>>

Idle == [op |-> "idle", doc |-> None, seen |-> None, entry |-> None, draft |-> None,
         locked |-> FALSE, keys |-> {}, shared |-> {}, exclusive |-> {}]

Init ==
    /\ period \in [Months -> {"absent", "open"}]
    /\ expense \in [Docs -> Entry \cup {None}]
    /\ journal = expense
    /\ tx = [s \in Sessions |-> Idle]
    /\ overlapped = {}

-----------------------------------------------------------------------------
(* The transaction of a session.  doc is the document, seen and entry what *)
(* its snapshot shows of the document and of its entry, draft the new      *)
(* version; locked says that its rows are held; keys are the months still  *)
(* to be checked; shared and exclusive the period rows held.               *)

Opening(op, doc, seen, entry, draft, keys) ==
    [op |-> op, doc |-> doc, seen |-> seen, entry |-> entry, draft |-> draft,
     locked |-> FALSE, keys |-> keys, shared |-> {}, exclusive |-> {}]
Open(s, op, doc, seen, entry, draft, keys) ==
    tx' = [tx EXCEPT ![s] = Opening(op, doc, seen, entry, draft, keys)]

HeaderChanged(entry, draft) == entry.month # draft.month \/ entry.payee # draft.payee

\* Variant with a mistake the runs must find: only a new date is checked.
UpdateKeysOfMove(entry, draft) ==
    IF entry.month # draft.month THEN {entry.month, draft.month} ELSE {}

\* The months the subscriber checks when a header is saved.
UpdateKeys(entry, draft) ==
    IF HeaderChanged(entry, draft) THEN {entry.month, draft.month} ELSE {}

\* Updates of d that are open.
Updating(d) == {t \in Sessions : tx[t].op = "update" /\ tx[t].doc = d}

\* A document is created with its journal entry, under a fresh identity.
Post(s) ==
    /\ "post" \in Operations
    /\ tx[s].op = "idle"
    /\ \E d \in Docs, e \in Entry :
        /\ expense[d] = None
        /\ \A t \in Sessions : tx[t].doc # d
        /\ Open(s, "post", d, None, None, e, {e.month})
        /\ overlapped' = overlapped \ {d}
    /\ UNCHANGED <<period, expense, journal>>

\* ExpensesService.update: the expense is read and changed in memory.
Update(s) ==
    /\ "update" \in Operations
    /\ tx[s].op = "idle"
    /\ \E d \in Docs, e \in Entry :
        /\ expense[d] # None
        /\ {c \in {"month", "payee", "amount"} : e[c] # expense[d][c]} \subseteq Changes
        /\ Open(s, "update", d, expense[d], journal[d], e, UpdateKeys(journal[d], e))
        /\ overlapped' = IF Updating(d) = {} THEN overlapped ELSE overlapped \cup {d}
    /\ UNCHANGED <<period, expense, journal>>

\* ExpensesService.remove; deleting a salary payment does the same.
Remove(s) ==
    /\ "remove" \in Operations
    /\ tx[s].op = "idle"
    /\ \E d \in Docs :
        /\ expense[d] # None
        /\ Open(s, "remove", d, expense[d], journal[d], None, {journal[d].month})
    /\ UNCHANGED <<period, expense, journal, overlapped>>

\* closeAccountingPeriod: only a completed month.
Close(s) ==
    /\ "close" \in Operations
    /\ tx[s].op = "idle"
    /\ \E m \in Months :
        /\ m < Now
        /\ Open(s, "close", None, None, None, None, {m})
    /\ UNCHANGED <<period, expense, journal, overlapped>>

-----------------------------------------------------------------------------
Others(s) == Sessions \ {s}

\* The document and its lines must be locked before the header is saved.
NeedsDoc(s) == tx[s].op \in {"update", "remove"} /\ ~tx[s].locked

\* The months are checked in calendar order: k is the next one.
Checking(s, k) ==
    /\ tx[s].op # "idle"
    /\ ~NeedsDoc(s)
    /\ k \in tx[s].keys
    /\ \A m \in tx[s].keys : k <= m

Holds(s, k) == k \in tx[s].shared \cup tx[s].exclusive

\* The expense row is updated and the old lines deleted: both rows are locked.
LockDoc(s) ==
    /\ NeedsDoc(s)
    /\ \A t \in Others(s) : ~(tx[t].doc = tx[s].doc /\ tx[t].locked)
    /\ tx' = [tx EXCEPT ![s].locked = TRUE]
    /\ UNCHANGED <<period, expense, journal, overlapped>>

\* INSERT of the period row: it goes in and is ours, or it is a duplicate and
\* leaves us a shared lock.
InsertPeriod(s, k) ==
    /\ Checking(s, k)
    /\ ~Holds(s, k)
    /\ \A t \in Others(s) : k \notin tx[t].exclusive
    /\ tx' = IF period[k] = "absent"
             THEN [tx EXCEPT ![s].exclusive = @ \cup {k}]
             ELSE [tx EXCEPT ![s].shared = @ \cup {k}]
    /\ UNCHANGED <<period, expense, journal, overlapped>>

\* Variant with a mistake: the period is read without FOR UPDATE.
CanCheckUnlocked(s, k) == Checking(s, k) /\ Holds(s, k)

\* SELECT ... FOR UPDATE of the period row is granted.
CanCheck(s, k) ==
    /\ Checking(s, k)
    /\ Holds(s, k)
    /\ \A t \in Others(s) : ~Holds(t, k)

CheckOpen(s, k) ==
    /\ CanCheck(s, k)
    /\ period[k] # "closed"
    /\ tx' = [tx EXCEPT ![s].exclusive = @ \cup {k}, ![s].keys = @ \ {k}]
    /\ UNCHANGED <<period, expense, journal, overlapped>>

\* Variant with a mistake: an exception leaves the transaction open.
RollbackKeepsLocks(s) ==
    /\ tx' = [tx EXCEPT ![s] = [Idle EXCEPT !.shared = tx[s].shared,
                                           !.exclusive = tx[s].exclusive]]
    /\ UNCHANGED <<period, expense, journal, overlapped>>

Rollback(s) ==
    /\ tx' = [tx EXCEPT ![s] = Idle]
    /\ UNCHANGED <<period, expense, journal, overlapped>>

\* "Accounting period is closed", or "is already closed".
CheckClosed(s, k) == CanCheck(s, k) /\ period[k] = "closed" /\ Rollback(s)

\* The row after save(entity): columns the request changed come from the
\* entity, the others keep the version underneath.
SavedExpense(base, draft, seen) ==
    [month  |-> IF draft.month = seen.month THEN base.month ELSE draft.month,
     payee  |-> IF draft.payee = seen.payee THEN base.payee ELSE draft.payee,
     amount |-> IF draft.amount = seen.amount THEN base.amount ELSE draft.amount]

\* Variant with a mistake: the lines are posted again, the header's text is not.
SavedHeaderOldText(base, draft, entry) ==
    [SavedExpense(base, draft, entry) EXCEPT !.payee = base.payee,
                                             !.amount = draft.amount]

\* The entry's header is saved the same way; its lines are replaced whatever
\* they were.
SavedHeader(base, draft, entry) ==
    [SavedExpense(base, draft, entry) EXCEPT !.amount = draft.amount]

Ready(s) == tx[s].op # "idle" /\ ~NeedsDoc(s) /\ tx[s].keys = {}

\* The new lines refer to an entry that was removed meanwhile: the foreign key
\* fails and the update is rolled back.
LinesOrphaned(s) ==
    /\ Ready(s)
    /\ tx[s].op = "update"
    /\ journal[tx[s].doc] = None
    /\ Rollback(s)

\* Variant with a mistake: the row takes the request's name as its status.
CommittedPeriodNamed(s, m) ==
    IF m \notin tx[s].exclusive THEN period[m] ELSE tx[s].op

\* The period rows of a committing transaction: the ones it inserted exist,
\* the one it closes is closed.
CommittedPeriod(s, m) ==
    IF m \notin tx[s].exclusive THEN period[m]
    ELSE IF tx[s].op = "close" THEN "closed" ELSE "open"

Commit(s) ==
    LET d == tx[s].doc
    IN  /\ Ready(s)
        /\ period' = [m \in Months |-> CommittedPeriod(s, m)]
        /\ CASE tx[s].op = "post" ->
                    /\ expense' = [expense EXCEPT ![d] = tx[s].draft]
                    /\ journal' = [journal EXCEPT ![d] = tx[s].draft]
             [] tx[s].op = "remove" ->
                    /\ expense' = [expense EXCEPT ![d] = None]
                    /\ journal' = [journal EXCEPT ![d] = None]
             [] tx[s].op = "update" ->
                    /\ journal[d] # None
                    /\ expense' = [expense EXCEPT ![d] =
                                     SavedExpense(@, tx[s].draft, tx[s].seen)]
                    /\ journal' = [journal EXCEPT ![d] =
                                     SavedHeader(@, tx[s].draft, tx[s].entry)]
             [] tx[s].op = "close" -> UNCHANGED <<expense, journal>>
        /\ tx' = [tx EXCEPT ![s] = Idle]
        /\ UNCHANGED overlapped

-----------------------------------------------------------------------------
(* Lock waits, and the deadlocks InnoDB breaks by rolling one back.        *)

WaitsFor(s, t) ==
    \/ NeedsDoc(s) /\ tx[t].doc = tx[s].doc /\ tx[t].locked
    \/ \E k \in Months :
          /\ Checking(s, k)
          /\ IF Holds(s, k) THEN Holds(t, k) ELSE k \in tx[t].exclusive

DeadlockVictim(s) ==
    /\ \E C \in SUBSET Sessions :
          /\ s \in C
          /\ \A t \in C : /\ \E u \in C \ {t} : WaitsFor(t, u)
                         /\ \E u \in C \ {t} : WaitsFor(u, t)
    /\ Rollback(s)

Request(s) == Post(s) \/ Update(s) \/ Remove(s) \/ Close(s)
Check(s, k) == CheckOpen(s, k) \/ CheckClosed(s, k)
Finish(s) == LinesOrphaned(s) \/ Commit(s)
Handler(s) ==
    \/ LockDoc(s)
    \/ \E k \in Months : InsertPeriod(s, k) \/ Check(s, k)
    \/ Finish(s)
    \/ DeadlockVictim(s)

Next == \E s \in Sessions : Request(s) \/ Handler(s)

Spec == Init /\ [][Next]_vars

\* A request's next step other than being a victim; it has one at a time.  It
\* needs strong fairness, as other requests may take a lock it waits for again
\* and again; InnoDB serves the waiters of a record in the order they came.
Advance(s) ==
    LockDoc(s) \/ (\E k \in Months : InsertPeriod(s, k) \/ Check(s, k)) \/ Finish(s)

Fairness ==
    /\ \A s \in Sessions : SF_vars(Advance(s))
    /\ WF_vars(\E s \in Sessions : DeadlockVictim(s))

FairSpec == Spec /\ Fairness

-----------------------------------------------------------------------------
(* Properties.                                                             *)

Tx == [op : {"idle", "post", "update", "remove", "close"},
       doc : Docs \cup {None}, seen : Entry \cup {None}, entry : Entry \cup {None},
       draft : Entry \cup {None},
       locked : BOOLEAN, keys : SUBSET Months,
       shared : SUBSET Months, exclusive : SUBSET Months]

\* The variables keep their types.
TypeOK ==
    /\ period \in [Months -> {"absent", "open", "closed"}]
    /\ expense \in [Docs -> Entry \cup {None}]
    /\ journal \in [Docs -> Entry \cup {None}]
    /\ tx \in [Sessions -> Tx]
    /\ overlapped \subseteq Docs

MonthEntries(m) ==
    [d \in Docs |-> IF journal[d] # None /\ journal[d].month = m
                    THEN journal[d] ELSE None]

\* "Journal changes in a closed month are blocked" (README.md): once a month
\* is closed it stays closed, and no entry of it, header or lines, is added,
\* changed or removed.
ClosedMonthFrozen ==
    [][\A m \in Months : period[m] = "closed" =>
          period'[m] = "closed" /\ MonthEntries(m)' = MonthEntries(m)]_vars

\* A month is not closed while a transaction that has found it open has still
\* to commit: closing waits for the period row.
CloseWaitsForPosters ==
    \A s \in Sessions : \A m \in tx[s].exclusive \ tx[s].keys : period[m] # "closed"

\* A document and its journal entry come and go together and say the same date
\* and text, whatever updates, moves and removals overlap; they say the same
\* amount unless two updates of that document were open at once (update and
\* remove of expenses.service.ts, upsertExpenseEntry of accounting.service.ts).
JournalMatchesDocuments ==
    \A d \in Docs :
        /\ journal[d] = None <=> expense[d] = None
        /\ journal[d] # None => /\ journal[d].month = expense[d].month
                               /\ journal[d].payee = expense[d].payee
        /\ d \notin overlapped => journal[d] = expense[d]

\* The entries are what the documents say, amounts included, as the comment at
\* update wants it (expenses.service.ts). Two updates of one document that
\* overlap, of its text and of its amount, leave them different: it is a part
\* of the proof for edits of the text alone.
ViewsConsistent == journal = expense

\* Every request ends although posters of one month lock its period row in two
\* steps, shared and then exclusive, and so deadlock with each other.
RequestsEnd == \A s \in Sessions : tx[s].op # "idle" ~> tx[s].op = "idle"
=============================================================================
