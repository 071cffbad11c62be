---------------------- MODULE AccountingPeriodsProofs ----------------------
(***************************************************************************)
(* Theorems about AccountingPeriods for every set of documents, sessions   *)
(* and months.                                                             *)
(***************************************************************************)
EXTENDS AccountingPeriods, TLAPS

-----------------------------------------------------------------------------
(* The inductive invariant.                                                *)

\* A transaction has the versions its handler works with.
GoodTx(t) ==
    /\ t \in Tx
    /\ t.op \in {"post", "update", "remove"} => t.doc \in Docs
    /\ t.op \in {"update", "remove"} => t.seen \in Entry /\ t.entry \in Entry
    /\ t.op \in {"post", "update"} => t.draft \in Entry

\* The month a transaction will write into is checked, or still to be checked.
Covered(t) ==
    /\ t.op = "post" => t.draft.month \in t.keys \cup t.exclusive
    /\ t.op = "remove" => t.entry.month \in t.keys \cup t.exclusive
    /\ t.op = "update" /\ HeaderChanged(t.entry, t.draft) =>
           t.entry.month \in t.keys \cup t.exclusive

TypeInv ==
    /\ TypeOK
    /\ \A d \in Docs : expense[d] = None <=> journal[d] = None
    /\ \A s \in Sessions : GoodTx(tx[s]) /\ Covered(tx[s])

\* The period rows are locked exclusively, or shared.
PeriodLocks ==
    \A s, t \in Sessions : s # t =>
        tx[s].exclusive \cap (tx[t].shared \cup tx[t].exclusive) = {}

LEMMA IdleGood == GoodTx(Idle) /\ Covered(Idle)
BY DEF GoodTx, Covered, Idle, Tx

\* Giving one session another good transaction keeps the types.
LEMMA TypeTxStep ==
    ASSUME TypeInv, NEW s \in Sessions, NEW t, GoodTx(t), Covered(t),
           tx' = [tx EXCEPT ![s] = t],
           period' \in [Months -> {"absent", "open", "closed"}],
           expense' \in [Docs -> Entry \cup {None}],
           journal' \in [Docs -> Entry \cup {None}],
           \A d \in Docs : expense'[d] = None <=> journal'[d] = None,
           overlapped' \subseteq Docs
    PROVE  TypeInv'
<1>1. t \in Tx
    BY DEF GoodTx
<1>2. tx' \in [Sessions -> Tx]
    BY <1>1 DEF TypeInv, TypeOK
<1>3. \A u \in Sessions : tx'[u] = IF u = s THEN t ELSE tx[u]
    BY DEF TypeInv, TypeOK
<1>4. \A u \in Sessions : GoodTx(tx'[u]) /\ Covered(tx'[u])
    BY <1>3 DEF TypeInv
<1>5. TypeOK'
    BY <1>2 DEF TypeOK
<1>6. (\A u \in Sessions : GoodTx(tx[u]) /\ Covered(tx[u]))'
    BY <1>4 DEF GoodTx, Covered, HeaderChanged
<1> QED
    BY <1>5, <1>6 DEF TypeInv

\* What a request's new transaction is, and what it says of its document.
Opened(t) ==
    /\ GoodTx(t) /\ Covered(t)
    /\ t.shared = {} /\ t.exclusive = {}
    /\ t.op # "idle"
    /\ t.op = "post" => /\ expense[t.doc] = None
                        /\ \A u \in Sessions : tx[u].doc # t.doc
    /\ t.op \in {"update", "remove"} =>
           expense[t.doc] # None /\ t.seen = expense[t.doc] /\ t.entry = journal[t.doc]
    /\ t.op = "update" =>
           {c \in {"month", "payee", "amount"} : t.draft[c] # expense[t.doc][c]}
              \subseteq Changes

LEMMA RequestOpens ==
    ASSUME TypeInv, NEW s \in Sessions, Request(s)
    PROVE  \E t : tx' = [tx EXCEPT ![s] = t] /\ Opened(t)
<1>1. CASE Post(s)
    <2>1. PICK d \in Docs : \E e \in Entry :
              /\ expense[d] = None
              /\ \A t \in Sessions : tx[t].doc # d
              /\ Open(s, "post", d, None, None, e, {e.month})
        BY <1>1 DEF Post
    <2>2. PICK e \in Entry : Open(s, "post", d, None, None, e, {e.month})
        BY <2>1
    <2> DEFINE t == Opening("post", d, None, None, e, {e.month})
    <2>3. tx' = [tx EXCEPT ![s] = t]
        BY <2>2 DEF Open
    <2>4. e.month \in Months
        BY DEF Entry
    <2>5. GoodTx(t) /\ Covered(t)
        BY <2>4 DEF Opening, GoodTx, Covered, Tx
    <2> QED
        <3>1. Opened(t)
            BY <2>1, <2>5 DEF Opened, Opening
        <3> QED
            BY <2>3, <3>1
<1>2. CASE Update(s)
    <2>1. PICK d \in Docs : \E e \in Entry :
              /\ expense[d] # None
              /\ {c \in {"month", "payee", "amount"} : e[c] # expense[d][c]}
                    \subseteq Changes
              /\ Open(s, "update", d, expense[d], journal[d], e, UpdateKeys(journal[d], e))
        BY <1>2 DEF Update
    <2>2. PICK e \in Entry :
              /\ {c \in {"month", "payee", "amount"} : e[c] # expense[d][c]}
                    \subseteq Changes
              /\ Open(s, "update", d, expense[d], journal[d], e, UpdateKeys(journal[d], e))
        BY <2>1
    <2> DEFINE t == Opening("update", d, expense[d], journal[d], e, UpdateKeys(journal[d], e))
    <2>3. tx' = [tx EXCEPT ![s] = t]
        BY <2>2 DEF Open
    <2>4. journal[d] \in Entry /\ expense[d] \in Entry
        BY <2>1 DEF TypeInv, TypeOK
    <2>5. UpdateKeys(journal[d], e) \in SUBSET Months
        BY <2>4 DEF UpdateKeys, Entry
    <2>6. GoodTx(t)
        BY <2>4, <2>5 DEF Opening, GoodTx, Tx
    <2>7. Covered(t)
        BY DEF Opening, Covered, UpdateKeys
    <2> QED
        <3>1. Opened(t)
            BY <2>1, <2>2, <2>6, <2>7 DEF Opened, Opening
        <3> QED
            BY <2>3, <3>1
<1>3. CASE Remove(s)
    <2>1. PICK d \in Docs :
              /\ expense[d] # None
              /\ Open(s, "remove", d, expense[d], journal[d], None, {journal[d].month})
        BY <1>3 DEF Remove
    <2> DEFINE t == Opening("remove", d, expense[d], journal[d], None, {journal[d].month})
    <2>2. tx' = [tx EXCEPT ![s] = t]
        BY <2>1 DEF Open
    <2>3. journal[d] \in Entry /\ expense[d] \in Entry /\ journal[d].month \in Months
        BY <2>1 DEF TypeInv, TypeOK, Entry
    <2>4. GoodTx(t) /\ Covered(t)
        BY <2>3 DEF Opening, GoodTx, Covered, Tx
    <2> QED
        <3>1. Opened(t)
            BY <2>1, <2>4 DEF Opened, Opening
        <3> QED
            BY <2>2, <3>1
<1>4. CASE Close(s)
    <2>1. PICK m \in Months : Open(s, "close", None, None, None, None, {m})
        BY <1>4 DEF Close
    <2> DEFINE t == Opening("close", None, None, None, None, {m})
    <2>2. tx' = [tx EXCEPT ![s] = t]
        BY <2>1 DEF Open
    <2>3. GoodTx(t) /\ Covered(t)
        BY DEF Opening, GoodTx, Covered, Tx
    <2> QED
        <3>1. Opened(t)
            BY <2>3 DEF Opened, Opening
        <3> QED
            BY <2>2, <3>1
<1> QED
    BY <1>1, <1>2, <1>3, <1>4 DEF Request
-----------------------------------------------------------------------------
(* Types are invariant.                                                    *)

LEMMA SavedTyped ==
    ASSUME NEW base \in Entry, NEW draft \in Entry, NEW seen \in Entry
    PROVE  /\ SavedHeader(base, draft, seen) \in Entry
           /\ SavedExpense(base, draft, seen) \in Entry
BY DEF SavedHeader, SavedExpense, Entry

\* The steps of a handler before its last one touch only its transaction.
LEMMA TypeLockSteps ==
    ASSUME TypeInv, NEW s \in Sessions, NEW k \in Months,
           InsertPeriod(s, k) \/ CheckOpen(s, k) \/ Rollback(s)
    PROVE  TypeInv'
<1>1. GoodTx(tx[s]) /\ Covered(tx[s]) /\ tx[s] \in Tx
    BY DEF TypeInv, GoodTx
<1>3. CASE InsertPeriod(s, k)
    <2> DEFINE t == IF period[k] = "absent"
                    THEN [tx[s] EXCEPT !.exclusive = @ \cup {k}]
                    ELSE [tx[s] EXCEPT !.shared = @ \cup {k}]
    <2>1. GoodTx(t) /\ Covered(t)
        BY <1>1 DEF GoodTx, Covered, Tx
    <2>2. tx' = [tx EXCEPT ![s] = t]
        BY <1>3 DEF InsertPeriod
    <2> QED
        BY <1>3, <2>1, <2>2, TypeTxStep DEF InsertPeriod, TypeInv, TypeOK
<1>4. CASE CheckOpen(s, k)
    <2> DEFINE t == [tx[s] EXCEPT !.exclusive = @ \cup {k}, !.keys = @ \ {k}]
    <2>1. GoodTx(t) /\ Covered(t)
        BY <1>1 DEF GoodTx, Covered, Tx
    <2>2. tx' = [tx EXCEPT ![s] = t]
        BY <1>4 DEF CheckOpen
    <2> QED
        BY <1>4, <2>1, <2>2, TypeTxStep DEF CheckOpen, TypeInv, TypeOK
<1>5. CASE Rollback(s)
    BY <1>5, IdleGood, TypeTxStep DEF Rollback, TypeInv, TypeOK
<1> QED
    BY <1>3, <1>4, <1>5

LEMMA TypeCommit ==
    ASSUME TypeInv, NEW s \in Sessions, Commit(s)
    PROVE  TypeInv'
<1> DEFINE d == tx[s].doc
<1>1. GoodTx(tx[s]) /\ tx[s].op \in {"post", "update", "remove", "close"}
    BY DEF TypeInv, GoodTx, Tx, Commit, Ready
<1>2. period' \in [Months -> {"absent", "open", "closed"}]
    BY DEF Commit, CommittedPeriod, TypeInv, TypeOK
<1>3. /\ expense' \in [Docs -> Entry \cup {None}]
      /\ journal' \in [Docs -> Entry \cup {None}]
      /\ \A e \in Docs : expense'[e] = None <=> journal'[e] = None
    <2>1. CASE tx[s].op = "post"
        BY <1>1, <2>1, NoneAssumption DEF Commit, GoodTx, TypeInv, TypeOK
    <2>2. CASE tx[s].op = "remove"
        BY <1>1, <2>2 DEF Commit, GoodTx, TypeInv, TypeOK
    <2>3. CASE tx[s].op = "update"
        <3>1. d \in Docs /\ tx[s].draft \in Entry /\ tx[s].seen \in Entry /\ tx[s].entry \in Entry
            BY <1>1, <2>3 DEF GoodTx
        <3>2. expense[d] \in Entry /\ journal[d] \in Entry
            BY <2>3, <3>1 DEF Commit, TypeInv, TypeOK
        <3>3. /\ SavedExpense(expense[d], tx[s].draft, tx[s].seen) \in Entry
              /\ SavedHeader(journal[d], tx[s].draft, tx[s].entry) \in Entry
            BY <3>1, <3>2, SavedTyped
        <3>4. /\ expense' = [expense EXCEPT ![d] =
                                SavedExpense(expense[d], tx[s].draft, tx[s].seen)]
              /\ journal' = [journal EXCEPT ![d] =
                                SavedHeader(journal[d], tx[s].draft, tx[s].entry)]
            BY <2>3 DEF Commit
        <3> QED
            BY <3>1, <3>3, <3>4, NoneAssumption DEF TypeInv, TypeOK
    <2>4. CASE tx[s].op = "close"
        BY <2>4 DEF Commit, TypeInv, TypeOK
    <2> QED
        BY <1>1, <2>1, <2>2, <2>3, <2>4
<1> QED
    BY <1>2, <1>3, IdleGood, TypeTxStep DEF Commit, TypeInv, TypeOK

LEMMA TypeInit == Init => TypeInv
BY IdleGood DEF Init, TypeInv, TypeOK, GoodTx

LEMMA TypeStep == TypeInv /\ [Next]_vars => TypeInv'
<1> SUFFICES ASSUME TypeInv, [Next]_vars PROVE TypeInv'
    OBVIOUS
<1>1. ASSUME NEW s \in Sessions, Request(s) PROVE TypeInv'
    <2>1. PICK t : tx' = [tx EXCEPT ![s] = t] /\ Opened(t)
        BY <1>1, RequestOpens
    <2>2. UNCHANGED <<period, expense, journal>>
        BY <1>1 DEF Request, Post, Update, Remove, Close
    <2>3. overlapped' \subseteq Docs
        BY <1>1 DEF Request, Post, Update, Remove, Close, TypeInv, TypeOK
    <2> QED
        BY <2>1, <2>2, <2>3, TypeTxStep DEF Opened, TypeInv, TypeOK
<1>2. ASSUME NEW s \in Sessions, Handler(s) PROVE TypeInv'
    <2>1. ASSUME NEW k \in Months, InsertPeriod(s, k) \/ Check(s, k) PROVE TypeInv'
        BY <2>1, TypeLockSteps DEF Check, CheckClosed
    <2>2. CASE LockDoc(s) \/ Rollback(s)
        <3>1. GoodTx(tx[s]) /\ Covered(tx[s])
            BY DEF TypeInv
        <3>2. CASE LockDoc(s)
            <4> DEFINE t == [tx[s] EXCEPT !.locked = TRUE]
            <4>1. GoodTx(t) /\ Covered(t)
                BY <3>1 DEF GoodTx, Covered, Tx
            <4>2. tx' = [tx EXCEPT ![s] = t]
                BY <3>2 DEF LockDoc
            <4> QED
                BY <3>2, <4>1, <4>2, TypeTxStep DEF LockDoc, TypeInv, TypeOK
        <3>3. CASE Rollback(s)
            BY <3>3, IdleGood, TypeTxStep DEF Rollback, TypeInv, TypeOK
        <3> QED
            BY <2>2, <3>2, <3>3
    <2>3. CASE Commit(s)
        BY <2>3, TypeCommit
    <2> QED
        BY <1>2, <2>1, <2>2, <2>3 DEF Handler, Finish, LinesOrphaned, DeadlockVictim
<1>3. CASE UNCHANGED vars
    BY <1>3 DEF vars, TypeInv, TypeOK, GoodTx, Covered, HeaderChanged
<1> QED
    BY <1>1, <1>2, <1>3 DEF Next

LEMMA TypeAlways == Spec => []TypeInv
BY TypeInit, TypeStep, PTL DEF Spec

\* The variables keep their types in every behaviour.
THEOREM TypeCorrect == Spec => []TypeOK
BY TypeAlways, PTL DEF TypeInv

-----------------------------------------------------------------------------
(* Closing waits for the transactions that have checked the month.         *)

\* Only a row that exists is locked shared.
SharedExist == \A s \in Sessions : \A m \in tx[s].shared : period[m] # "absent"

LockInv == TypeInv /\ PeriodLocks /\ SharedExist /\ CloseWaitsForPosters

LEMMA LockInit == Init => LockInv
BY TypeInit DEF Init, LockInv, PeriodLocks, SharedExist, CloseWaitsForPosters, Idle

\* The period rows stay, and the session's new locks were free.
LEMMA LockTxStep ==
    ASSUME LockInv, TypeInv', NEW s \in Sessions, NEW t \in Tx,
           tx' = [tx EXCEPT ![s] = t], UNCHANGED period,
           \A u \in Sessions \ {s} :
              /\ t.exclusive \cap (tx[u].shared \cup tx[u].exclusive) = {}
              /\ tx[u].exclusive \cap (t.shared \cup t.exclusive) = {},
           \A m \in t.shared : period[m] # "absent",
           \A m \in t.exclusive \ t.keys : period[m] # "closed"
    PROVE  LockInv'
<1>1. \A u \in Sessions : tx'[u] = IF u = s THEN t ELSE tx[u]
    BY DEF LockInv, TypeInv, TypeOK
<1>2. PeriodLocks'
    BY <1>1 DEF LockInv, PeriodLocks
<1>3. SharedExist' /\ CloseWaitsForPosters'
    BY <1>1 DEF LockInv, SharedExist, CloseWaitsForPosters
<1> QED
    BY <1>2, <1>3 DEF LockInv

LEMMA LockStep == LockInv /\ [Next]_vars => LockInv'
<1> SUFFICES ASSUME LockInv, [Next]_vars PROVE LockInv'
    OBVIOUS
<1> TypeInv'
    BY TypeStep DEF LockInv
<1> TypeOK
    BY DEF LockInv, TypeInv
<1>1. ASSUME NEW s \in Sessions, Request(s) PROVE LockInv'
    <2>1. PICK t : tx' = [tx EXCEPT ![s] = t] /\ Opened(t)
        BY <1>1, RequestOpens DEF LockInv
    <2>2. UNCHANGED period /\ t \in Tx
        BY <1>1, <2>1 DEF Request, Post, Update, Remove, Close, Opened, GoodTx
    <2> QED
        BY <2>1, <2>2, LockTxStep DEF Opened
<1>2. ASSUME NEW s \in Sessions, Rollback(s) PROVE LockInv'
    BY <1>2, IdleGood, LockTxStep DEF Rollback, GoodTx, Idle
<1>3. ASSUME NEW s \in Sessions, LockDoc(s) PROVE LockInv'
    <2> DEFINE t == [tx[s] EXCEPT !.locked = TRUE]
    <2>1. t \in Tx /\ tx[s] \in Tx
        BY DEF TypeOK, Tx
    <2>2. /\ t.exclusive = tx[s].exclusive
          /\ t.shared = tx[s].shared
          /\ t.keys = tx[s].keys
        BY <2>1 DEF Tx
    <2>3. tx' = [tx EXCEPT ![s] = t]
        BY <1>3 DEF LockDoc
    <2> HIDE DEF t
    <2> QED
        BY <1>3, <2>1, <2>2, <2>3, LockTxStep
        DEF LockDoc, LockInv, PeriodLocks, SharedExist, CloseWaitsForPosters
<1>4. ASSUME NEW s \in Sessions, NEW k \in Months, InsertPeriod(s, k)
      PROVE  LockInv'
    <2> DEFINE t == IF period[k] = "absent"
                    THEN [tx[s] EXCEPT !.exclusive = @ \cup {k}]
                    ELSE [tx[s] EXCEPT !.shared = @ \cup {k}]
    <2>1. t \in Tx /\ tx[s] \in Tx /\ k \in tx[s].keys
        BY <1>4 DEF TypeOK, Tx, InsertPeriod, Checking
    <2>2. \A u \in Sessions \ {s} : k \notin tx[u].exclusive
        BY <1>4 DEF InsertPeriod, Others
    <2>3. ASSUME period[k] # "absent" PROVE LockInv'
        <3>1. /\ t.exclusive = tx[s].exclusive
              /\ t.shared = tx[s].shared \cup {k}
              /\ t.keys = tx[s].keys
            BY <2>1, <2>3 DEF Tx
        <3> QED
            BY <1>4, <2>1, <2>2, <3>1, LockTxStep
            DEF InsertPeriod, LockInv, PeriodLocks, SharedExist, CloseWaitsForPosters
    <2>4. ASSUME period[k] = "absent" PROVE LockInv'
        <3>1. /\ t.exclusive = tx[s].exclusive \cup {k}
              /\ t.shared = tx[s].shared
              /\ t.keys = tx[s].keys
            BY <2>1, <2>4 DEF Tx
        <3>2. \A u \in Sessions \ {s} : k \notin tx[u].shared
            BY <2>4 DEF LockInv, SharedExist
        <3> QED
            BY <1>4, <2>1, <2>2, <3>1, <3>2, LockTxStep
            DEF InsertPeriod, LockInv, PeriodLocks, SharedExist, CloseWaitsForPosters
    <2> QED
        BY <2>3, <2>4
<1>5. ASSUME NEW s \in Sessions, NEW k \in Months, CheckOpen(s, k)
      PROVE  LockInv'
    <2> DEFINE t == [tx[s] EXCEPT !.exclusive = @ \cup {k}, !.keys = @ \ {k}]
    <2>1. t \in Tx /\ tx[s] \in Tx
        BY DEF TypeOK, Tx
    <2>2. \A u \in Sessions \ {s} : k \notin tx[u].shared \cup tx[u].exclusive
        BY <1>5 DEF CheckOpen, CanCheck, Others, Holds
    <2>3. /\ t.exclusive = tx[s].exclusive \cup {k}
          /\ t.shared = tx[s].shared
          /\ t.keys = tx[s].keys \ {k}
        BY <2>1 DEF Tx
    <2>4. /\ tx' = [tx EXCEPT ![s] = t]
          /\ UNCHANGED period
          /\ period[k] # "closed"
        BY <1>5 DEF CheckOpen
    <2> HIDE DEF t
    <2> QED
        BY <2>1, <2>2, <2>3, <2>4, LockTxStep
        DEF LockInv, PeriodLocks, SharedExist, CloseWaitsForPosters
<1>6. ASSUME NEW s \in Sessions, Commit(s) PROVE LockInv'
    <2>1. \A u \in Sessions : tx'[u] = IF u = s THEN Idle ELSE tx[u]
        BY <1>6 DEF Commit, TypeOK
    <2>2. PeriodLocks' /\ SharedExist'
        BY <1>6, <2>1 DEF LockInv, PeriodLocks, SharedExist, Idle, Commit,
                          CommittedPeriod, TypeOK, Tx
    <2>3. ASSUME NEW u \in Sessions, NEW m \in tx'[u].exclusive \ tx'[u].keys
          PROVE  period'[m] # "closed"
        <3>1. u # s /\ m \in tx[u].exclusive \ tx[u].keys
            BY <2>1, <2>3 DEF Idle
        <3>2. m \in Months /\ m \notin tx[s].exclusive
            BY <3>1 DEF LockInv, PeriodLocks, TypeOK, Tx
        <3> QED
            BY <1>6, <3>1, <3>2 DEF Commit, CommittedPeriod, LockInv, CloseWaitsForPosters
    <2> QED
        BY <2>2, <2>3 DEF LockInv, CloseWaitsForPosters
<1>7. CASE UNCHANGED vars
    BY <1>7 DEF vars, LockInv, PeriodLocks, SharedExist, CloseWaitsForPosters
<1> QED
    BY <1>1, <1>2, <1>3, <1>4, <1>5, <1>6, <1>7
    DEF Next, Handler, Check, CheckClosed, Finish, LinesOrphaned, DeadlockVictim

LEMMA LockAlways == Spec => []LockInv
BY LockInit, LockStep, PTL DEF Spec

\* No month is closed between a transaction's check of it and that
\* transaction's commit, for any number of sessions and months.
THEOREM ClosingWaits == Spec => []CloseWaitsForPosters
BY LockAlways, PTL DEF LockInv

-----------------------------------------------------------------------------
(* Closed months, as long as updates change only the text of a header.     *)
(* An edit of the amount alone has a counterexample (run amount_edit).      *)

\* The version a transaction has seen may be stale in its text alone.
DocGood(t) ==
    /\ t.op = "update" =>
           t.draft.month = t.seen.month /\ t.draft.amount = t.seen.amount
    /\ t.op \in {"update", "remove"} =>
           \/ journal[t.doc] = None
           \/ /\ journal[t.doc].month = t.seen.month
              /\ journal[t.doc].amount = t.seen.amount
    /\ t.op \in {"update", "remove"} => t.entry = t.seen
    /\ t.op = "post" => journal[t.doc] = None

Writes(t) == t.op \in {"post", "update", "remove"}

\* Nobody else writes a document that is being created.
Fresh ==
    \A s, t \in Sessions :
        s # t /\ tx[s].op = "post" /\ Writes(tx[t]) => tx[s].doc # tx[t].doc

DocInv ==
    /\ LockInv
    /\ ViewsConsistent
    /\ Fresh
    /\ \A s \in Sessions : DocGood(tx[s])

LEMMA DocInit == Init => DocInv
BY LockInit DEF Init, DocInv, ViewsConsistent, Fresh, DocGood, Writes, Idle

\* A handler that goes on with the same document, or stops, leaves DocInv.
LEMMA DocSameStep ==
    ASSUME DocInv, LockInv', NEW s \in Sessions, NEW t, tx' = [tx EXCEPT ![s] = t],
           UNCHANGED <<expense, journal>>,
           \/ t.op \notin {"post", "update", "remove"}
           \/ /\ t.op = tx[s].op /\ t.doc = tx[s].doc
              /\ t.seen = tx[s].seen /\ t.entry = tx[s].entry /\ t.draft = tx[s].draft
    PROVE  DocInv'
<1>1. \A u \in Sessions : tx'[u] = IF u = s THEN t ELSE tx[u]
    BY DEF DocInv, LockInv, TypeInv, TypeOK
<1>2. ViewsConsistent'
    BY DEF DocInv, ViewsConsistent
<1>3. Fresh'
    BY <1>1 DEF DocInv, Fresh, Writes
<1>4. ASSUME NEW u \in Sessions PROVE DocGood(tx[u])'
    BY <1>1 DEF DocInv, DocGood
<1> QED
    BY <1>2, <1>3, <1>4 DEF DocInv

LEMMA DocRequest ==
    ASSUME Changes \subseteq {"payee"}, DocInv, LockInv',
           NEW s \in Sessions, Request(s)
    PROVE  DocInv'
<1>1. PICK t : tx' = [tx EXCEPT ![s] = t] /\ Opened(t)
    BY RequestOpens DEF DocInv, LockInv
<1>2. \A u \in Sessions : tx'[u] = IF u = s THEN t ELSE tx[u]
    BY <1>1 DEF DocInv, LockInv, TypeInv, TypeOK
<1>3. UNCHANGED <<expense, journal>>
    BY DEF Request, Post, Update, Remove, Close
<1>4. t.op = "update" => t.draft.month = t.seen.month /\ t.draft.amount = t.seen.amount
    BY <1>1 DEF Opened, DocInv, ViewsConsistent
<1>5. DocGood(t)
    BY <1>1, <1>4 DEF DocGood, Opened, DocInv, ViewsConsistent
<1>6. ASSUME NEW u \in Sessions PROVE DocGood(tx[u])'
    BY <1>2, <1>3, <1>5 DEF DocInv, DocGood
<1>7. ASSUME NEW u \in Sessions, u # s, Writes(t), Writes(tx[u]),
             t.op = "post" \/ tx[u].op = "post"
      PROVE  t.doc # tx[u].doc
    <2>1. CASE t.op = "post"
        BY <2>1, <1>1 DEF Opened
    <2>2. CASE t.op # "post"
        <3>1. journal[t.doc] # None /\ journal[tx[u].doc] = None
            BY <2>2, <1>1, <1>7
            DEF Opened, Writes, DocInv, DocGood, ViewsConsistent
        <3> QED
            BY <3>1
    <2> QED
        BY <2>1, <2>2
<1>8. Fresh'
    BY <1>2, <1>7 DEF DocInv, Fresh, Writes
<1> QED
    BY <1>3, <1>6, <1>8 DEF DocInv, ViewsConsistent

\* The entry a committing update replaces keeps its month and amount.
LEMMA CommittedUpdate ==
    ASSUME DocInv, NEW s \in Sessions, Commit(s), tx[s].op = "update"
    PROVE  LET d == tx[s].doc
               e == SavedHeader(journal[d], tx[s].draft, tx[s].entry)
           IN  /\ d \in Docs /\ journal[d] \in Entry /\ e \in Entry
               /\ journal[d].month = tx[s].seen.month
               /\ e.month = journal[d].month /\ e.amount = journal[d].amount
               /\ tx[s].draft.payee = tx[s].seen.payee => e = journal[d]
               /\ journal' = [journal EXCEPT ![d] = e]
               /\ expense' = journal'
<1> DEFINE d == tx[s].doc
           draft == tx[s].draft
           seen == tx[s].seen
           e == SavedHeader(journal[d], draft, seen)
<1>1. d \in Docs /\ draft \in Entry /\ seen \in Entry /\ tx[s].entry = seen
    BY DEF DocInv, LockInv, TypeInv, GoodTx, DocGood
<1>2. /\ journal[d] # None
      /\ expense' = [expense EXCEPT ![d] = SavedExpense(expense[d], draft, seen)]
      /\ journal' = [journal EXCEPT ![d] = e]
    BY <1>1 DEF Commit
<1>3. journal[d] \in Entry /\ expense = journal
    BY <1>1, <1>2 DEF DocInv, LockInv, TypeInv, TypeOK, ViewsConsistent
<1>4. /\ draft.month = seen.month /\ draft.amount = seen.amount
      /\ journal[d].month = seen.month /\ journal[d].amount = seen.amount
    BY <1>2 DEF DocInv, DocGood
<1>5. e.month = journal[d].month /\ e.amount = journal[d].amount
    BY <1>4 DEF SavedHeader, SavedExpense
<1>6. draft.payee = seen.payee => e = journal[d]
    BY <1>3, <1>4 DEF SavedHeader, SavedExpense, Entry
<1>7. SavedExpense(journal[d], draft, seen) = e
    BY <1>4 DEF SavedExpense, SavedHeader
<1>8. e \in Entry
    BY <1>1, <1>3, SavedTyped
<1> HIDE DEF e, d, draft, seen
<1>9. expense' = journal'
    BY <1>2, <1>3, <1>7
<1> QED
    BY <1>1, <1>2, <1>3, <1>4, <1>5, <1>6, <1>8, <1>9 DEF e, d, draft, seen

LEMMA DocCommit ==
    ASSUME DocInv, LockInv', NEW s \in Sessions, Commit(s)
    PROVE  DocInv'
<1>1. \A u \in Sessions : tx'[u] = IF u = s THEN Idle ELSE tx[u]
    BY DEF DocInv, LockInv, TypeInv, TypeOK, Commit
<1>2. Fresh'
    BY <1>1 DEF DocInv, Fresh, Writes, Idle
<1>3. tx[s].op \in {"post", "update", "remove", "close"}
    BY DEF Commit, Ready, DocInv, LockInv, TypeInv, TypeOK, Tx
<1>4. ViewsConsistent'
    <2>1. CASE tx[s].op = "update"
        BY <2>1, CommittedUpdate DEF ViewsConsistent
    <2>2. CASE tx[s].op # "update"
        <3>1. journal = expense
            BY DEF DocInv, ViewsConsistent
        <3>2. CASE tx[s].op = "post"
            BY <3>1, <3>2 DEF Commit, ViewsConsistent
        <3>3. CASE tx[s].op = "remove"
            BY <3>1, <3>3 DEF Commit, ViewsConsistent
        <3>4. CASE tx[s].op = "close"
            BY <3>1, <3>4 DEF Commit, ViewsConsistent
        <3> QED
            BY <1>3, <2>2, <3>2, <3>3, <3>4
    <2> QED
        BY <2>1, <2>2
<1>5. ASSUME NEW u \in Sessions, u # s PROVE DocGood(tx[u])'
    <2> DEFINE c == tx[u].doc
    <2>1. Writes(tx[u]) => c \in Docs
        BY DEF Writes, DocInv, LockInv, TypeInv, GoodTx
    <2>2. Writes(tx[u]) =>
             \/ journal'[c] = journal[c]
             \/ journal'[c] = None
             \/ /\ journal[c] # None /\ tx[u].op # "post"
                /\ journal'[c].month = journal[c].month
                /\ journal'[c].amount = journal[c].amount
        <3>1. CASE tx[s].op = "post"
            <4>1. Writes(tx[u]) => c # tx[s].doc
                BY <1>5, <3>1 DEF DocInv, Fresh, Writes
            <4> QED
                BY <2>1, <3>1, <4>1 DEF Commit, DocInv, LockInv, TypeInv, TypeOK
        <3>2. CASE tx[s].op = "update"
            <4>1. Writes(tx[u]) /\ c = tx[s].doc => tx[u].op # "post"
                BY <1>5, <3>2 DEF DocInv, Fresh, Writes
            <4>2. journal[tx[s].doc] # None
                BY <3>2 DEF Commit
            <4>3. journal \in [Docs -> Entry \cup {None}]
                BY DEF DocInv, LockInv, TypeInv, TypeOK
            <4> QED
                BY <2>1, <3>2, <4>1, <4>2, <4>3, CommittedUpdate
        <3>3. CASE tx[s].op = "remove"
            BY <2>1, <3>3 DEF Commit, DocInv, LockInv, TypeInv, TypeOK
        <3>4. CASE tx[s].op = "close"
            BY <3>4 DEF Commit
        <3> QED
            BY <1>3, <3>1, <3>2, <3>3, <3>4
    <2>3. tx'[u] = tx[u]
        BY <1>1, <1>5
    <2>4. DocGood(tx[u])
        BY DEF DocInv
    <2> QED
        BY <2>2, <2>3, <2>4 DEF DocGood, Writes
<1>6. DocGood(tx[s])'
    BY <1>1 DEF DocGood, Idle
<1> QED
    BY <1>2, <1>4, <1>5, <1>6 DEF DocInv

LEMMA DocStep ==
    ASSUME Changes \subseteq {"payee"}
    PROVE  DocInv /\ [Next]_vars => DocInv'
<1> SUFFICES ASSUME DocInv, [Next]_vars PROVE DocInv'
    OBVIOUS
<1> LockInv'
    BY LockStep DEF DocInv
<1> tx \in [Sessions -> Tx]
    BY DEF DocInv, LockInv, TypeInv, TypeOK
<1>1. ASSUME NEW s \in Sessions, Request(s) PROVE DocInv'
    BY <1>1, DocRequest
<1>2. ASSUME NEW s \in Sessions, Rollback(s) PROVE DocInv'
    BY <1>2, DocSameStep DEF Rollback, Idle
<1>3. ASSUME NEW s \in Sessions, LockDoc(s) PROVE DocInv'
    <2> DEFINE t == [tx[s] EXCEPT !.locked = TRUE]
    <2>1. /\ t.op = tx[s].op /\ t.doc = tx[s].doc
          /\ t.seen = tx[s].seen /\ t.entry = tx[s].entry /\ t.draft = tx[s].draft
        BY DEF Tx
    <2> QED
        BY <1>3, <2>1, DocSameStep DEF LockDoc
<1>4. ASSUME NEW s \in Sessions, NEW k \in Months, InsertPeriod(s, k) PROVE DocInv'
    <2> DEFINE t == IF period[k] = "absent"
                    THEN [tx[s] EXCEPT !.exclusive = @ \cup {k}]
                    ELSE [tx[s] EXCEPT !.shared = @ \cup {k}]
    <2>1. /\ t.op = tx[s].op /\ t.doc = tx[s].doc
          /\ t.seen = tx[s].seen /\ t.entry = tx[s].entry /\ t.draft = tx[s].draft
        BY DEF Tx
    <2>2. tx' = [tx EXCEPT ![s] = t] /\ UNCHANGED <<expense, journal>>
        BY <1>4 DEF InsertPeriod
    <2> QED
        BY <2>1, <2>2, DocSameStep
<1>5. ASSUME NEW s \in Sessions, NEW k \in Months, CheckOpen(s, k) PROVE DocInv'
    <2> DEFINE t == [tx[s] EXCEPT !.exclusive = @ \cup {k}, !.keys = @ \ {k}]
    <2>1. /\ t.op = tx[s].op /\ t.doc = tx[s].doc
          /\ t.seen = tx[s].seen /\ t.entry = tx[s].entry /\ t.draft = tx[s].draft
        BY DEF Tx
    <2>2. tx' = [tx EXCEPT ![s] = t] /\ UNCHANGED <<expense, journal>>
        BY <1>5 DEF CheckOpen
    <2> QED
        BY <2>1, <2>2, DocSameStep
<1>6. ASSUME NEW s \in Sessions, Commit(s) PROVE DocInv'
    BY <1>6, DocCommit
<1>7. CASE UNCHANGED vars
    BY <1>7 DEF vars, DocInv, ViewsConsistent, Fresh, Writes, DocGood
<1> QED
    BY <1>1, <1>2, <1>3, <1>4, <1>5, <1>6, <1>7
    DEF Next, Handler, Check, CheckClosed, Finish, LinesOrphaned, DeadlockVictim

LEMMA DocAlways ==
    ASSUME Changes \subseteq {"payee"}
    PROVE  Spec => []DocInv
BY DocInit, DocStep, PTL DEF Spec

FrozenStep ==
    \A m \in Months : period[m] = "closed" =>
        period'[m] = "closed" /\ MonthEntries(m)' = MonthEntries(m)

\* A commit has checked the month of the entry it writes, so that is not the
\* closed one; an update of an unchanged header rewrites what was there.
LEMMA FrozenCommit ==
    ASSUME DocInv, NEW s \in Sessions, Commit(s)
    PROVE  FrozenStep
<1> SUFFICES ASSUME NEW m \in Months, period[m] = "closed"
             PROVE  period'[m] = "closed" /\ MonthEntries(m)' = MonthEntries(m)
    BY DEF FrozenStep
<1> DEFINE d == tx[s].doc
<1>1. m \notin tx[s].exclusive /\ m \notin tx[s].keys
    BY DEF Commit, Ready, DocInv, LockInv, CloseWaitsForPosters
<1>2. period'[m] = "closed"
    BY <1>1 DEF Commit, CommittedPeriod
<1>3. tx[s].op \in {"post", "update", "remove", "close"}
    BY DEF Commit, Ready, DocInv, LockInv, TypeInv, TypeOK, Tx
<1>4. journal \in [Docs -> Entry \cup {None}] /\ GoodTx(tx[s])
      /\ Covered(tx[s]) /\ DocGood(tx[s])
    BY DEF DocInv, LockInv, TypeInv, TypeOK
<1>5. \A e \in Docs : \/ journal'[e] = journal[e]
                      \/ /\ journal[e] = None \/ journal[e].month # m
                         /\ journal'[e] = None \/ journal'[e].month # m
    <2>1. CASE tx[s].op = "post"
        <3>1. journal' = [journal EXCEPT ![d] = tx[s].draft]
            BY <2>1 DEF Commit
        <3>2. tx[s].draft.month # m /\ journal[d] = None
            BY <1>1, <1>4, <2>1 DEF Covered, DocGood
        <3> QED
            BY <1>4, <3>1, <3>2
    <2>2. CASE tx[s].op = "remove"
        <3>1. journal' = [journal EXCEPT ![d] = None]
            BY <2>2 DEF Commit
        <3>2. journal[d] = None \/ journal[d].month # m
            BY <1>1, <1>4, <2>2 DEF Covered, DocGood
        <3> QED
            BY <1>4, <3>1, <3>2
    <2>3. CASE tx[s].op = "update"
        <3>1. CASE HeaderChanged(tx[s].entry, tx[s].draft)
            <4>1. tx[s].seen.month # m
                BY <1>1, <1>4, <2>3, <3>1 DEF Covered, DocGood
            <4> QED
                BY <1>4, <2>3, <4>1, CommittedUpdate
        <3>2. CASE ~HeaderChanged(tx[s].entry, tx[s].draft)
            BY <1>4, <2>3, <3>2, CommittedUpdate DEF HeaderChanged, DocGood
        <3> QED
            BY <3>1, <3>2
    <2>4. CASE tx[s].op = "close"
        BY <2>4 DEF Commit
    <2> QED
        BY <1>3, <2>1, <2>2, <2>3, <2>4
<1>6. MonthEntries(m)' = MonthEntries(m)
    BY <1>5 DEF MonthEntries
<1> QED
    BY <1>2, <1>6

LEMMA FrozenNext == DocInv /\ [Next]_vars => [FrozenStep]_vars
<1> SUFFICES ASSUME DocInv, [Next]_vars PROVE FrozenStep
    OBVIOUS
<1>1. ASSUME UNCHANGED <<period, journal>> PROVE FrozenStep
    BY <1>1 DEF FrozenStep, MonthEntries
<1>2. ASSUME NEW s \in Sessions, Commit(s) PROVE FrozenStep
    BY <1>2, FrozenCommit
<1> QED
    BY <1>1, <1>2
    DEF Next, vars, Request, Post, Update, Remove, Close, Handler, LockDoc, InsertPeriod,
        Check, CheckOpen, CheckClosed, Finish, LinesOrphaned, DeadlockVictim, Rollback

\* Once a month is closed none of its entries is added, changed or removed, if
\* updates change only the text of a header.
THEOREM ClosedMonthStays ==
    ASSUME Changes \subseteq {"payee"}
    PROVE  Spec => ClosedMonthFrozen
<1>1. DocInv /\ [Next]_vars =>
          [\A m \in Months : period[m] = "closed" =>
              period'[m] = "closed" /\ MonthEntries(m)' = MonthEntries(m)]_vars
    BY FrozenNext DEF FrozenStep
<1> QED
    BY <1>1, DocAlways, PTL DEF Spec, ClosedMonthFrozen

-----------------------------------------------------------------------------
(* Documents and entries under every kind of change.                       *)

\* A row and its entry have one date and text; all is equal unless two updates
\* of the document have met.
Agrees(d) ==
    /\ journal[d] # None => /\ journal[d].month = expense[d].month
                           /\ journal[d].payee = expense[d].payee
    /\ d \notin overlapped => journal[d] = expense[d]

\* What an update has read agrees as well, and is what is committed if no other
\* update has met it and the document is still there.
Current(t) ==
    /\ t.op = "update" => t.seen.month = t.entry.month /\ t.seen.payee = t.entry.payee
    /\ t.op = "update" /\ t.doc \notin overlapped =>
           \/ journal[t.doc] = None
           \/ t.seen = expense[t.doc] /\ t.entry = journal[t.doc]
    /\ t.op = "post" => journal[t.doc] = None

\* Two updates of one document have met.
Met ==
    \A s, t \in Sessions :
        s # t /\ tx[s].op = "update" /\ tx[t].op = "update" /\ tx[s].doc = tx[t].doc =>
            tx[s].doc \in overlapped

AgreeInv ==
    /\ TypeInv
    /\ Fresh
    /\ Met
    /\ \A d \in Docs : Agrees(d)
    /\ \A s \in Sessions : Current(tx[s])

LEMMA AgreeInit == Init => AgreeInv
<1> SUFFICES ASSUME Init PROVE AgreeInv
    OBVIOUS
<1>1. TypeInv
    BY TypeInit
<1>2. Fresh /\ Met
    BY DEF Init, Fresh, Met, Writes, Idle
<1>3. \A d \in Docs : Agrees(d)
    BY DEF Init, Agrees
<1>4. \A s \in Sessions : Current(tx[s])
    BY DEF Init, Current, Idle
<1> QED
    BY <1>1, <1>2, <1>3, <1>4 DEF AgreeInv

\* A handler that goes on with the same document, or stops, leaves AgreeInv.
LEMMA AgreeSameStep ==
    ASSUME AgreeInv, TypeInv', NEW s \in Sessions, NEW t, tx' = [tx EXCEPT ![s] = t],
           UNCHANGED <<expense, journal, overlapped>>,
           \/ t.op \notin {"post", "update", "remove"}
           \/ /\ t.op = tx[s].op /\ t.doc = tx[s].doc
              /\ t.seen = tx[s].seen /\ t.entry = tx[s].entry /\ t.draft = tx[s].draft
    PROVE  AgreeInv'
<1>1. \A u \in Sessions : tx'[u] = IF u = s THEN t ELSE tx[u]
    BY DEF AgreeInv, TypeInv, TypeOK
<1>2. Fresh'
    BY <1>1 DEF AgreeInv, Fresh, Writes
<1>3. Met'
    BY <1>1 DEF AgreeInv, Met
<1>4. ASSUME NEW u \in Sessions PROVE Current(tx[u])'
    BY <1>1 DEF AgreeInv, Current
<1>5. ASSUME NEW d \in Docs PROVE Agrees(d)'
    BY DEF AgreeInv, Agrees
<1> QED
    BY <1>2, <1>3, <1>4, <1>5 DEF AgreeInv

LEMMA AgreeRequest ==
    ASSUME AgreeInv, TypeInv', NEW s \in Sessions, Request(s)
    PROVE  AgreeInv'
<1>1. PICK t : tx' = [tx EXCEPT ![s] = t] /\ Opened(t)
    BY RequestOpens DEF AgreeInv
<1>2. \A u \in Sessions : tx'[u] = IF u = s THEN t ELSE tx[u]
    BY <1>1 DEF AgreeInv, TypeInv, TypeOK
<1>3. UNCHANGED <<expense, journal>>
    BY DEF Request, Post, Update, Remove, Close
<1>4. /\ t.op = "post" => overlapped' = overlapped \ {t.doc}
      /\ t.op = "update" =>
             overlapped' = IF Updating(t.doc) = {} THEN overlapped
                           ELSE overlapped \cup {t.doc}
      /\ t.op \notin {"post", "update"} => overlapped' = overlapped
    <2>1. t = tx'[s]
        BY <1>2
    <2>2. tx \in [Sessions -> Tx]
        BY DEF AgreeInv, TypeInv, TypeOK
    <2>3. CASE Post(s)
        BY <2>1, <2>2, <2>3 DEF Post, Open, Opening
    <2>4. CASE Update(s)
        BY <2>1, <2>2, <2>4 DEF Update, Open, Opening
    <2>5. CASE Remove(s)
        BY <2>1, <2>2, <2>5 DEF Remove, Open, Opening
    <2>6. CASE Close(s)
        BY <2>1, <2>2, <2>6 DEF Close, Open, Opening
    <2> QED
        BY <2>3, <2>4, <2>5, <2>6 DEF Request
<1>5. ASSUME NEW u \in Sessions, u # s, Writes(tx[u]), tx[u].doc \in overlapped
      PROVE  tx[u].doc \in overlapped'
    BY <1>1, <1>4, <1>5 DEF Opened
<1>6. t.op \in {"post", "update", "remove"} => t.doc \in Docs
    BY <1>1 DEF Opened, GoodTx
<1>7. ASSUME NEW d \in Docs PROVE Agrees(d)'
    <2>1. CASE t.op = "post" /\ t.doc = d
        BY <1>1, <1>3, <2>1 DEF Opened, Agrees, AgreeInv, TypeInv
    <2>2. CASE ~(t.op = "post" /\ t.doc = d)
        <3>1. d \in overlapped => d \in overlapped'
            BY <1>4, <2>2
        <3> QED
            BY <1>3, <3>1 DEF Agrees, AgreeInv
    <2> QED
        BY <2>1, <2>2
<1>8. Current(t)'
    <2>1. CASE t.op = "post"
        BY <1>1, <1>3, <1>6, <2>1 DEF Opened, Current, AgreeInv, TypeInv
    <2>2. CASE t.op = "update"
        <3>1. t.doc \in Docs /\ journal[t.doc] # None
            BY <1>1, <1>6, <2>2 DEF Opened, AgreeInv, TypeInv
        <3>2. t.seen = expense[t.doc] /\ t.entry = journal[t.doc]
            BY <1>1, <2>2 DEF Opened
        <3> QED
            BY <1>3, <2>2, <3>1, <3>2 DEF Current, AgreeInv, Agrees
    <2> QED
        BY <2>1, <2>2 DEF Current
<1>9. ASSUME NEW u \in Sessions, u # s PROVE Current(tx[u])'
    <2>1. Current(tx[u]) /\ tx'[u] = tx[u]
        BY <1>2, <1>9 DEF AgreeInv
    <2> QED
        BY <1>3, <1>5, <1>9, <2>1 DEF Current, Writes
<1>10. Met'
    <2>1. ASSUME NEW u \in Sessions, u # s, tx[u].op = "update",
                 t.op = "update", tx[u].doc = t.doc
          PROVE  t.doc \in overlapped'
        BY <1>4, <2>1 DEF Updating
    <2>2. ASSUME NEW u \in Sessions, NEW w \in Sessions, u # w, u # s, w # s,
                 tx[u].op = "update", tx[w].op = "update", tx[u].doc = tx[w].doc
          PROVE  tx[u].doc \in overlapped'
        BY <1>5, <2>2 DEF AgreeInv, Met, Writes
    <2> QED
        BY <1>2, <2>1, <2>2 DEF Met
<1>11. Fresh'
    <2>1. ASSUME NEW u \in Sessions, u # s, Writes(t), Writes(tx[u]),
                 t.op = "post" \/ tx[u].op = "post"
          PROVE  t.doc # tx[u].doc
        <3>1. CASE t.op = "post"
            BY <1>1, <3>1 DEF Opened
        <3>2. CASE t.op # "post"
            BY <1>1, <1>6, <2>1, <3>2
            DEF Opened, Writes, AgreeInv, TypeInv, Current
        <3> QED
            BY <3>1, <3>2
    <2> QED
        BY <1>2, <2>1 DEF AgreeInv, Fresh, Writes
<1> QED
    BY <1>2, <1>7, <1>8, <1>9, <1>10, <1>11 DEF AgreeInv

LEMMA AgreeCommit ==
    ASSUME AgreeInv, TypeInv', NEW s \in Sessions, Commit(s)
    PROVE  AgreeInv'
<1> DEFINE d == tx[s].doc
<1>1. \A u \in Sessions : tx'[u] = IF u = s THEN Idle ELSE tx[u]
    BY DEF AgreeInv, TypeInv, TypeOK, Commit
<1>2. tx[s].op \in {"post", "update", "remove", "close"} /\ GoodTx(tx[s])
    BY DEF Commit, Ready, AgreeInv, TypeInv, TypeOK, Tx
<1>3. UNCHANGED overlapped
    BY DEF Commit
<1>4. expense \in [Docs -> Entry \cup {None}] /\ journal \in [Docs -> Entry \cup {None}]
    BY DEF AgreeInv, TypeInv, TypeOK
<1>5. Fresh' /\ Met'
    BY <1>1, <1>3 DEF AgreeInv, Fresh, Met, Writes, Idle
<1>6. CASE tx[s].op = "close"
    <2>1. UNCHANGED <<expense, journal>>
        BY <1>6 DEF Commit
    <2>2. \A u \in Sessions : Current(tx[u])'
        BY <1>1, <1>3, <2>1 DEF AgreeInv, Current, Idle
    <2>3. \A e \in Docs : Agrees(e)'
        BY <1>3, <2>1 DEF AgreeInv, Agrees
    <2> QED
        BY <1>5, <2>2, <2>3 DEF AgreeInv
<1>7. CASE tx[s].op # "close"
    <2>1. d \in Docs
        BY <1>2, <1>7 DEF GoodTx
    <2>2. PICK x, y : /\ expense' = [expense EXCEPT ![d] = x]
                      /\ journal' = [journal EXCEPT ![d] = y]
        BY <1>2, <1>7 DEF Commit
    <2>3. /\ expense'[d] = x /\ journal'[d] = y
          /\ \A e \in Docs \ {d} : expense'[e] = expense[e] /\ journal'[e] = journal[e]
        BY <1>4, <2>1, <2>2
    <2>4. ASSUME NEW e \in Docs, e = d PROVE Agrees(e)'
        <3>1. CASE tx[s].op = "update"
            <4>1. /\ tx[s].seen \in Entry /\ tx[s].entry \in Entry /\ tx[s].draft \in Entry
                  /\ journal[d] \in Entry /\ expense[d] \in Entry
                BY <1>2, <1>4, <2>1, <3>1 DEF GoodTx, Commit, AgreeInv, TypeInv
            <4>2. /\ x = SavedExpense(expense[d], tx[s].draft, tx[s].seen)
                  /\ y = SavedHeader(journal[d], tx[s].draft, tx[s].entry)
                BY <1>4, <2>1, <2>3, <3>1 DEF Commit
            <4>3. /\ journal[d].month = expense[d].month
                  /\ journal[d].payee = expense[d].payee
                  /\ tx[s].seen.month = tx[s].entry.month
                  /\ tx[s].seen.payee = tx[s].entry.payee
                BY <2>1, <3>1, <4>1, NoneAssumption DEF AgreeInv, Agrees, Current
            <4>4. x.month = y.month /\ x.payee = y.payee
                BY <4>2, <4>3 DEF SavedExpense, SavedHeader
            <4>5. d \notin overlapped => x = y
                <5> SUFFICES ASSUME d \notin overlapped PROVE x = y
                    OBVIOUS
                <5>1. tx[s].seen = expense[d] /\ tx[s].entry = journal[d]
                      /\ journal[d] = expense[d]
                    BY <2>1, <3>1, <4>1, NoneAssumption DEF AgreeInv, Agrees, Current
                <5>2. x.amount = tx[s].draft.amount
                    BY <4>2, <5>1 DEF SavedExpense
                <5>3. y.amount = tx[s].draft.amount
                    BY <4>2 DEF SavedHeader, SavedExpense
                <5> QED
                    BY <4>2, <5>1, <5>2, <5>3 DEF SavedExpense, SavedHeader
            <4> QED
                BY <1>3, <2>3, <2>4, <4>4, <4>5 DEF Agrees
        <3>2. CASE tx[s].op \in {"post", "remove"}
            <4>1. x = y
                <5>1. CASE tx[s].op = "post"
                    BY <1>4, <2>1, <2>3, <5>1 DEF Commit
                <5>2. CASE tx[s].op = "remove"
                    BY <1>4, <2>1, <2>3, <5>2 DEF Commit
                <5> QED
                    BY <3>2, <5>1, <5>2
            <4> QED
                BY <2>3, <2>4, <4>1 DEF Agrees
        <3> QED
            BY <1>2, <1>7, <3>1, <3>2
    <2>5. \A e \in Docs : Agrees(e)'
        BY <1>3, <2>3, <2>4 DEF AgreeInv, Agrees
    <2>6. ASSUME NEW u \in Sessions, u # s PROVE Current(tx[u])'
        <3> DEFINE c == tx[u].doc
        <3>1. tx'[u] = tx[u] /\ Current(tx[u])
            BY <1>1, <2>6 DEF AgreeInv
        <3>2. tx[u].op \in {"post", "update"} => c \in Docs
            BY DEF AgreeInv, TypeInv, GoodTx
        <3>3. CASE c # d
            BY <1>3, <2>3, <3>1, <3>2, <3>3 DEF Current
        <3>4. CASE c = d
            <4>1. Writes(tx[s])
                BY <1>2, <1>7 DEF Writes
            <4>2. tx[u].op # "post"
                BY <2>6, <3>4, <4>1 DEF AgreeInv, Fresh, Writes
            <4>3. tx[u].op = "update" => tx[s].op # "post"
                BY <2>6, <3>4, <4>1 DEF AgreeInv, Fresh, Writes
            <4>4. tx[u].op = "update" /\ tx[s].op = "update" => c \in overlapped
                BY <2>6, <3>4 DEF AgreeInv, Met
            <4>5. tx[s].op = "remove" => journal'[d] = None
                BY <1>4, <2>1 DEF Commit
            <4> QED
                BY <1>2, <1>3, <1>7, <3>1, <3>4, <4>2, <4>3, <4>4, <4>5 DEF Current
        <3> QED
            BY <3>3, <3>4
    <2>7. Current(tx[s])'
        BY <1>1 DEF Current, Idle
    <2> QED
        BY <1>5, <2>5, <2>6, <2>7 DEF AgreeInv
<1> QED
    BY <1>6, <1>7

LEMMA AgreeStep == AgreeInv /\ [Next]_vars => AgreeInv'
<1> SUFFICES ASSUME AgreeInv, [Next]_vars PROVE AgreeInv'
    OBVIOUS
<1> TypeInv'
    BY TypeStep DEF AgreeInv
<1> tx \in [Sessions -> Tx]
    BY DEF AgreeInv, TypeInv, TypeOK
<1>1. ASSUME NEW s \in Sessions, Request(s) PROVE AgreeInv'
    BY <1>1, AgreeRequest
<1>2. ASSUME NEW s \in Sessions, Rollback(s) PROVE AgreeInv'
    BY <1>2, AgreeSameStep DEF Rollback, Idle
<1>3. ASSUME NEW s \in Sessions, LockDoc(s) PROVE AgreeInv'
    <2> DEFINE t == [tx[s] EXCEPT !.locked = TRUE]
    <2>1. /\ t.op = tx[s].op /\ t.doc = tx[s].doc
          /\ t.seen = tx[s].seen /\ t.entry = tx[s].entry /\ t.draft = tx[s].draft
        BY DEF Tx
    <2> QED
        BY <1>3, <2>1, AgreeSameStep DEF LockDoc
<1>4. ASSUME NEW s \in Sessions, NEW k \in Months, InsertPeriod(s, k) PROVE AgreeInv'
    <2> DEFINE t == IF period[k] = "absent"
                    THEN [tx[s] EXCEPT !.exclusive = @ \cup {k}]
                    ELSE [tx[s] EXCEPT !.shared = @ \cup {k}]
    <2>1. /\ t.op = tx[s].op /\ t.doc = tx[s].doc
          /\ t.seen = tx[s].seen /\ t.entry = tx[s].entry /\ t.draft = tx[s].draft
        BY DEF Tx
    <2>2. tx' = [tx EXCEPT ![s] = t] /\ UNCHANGED <<expense, journal, overlapped>>
        BY <1>4 DEF InsertPeriod
    <2> QED
        BY <2>1, <2>2, AgreeSameStep
<1>5. ASSUME NEW s \in Sessions, NEW k \in Months, CheckOpen(s, k) PROVE AgreeInv'
    <2> DEFINE t == [tx[s] EXCEPT !.exclusive = @ \cup {k}, !.keys = @ \ {k}]
    <2>1. /\ t.op = tx[s].op /\ t.doc = tx[s].doc
          /\ t.seen = tx[s].seen /\ t.entry = tx[s].entry /\ t.draft = tx[s].draft
        BY DEF Tx
    <2>2. tx' = [tx EXCEPT ![s] = t] /\ UNCHANGED <<expense, journal, overlapped>>
        BY <1>5 DEF CheckOpen
    <2> QED
        BY <2>1, <2>2, AgreeSameStep
<1>6. ASSUME NEW s \in Sessions, Commit(s) PROVE AgreeInv'
    BY <1>6, AgreeCommit
<1>7. CASE UNCHANGED vars
    BY <1>7 DEF vars, AgreeInv, Fresh, Met, Writes, Agrees, Current
<1> QED
    BY <1>1, <1>2, <1>3, <1>4, <1>5, <1>6, <1>7
    DEF Next, Handler, Check, CheckClosed, Finish, LinesOrphaned, DeadlockVictim

\* A document and its entry come and go together with one date and text, and
\* with one amount unless two updates of it have met, whatever columns updates
\* change and however updates, moves, removals and closings overlap.
THEOREM JournalAgrees == Spec => []JournalMatchesDocuments
<1>1. AgreeInv => JournalMatchesDocuments
    <2> SUFFICES ASSUME AgreeInv, NEW d \in Docs
                 PROVE  /\ journal[d] = None <=> expense[d] = None
                        /\ Agrees(d)
        BY DEF JournalMatchesDocuments, Agrees
    <2> QED
        BY DEF AgreeInv, TypeInv
<1> QED
    BY <1>1, AgreeInit, AgreeStep, PTL DEF Spec
=============================================================================
