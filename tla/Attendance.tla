----------------------------- MODULE Attendance -----------------------------
(* The attendance of one employee in a month: the editor of the payroll page *)
(* that collects changes and saves them by several requests at once, the     *)
(* service that finds and then saves each day, and what the records make the *)
(* month worth.                                                              *)
EXTENDS Integers, FiniteSets, FiniteSetsExt

CONSTANTS
    LastDay, Today,    \* of the month
    Joined,            \* day of joining, 1 or before for an earlier month
    Statuses,          \* a subset of {"PRESENT", "HALF_DAY", "LEAVE", "ABSENT"}
    Editors,           \* editors open on this employee and month
    Salary, Frequency, \* "MONTHLY", "WEEKLY" or "DAILY"
    MaxSaves,          \* bound on the saves of an editor
    MaxRows            \* bound on the rows a day ever has, one after the other

\* What is assumed of the parameters.
Parameters ==
    /\ {LastDay, Salary, MaxSaves, MaxRows} \subseteq Nat /\ {Today, Joined} \subseteq Int
    /\ Statuses \subseteq {"PRESENT", "HALF_DAY", "LEAVE", "ABSENT"}

VARIABLES
    row,      \* status recorded for each day, "" without a row
    id,       \* how many rows the day has had: the id of the latest
    editor    \* state of each editor

vars == <<row, id, editor>>

Days == 1 .. LastDay
Eligible == {d \in Days : d >= Joined}
Shown == {d \in Eligible : d <= Today}     \* dates of the editor
NoChange == [d \in {} |-> ""]

\* committed: the records last fetched; pending: changes to them; wanted: the
\* changes of the current save; phase: "open", "saving", "failed", "saved".
\* Of each save the bulk request: days still to do, the day it works on and
\* the row it found there (0: none); and the days of its DELETE requests.
\* unsure: days on which requests of a failed save were still at work when
\* the next save began.
NoRequest == [wanted |-> NoChange, entries |-> {}, day |-> 0, found |-> 0, removals |-> {}]
Opened == [committed |-> row, pending |-> NoChange, phase |-> "open", unsure |-> {},
           save |-> 0, request |-> [n \in 1 .. MaxSaves |-> NoRequest]]

Init ==
    /\ row \in [Days -> Statuses \cup {""}]
    /\ id = [d \in Days |-> IF row[d] = "" THEN 0 ELSE 1]
    /\ editor = [e \in Editors |-> Opened]

Put(e, state) == editor' = [editor EXCEPT ![e] = state]
Without(f, d) == [x \in DOMAIN f \ {d} |-> f[x]]
With(f, d, v) == [x \in DOMAIN f \cup {d} |-> IF x = d THEN v ELSE f[x]]
Open(request) == request.entries \cup request.removals
Latest(w) == w.request[w.save]

-----------------------------------------------------------------------------
(* AttendanceEditor.                                                         *)

\* handleChange: choosing what is on record again drops the change.
Change(e, d, status) ==
    /\ editor[e].phase # "saving" /\ editor[e].save < MaxSaves
    /\ LET w == editor[e]
       IN  Put(e, [w EXCEPT !.phase = "open",
                            !.pending = IF status = w.committed[d] THEN Without(@, d)
                                        ELSE With(@, d, status)])
    /\ UNCHANGED <<row, id>>

\* handleSave: one bulk request for the days with a status, one request for
\* each day whose record goes, all at once.
Save(e) ==
    LET w == editor[e]
        entries == {d \in DOMAIN w.pending : w.pending[d] # ""}
        request == [NoRequest EXCEPT !.wanted = w.pending, !.entries = entries,
                                     !.removals = DOMAIN w.pending \ entries]
    IN  /\ w.phase # "saving" /\ w.pending # NoChange /\ w.save < MaxSaves
        /\ Put(e, [w EXCEPT !.phase = "saving", !.save = @ + 1,
                            !.request[w.save + 1] = request,
                            !.unsure = UNION {Open(w.request[n]) : n \in 1 .. w.save}])
        /\ UNCHANGED <<row, id>>

\* Variant with a mistake: a request that fails does not fail the save.
RejectedNever(w, n) == w

\* Promise.all rejects at the first answer that is an error, or lost; the other
\* requests go on.
Rejected(w, n) == IF n = w.save THEN [w EXCEPT !.phase = "failed"] ELSE w

\* All requests have answered: the changes are dropped and the records
\* fetched again, which may fail without a word.
Saved(e) ==
    LET w == editor[e]
    IN  /\ w.phase = "saving" /\ Open(Latest(w)) = {}
        /\ \E committed \in {row, w.committed} :
             Put(e, [w EXCEPT !.phase = "saved", !.pending = NoChange, !.committed = committed])
        /\ UNCHANGED <<row, id>>

\* The query is fetched again: focus, mount, another save.
Refetch(e) ==
    /\ editor[e].phase # "saving" /\ editor[e].committed # row
    /\ Put(e, [editor[e] EXCEPT !.committed = row])
    /\ UNCHANGED <<row, id>>

-----------------------------------------------------------------------------
(* AttendanceService, for request n of an editor.                            *)

\* upsert, called for each entry in turn: the row of the day is found ...
Find(e, n) ==
    LET request == editor[e].request[n]
    IN  /\ request.day = 0
        /\ \E d \in request.entries :
             Put(e, [editor[e] EXCEPT !.request[n].day = d,
                                      !.request[n].found = IF row[d] = "" THEN 0 ELSE id[d]])
        /\ UNCHANGED <<row, id>>

\* An entry done, and a bulk request that ends with an error.
Done(e, n, d) == [editor[e] EXCEPT !.request[n].entries = @ \ {d}, !.request[n].day = 0]
Ended(e, n) == [editor[e] EXCEPT !.request[n].entries = {}, !.request[n].day = 0]

\* ... and saved: updated if the row found is still there, inserted if none
\* is; the unique key refuses a second row of the day, and the request fails.
Store(e, n) ==
    LET request == editor[e].request[n]
        d     == request.day
        there == row[d] # "" /\ id[d] = request.found
    IN  /\ d # 0
        /\ IF row[d] # "" /\ ~there
           THEN Put(e, Rejected(Ended(e, n), n)) /\ UNCHANGED <<row, id>>
           ELSE /\ there \/ id[d] < MaxRows
                /\ row' = [row EXCEPT ![d] = request.wanted[d]]
                /\ id' = IF there THEN id ELSE [id EXCEPT ![d] = @ + 1]
                /\ Put(e, Done(e, n, d))

\* The bulk request is refused or breaks off.
BulkFails(e, n) ==
    /\ editor[e].request[n].entries # {}
    /\ Put(e, Rejected(Ended(e, n), n))
    /\ UNCHANGED <<row, id>>

\* remove: nothing to do without a row; or the request fails.
Remove(e, n) ==
    \E d \in editor[e].request[n].removals :
        /\ row' = [row EXCEPT ![d] = ""]
        /\ Put(e, [editor[e] EXCEPT !.request[n].removals = @ \ {d}])
        /\ UNCHANGED id

RemoveFails(e, n) ==
    \E d \in editor[e].request[n].removals :
        /\ Put(e, Rejected([editor[e] EXCEPT !.request[n].removals = @ \ {d}], n))
        /\ UNCHANGED <<row, id>>

\* The answer is lost while the request goes on.
AnswerLost(e) ==
    /\ editor[e].phase = "saving" /\ Open(Latest(editor[e])) # {}
    /\ Put(e, [editor[e] EXCEPT !.phase = "failed"])
    /\ UNCHANGED <<row, id>>

Serve(e, n) ==
    Find(e, n) \/ Store(e, n) \/ BulkFails(e, n) \/ Remove(e, n) \/ RemoveFails(e, n)

Next ==
    \E e \in Editors :
        \/ \E d \in Shown, status \in Statuses \cup {""} : Change(e, d, status)
        \/ Save(e) \/ Saved(e) \/ Refetch(e) \/ AnswerLost(e)
        \/ \E n \in 1 .. editor[e].save : Serve(e, n)

Spec == Init /\ [][Next]_vars

-----------------------------------------------------------------------------
(* What the month is worth.                                                  *)

Of(status) == {d \in Eligible : row[d] = status}
RecordedDays == {d \in Eligible : row[d] # ""}

\* getWorkedDays, in half days.
Worked(r) ==
    2 * Cardinality({d \in Eligible : r[d] \in {"PRESENT", "LEAVE"}})
        + Cardinality({d \in Eligible : r[d] = "HALF_DAY"})

\* computePayable: the half days paid, a month being thirty days ...
PaidHalves(r) ==
    LET recorded == Cardinality({d \in Eligible : r[d] # ""})
    IN  CASE recorded > 0 /\ Frequency = "MONTHLY" ->
               Max({0, Min({60, 60 - (2 * recorded - Worked(r))})})
          [] recorded > 0 /\ Frequency # "MONTHLY" -> Worked(r)
          [] recorded = 0 /\ Frequency = "MONTHLY" -> 2 * Max({0, 30 - Max({Joined, 1}) + 1})
          [] OTHER -> 2 * Cardinality(Eligible)

\* ... times the daily rate, rounded.
DaysOf(frequency) == CASE frequency = "MONTHLY" -> 30 [] frequency = "WEEKLY" -> 7 [] OTHER -> 1
Payable(r) ==
    (Salary * PaidHalves(r) + DaysOf(Frequency)) \div (2 * DaysOf(Frequency))

\* getMonthlySummary.
Summary ==
    [present |-> Cardinality(Of("PRESENT")), absent |-> Cardinality(Of("ABSENT")),
     halfDay |-> Cardinality(Of("HALF_DAY")), leave |-> Cardinality(Of("LEAVE")),
     notRecorded |-> Cardinality(Eligible) - Cardinality(RecordedDays)]

-----------------------------------------------------------------------------
(* Properties.                                                               *)

\* The variables keep their types, the summary counts each eligible day once.
TypeOK ==
    /\ row \in [Days -> Statuses \cup {""}]
    /\ \A d \in Days : id[d] \in 0 .. MaxRows /\ (row[d] # "" => id[d] > 0)
    /\ \A e \in Editors : editor[e].phase \in {"open", "saving", "failed", "saved"}
    /\ Summary.notRecorded >= 0
    /\ Cardinality(Eligible) = Summary.present + Summary.absent + Summary.halfDay
                                   + Summary.leave + Summary.notRecorded

\* "Attendance saved." is shown only when every change of the save is on
\* record, also after saves that failed half way; unless another editor wrote,
\* or requests of a failed save were still at work on the day.
SavedMeansStored ==
    \A e \in Editors :
        LET w == editor[e]
        IN  w.phase = "saved" /\ Editors = {e} =>
                \A d \in DOMAIN Latest(w).wanted \ w.unsure : row[d] = Latest(w).wanted[d]

\* Recording one more present day for a day recorded otherwise never lowers
\* what the month is worth, and a month is never worth more than thirty days
\* or the days of the month.
PresentNeverWorse ==
    /\ PaidHalves(row) <= IF Frequency = "MONTHLY" THEN 60 ELSE 2 * LastDay
    /\ \A d \in RecordedDays : Payable(row) <= Payable([row EXCEPT ![d] = "PRESENT"])
=============================================================================
