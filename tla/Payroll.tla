------------------------------- MODULE Payroll -------------------------------
(***************************************************************************)
(* Pay periods, salary payments and advances of the backend:               *)
(* PayPeriodsService and the advances of SalaryPaymentsService.            *)
(*                                                                         *)
(* Months are numbered from 1. A request handler is a session; a handler   *)
(* that reads, awaits and then writes is two or more steps, everything it  *)
(* reads before its transaction being one step. runPayroll is one          *)
(* transaction: it lists payments from its snapshot, periods and           *)
(* attendance from the latest committed state (they use other              *)
(* connections), and its rows become visible when it commits.              *)
(***************************************************************************)
EXTENDS Integers, FiniteSets, Functions, FiniteSetsExt

CONSTANTS
  Employees,    \* the staff
  LastMonth,    \* bound: the months 1 .. LastMonth are modelled
  Joined,       \* the month in which each employee joined
  Sessions,     \* requests that may be served at the same time
  Operations,   \* the requests made in this instance
  Dues,         \* what a month's work may be worth
  Amounts,      \* amounts an administrator may enter
  Unfiled       \* "no pay period" of a payment (pay_period_id NULL)

Months == 1 .. LastMonth

ASSUME PayrollAssumption ==
  /\ LastMonth \in Nat
  /\ Joined \in [Employees -> Months]
  /\ Dues \subseteq Nat
  /\ Amounts \subseteq Nat \ {0}
  /\ Unfiled \notin Months

VARIABLES
  period,     \* pay_periods: "absent", "open" or "closed" for each month
  due,        \* what computePayable returns for each employee and month
  payments,   \* salary_payments: the sums by employee, type and period
  byRun,      \* history: how many salaries payroll runs paid, by employee and period
  overlapped, \* history: the months of which two payroll runs were open at once
  now,        \* the business month of the trusted clock
  call        \* the request each session is serving

vars == <<period, due, payments, byRun, overlapped, now, call>>

PerPeriod == [Employees -> [Months \cup {Unfiled} -> Nat]]
PerMonth == [Employees -> [Months -> Nat]]
Books == [regular : PerPeriod, adjusted : PerPeriod, advance : PerMonth]

NoPayments ==
  [regular  |-> [e \in Employees |-> [m \in Months \cup {Unfiled} |-> 0]],
   adjusted |-> [e \in Employees |-> [m \in Months \cup {Unfiled} |-> 0]],
   advance  |-> [e \in Employees |-> [m \in Months |-> 0]]]

Nothing == [e \in Employees |-> 0]

Idle == [op |-> "idle", month |-> Unfiled, employees |-> {}, amount |-> 0,
         seen |-> NoPayments, wage |-> Nothing, deduct |-> Nothing, gone |-> FALSE]

Calls == [op : {"idle", "paying", "adjusting", "running", "closing", "deleting"},
          month : Months \cup {Unfiled}, employees : SUBSET Employees, amount : Nat,
          seen : Books, wage : [Employees -> Nat], deduct : [Employees -> Nat],
          gone : BOOLEAN]

-----------------------------------------------------------------------------
(* The balances of one employee e in the period p, from the payments b.    *)

Sum(f, S) == SumFunctionOnSet(f, S)
AtLeastZero(x) == IF x > 0 THEN x ELSE 0

Through(p) == {m \in Months : m <= p /\ period[m] # "absent"}

\* Variant with a mistake: only the payments filed under this period reduce what is due.
SalaryDueThisPeriod(b, e, p) == AtLeastZero(Sum(due[e], Through(p)) - b.regular[e][p])

SalaryDue(b, e, p) ==
  AtLeastZero(Sum(due[e], Through(p)) - Sum(b.regular[e], Months \cup {Unfiled}))

Overpaid(b, e, p) ==
  Max({0} \cup {Sum(b.regular[e], Through(m)) - Sum(due[e], Through(m)) : m \in Through(p)})

OutstandingAdvance(b, e, p) ==
  AtLeastZero(Sum(b.advance[e], 1 .. p - 1) + Overpaid(b, e, p)
                - Sum(b.adjusted[e], Through(p)))

\* Variant with a mistake: what was already deducted this period is forgotten.
NetDueForgetful(b, e, p) == AtLeastZero(SalaryDue(b, e, p) - OutstandingAdvance(b, e, p))

NetDue(b, e, p) ==
  AtLeastZero(SalaryDue(b, e, p) - (IF b.adjusted[e][p] > 0 THEN b.adjusted[e][p]
                                    ELSE OutstandingAdvance(b, e, p)))

-----------------------------------------------------------------------------
(* Locks. A row that refers to a period holds that period's row shared     *)
(* until its transaction ends; a payroll run also holds the accounting     *)
(* month of the period's last day, to which it posts.                      *)

Inserting(s, p) == call[s].op = "running" /\ call[s].month = p /\ call[s].wage # Nothing
Free(s, p) == \A t \in Sessions \ {s} : ~Inserting(t, p)

\* Variant with a mistake: the row of the period is not held by the payments that refer to it.
UnlockedPeriod(s) == ~call[s].gone

\* The session may change the row of its period.
PeriodIsFree(s) == ~call[s].gone /\ Free(s, call[s].month)

\* The sessions that are running the payroll of p.
Runs(p) == {t \in Sessions : call[t].op = "running" /\ call[t].month = p}

Start(s, op, p, request) ==
  /\ call[s].op = "idle"
  /\ period[p] = "open"
  /\ call' = [call EXCEPT ![s] = [request EXCEPT !.op = op, !.month = p]]
  /\ overlapped' = IF op = "running" /\ Runs(p) # {} THEN overlapped \cup {p} ELSE overlapped
  /\ UNCHANGED <<period, due, payments, byRun, now>>

End(s) == call' = [call EXCEPT ![s] = Idle]

-----------------------------------------------------------------------------
(* The clock, the periods, attendance and advances paid from Staff.        *)

Tick ==
  /\ now <= LastMonth
  /\ now' = now + 1
  /\ UNCHANGED <<period, due, payments, byRun, overlapped, call>>

CreatePeriod(p) ==
  /\ "create" \in Operations
  /\ period[p] = "absent"
  /\ p <= now + 1
  /\ period' = [period EXCEPT ![p] = "open"]
  /\ UNCHANGED <<due, payments, byRun, overlapped, now, call>>

RecordAttendance(e, m, d) ==
  /\ "attendance" \in Operations
  /\ due' = [due EXCEPT ![e][m] = d]
  /\ UNCHANGED <<period, payments, byRun, overlapped, now, call>>

\* Bound: one advance for each employee and month.
PayAdvance(e, m, a) ==
  /\ "advance" \in Operations
  /\ payments.advance[e][m] = 0
  /\ payments' = [payments EXCEPT !.advance[e][m] = a]
  /\ UNCHANGED <<period, due, byRun, overlapped, now, call>>

\* Variant with a mistake: an advance is removed without looking whether it is still there.
RemoveAdvanceBlindly(e, m) ==
  /\ "removeAdvance" \in Operations
  /\ payments' = [payments EXCEPT !.advance[e][m] = @ - 1]
  /\ UNCHANGED <<period, due, byRun, overlapped, now, call>>

RemoveAdvance(e, m) ==
  /\ "removeAdvance" \in Operations
  /\ payments.advance[e][m] > 0
  /\ payments' = [payments EXCEPT !.advance[e][m] = 0]
  /\ UNCHANGED <<period, due, byRun, overlapped, now, call>>

-----------------------------------------------------------------------------
(* A salary payment or an adjustment entered by an administrator: the      *)
(* checks first, then a transaction that inserts without checking again.   *)

CreateSalaryPayment(s, e, p, a) ==
  /\ "pay" \in Operations
  /\ Joined[e] <= p
  /\ a <= NetDue(payments, e, p)
  /\ Start(s, "paying", p, [Idle EXCEPT !.employees = {e}, !.amount = a])

AdjustAdvance(s, e, p, a) ==
  /\ "adjust" \in Operations
  /\ a <= OutstandingAdvance(payments, e, p)
  /\ Start(s, "adjusting", p, [Idle EXCEPT !.employees = {e}, !.amount = a])

SavePayment(s) == \E e \in call[s].employees :
  /\ call[s].op = "paying"
  /\ ~call[s].gone
  /\ payments' = [payments EXCEPT !.regular[e][call[s].month] = @ + call[s].amount]
  /\ End(s)
  /\ UNCHANGED <<period, due, byRun, overlapped, now>>

SaveAdjustment(s) == \E e \in call[s].employees :
  /\ call[s].op = "adjusting"
  /\ PeriodIsFree(s)
  /\ payments' = [payments EXCEPT !.adjusted[e][call[s].month] = @ + call[s].amount]
  /\ End(s)
  /\ UNCHANGED <<period, due, byRun, overlapped, now>>

-----------------------------------------------------------------------------
(* runPayroll.                                                             *)

\* Variant with a mistake: employees who were paid this period are not skipped.
EverySelected(chosen, p) == chosen

Unpaid(chosen, p) == {e \in chosen : payments.regular[e][p] = 0}

RunPayroll(s, p, chosen) ==
  /\ "run" \in Operations
  /\ now = p + 1
  /\ \A e \in chosen : Joined[e] <= p
  /\ Start(s, "running", p, [Idle EXCEPT !.employees = Unpaid(chosen, p), !.seen = payments])

Deduction(b, e, p) == IF b.adjusted[e][p] = 0 THEN OutstandingAdvance(b, e, p) ELSE 0

PayEmployee(s, e) == LET c == call[s] IN
  /\ c.op = "running"
  /\ e \in c.employees
  /\ PeriodIsFree(s)
  /\ NetDue(c.seen, e, c.month) \in Nat \ {0}
  /\ Deduction(c.seen, e, c.month) \in Nat
  /\ call' = [call EXCEPT ![s].employees = @ \ {e},
                          ![s].wage[e] = NetDue(c.seen, e, c.month),
                          ![s].deduct[e] = Deduction(c.seen, e, c.month)]
  /\ UNCHANGED <<period, due, payments, byRun, overlapped, now>>

SkipEmployee(s, e) == LET c == call[s] IN
  /\ c.op = "running"
  /\ e \in c.employees
  /\ ~c.gone
  /\ NetDue(c.seen, e, c.month) = 0
  /\ call' = [call EXCEPT ![s].employees = @ \ {e}]
  /\ UNCHANGED <<period, due, payments, byRun, overlapped, now>>

Filing(f, p, amounts) == [e \in Employees |-> [f[e] EXCEPT ![p] = @ + amounts[e]]]

FinishRun(s) == LET c == call[s] IN
  /\ c.op = "running"
  /\ c.employees = {}
  /\ ~c.gone
  /\ payments' = [payments EXCEPT
       !.regular = Filing(@, c.month, c.wage), !.adjusted = Filing(@, c.month, c.deduct)]
  /\ byRun' = [e \in Employees |->
                 [byRun[e] EXCEPT ![c.month] = IF c.wage[e] > 0 THEN @ + 1 ELSE @]]
  /\ End(s)
  /\ UNCHANGED <<period, due, overlapped, now>>

-----------------------------------------------------------------------------
(* Closing and deleting a period.                                          *)

Close(s, p) == "close" \in Operations /\ Start(s, "closing", p, Idle)

SaveClosed(s) ==
  /\ call[s].op = "closing"
  /\ PeriodIsFree(s)
  /\ period' = [period EXCEPT ![call[s].month] = "closed"]
  /\ End(s)
  /\ UNCHANGED <<due, payments, byRun, overlapped, now>>

\* save() finds no row with this id and inserts one; the requests that still
\* hold the id of the deleted row may find it again.
SaveClosedAgain(s) == LET p == call[s].month IN
  /\ call[s].op = "closing"
  /\ call[s].gone
  /\ period[p] = "absent"
  /\ period' = [period EXCEPT ![p] = "closed"]
  /\ \E back \in SUBSET {t \in Sessions \ {s} : call[t].gone /\ call[t].month = p} :
       call' = [t \in Sessions |-> IF t = s THEN Idle
                                   ELSE IF t \in back THEN [call[t] EXCEPT !.gone = FALSE]
                                   ELSE call[t]]
  /\ UNCHANGED <<due, payments, byRun, overlapped, now>>

Delete(s, p) ==
  /\ "delete" \in Operations
  /\ \A e \in Employees : payments.regular[e][p] = 0 /\ payments.adjusted[e][p] = 0
  /\ Start(s, "deleting", p, Idle)

\* The foreign key sets pay_period_id to NULL in the payments of a deleted period.
Unfile(f, p) == [e \in Employees |->
  [f[e] EXCEPT ![p] = 0, ![Unfiled] = f[e][Unfiled] + f[e][p]]]

UnfileBooks(b, p) == [b EXCEPT !.regular = Unfile(@, p), !.adjusted = Unfile(@, p)]

RemovePeriod(s) == LET p == call[s].month IN
  /\ call[s].op = "deleting"
  /\ PeriodIsFree(s)
  /\ period' = [period EXCEPT ![p] = "absent"]
  /\ payments' = UnfileBooks(payments, p)
  /\ byRun' = [e \in Employees |-> [byRun[e] EXCEPT ![p] = 0]]
  /\ call' = [t \in Sessions |->
       IF t = s \/ call[t].op = "idle" THEN Idle
       ELSE [call[t] EXCEPT !.seen = UnfileBooks(@, p), !.gone = @ \/ call[t].month = p]]
  /\ UNCHANGED <<due, overlapped, now>>

-----------------------------------------------------------------------------
\* A request fails: its transaction, if any, is rolled back.
Abort(s) ==
  /\ call[s].op # "idle"
  /\ End(s)
  /\ UNCHANGED <<period, due, payments, byRun, overlapped, now>>

Init ==
  /\ period = [m \in Months |-> "absent"]
  /\ due \in [Employees -> [Months -> Dues]]
  /\ payments = NoPayments
  /\ byRun = [e \in Employees |-> [m \in Months |-> 0]]
  /\ overlapped = {}
  /\ now = 1
  /\ call = [s \in Sessions |-> Idle]

Office ==
  \/ Tick
  \/ \E p \in Months : CreatePeriod(p)
  \/ \E e \in Employees, m \in Months, d \in Dues : RecordAttendance(e, m, d)
  \/ \E e \in Employees, m \in Months, a \in Amounts : PayAdvance(e, m, a)
  \/ \E e \in Employees, m \in Months : RemoveAdvance(e, m)

Request(s) == \E p \in Months :
  \/ \E e \in Employees, a \in Amounts : CreateSalaryPayment(s, e, p, a)
  \/ \E e \in Employees, a \in Amounts : AdjustAdvance(s, e, p, a)
  \/ \E chosen \in SUBSET Employees : RunPayroll(s, p, chosen)
  \/ Close(s, p)
  \/ Delete(s, p)

Handler(s) ==
  \/ SavePayment(s)
  \/ SaveAdjustment(s)
  \/ \E e \in Employees : PayEmployee(s, e)
  \/ \E e \in Employees : SkipEmployee(s, e)
  \/ FinishRun(s)
  \/ SaveClosed(s)
  \/ SaveClosedAgain(s)
  \/ RemovePeriod(s)
  \/ Abort(s)

Next == Office \/ \E s \in Sessions : Request(s) \/ Handler(s)

Spec == Init /\ [][Next]_vars

-----------------------------------------------------------------------------
(* Every variable has its type.                                            *)
TypeOK ==
  /\ period \in [Months -> {"absent", "open", "closed"}]
  /\ due \in [Employees -> [Months -> Dues]]
  /\ payments \in Books
  /\ byRun \in PerMonth
  /\ overlapped \subseteq Months
  /\ now \in Nat
  /\ call \in [Sessions -> Calls]

\* Payroll runs pay an employee at most once for a period, unless two runs of
\* that month were open at once: runs of other months, repeated runs, payments,
\* closings and deletions may overlap in any way (runPayroll skips the
\* employees its snapshot shows as paid).
PaidOncePerRun == \A e \in Employees, m \in Months :
  m \notin overlapped => byRun[e][m] <= 1

\* No employee is paid twice for a period by payroll runs ("runs payroll once
\* and skips already paid employees", test/pay-periods.service.spec.ts).
PaidOnce == \A e \in Employees, m \in Months : byRun[e][m] <= 1

\* While a payroll run has rows of a period that are not committed, nobody
\* closes or deletes that period.
RunHoldsPeriod ==
  [][\A s \in Sessions, p \in Months :
       Inserting(s, p) => period'[p] = period[p]]_vars

\* Up to the last month for which an employee was paid, the salary payments
\* do not exceed what the employee earned ("Payment cannot exceed remaining
\* salary due").
PaidWithinDue == \A e \in Employees, m \in Months :
  (payments.regular[e][m] > 0 /\ \A k \in m + 1 .. LastMonth : payments.regular[e][k] = 0)
    => Sum(payments.regular[e], Months \cup {Unfiled}) <= Sum(due[e], 1 .. m)

\* A payroll run settles the period for everybody it pays, advances and
\* earlier deductions included: if what it pays and deducts is still what the
\* payments ask for when it commits, nothing remains to be paid after it.
RunSettles ==
  [][\A s \in Sessions, p \in Months : call[s].month = p /\ FinishRun(s) =>
       \A e \in Employees :
         (/\ call[s].wage[e] > 0
          /\ call[s].wage[e] = NetDue(payments, e, p)
          /\ call[s].deduct[e] = Deduction(payments, e, p))
           => NetDue(payments, e, p)' = 0]_vars

\* An advance that was adjusted from the salary is not paid out as salary
\* in a later month ("Advance adjusted from salary.").
DeductedStaysDeducted == \A e \in Employees, m \in Months :
  (payments.regular[e][m] > 0 /\ \A k \in m + 1 .. LastMonth : payments.regular[e][k] = 0)
    => Sum(payments.regular[e], Months \cup {Unfiled})
         + Sum(payments.adjusted[e], Months \cup {Unfiled}) <= Sum(due[e], 1 .. m)
=============================================================================
