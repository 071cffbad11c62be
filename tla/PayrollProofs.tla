--------------------------- MODULE PayrollProofs ---------------------------
(***************************************************************************)
(* Theorems about Payroll for every staff, number of months and sessions,  *)
(* set of requests, dues and amounts.                                      *)
(***************************************************************************)
EXTENDS Payroll, Arithmetic, TLAPS

-----------------------------------------------------------------------------
(* Types.                                                                  *)

\* No payments are a state of the books, and no request is a state of a call.
LEMMA EmptyTypes == NoPayments \in Books /\ Idle \in Calls
<1>1. NoPayments \in Books
    BY DEF NoPayments, Books, PerPeriod, PerMonth
<1>2. QED
    BY <1>1 DEF Idle, Calls, Nothing

\* Payments that lose their period are still payments.
LEMMA UnfileTypes ==
    ASSUME NEW b \in Books, NEW p \in Months
    PROVE  UnfileBooks(b, p) \in Books
<1>1. ASSUME NEW f \in PerPeriod PROVE Unfile(f, p) \in PerPeriod
    <2>1. ASSUME NEW e \in Employees
          PROVE  [f[e] EXCEPT ![p] = 0, ![Unfiled] = f[e][Unfiled] + f[e][p]]
                   \in [Months \cup {Unfiled} -> Nat]
        <3>1. f[e] \in [Months \cup {Unfiled} -> Nat]
            BY <1>1 DEF PerPeriod
        <3>2. f[e][Unfiled] + f[e][p] \in Nat
            BY <3>1
        <3>3. QED
            BY <3>1, <3>2
    <2>2. QED
        BY <2>1 DEF Unfile, PerPeriod
<1>2. b.regular \in PerPeriod /\ b.adjusted \in PerPeriod
    BY DEF Books
<1>3. Unfile(b.regular, p) \in PerPeriod /\ Unfile(b.adjusted, p) \in PerPeriod
    BY <1>1, <1>2
<1>4. QED
    BY <1>3 DEF UnfileBooks, Books

\* A request starts from the idle call and only fills in its own fields.
LEMMA StartTypes ==
    ASSUME TypeOK, NEW s \in Sessions, NEW p \in Months, NEW request \in Calls,
           NEW op \in {"paying", "adjusting", "running", "closing", "deleting"},
           Start(s, op, p, request)
    PROVE  TypeOK'
<1>1. [request EXCEPT !.op = op, !.month = p] \in Calls
    BY DEF Calls
<1>2. call' \in [Sessions -> Calls]
    BY <1>1 DEF Start, TypeOK
<1>3. QED
    BY <1>2 DEF Start, TypeOK

\* A request that ends leaves an idle call.
LEMMA EndTypes ==
    ASSUME TypeOK, NEW s \in Sessions, End(s)
    PROVE  call' \in [Sessions -> Calls]
BY EmptyTypes DEF End, TypeOK

\* An amount that is added to the payments of a period keeps them payments.
LEMMA AddTypes ==
    ASSUME NEW f \in PerPeriod, NEW p \in Months, NEW g \in [Employees -> Nat]
    PROVE  Filing(f, p, g) \in PerPeriod
<1>1. ASSUME NEW e \in Employees
      PROVE  [f[e] EXCEPT ![p] = @ + g[e]] \in [Months \cup {Unfiled} -> Nat]
    <2>1. f[e] \in [Months \cup {Unfiled} -> Nat] /\ g[e] \in Nat
        BY DEF PerPeriod
    <2>2. f[e][p] + g[e] \in Nat
        BY <2>1
    <2>3. QED
        BY <2>1, <2>2
<1>2. QED
    BY <1>1 DEF PerPeriod, Filing

\* The month of a call that is not idle is a month.
Filed == \A s \in Sessions : call[s].op # "idle" => call[s].month \in Months

\* Requests of the office that nobody waits for keep the types.
LEMMA OfficeTypes ==
    ASSUME TypeOK, Office
    PROVE  TypeOK'
<1>1. CASE Tick
    BY <1>1 DEF Tick, TypeOK
<1>2. ASSUME NEW p \in Months, CreatePeriod(p) PROVE TypeOK'
    BY <1>2 DEF CreatePeriod, TypeOK
<1>3. ASSUME NEW e \in Employees, NEW m \in Months, NEW d \in Dues,
             RecordAttendance(e, m, d)
      PROVE  TypeOK'
    <2>1. due' \in [Employees -> [Months -> Dues]]
        BY <1>3 DEF RecordAttendance, TypeOK
    <2>2. QED
        BY <1>3, <2>1 DEF RecordAttendance, TypeOK
<1>4. ASSUME NEW e \in Employees, NEW m \in Months, NEW a \in Nat,
             payments' = [payments EXCEPT !.advance[e][m] = a]
      PROVE  payments' \in Books
    BY <1>4 DEF TypeOK, Books, PerMonth
<1>5. ASSUME NEW e \in Employees, NEW m \in Months, NEW a \in Amounts, PayAdvance(e, m, a)
      PROVE  TypeOK'
    <2>1. a \in Nat
        BY PayrollAssumption
    <2>2. payments' \in Books
        BY <1>4, <1>5, <2>1 DEF PayAdvance
    <2>3. QED
        BY <1>5, <2>2 DEF PayAdvance, TypeOK
<1>6. ASSUME NEW e \in Employees, NEW m \in Months, RemoveAdvance(e, m) PROVE TypeOK'
    <2>1. payments' \in Books
        BY <1>4, <1>6 DEF RemoveAdvance
    <2>2. QED
        BY <1>6, <2>1 DEF RemoveAdvance, TypeOK
<1>7. QED
    BY <1>1, <1>2, <1>3, <1>5, <1>6 DEF Office

\* Every request starts an idle session; a payroll run starts with employees
\* who were not paid for the period.
LEMMA RequestStarts ==
    ASSUME TypeOK, NEW s \in Sessions, Request(s)
    PROVE  \E p \in Months, op \in {"paying", "adjusting", "running", "closing", "deleting"} :
             \E request \in Calls :
               /\ Start(s, op, p, request)
               /\ request.wage = Nothing
               /\ op = "running" =>
                    \A e \in request.employees : payments.regular[e][p] = 0
<1> DEFINE Goal ==
        \E p \in Months, op \in {"paying", "adjusting", "running", "closing", "deleting"} :
          \E request \in Calls :
            /\ Start(s, op, p, request)
            /\ request.wage = Nothing
            /\ op = "running" =>
                 \A e \in request.employees : payments.regular[e][p] = 0
<1>1. PICK p \in Months :
        \/ \E e \in Employees, a \in Amounts : CreateSalaryPayment(s, e, p, a)
        \/ \E e \in Employees, a \in Amounts : AdjustAdvance(s, e, p, a)
        \/ \E chosen \in SUBSET Employees : RunPayroll(s, p, chosen)
        \/ Close(s, p)
        \/ Delete(s, p)
    BY DEF Request
<1>2. ASSUME NEW e \in Employees, NEW a \in Amounts,
             \/ Start(s, "paying", p, [Idle EXCEPT !.employees = {e}, !.amount = a])
             \/ Start(s, "adjusting", p, [Idle EXCEPT !.employees = {e}, !.amount = a])
      PROVE  Goal
    <2> DEFINE request == [Idle EXCEPT !.employees = {e}, !.amount = a]
    <2>1. a \in Nat
        BY PayrollAssumption
    <2>2. request \in Calls /\ request.wage = Nothing
        BY <2>1, EmptyTypes DEF Calls, Idle
    <2> HIDE DEF request
    <2>3. QED
        BY <1>2, <2>2 DEF request
<1>3. ASSUME NEW chosen \in SUBSET Employees, RunPayroll(s, p, chosen)
      PROVE  Goal
    <2> DEFINE request == [Idle EXCEPT !.employees = Unpaid(chosen, p), !.seen = payments]
    <2>1. Unpaid(chosen, p) \in SUBSET Employees /\ payments \in Books
        BY DEF Unpaid, TypeOK
    <2>2. /\ request \in Calls /\ request.wage = Nothing
          /\ request.employees = Unpaid(chosen, p)
        BY <2>1, EmptyTypes DEF Calls, Idle
    <2>3. Start(s, "running", p, request)
        BY <1>3 DEF RunPayroll
    <2> HIDE DEF request
    <2>4. QED
        BY <2>2, <2>3 DEF Unpaid
<1>4. Idle \in Calls /\ Idle.wage = Nothing
    BY EmptyTypes DEF Idle
<1>5. CASE Close(s, p)
    BY <1>4, <1>5 DEF Close
<1>6. CASE Delete(s, p)
    BY <1>4, <1>6 DEF Delete
<1>7. QED
    BY <1>1, <1>2, <1>3, <1>5, <1>6 DEF CreateSalaryPayment, AdjustAdvance

\* A new request keeps the types.
LEMMA RequestTypes ==
    ASSUME TypeOK, NEW s \in Sessions, Request(s)
    PROVE  TypeOK'
BY RequestStarts, StartTypes

\* A step of a handler keeps the types.
LEMMA HandlerTypes ==
    ASSUME TypeOK, Filed, NEW s \in Sessions, Handler(s)
    PROVE  TypeOK'
<1> DEFINE c == call[s]
<1>1. c \in Calls
    BY DEF TypeOK
<1>2. c.op # "idle" => c.month \in Months
    BY DEF Filed
<1>3. payments \in Books
    BY DEF TypeOK
<1>4. CASE SavePayment(s)
    <2>1. PICK e \in c.employees :
            payments' = [payments EXCEPT !.regular[e][c.month] = @ + c.amount]
        BY <1>4 DEF SavePayment
    <2>2. e \in Employees /\ c.amount \in Nat /\ c.month \in Months
        BY <1>1, <1>2, <1>4, <2>1 DEF Calls, SavePayment
    <2>3. payments.regular[e] \in [Months \cup {Unfiled} -> Nat]
        BY <1>3, <2>2 DEF Books, PerPeriod
    <2>4. payments.regular[e][c.month] + c.amount \in Nat
        BY <2>2, <2>3
    <2>5. payments' \in Books
        BY <1>3, <2>1, <2>2, <2>3, <2>4 DEF Books, PerPeriod
    <2>6. QED
        BY <1>4, <2>5, EndTypes DEF SavePayment, TypeOK
<1>5. CASE SaveAdjustment(s)
    <2>1. PICK e \in c.employees :
            payments' = [payments EXCEPT !.adjusted[e][c.month] = @ + c.amount]
        BY <1>5 DEF SaveAdjustment
    <2>2. e \in Employees /\ c.amount \in Nat /\ c.month \in Months
        BY <1>1, <1>2, <1>5, <2>1 DEF Calls, SaveAdjustment
    <2>3. payments.adjusted[e] \in [Months \cup {Unfiled} -> Nat]
        BY <1>3, <2>2 DEF Books, PerPeriod
    <2>4. payments.adjusted[e][c.month] + c.amount \in Nat
        BY <2>2, <2>3
    <2>5. payments' \in Books
        BY <1>3, <2>1, <2>2, <2>3, <2>4 DEF Books, PerPeriod
    <2>6. QED
        BY <1>5, <2>5, EndTypes DEF SaveAdjustment, TypeOK
<1>6. ASSUME NEW e \in Employees, PayEmployee(s, e) PROVE TypeOK'
    <2> DEFINE w == NetDue(c.seen, e, c.month)
               d == Deduction(c.seen, e, c.month)
    <2>1. w \in Nat /\ d \in Nat
        BY <1>6 DEF PayEmployee
    <2>2. call' = [call EXCEPT ![s] = [c EXCEPT !.employees = @ \ {e}, !.wage[e] = w,
                                                !.deduct[e] = d]]
        BY <1>6 DEF PayEmployee, TypeOK
    <2> HIDE DEF w, d
    <2>3. [c EXCEPT !.employees = @ \ {e}, !.wage[e] = w, !.deduct[e] = d] \in Calls
        BY <1>1, <2>1 DEF Calls
    <2>4. call' \in [Sessions -> Calls]
        BY <2>2, <2>3 DEF TypeOK
    <2>5. QED
        BY <1>6, <2>4 DEF PayEmployee, TypeOK
<1>7. ASSUME NEW e \in Employees, SkipEmployee(s, e) PROVE TypeOK'
    <2>1. [c EXCEPT !.employees = @ \ {e}] \in Calls
        BY <1>1 DEF Calls
    <2>2. call' \in [Sessions -> Calls]
        BY <1>7, <2>1 DEF SkipEmployee, TypeOK
    <2>3. QED
        BY <1>7, <2>2 DEF SkipEmployee, TypeOK
<1>8. CASE FinishRun(s)
    <2>1. c.month \in Months /\ c.wage \in [Employees -> Nat] /\ c.deduct \in [Employees -> Nat]
        BY <1>1, <1>2, <1>8 DEF Calls, FinishRun
    <2>2. payments.regular \in PerPeriod /\ payments.adjusted \in PerPeriod
        BY <1>3 DEF Books
    <2>3. payments' \in Books
        <3>1. /\ Filing(payments.regular, c.month, c.wage) \in PerPeriod
              /\ Filing(payments.adjusted, c.month, c.deduct) \in PerPeriod
            BY <2>1, <2>2, AddTypes
        <3>2. payments' = [payments EXCEPT !.regular = Filing(@, c.month, c.wage),
                                           !.adjusted = Filing(@, c.month, c.deduct)]
            BY <1>8 DEF FinishRun
        <3>3. QED
            BY <1>3, <3>1, <3>2 DEF Books
    <2>4. byRun' \in PerMonth
        <3>1. ASSUME NEW e \in Employees
              PROVE  [byRun[e] EXCEPT ![c.month] = IF c.wage[e] > 0 THEN @ + 1 ELSE @]
                       \in [Months -> Nat]
            <4>1. byRun[e] \in [Months -> Nat]
                BY DEF TypeOK, PerMonth
            <4>2. QED
                BY <2>1, <4>1
        <3>2. QED
            BY <1>8, <3>1 DEF FinishRun, PerMonth
    <2>5. QED
        BY <1>8, <2>3, <2>4, EndTypes DEF FinishRun, TypeOK
<1>9. CASE SaveClosed(s)
    BY <1>9, EndTypes DEF SaveClosed, TypeOK
<1>10. CASE SaveClosedAgain(s)
    <2>1. PICK back \in SUBSET {t \in Sessions \ {s} : call[t].gone /\ call[t].month = c.month} :
            call' = [t \in Sessions |-> IF t = s THEN Idle
                                        ELSE IF t \in back THEN [call[t] EXCEPT !.gone = FALSE]
                                        ELSE call[t]]
        BY <1>10 DEF SaveClosedAgain
    <2>2. ASSUME NEW t \in Sessions PROVE call'[t] \in Calls
        <3>1. call[t] \in Calls
            BY DEF TypeOK
        <3>2. [call[t] EXCEPT !.gone = FALSE] \in Calls
            BY <3>1 DEF Calls
        <3>3. QED
            BY <2>1, <3>1, <3>2, EmptyTypes
    <2>3. call' \in [Sessions -> Calls]
        BY <2>1, <2>2
    <2>4. QED
        BY <1>10, <2>3 DEF SaveClosedAgain, TypeOK
<1>11. CASE RemovePeriod(s)
    <2>1. c.month \in Months
        BY <1>2, <1>11 DEF RemovePeriod
    <2>2. payments' \in Books
        BY <1>3, <1>11, <2>1, UnfileTypes DEF RemovePeriod
    <2>3. ASSUME NEW t \in Sessions PROVE call'[t] \in Calls
        <3>1. call[t] \in Calls /\ call[t].seen \in Books
            BY DEF TypeOK, Calls
        <3>2. UnfileBooks(call[t].seen, c.month) \in Books
            BY <2>1, <3>1, UnfileTypes
        <3>3. [call[t] EXCEPT !.seen = UnfileBooks(@, c.month),
                              !.gone = @ \/ call[t].month = c.month] \in Calls
            <4>1. (call[t].gone \/ call[t].month = c.month) \in BOOLEAN
                OBVIOUS
            <4>2. QED
                BY <3>1, <3>2, <4>1 DEF Calls
        <3>4. QED
            BY <1>11, <3>3, EmptyTypes DEF RemovePeriod
    <2>4. call' \in [Sessions -> Calls]
        BY <1>11, <2>3 DEF RemovePeriod
    <2>5. byRun' \in PerMonth
        BY <1>11, <2>1 DEF RemovePeriod, TypeOK, PerMonth
    <2>6. QED
        BY <1>11, <2>1, <2>2, <2>4, <2>5 DEF RemovePeriod, TypeOK
<1>12. CASE Abort(s)
    BY <1>12, EndTypes DEF Abort, TypeOK
<1>13. QED
    BY <1>4, <1>5, <1>6, <1>7, <1>8, <1>9, <1>10, <1>11, <1>12 DEF Handler

-----------------------------------------------------------------------------
(* The periods requests work on.                                           *)

\* A request whose period was not deleted finds it, and rows are inserted
\* only under a period that was not deleted.
Held == \A s \in Sessions :
    /\ call[s].op # "idle" /\ ~call[s].gone => period[call[s].month] # "absent"
    /\ call[s].op = "running" /\ call[s].wage # Nothing => ~call[s].gone

PeriodInv == TypeOK /\ Filed /\ Held

\* The request that starts, and the others as they were.
LEMMA StartHolds ==
    ASSUME PeriodInv, NEW s \in Sessions, NEW p \in Months, NEW request \in Calls,
           NEW op \in {"paying", "adjusting", "running", "closing", "deleting"},
           request.wage = Nothing, Start(s, op, p, request)
    PROVE  Filed' /\ Held'
<1> DEFINE c == [request EXCEPT !.op = op, !.month = p]
<1>1. /\ call'[s] = [request EXCEPT !.op = op, !.month = p]
      /\ \A t \in Sessions \ {s} : call'[t] = call[t]
    <2>1. call \in [Sessions -> Calls]
        BY DEF PeriodInv, TypeOK
    <2>2. call' = [call EXCEPT ![s] = c]
        BY DEF Start
    <2> HIDE DEF c
    <2>3. call'[s] = c /\ \A t \in Sessions \ {s} : call'[t] = call[t]
        BY <2>1, <2>2
    <2> QED
        BY <2>3 DEF c
<1>2. /\ call'[s].month = p /\ call'[s].wage = Nothing
      /\ period[p] = "open" /\ period' = period
    <2>1. call'[s].month = p /\ call'[s].wage = request.wage
        BY <1>1 DEF Calls
    <2> QED
        BY <2>1 DEF Start
<1>3. QED
    BY <1>1, <1>2 DEF PeriodInv, Filed, Held

\* The session that ends is idle, and the others are as they were.
LEMMA EndEffect ==
    ASSUME TypeOK, NEW s \in Sessions, End(s)
    PROVE  call'[s] = Idle /\ \A t \in Sessions \ {s} : call'[t] = call[t]
BY DEF End, TypeOK

\* The office's steps leave the calls alone and never take a period away.
LEMMA OfficeHolds ==
    ASSUME PeriodInv, Office
    PROVE  Filed' /\ Held'
<1>1. /\ call' = call
      /\ period' = period \/ \E p \in Months : period' = [period EXCEPT ![p] = "open"]
    BY DEF Office, Tick, CreatePeriod, RecordAttendance, PayAdvance, RemoveAdvance
<1>2. \A m \in Months : period[m] # "absent" => period'[m] # "absent"
    BY <1>1 DEF PeriodInv, TypeOK
<1>3. QED
    BY <1>1, <1>2 DEF PeriodInv, Filed, Held

\* A handler keeps the periods that other requests work on, or marks them gone.
LEMMA HandlerHolds ==
    ASSUME PeriodInv, NEW s \in Sessions, Handler(s)
    PROVE  Filed' /\ Held'
<1> DEFINE c == call[s]
<1>1. TypeOK /\ Filed /\ Held
    BY DEF PeriodInv
<1>2. Idle.op = "idle"
    BY DEF Idle
<1>3. CASE End(s) /\ period' = period
    BY <1>1, <1>2, <1>3, EndEffect DEF Filed, Held
<1>4. CASE SaveClosed(s)
    <2>1. c.month \in Months /\ period'[c.month] = "closed"
        BY <1>1, <1>4 DEF SaveClosed, Filed, TypeOK
    <2>2. \A m \in Months : period[m] # "absent" => period'[m] # "absent"
        BY <1>1, <1>4, <2>1 DEF SaveClosed, TypeOK
    <2>3. End(s)
        BY <1>4 DEF SaveClosed
    <2>4. QED
        BY <1>1, <1>2, <2>2, <2>3, EndEffect DEF Filed, Held
<1>5. ASSUME NEW e \in Employees, PayEmployee(s, e) \/ SkipEmployee(s, e)
      PROVE  Filed' /\ Held'
    <2>1. /\ call'[s].month = c.month /\ call'[s].gone = c.gone /\ call'[s].op = c.op
          /\ \A t \in Sessions \ {s} : call'[t] = call[t]
          /\ c.op = "running" /\ ~c.gone
          /\ period' = period
        BY <1>1, <1>5 DEF PayEmployee, SkipEmployee, PeriodIsFree, TypeOK, Calls
    <2>2. QED
        BY <1>1, <2>1 DEF Filed, Held
<1>6. CASE SaveClosedAgain(s)
    <2>1. PICK back \in SUBSET {t \in Sessions \ {s} : call[t].gone /\ call[t].month = c.month} :
            call' = [t \in Sessions |-> IF t = s THEN Idle
                                        ELSE IF t \in back THEN [call[t] EXCEPT !.gone = FALSE]
                                        ELSE call[t]]
        BY <1>6 DEF SaveClosedAgain
    <2>2. /\ c.month \in Months /\ period[c.month] = "absent"
          /\ period' = [period EXCEPT ![c.month] = "closed"]
        BY <1>1, <1>6 DEF SaveClosedAgain, Filed
    <2>3. \A m \in Months : period[m] # "absent" => period'[m] # "absent"
        BY <1>1, <2>2 DEF TypeOK
    <2>4. period'[c.month] # "absent"
        BY <1>1, <2>2 DEF TypeOK
    <2>5. ASSUME NEW t \in Sessions
          PROVE  /\ call'[t].op # "idle" => call'[t].month \in Months
                 /\ call'[t].op # "idle" /\ ~call'[t].gone => period'[call'[t].month] # "absent"
                 /\ call'[t].op = "running" /\ call'[t].wage # Nothing => ~call'[t].gone
        <3>1. CASE t = s
            BY <1>2, <2>1, <3>1
        <3>2. CASE t # s /\ t \in back
            <4>1. call[t] \in Calls /\ call[t].month = c.month
                BY <1>1, <2>1, <3>2 DEF TypeOK
            <4>2. /\ call'[t].month = c.month /\ call'[t].gone = FALSE
                BY <2>1, <3>2, <4>1 DEF Calls
            <4>3. QED
                BY <2>2, <2>4, <4>2
        <3>3. CASE t # s /\ t \notin back
            BY <1>1, <2>1, <2>3, <3>3 DEF Filed, Held
        <3>4. QED
            BY <3>1, <3>2, <3>3
    <2>6. QED
        BY <2>5 DEF Filed, Held
<1>7. CASE RemovePeriod(s)
    <2>1. c.month \in Months
        BY <1>1, <1>7 DEF RemovePeriod, Filed
    <2>2. ASSUME NEW t \in Sessions
          PROVE  /\ call'[t].op # "idle" => call'[t].month \in Months
                 /\ call'[t].op # "idle" /\ ~call'[t].gone => period'[call'[t].month] # "absent"
                 /\ call'[t].op = "running" /\ call'[t].wage # Nothing => ~call'[t].gone
        <3>1. CASE t = s \/ call[t].op = "idle"
            <4>1. call'[t] = Idle
                BY <1>7, <3>1 DEF RemovePeriod
            <4>2. QED
                BY <1>2, <4>1
        <3>2. CASE ~(t = s \/ call[t].op = "idle")
            <4>1. call[t] \in Calls
                BY <1>1 DEF TypeOK
            <4>2. call'[t] = [call[t] EXCEPT !.seen = UnfileBooks(@, c.month),
                                             !.gone = @ \/ call[t].month = c.month]
                BY <1>7, <3>2 DEF RemovePeriod
            <4>3. /\ call'[t].op = call[t].op /\ call'[t].month = call[t].month
                  /\ call'[t].wage = call[t].wage
                  /\ call'[t].gone <=> (call[t].gone \/ call[t].month = c.month)
                BY <4>1, <4>2 DEF Calls
            <4>4. call[t].month # c.month => period'[call[t].month] = period[call[t].month]
                BY <1>1, <1>7, <3>2 DEF RemovePeriod, Filed, TypeOK
            <4>5. ~(call[t].op = "running" /\ call[t].month = c.month /\ call[t].wage # Nothing)
                BY <1>7, <3>2 DEF RemovePeriod, PeriodIsFree, Free, Inserting
            <4>6. QED
                BY <1>1, <3>2, <4>3, <4>4, <4>5 DEF Filed, Held
        <3>3. QED
            BY <3>1, <3>2
    <2>3. QED
        BY <2>2 DEF Filed, Held
<1>8. SavePayment(s) \/ SaveAdjustment(s) \/ FinishRun(s) \/ Abort(s) => End(s) /\ period' = period
    BY DEF SavePayment, SaveAdjustment, FinishRun, Abort
<1>9. QED
    BY <1>3, <1>4, <1>5, <1>6, <1>7, <1>8 DEF Handler

\* The invariant of the periods is inductive.
LEMMA PeriodInductive ==
    /\ Init => PeriodInv
    /\ PeriodInv /\ [Next]_vars => PeriodInv'
<1>1. Init => PeriodInv
    <2>1. ASSUME Init PROVE TypeOK
        BY <2>1, EmptyTypes DEF Init, TypeOK, PerMonth
    <2>2. ASSUME Init PROVE Filed /\ Held
        BY <2>2 DEF Init, Filed, Held, Idle
    <2>3. QED
        BY <2>1, <2>2 DEF PeriodInv
<1>2. ASSUME PeriodInv, [Next]_vars PROVE PeriodInv'
    <2>1. TypeOK /\ Filed
        BY <1>2 DEF PeriodInv
    <2>2. CASE UNCHANGED vars
        BY <1>2, <2>2 DEF PeriodInv, TypeOK, Filed, Held, vars
    <2>3. CASE Office
        BY <1>2, <2>1, <2>3, OfficeTypes, OfficeHolds DEF PeriodInv
    <2>4. ASSUME NEW s \in Sessions, Request(s) PROVE PeriodInv'
        <3>1. Filed' /\ Held'
            BY <1>2, <2>1, <2>4, RequestStarts, StartHolds
        <3>2. QED
            BY <2>1, <2>4, <3>1, RequestTypes DEF PeriodInv
    <2>5. ASSUME NEW s \in Sessions, Handler(s) PROVE PeriodInv'
        BY <1>2, <2>1, <2>5, HandlerTypes, HandlerHolds DEF PeriodInv
    <2>6. QED
        BY <1>2, <2>2, <2>3, <2>4, <2>5 DEF Next
<1>3. QED
    BY <1>1, <1>2

\* Every variable keeps its type.
THEOREM TypeCorrect == Spec => []TypeOK
<1>1. PeriodInv => TypeOK
    BY DEF PeriodInv
<1>2. QED
    BY <1>1, PeriodInductive, PTL DEF Spec

\* While a payroll run has uncommitted rows of a period, no step closes,
\* deletes or recreates that period.
THEOREM RunsHoldPeriods == Spec => RunHoldsPeriod
<1> DEFINE Hold == \A s \in Sessions, p \in Months : Inserting(s, p) => period'[p] = period[p]
<1>1. ASSUME PeriodInv, Next, NEW s \in Sessions, NEW p \in Months, Inserting(s, p)
      PROVE  period'[p] = period[p]
    <2>1. TypeOK /\ period[p] # "absent"
        BY <1>1 DEF PeriodInv, Held, Inserting
    <2>2. CASE Office
        BY <2>1, <2>2 DEF Office, Tick, CreatePeriod, RecordAttendance, PayAdvance,
                          RemoveAdvance, TypeOK
    <2>3. ASSUME NEW t \in Sessions, Request(t) PROVE period' = period
        BY <2>1, <2>3, RequestStarts DEF Start
    <2>4. ASSUME NEW t \in Sessions, Handler(t) PROVE period'[p] = period[p]
        <3>1. CASE SaveClosed(t) \/ RemovePeriod(t)
            <4>1. t # s
                BY <1>1, <3>1 DEF SaveClosed, RemovePeriod, Inserting
            <4>2. call[t].month # p
                BY <1>1, <3>1, <4>1 DEF SaveClosed, RemovePeriod, PeriodIsFree, Free
            <4>3. QED
                BY <2>1, <3>1, <4>2 DEF SaveClosed, RemovePeriod, TypeOK
        <3>2. CASE SaveClosedAgain(t)
            BY <2>1, <3>2 DEF SaveClosedAgain, TypeOK
        <3>3. QED
            BY <2>4, <3>1, <3>2 DEF Handler, SavePayment, SaveAdjustment, PayEmployee,
                                    SkipEmployee, FinishRun, Abort
    <2>5. QED
        BY <1>1, <2>2, <2>3, <2>4 DEF Next
<1>2. PeriodInv /\ [Next]_vars => [Hold]_vars
    BY <1>1
<1> HIDE DEF Hold
<1>3. Spec => [][Hold]_vars
    BY <1>2, PeriodInductive, PTL DEF Spec
<1>4. QED
    BY <1>3 DEF Hold, RunHoldsPeriod

-----------------------------------------------------------------------------
(* Payroll runs of one month that do not meet.                             *)

\* What a run has paid shows in the payments; unless two runs of its month have
\* met, a running run has yet to be counted for the employees it pays or is
\* going to pay.
RunInv ==
    /\ PeriodInv
    /\ \A e \in Employees, m \in Months :
         /\ byRun[e][m] > 0 => payments.regular[e][m] > 0
         /\ m \notin overlapped => byRun[e][m] <= 1
    /\ \A s \in Sessions : call[s].op = "running" /\ call[s].month \notin overlapped =>
         \A e \in Employees :
           e \in call[s].employees \/ call[s].wage[e] > 0 => byRun[e][call[s].month] = 0
    /\ \A s, t \in Sessions : s # t /\ call[s].op = "running" /\ call[t].op = "running"
         /\ call[s].month = call[t].month => call[s].month \in overlapped

\* The commit of a run counts each employee it pays for the first time.
LEMMA FinishCounts ==
    ASSUME RunInv, NEW s \in Sessions, FinishRun(s), PeriodInv'
    PROVE  RunInv'
<1> DEFINE c == call[s]
           p == c.month
<1>1. /\ TypeOK /\ p \in Months
      /\ c.wage \in [Employees -> Nat] /\ c.op = "running"
    BY DEF RunInv, PeriodInv, Filed, FinishRun, TypeOK, Calls
<1>2. ASSUME NEW e \in Employees, NEW m \in Months
      PROVE  /\ byRun'[e][m] > 0 => payments'.regular[e][m] > 0
             /\ m \notin overlapped => byRun'[e][m] <= 1
    <2>1. /\ payments.regular \in PerPeriod
          /\ payments.regular[e] \in [Months \cup {Unfiled} -> Nat]
          /\ byRun[e] \in [Months -> Nat]
          /\ c.wage[e] \in Nat
        BY <1>1 DEF TypeOK, Books, PerPeriod, PerMonth
    <2>2. payments'.regular = Filing(payments.regular, p, c.wage)
        BY <1>1 DEF FinishRun, TypeOK, Books
    <2>3. payments'.regular[e] = [payments.regular[e] EXCEPT ![p] = @ + c.wage[e]]
        BY <2>2 DEF Filing
    <2>4. byRun'[e] = [byRun[e] EXCEPT ![p] = IF c.wage[e] > 0 THEN @ + 1 ELSE @]
        BY DEF FinishRun
    <2>5. c.wage[e] > 0 /\ p \notin overlapped => byRun[e][p] = 0
        BY <1>1 DEF RunInv
    <2>6. byRun[e][m] > 0 => payments.regular[e][m] > 0
        BY DEF RunInv
    <2>7. m \notin overlapped => byRun[e][m] <= 1
        BY DEF RunInv
    <2>8. CASE m = p
        <3>1. payments'.regular[e][m] = payments.regular[e][m] + c.wage[e]
            BY <1>1, <2>1, <2>3, <2>8
        <3>2. byRun'[e][m] = IF c.wage[e] > 0 THEN byRun[e][m] + 1 ELSE byRun[e][m]
            BY <1>1, <2>1, <2>4, <2>8
        <3>3. payments.regular[e][m] \in Nat
            BY <2>1
        <3>4. c.wage[e] > 0 /\ m \notin overlapped => byRun[e][m] = 0
            BY <2>5, <2>8
        <3>5. QED
            BY <2>1, <2>6, <2>7, <3>1, <3>2, <3>3, <3>4
    <2>9. CASE m # p
        BY <2>1, <2>3, <2>4, <2>6, <2>7, <2>9
    <2>10. QED
        BY <2>8, <2>9
<1>3. /\ call'[s].op = "idle"
      /\ \A t \in Sessions \ {s} : call'[t] = call[t]
      /\ overlapped' = overlapped
    BY <1>1, EndEffect DEF FinishRun, Idle
<1>4. ASSUME NEW t \in Sessions, call'[t].op = "running", call'[t].month \notin overlapped',
             NEW e \in Employees, e \in call'[t].employees \/ call'[t].wage[e] > 0
      PROVE  byRun'[e][call'[t].month] = 0
    <2>1. t # s /\ call'[t] = call[t]
        BY <1>3, <1>4
    <2>2. call[t].month \in Months /\ call[t].month # p
        BY <1>1, <1>3, <1>4, <2>1 DEF RunInv, PeriodInv, Filed
    <2>3. byRun[e][call[t].month] = 0
        BY <1>3, <1>4, <2>1 DEF RunInv
    <2>4. /\ byRun'[e] = [byRun[e] EXCEPT ![p] = IF c.wage[e] > 0 THEN @ + 1 ELSE @]
          /\ byRun[e] \in [Months -> Nat]
        BY <1>1 DEF FinishRun, TypeOK, PerMonth
    <2>5. QED
        BY <2>1, <2>2, <2>3, <2>4
<1>5. ASSUME NEW t \in Sessions, NEW u \in Sessions, t # u,
             call'[t].op = "running", call'[u].op = "running", call'[t].month = call'[u].month
      PROVE  call'[t].month \in overlapped'
    BY <1>3, <1>5 DEF RunInv
<1>6. QED
    BY <1>2, <1>3, <1>4, <1>5 DEF RunInv

\* Steps that count no run and take no salary payment away keep the counts.
LEMMA CountsStay ==
    ASSUME RunInv, PeriodInv', byRun' = byRun, overlapped \subseteq overlapped',
           \A e \in Employees, m \in Months :
             payments.regular[e][m] > 0 => payments'.regular[e][m] > 0,
           \A t \in Sessions : call'[t].op = "running" =>
             \/ /\ call[t].op = "running" /\ call'[t].month = call[t].month
                /\ \A e \in Employees : (e \in call'[t].employees \/ call'[t].wage[e] > 0)
                     => (e \in call[t].employees \/ call[t].wage[e] > 0)
             \/ /\ call'[t].month \in Months
                /\ \A e \in Employees : ~(call'[t].wage[e] > 0)
                /\ \A e \in call'[t].employees : payments.regular[e][call'[t].month] = 0,
           \A t, u \in Sessions :
             t # u /\ call'[t].op = "running" /\ call'[u].op = "running"
             /\ call'[t].month = call'[u].month =>
               \/ call'[t].month \in overlapped'
               \/ /\ call[t].op = "running" /\ call'[t].month = call[t].month
                  /\ call[u].op = "running" /\ call'[u].month = call[u].month
    PROVE  RunInv'
<1>1. \A e \in Employees, m \in Months :
         /\ byRun'[e][m] > 0 => payments'.regular[e][m] > 0
         /\ m \notin overlapped' => byRun'[e][m] <= 1
    BY DEF RunInv
<1>2. ASSUME NEW t \in Sessions, call'[t].op = "running", call'[t].month \notin overlapped'
      PROVE  \A e \in Employees : e \in call'[t].employees \/ call'[t].wage[e] > 0
                  => byRun'[e][call'[t].month] = 0
    <2>1. CASE /\ call[t].op = "running" /\ call'[t].month = call[t].month
               /\ \A e \in Employees : (e \in call'[t].employees \/ call'[t].wage[e] > 0)
                    => (e \in call[t].employees \/ call[t].wage[e] > 0)
        BY <1>2, <2>1 DEF RunInv
    <2>2. CASE /\ call'[t].month \in Months
               /\ \A e \in Employees : ~(call'[t].wage[e] > 0)
               /\ \A e \in call'[t].employees : payments.regular[e][call'[t].month] = 0
        <3>1. ASSUME NEW e \in Employees, e \in call'[t].employees
              PROVE  byRun[e][call'[t].month] = 0
            <4>1. byRun[e][call'[t].month] \in Nat
                BY <2>2 DEF RunInv, PeriodInv, TypeOK, PerMonth
            <4>2. ~(byRun[e][call'[t].month] > 0)
                BY <2>2, <3>1 DEF RunInv
            <4>3. QED
                BY <4>1, <4>2
        <3>2. QED
            BY <2>2, <3>1
    <2>3. QED
        BY <1>2, <2>1, <2>2
<1>3. ASSUME NEW t \in Sessions, NEW u \in Sessions, t # u,
             call'[t].op = "running", call'[u].op = "running", call'[t].month = call'[u].month
      PROVE  call'[t].month \in overlapped'
    BY <1>3 DEF RunInv
<1>4. QED
    BY <1>1, <1>2, <1>3 DEF RunInv

\* The counts of the runs are kept by every step.
LEMMA RunInductive ==
    /\ Init => RunInv
    /\ RunInv /\ [Next]_vars => RunInv'
<1>1. Init => RunInv
    <2>1. ASSUME Init PROVE /\ \A e \in Employees, m \in Months : byRun[e][m] = 0
                            /\ \A s \in Sessions : call[s].op = "idle"
        BY <2>1 DEF Init, Idle
    <2>2. QED
        BY <2>1, PeriodInductive DEF RunInv
<1>2. ASSUME RunInv, [Next]_vars PROVE RunInv'
    <2>1. TypeOK /\ Filed /\ PeriodInv'
        BY <1>2, PeriodInductive DEF RunInv, PeriodInv
    <2>2. CASE UNCHANGED vars
        BY <1>2, <2>1, <2>2 DEF RunInv, vars
    <2>3. CASE Office
        <3>1. UNCHANGED <<byRun, overlapped, call>> /\ payments'.regular = payments.regular
            BY <2>1, <2>3 DEF Office, Tick, CreatePeriod, RecordAttendance, PayAdvance,
                              RemoveAdvance, TypeOK, Books
        <3>2. QED
            BY <1>2, <2>1, <3>1, CountsStay
    <2>4. ASSUME NEW s \in Sessions, Request(s) PROVE RunInv'
        <3>1. PICK p \in Months, op \in {"paying", "adjusting", "running", "closing", "deleting"} :
                \E request \in Calls :
                  /\ Start(s, op, p, request)
                  /\ request.wage = Nothing
                  /\ op = "running" =>
                       \A e \in request.employees : payments.regular[e][p] = 0
            BY <2>1, <2>4, RequestStarts
        <3>2. PICK request \in Calls :
                /\ Start(s, op, p, request)
                /\ request.wage = Nothing
                /\ op = "running" =>
                     \A e \in request.employees : payments.regular[e][p] = 0
            BY <3>1
        <3>3. call'[s] = [request EXCEPT !.op = op, !.month = p]
            BY <2>1, <3>2 DEF Start, TypeOK
        <3>4. /\ call'[s].op = op /\ call'[s].month = p
              /\ call'[s].wage = Nothing /\ call'[s].employees = request.employees
            BY <3>2, <3>3 DEF Calls
        <3>5. /\ \A t \in Sessions \ {s} : call'[t] = call[t]
              /\ byRun' = byRun /\ payments' = payments /\ overlapped \subseteq overlapped'
            BY <2>1, <3>2 DEF Start, TypeOK
        <3>6. \A e \in Employees : ~(Nothing[e] > 0)
            BY DEF Nothing
        <3>7. ASSUME NEW t \in Sessions \ {s}, op = "running", call[t].op = "running",
                     call[t].month = p
              PROVE  p \in overlapped'
            BY <3>2, <3>7 DEF Start, Runs
        <3>8. QED
            BY <1>2, <2>1, <3>2, <3>4, <3>5, <3>6, <3>7, CountsStay
    <2>5. ASSUME NEW s \in Sessions, Handler(s) PROVE RunInv'
        <3> DEFINE c == call[s]
        <3>1. CASE FinishRun(s)
            BY <1>2, <2>1, <3>1, FinishCounts
        <3>2. CASE SavePayment(s) \/ SaveAdjustment(s) \/ SaveClosed(s) \/ Abort(s)
            <4>1. End(s) /\ byRun' = byRun /\ overlapped' = overlapped
                BY <3>2 DEF SavePayment, SaveAdjustment, SaveClosed, Abort
            <4>2. c.op # "idle" /\ c \in Calls
                BY <2>1, <3>2 DEF SavePayment, SaveAdjustment, SaveClosed, Abort, TypeOK
            <4>3. ASSUME NEW e \in Employees, NEW m \in Months, payments.regular[e][m] > 0
                  PROVE  payments'.regular[e][m] > 0
                <5>1. CASE SavePayment(s)
                    <6>1. PICK x \in c.employees :
                            payments' = [payments EXCEPT !.regular[x][c.month] = @ + c.amount]
                        BY <5>1 DEF SavePayment
                    <6>2. x \in Employees /\ c.amount \in Nat /\ c.month \in Months
                        BY <2>1, <4>2, <6>1 DEF Calls, Filed
                    <6>3. /\ payments.regular[x] \in [Months \cup {Unfiled} -> Nat]
                          /\ payments.regular[e][m] \in Nat
                          /\ payments.regular \in PerPeriod /\ payments \in Books
                        BY <2>1, <6>2 DEF TypeOK, Books, PerPeriod
                    <6>4. payments'.regular =
                            [payments.regular EXCEPT ![x][c.month] = @ + c.amount]
                        BY <6>1, <6>3 DEF Books
                    <6>5. CASE e = x /\ m = c.month
                        BY <4>3, <6>2, <6>3, <6>4, <6>5 DEF PerPeriod
                    <6>6. CASE ~(e = x /\ m = c.month)
                        BY <4>3, <6>2, <6>3, <6>4, <6>6 DEF PerPeriod
                    <6>7. QED
                        BY <6>5, <6>6
                <5>2. CASE SaveAdjustment(s) \/ SaveClosed(s) \/ Abort(s)
                    <6>1. payments'.regular = payments.regular
                        BY <2>1, <5>2 DEF SaveAdjustment, SaveClosed, Abort, TypeOK, Books
                    <6>2. QED
                        BY <4>3, <6>1
                <5>3. QED
                    BY <3>2, <5>1, <5>2
            <4>4. /\ call'[s].op = "idle"
                  /\ \A t \in Sessions \ {s} : call'[t] = call[t]
                BY <2>1, <4>1, EndEffect DEF Idle
            <4>5. QED
                BY <1>2, <2>1, <4>1, <4>3, <4>4, CountsStay
        <3>3. ASSUME NEW x \in Employees, PayEmployee(s, x) \/ SkipEmployee(s, x)
              PROVE  RunInv'
            <4>1. /\ c \in Calls /\ x \in c.employees /\ c.op = "running"
                  /\ UNCHANGED <<byRun, payments, overlapped>>
                BY <2>1, <3>3 DEF PayEmployee, SkipEmployee, TypeOK
            <4>2. /\ call'[s].month = c.month
                  /\ call'[s].employees = c.employees \ {x}
                  /\ \A e \in Employees \ {x} : call'[s].wage[e] = c.wage[e]
                  /\ \A t \in Sessions \ {s} : call'[t] = call[t]
                BY <2>1, <3>3, <4>1 DEF PayEmployee, SkipEmployee, TypeOK, Calls
            <4>3. QED
                BY <1>2, <2>1, <4>1, <4>2, CountsStay
        <3>4. CASE SaveClosedAgain(s)
            <4>1. PICK back \in SUBSET {t \in Sessions \ {s} :
                                          call[t].gone /\ call[t].month = c.month} :
                    call' = [t \in Sessions |->
                               IF t = s THEN Idle
                               ELSE IF t \in back THEN [call[t] EXCEPT !.gone = FALSE]
                               ELSE call[t]]
                BY <3>4 DEF SaveClosedAgain
            <4>2. UNCHANGED <<byRun, payments, overlapped>>
                BY <3>4 DEF SaveClosedAgain
            <4>3. ASSUME NEW t \in Sessions, call'[t].op = "running"
                  PROVE  /\ call[t].op = "running" /\ call'[t].month = call[t].month
                         /\ call'[t].employees = call[t].employees
                         /\ call'[t].wage = call[t].wage
                <5>1. t # s /\ call[t] \in Calls
                    BY <2>1, <4>1, <4>3 DEF Idle, TypeOK
                <5>2. QED
                    BY <4>1, <4>3, <5>1 DEF Calls
            <4>4. QED
                BY <1>2, <2>1, <4>2, <4>3, CountsStay
        <3>5. CASE RemovePeriod(s)
            <4>1. c.month \in Months
                BY <2>1, <3>5 DEF RemovePeriod, Filed
            <4>2. ASSUME NEW e \in Employees, NEW m \in Months
                  PROVE  /\ m = c.month => byRun'[e][m] = 0
                         /\ m # c.month => /\ byRun'[e][m] = byRun[e][m]
                                           /\ payments'.regular[e][m] = payments.regular[e][m]
                <5>1. /\ byRun'[e] = [byRun[e] EXCEPT ![c.month] = 0]
                      /\ byRun[e] \in [Months -> Nat]
                    BY <2>1, <3>5 DEF RemovePeriod, TypeOK, PerMonth
                <5>2. /\ payments'.regular = Unfile(payments.regular, c.month)
                      /\ payments.regular[e] \in [Months \cup {Unfiled} -> Nat]
                    BY <2>1, <3>5 DEF RemovePeriod, UnfileBooks, TypeOK, Books, PerPeriod
                <5>3. m # c.month => payments'.regular[e][m] = payments.regular[e][m]
                    BY <5>2, PayrollAssumption DEF Unfile
                <5>4. QED
                    BY <4>1, <5>1, <5>3
            <4>3. ASSUME NEW t \in Sessions, call'[t].op = "running"
                  PROVE  /\ call[t].op = "running" /\ call'[t].month = call[t].month
                         /\ call'[t].employees = call[t].employees
                         /\ call'[t].wage = call[t].wage
                         /\ call[t].month \in Months
                <5>1. t # s /\ call[t].op # "idle"
                    BY <3>5, <4>3 DEF RemovePeriod, Idle
                <5>2. call[t] \in Calls /\ call[t].month \in Months
                    BY <2>1, <5>1 DEF TypeOK, Filed
                <5>3. call'[t] = [call[t] EXCEPT !.seen = UnfileBooks(@, c.month),
                                                 !.gone = @ \/ call[t].month = c.month]
                    BY <3>5, <5>1 DEF RemovePeriod
                <5>4. QED
                    BY <4>3, <5>2, <5>3 DEF Calls
            <4>4. overlapped' = overlapped
                BY <3>5 DEF RemovePeriod
            <4>5. ASSUME NEW t \in Sessions, call'[t].op = "running",
                         call'[t].month \notin overlapped'
                  PROVE  \A e \in Employees : e \in call'[t].employees \/ call'[t].wage[e] > 0
                              => byRun'[e][call'[t].month] = 0
                BY <1>2, <4>2, <4>3, <4>4, <4>5 DEF RunInv
            <4>6. \A e \in Employees, m \in Months :
                     /\ byRun'[e][m] > 0 => payments'.regular[e][m] > 0
                     /\ m \notin overlapped' => byRun'[e][m] <= 1
                BY <1>2, <4>2, <4>4 DEF RunInv
            <4>7. ASSUME NEW t \in Sessions, NEW u \in Sessions, t # u,
                         call'[t].op = "running", call'[u].op = "running",
                         call'[t].month = call'[u].month
                  PROVE  call'[t].month \in overlapped'
                BY <1>2, <4>3, <4>4, <4>7 DEF RunInv
            <4>8. QED
                BY <2>1, <4>5, <4>6, <4>7 DEF RunInv
        <3>6. QED
            BY <2>5, <3>1, <3>2, <3>3, <3>4, <3>5 DEF Handler
    <2>6. QED
        BY <1>2, <2>2, <2>3, <2>4, <2>5 DEF Next
<1>3. QED
    BY <1>1, <1>2

\* Payroll runs pay each employee at most once for a period unless two runs of
\* that month met, whatever other runs, payments, closings and deletions happen
\* meanwhile and in however many sessions.
THEOREM RunsPayOnce == Spec => []PaidOncePerRun
<1>1. RunInv => PaidOncePerRun
    BY DEF RunInv, PaidOncePerRun
<1>2. /\ Init => RunInv
      /\ RunInv /\ [Next]_vars => RunInv'
    BY RunInductive
<1>3. QED
    BY <1>1, <1>2, PTL DEF Spec

-----------------------------------------------------------------------------
(* The balances.                                                           *)

\* The periods a payment may be filed under are finitely many.
LEMMA FiniteMonths ==
    /\ IsFiniteSet(Months) /\ IsFiniteSet(Months \cup {Unfiled})
    /\ \A p \in Months : IsFiniteSet(Through(p)) /\ Through(p) \subseteq Months
    /\ \A m \in Months : IsFiniteSet(1 .. m) /\ 1 .. m \subseteq Months
<1>1. IsFiniteSet(Months)
    BY PayrollAssumption, FS_Interval DEF Months
<1>2. IsFiniteSet(Months \cup {Unfiled})
    BY <1>1, FS_AddElement
<1>3. ASSUME NEW p \in Months PROVE IsFiniteSet(Through(p)) /\ Through(p) \subseteq Months
    BY <1>1, FS_Subset DEF Through
<1>4. ASSUME NEW m \in Months PROVE IsFiniteSet(1 .. m) /\ 1 .. m \subseteq Months
    BY PayrollAssumption, FS_Interval DEF Months
<1>5. QED
    BY <1>1, <1>2, <1>3, <1>4

\* What is due, what was paid and what is outstanding are natural numbers.
LEMMA BalanceTypes ==
    ASSUME TypeOK, NEW b \in Books, NEW e \in Employees, NEW p \in Months
    PROVE  /\ Sum(b.regular[e], Months \cup {Unfiled}) \in Nat
           /\ Sum(due[e], Through(p)) \in Nat
           /\ SalaryDue(b, e, p) \in Nat
           /\ OutstandingAdvance(b, e, p) \in Nat
           /\ NetDue(b, e, p) \in Nat
           /\ b.adjusted[e][p] \in Nat
<1>1. /\ b.regular[e] \in [Months \cup {Unfiled} -> Nat]
      /\ b.adjusted[e] \in [Months \cup {Unfiled} -> Nat]
      /\ b.advance[e] \in [Months -> Nat]
      /\ due[e] \in [Months -> Nat]
    <2>1. b.regular \in PerPeriod /\ b.adjusted \in PerPeriod /\ b.advance \in PerMonth
        BY DEF Books
    <2>2. due[e] \in [Months -> Dues]
        BY DEF TypeOK
    <2>3. due[e] \in [Months -> Nat]
        BY <2>2, PayrollAssumption
    <2>4. QED
        BY <2>1, <2>3 DEF PerPeriod, PerMonth
<1>2. Sum(b.regular[e], Months \cup {Unfiled}) \in Nat
    BY <1>1, FiniteMonths, SumNat DEF Sum
<1>3. ASSUME NEW m \in Months
      PROVE  /\ Sum(due[e], Through(m)) \in Nat
             /\ Sum(b.regular[e], Through(m)) \in Nat
             /\ Sum(b.adjusted[e], Through(m)) \in Nat
    <2>1. \A k \in Through(m) :
             due[e][k] \in Nat /\ b.regular[e][k] \in Nat /\ b.adjusted[e][k] \in Nat
        BY <1>1, FiniteMonths
    <2>2. QED
        BY <2>1, FiniteMonths, SumNat DEF Sum
<1>4. Sum(b.advance[e], 1 .. p - 1) \in Nat
    <2>1. IsFiniteSet(1 .. p - 1) /\ \A k \in 1 .. p - 1 : b.advance[e][k] \in Nat
        <3>1. p \in Int /\ p - 1 \in Int /\ 1 .. p - 1 \subseteq Months
            BY PayrollAssumption DEF Months
        <3>2. IsFiniteSet(1 .. p - 1)
            BY <3>1, FS_Interval
        <3>3. QED
            BY <1>1, <3>1, <3>2
    <2>2. QED
        BY <2>1, SumNat DEF Sum
<1>5. Overpaid(b, e, p) \in Int
    <2> DEFINE over == [m \in Months |->
                          Sum(b.regular[e], Through(m)) - Sum(due[e], Through(m))]
               V == {0} \cup {over[m] : m \in Through(p)}
    <2>1. \A m \in Through(p) :
             /\ over[m] = Sum(b.regular[e], Through(m)) - Sum(due[e], Through(m))
             /\ over[m] \in Int
        BY <1>3, FiniteMonths
    <2>2. Overpaid(b, e, p) = Max(V)
        BY <2>1 DEF Overpaid
    <2> HIDE DEF over
    <2>3. \E z \in V : \A y \in V : z >= y
        <3>1. IsFiniteSet(Through(p)) /\ 0 \in Int
            BY FiniteMonths
        <3>2. \A m \in Through(p) : over[m] \in Int
            BY <2>1
        <3>3. QED
            BY <3>1, <3>2, LargestValue
    <2>4. \A y \in V : y \in Int
        BY <2>1
    <2> HIDE DEF V
    <2>5. Max(V) \in V
        BY <2>3 DEF Max
    <2>6. QED
        BY <2>2, <2>4, <2>5
<1>6. SalaryDue(b, e, p) \in Nat
    BY <1>2, <1>3 DEF SalaryDue, AtLeastZero
<1>7. OutstandingAdvance(b, e, p) \in Nat
    <2> DEFINE x == Sum(b.advance[e], 1 .. p - 1)
               y == Sum(b.adjusted[e], Through(p))
    <2>1. x \in Nat /\ y \in Nat
        BY <1>3, <1>4
    <2>2. OutstandingAdvance(b, e, p) = AtLeastZero(x + Overpaid(b, e, p) - y)
        BY DEF OutstandingAdvance
    <2> HIDE DEF x, y
    <2>3. QED
        BY <1>5, <2>1, <2>2 DEF AtLeastZero
<1>8. b.adjusted[e][p] \in Nat
    BY <1>1
<1>9. NetDue(b, e, p) \in Nat
    BY <1>6, <1>7, <1>8 DEF NetDue, AtLeastZero
<1>10. QED
    BY <1>2, <1>3, <1>6, <1>7, <1>8, <1>9

\* A payment that is no more than the net due, and not nothing, stays within
\* what was earned up to its period.
LEMMA NetDueCovers ==
    ASSUME TypeOK, NEW b \in Books, NEW e \in Employees, NEW p \in Months,
           NEW a \in Nat, 0 < a, a <= NetDue(b, e, p)
    PROVE  Sum(b.regular[e], Months \cup {Unfiled}) + a <= Sum(due[e], 1 .. p)
<1> DEFINE x == IF b.adjusted[e][p] > 0 THEN b.adjusted[e][p] ELSE OutstandingAdvance(b, e, p)
           paid == Sum(b.regular[e], Months \cup {Unfiled})
           filed == Sum(due[e], Through(p))
           earned == Sum(due[e], 1 .. p)
<1>1. x \in Nat /\ paid \in Nat /\ filed \in Nat
    BY BalanceTypes
<1>2. SalaryDue(b, e, p) \in Nat
    BY BalanceTypes
<1>3. NetDue(b, e, p) = AtLeastZero(SalaryDue(b, e, p) - x)
    BY DEF NetDue
<1>4. SalaryDue(b, e, p) = AtLeastZero(filed - paid)
    BY DEF SalaryDue
<1>5. filed <= earned /\ earned \in Nat
    <2>1. Through(p) \subseteq 1 .. p
        BY DEF Through, Months
    <2>2. IsFiniteSet(1 .. p) /\ \A k \in 1 .. p : due[e][k] \in Nat
        <3>1. due[e] \in [Months -> Nat]
            <4>1. due \in [Employees -> [Months -> Dues]]
                BY DEF TypeOK
            <4> QED
                BY <4>1, PayrollAssumption
        <3>2. IsFiniteSet(1 .. p) /\ 1 .. p \subseteq Months
            BY FiniteMonths
        <3>3. QED
            BY <3>1, <3>2
    <2> DEFINE f == due[e]
               S == 1 .. p
    <2>3. filed = SumFunctionOnSet(f, Through(p)) /\ earned = SumFunctionOnSet(f, S)
        BY DEF Sum
    <2>4. Through(p) \subseteq S /\ IsFiniteSet(S) /\ \A k \in S : f[k] \in Nat
        BY <2>1, <2>2
    <2> HIDE DEF f, S, filed, earned
    <2>5. SumFunctionOnSet(f, Through(p)) <= SumFunctionOnSet(f, S)
        BY <2>4, SumSubset
    <2>6. SumFunctionOnSet(f, S) \in Nat
        BY <2>4, SumNat
    <2>7. QED
        BY <2>3, <2>5, <2>6
<1> HIDE DEF x, paid, filed, earned
<1>6. a <= SalaryDue(b, e, p)
    BY <1>1, <1>2, <1>3 DEF AtLeastZero
<1>7. paid + a <= filed
    BY <1>1, <1>2, <1>4, <1>6 DEF AtLeastZero
<1>8. QED
    BY <1>1, <1>5, <1>7 DEF paid, earned

-----------------------------------------------------------------------------
(* What a run leaves to be paid.                                           *)

\* An amount filed under a period adds that amount to what was paid.
LEMMA PaidMore ==
    ASSUME NEW f \in [Months \cup {Unfiled} -> Nat], NEW p \in Months, NEW a \in Nat
    PROVE  Sum([f EXCEPT ![p] = @ + a], Months \cup {Unfiled}) = Sum(f, Months \cup {Unfiled}) + a
<1> DEFINE S == Months \cup {Unfiled}
           g == [f EXCEPT ![p] = @ + a]
<1>1. \A m \in S : f[m] \in Int /\ g[m] = (IF m = p THEN f[m] + a ELSE f[m])
    OBVIOUS
<1>2. IsFiniteSet(S) /\ p \in S /\ a \in Int
    BY FiniteMonths
<1> HIDE DEF S, g
<1>3. SumFunctionOnSet(g, S) = SumFunctionOnSet(f, S) + a
    <2> DEFINE R == S \ {p}
    <2>1. IsFiniteSet(R) /\ R \subseteq S
        BY <1>2, FS_Subset
    <2>2. SumFunctionOnSet(f, S) = f[p] + SumFunctionOnSet(f, R)
        BY <1>1, <1>2, SumTake
    <2>3. SumFunctionOnSet(g, S) = g[p] + SumFunctionOnSet(g, R)
        BY <1>1, <1>2, SumTake
    <2>4. SumFunctionOnSet(g, R) = SumFunctionOnSet(f, R)
        BY <1>1, <2>1, SumSame
    <2>5. SumFunctionOnSet(f, R) \in Int
        BY <1>1, <2>1, SumInt
    <2>6. QED
        BY <1>1, <1>2, <2>2, <2>3, <2>4, <2>5
<1>4. QED
    BY <1>3 DEF Sum, S, g

\* The commit of a run adds its wages and deductions to the payments.
LEMMA FinishEffect ==
    ASSUME PeriodInv, NEW s \in Sessions, FinishRun(s), NEW e \in Employees
    PROVE  /\ call[s].month \in Months
           /\ call[s].wage[e] \in Nat /\ call[s].deduct[e] \in Nat
           /\ payments'.regular[e] =
                [payments.regular[e] EXCEPT ![call[s].month] = @ + call[s].wage[e]]
           /\ payments'.adjusted[e] =
                [payments.adjusted[e] EXCEPT ![call[s].month] = @ + call[s].deduct[e]]
           /\ payments.regular[e] \in [Months \cup {Unfiled} -> Nat]
           /\ payments.adjusted[e] \in [Months \cup {Unfiled} -> Nat]
<1> DEFINE c == call[s]
           p == c.month
<1>1. /\ p \in Months
      /\ c.wage \in [Employees -> Nat] /\ c.deduct \in [Employees -> Nat]
    BY DEF PeriodInv, Filed, FinishRun, TypeOK, Calls
<1>2. payments \in Books /\ payments.regular \in PerPeriod /\ payments.adjusted \in PerPeriod
    BY DEF PeriodInv, TypeOK, Books
<1>3. /\ payments'.regular = Filing(payments.regular, p, c.wage)
      /\ payments'.adjusted = Filing(payments.adjusted, p, c.deduct)
    BY <1>2 DEF FinishRun, Books
<1>4. QED
    BY <1>1, <1>2, <1>3 DEF Filing, PerPeriod

\* After a run paid and deducted what was asked for, nothing is asked for.
LEMMA NothingRemains ==
    ASSUME PeriodInv, PeriodInv', NEW s \in Sessions, FinishRun(s), NEW e \in Employees,
           NEW p \in Months, p = call[s].month, call[s].wage[e] > 0,
           call[s].wage[e] = NetDue(payments, e, p),
           call[s].deduct[e] = Deduction(payments, e, p)
    PROVE  NetDue(payments, e, p)' = 0
<1> DEFINE w == call[s].wage[e]
           d == call[s].deduct[e]
           paid == Sum(payments.regular[e], Months \cup {Unfiled})
           filed == Sum(due[e], Through(p))
           deducted == payments.adjusted[e][p]
           rest == OutstandingAdvance(payments, e, p)
           salary == SalaryDue(payments, e, p)
<1>1. TypeOK /\ payments \in Books /\ payments' \in Books /\ TypeOK'
    BY DEF PeriodInv, TypeOK
<1>2. /\ w \in Nat /\ d \in Nat /\ paid \in Nat /\ filed \in Nat /\ deducted \in Nat
      /\ rest \in Nat /\ salary \in Nat
    BY <1>1, BalanceTypes, FinishEffect
<1>3. OutstandingAdvance(payments, e, p)' \in Nat
    <2>1. OutstandingAdvance(payments', e, p) \in Nat
        BY <1>1, BalanceTypes
    <2>2. OutstandingAdvance(payments, e, p)' = OutstandingAdvance(payments', e, p)
        <3>1. due' = due /\ period' = period
            BY DEF FinishRun
        <3>2. Overpaid(payments, e, p)' = Overpaid(payments', e, p)
            BY <3>1 DEF Overpaid, Through
        <3>3. Through(p)' = Through(p)
            BY <3>1 DEF Through
        <3> QED
            BY <3>2, <3>3 DEF OutstandingAdvance
    <2> QED
        BY <2>1, <2>2
<1>4. paid' = paid + w
    <2>1. /\ payments'.regular[e] = [payments.regular[e] EXCEPT ![p] = @ + w]
          /\ payments.regular[e] \in [Months \cup {Unfiled} -> Nat]
        BY FinishEffect
    <2> DEFINE f == payments.regular[e]
               g == payments'.regular[e]
    <2>2. /\ f \in [Months \cup {Unfiled} -> Nat] /\ w \in Nat
          /\ g = [f EXCEPT ![p] = @ + w]
        BY <1>2, <2>1
    <2>3. paid = Sum(f, Months \cup {Unfiled}) /\ paid' = Sum(g, Months \cup {Unfiled})
        OBVIOUS
    <2> HIDE DEF w, f, g
    <2>4. Sum([f EXCEPT ![p] = @ + w], Months \cup {Unfiled}) = Sum(f, Months \cup {Unfiled}) + w
        BY <2>2, PaidMore
    <2>5. QED
        BY <2>2, <2>3, <2>4
<1>5. deducted' = deducted + d
    <2>1. /\ payments'.adjusted[e] = [payments.adjusted[e] EXCEPT ![p] = @ + d]
          /\ payments.adjusted[e] \in [Months \cup {Unfiled} -> Nat]
        BY FinishEffect
    <2> HIDE DEF d
    <2>2. QED
        BY <2>1
<1>6. filed' = filed
    <2>1. due' = due /\ period' = period
        BY DEF FinishRun
    <2> QED
        BY <2>1 DEF Through
<1>7. salary = AtLeastZero(filed - paid) /\ salary' = AtLeastZero(filed' - paid')
    BY DEF SalaryDue
<1>8. /\ w = AtLeastZero(salary - (IF deducted > 0 THEN deducted ELSE rest))
      /\ NetDue(payments, e, p)' =
           AtLeastZero(salary' - (IF deducted' > 0 THEN deducted' ELSE rest'))
    BY DEF NetDue
<1>9. d = IF deducted = 0 THEN rest ELSE 0
    BY DEF Deduction
<1>10. w > 0 /\ rest' \in Nat
    BY <1>3
<1> HIDE DEF w, d, paid, filed, deducted, rest, salary
<1>11. salary = filed - paid /\ w = salary - (IF deducted > 0 THEN deducted ELSE rest)
    BY <1>2, <1>7, <1>8, <1>10 DEF AtLeastZero
<1>12. salary' = AtLeastZero(salary - w)
    BY <1>2, <1>4, <1>6, <1>7, <1>11
<1>13. salary' = IF deducted > 0 THEN deducted ELSE rest
    BY <1>2, <1>11, <1>12 DEF AtLeastZero
<1>14. CASE deducted > 0
    <2>1. deducted' = deducted /\ salary' = deducted
        BY <1>2, <1>5, <1>9, <1>13, <1>14
    <2>2. QED
        BY <1>2, <1>8, <1>14, <2>1 DEF AtLeastZero
<1>15. CASE deducted = 0
    <2>1. deducted' = rest /\ salary' = rest
        BY <1>2, <1>5, <1>9, <1>13, <1>15
    <2>2. CASE rest > 0
        BY <1>2, <1>8, <2>1, <2>2 DEF AtLeastZero
    <2>3. CASE rest = 0
        <3>1. NetDue(payments, e, p)' = AtLeastZero(0 - rest')
            BY <1>8, <2>1, <2>3
        <3>2. \A n \in Nat : AtLeastZero(0 - n) = 0
            BY DEF AtLeastZero
        <3>3. QED
            BY <1>10, <3>1, <3>2
    <2>4. QED
        BY <1>2, <2>2, <2>3
<1>16. QED
    BY <1>2, <1>14, <1>15

\* A payroll run that pays and deducts what the payments still ask for when
\* it commits leaves nothing to be paid for the period, whatever other
\* requests are under way.
THEOREM RunsSettlePeriods == Spec => RunSettles
<1> DEFINE Settles ==
        \A s \in Sessions, p \in Months : call[s].month = p /\ FinishRun(s) =>
           \A e \in Employees :
             (/\ call[s].wage[e] > 0
              /\ call[s].wage[e] = NetDue(payments, e, p)
              /\ call[s].deduct[e] = Deduction(payments, e, p))
               => NetDue(payments, e, p)' = 0
<1>1. PeriodInv /\ PeriodInv' => Settles
    BY NothingRemains
<1>2. PeriodInv /\ [Next]_vars => [Settles]_vars
    BY <1>1, PeriodInductive
<1> HIDE DEF Settles
<1>3. Spec => [][Settles]_vars
    BY <1>2, PeriodInductive, PTL DEF Spec
<1>4. QED
    BY <1>3 DEF Settles, RunSettles

-----------------------------------------------------------------------------
(* What is paid stays within what was earned, when requests are served one *)
(* at a time and attendance is not rewritten.                              *)

Filable == Months \cup {Unfiled}

\* PaidWithinDue for the payments f of one employee, who earned d.
RowWithin(f, d) == \A m \in Months :
    (f[m] > 0 /\ \A k \in m + 1 .. LastMonth : f[k] = 0) => Sum(f, Filable) <= Sum(d, 1 .. m)

\* What a request found out before its transaction still holds in it.
ChecksHold == \A s \in Sessions : LET c == call[s] IN
    /\ c.op = "paying" /\ c.amount > 0 => \A e \in c.employees :
         Sum(payments.regular[e], Filable) + c.amount <= Sum(due[e], 1 .. c.month)
    /\ c.op = "running" =>
         /\ c.seen.regular = payments.regular
         /\ \A e \in Employees : c.wage[e] > 0 =>
              Sum(payments.regular[e], Filable) + c.wage[e] <= Sum(due[e], 1 .. c.month)
    /\ c.op = "deleting" => \A e \in Employees : payments.regular[e][c.month] = 0

DueInv == PeriodInv /\ PaidWithinDue /\ ChecksHold

LEMMA PaidWithinRows ==
    PaidWithinDue <=> \A e \in Employees : RowWithin(payments.regular[e], due[e])
BY DEF PaidWithinDue, RowWithin, Filable

\* A payment that fits what was earned keeps the employee's payments within it.
LEMMA AddKeepsWithin ==
    ASSUME NEW f \in [Filable -> Nat], NEW d \in [Months -> Nat], RowWithin(f, d),
           NEW p \in Months, NEW a \in Nat, a > 0 => Sum(f, Filable) + a <= Sum(d, 1 .. p),
           NEW g, g = [f EXCEPT ![p] = @ + a]
    PROVE  RowWithin(g, d)
<1>1. CASE a = 0
    <2>1. g = f
        BY <1>1 DEF Filable
    <2>2. QED
        BY <2>1
<1>2. CASE a > 0
    <2> SUFFICES ASSUME NEW m \in Months, g[m] > 0, \A k \in m + 1 .. LastMonth : g[k] = 0
                 PROVE  Sum(g, Filable) <= Sum(d, 1 .. m)
        BY DEF RowWithin
    <2> DEFINE paid == Sum(f, Filable)
               early == Sum(d, 1 .. p)
               late == Sum(d, 1 .. m)
    <2>1. m \in Nat /\ p \in Nat /\ LastMonth \in Nat /\ m <= LastMonth /\ p <= LastMonth
        BY PayrollAssumption DEF Months
    <2>2. g[p] = f[p] + a /\ f[p] \in Nat
        BY DEF Filable
    <2>3. p <= m
        <3>1. ~(p \in m + 1 .. LastMonth)
            BY <1>2, <2>2
        <3>2. QED
            BY <2>1, <3>1
    <2>4. Sum(g, Filable) = paid + a
        <3>1. f \in [Months \cup {Unfiled} -> Nat] /\ Filable = Months \cup {Unfiled}
            BY DEF Filable
        <3>2. Sum([f EXCEPT ![p] = @ + a], Months \cup {Unfiled}) = Sum(f, Months \cup {Unfiled}) + a
            BY <3>1, PaidMore
        <3>3. QED
            BY <3>1, <3>2
    <2>5. early <= late
        <3>1. 1 .. p \subseteq 1 .. m
            BY <2>1, <2>3
        <3>2. IsFiniteSet(1 .. m) /\ \A k \in 1 .. m : d[k] \in Nat
            BY FiniteMonths
        <3>3. QED
            BY <3>1, <3>2, SumSubset DEF Sum
    <2>6. early \in Int /\ late \in Int /\ paid \in Int
        <3>1. \A q \in Months : IsFiniteSet(1 .. q) /\ \A k \in 1 .. q : d[k] \in Int
            BY FiniteMonths
        <3>2. IsFiniteSet(Filable) /\ \A k \in Filable : f[k] \in Int
            BY FiniteMonths DEF Filable
        <3>3. QED
            BY <3>1, <3>2, SumInt DEF Sum
    <2>7. paid + a <= early
        BY <1>2
    <2> HIDE DEF paid, early, late
    <2>8. paid + a <= late
        BY <2>5, <2>6, <2>7
    <2>9. QED
        BY <2>4, <2>8 DEF late
<1>3. QED
    BY <1>1, <1>2

\* A period without payments has none to unfile.
LEMMA UnfileNothing ==
    ASSUME NEW r \in PerPeriod, NEW p \in Months, \A e \in Employees : r[e][p] = 0
    PROVE  Unfile(r, p) = r
<1>1. ASSUME NEW e \in Employees
      PROVE  [r[e] EXCEPT ![p] = 0, ![Unfiled] = r[e][Unfiled] + r[e][p]] = r[e]
    <2>1. r[e] \in [Months \cup {Unfiled} -> Nat] /\ r[e][p] = 0
        BY DEF PerPeriod
    <2>2. r[e][Unfiled] + r[e][p] = r[e][Unfiled]
        BY <2>1
    <2>3. QED
        BY <2>1, <2>2
<1>2. QED
    BY <1>1 DEF Unfile, PerPeriod

\* A step that leaves salaries and dues alone, and the calls unless it ends
\* them, keeps the payments within what was earned.
LEMMA DueStays ==
    ASSUME DueInv, PeriodInv', payments'.regular = payments.regular, due' = due,
           \A s \in Sessions : call'[s] = call[s] \/ call'[s].op \in {"idle", "adjusting", "closing"}
    PROVE  DueInv'
<1>1. PaidWithinDue'
    BY PaidWithinRows DEF DueInv, PaidWithinDue
<1>2. ChecksHold'
    BY DEF DueInv, ChecksHold
<1>3. QED
    BY <1>1, <1>2 DEF DueInv

\* A new request has checked what it relies on.
LEMMA RequestStaysWithin ==
    ASSUME DueInv, PeriodInv', \A s, t \in Sessions : s = t, NEW s \in Sessions, Request(s)
    PROVE  DueInv'
<1>1. TypeOK /\ payments \in Books
    BY DEF DueInv, PeriodInv, TypeOK
<1>2. PICK p \in Months :
        \/ \E e \in Employees, a \in Amounts : CreateSalaryPayment(s, e, p, a)
        \/ \E e \in Employees, a \in Amounts : AdjustAdvance(s, e, p, a)
        \/ \E chosen \in SUBSET Employees : RunPayroll(s, p, chosen)
        \/ Close(s, p)
        \/ Delete(s, p)
    BY DEF Request
<1>3. payments' = payments /\ due' = due
    BY <1>2 DEF CreateSalaryPayment, AdjustAdvance, RunPayroll, Close, Delete, Start
<1>4. PaidWithinDue'
    BY <1>3, PaidWithinRows DEF DueInv, PaidWithinDue
<1>5. ASSUME NEW op, NEW request \in Calls, Start(s, op, p, request)
      PROVE  /\ call'[s].op = op /\ call'[s].month = p
             /\ call'[s].amount = request.amount /\ call'[s].employees = request.employees
             /\ call'[s].seen = request.seen /\ call'[s].wage = request.wage
    <2>1. call'[s] = [request EXCEPT !.op = op, !.month = p]
        BY <1>1, <1>5 DEF Start, TypeOK
    <2>2. QED
        BY <2>1 DEF Calls
<1>6. Sessions = {s}
    OBVIOUS
<1>7. ASSUME NEW e \in Employees, NEW a \in Amounts, CreateSalaryPayment(s, e, p, a)
      PROVE  ChecksHold'
    <2> DEFINE request == [Idle EXCEPT !.employees = {e}, !.amount = a]
    <2>1. a \in Nat /\ a > 0
        BY PayrollAssumption
    <2>2. request \in Calls /\ request.amount = a /\ request.employees = {e}
        BY <2>1, EmptyTypes DEF Calls, Idle
    <2>3. Start(s, "paying", p, request) /\ a <= NetDue(payments, e, p)
        BY <1>7 DEF CreateSalaryPayment
    <2> HIDE DEF request
    <2>4. /\ call'[s].op = "paying" /\ call'[s].month = p
          /\ call'[s].amount = a /\ call'[s].employees = {e}
        BY <1>5, <2>2, <2>3
    <2>5. Sum(payments.regular[e], Filable) + a <= Sum(due[e], 1 .. p)
        BY <1>1, <2>1, <2>3, NetDueCovers DEF Filable
    <2>6. QED
        BY <1>3, <2>4, <2>5 DEF ChecksHold
<1>8. ASSUME NEW chosen \in SUBSET Employees, RunPayroll(s, p, chosen)
      PROVE  ChecksHold'
    <2> DEFINE request == [Idle EXCEPT !.employees = Unpaid(chosen, p), !.seen = payments]
    <2>1. Unpaid(chosen, p) \in SUBSET Employees
        BY DEF Unpaid
    <2>2. request \in Calls /\ request.seen = payments /\ request.wage = Nothing
        BY <1>1, <2>1, EmptyTypes DEF Calls, Idle
    <2>3. Start(s, "running", p, request)
        BY <1>8 DEF RunPayroll
    <2> HIDE DEF request
    <2>4. call'[s].op = "running" /\ call'[s].seen = payments /\ call'[s].wage = Nothing
        BY <1>5, <2>2, <2>3
    <2>5. \A e \in Employees : ~(Nothing[e] > 0)
        BY DEF Nothing
    <2>6. QED
        BY <1>3, <2>4, <2>5 DEF ChecksHold
<1>9. CASE Delete(s, p)
    <2>1. call'[s].op = "deleting" /\ call'[s].month = p
        BY <1>5, <1>9, EmptyTypes DEF Delete
    <2>2. \A e \in Employees : payments.regular[e][p] = 0
        BY <1>9 DEF Delete
    <2>3. QED
        BY <1>3, <1>4, <1>6, <2>1, <2>2 DEF ChecksHold, DueInv
<1>10. CASE Close(s, p)
    <2>1. call'[s].op = "closing"
        BY <1>5, <1>10, EmptyTypes DEF Close
    <2>2. QED
        BY <1>4, <1>6, <2>1 DEF ChecksHold, DueInv
<1>11. ASSUME NEW e \in Employees, NEW a \in Amounts, AdjustAdvance(s, e, p, a)
       PROVE  ChecksHold'
    <2> DEFINE request == [Idle EXCEPT !.employees = {e}, !.amount = a]
    <2>1. request \in Calls
        BY PayrollAssumption, EmptyTypes DEF Calls, Idle
    <2>2. Start(s, "adjusting", p, request)
        BY <1>11 DEF AdjustAdvance
    <2> HIDE DEF request
    <2>3. call'[s].op = "adjusting"
        BY <1>5, <2>1, <2>2
    <2>4. QED
        BY <2>3 DEF ChecksHold
<1>12. QED
    BY <1>2, <1>4, <1>7, <1>8, <1>9, <1>10, <1>11 DEF DueInv

\* A handler's transaction relies on checks that still hold.
LEMMA HandlerStaysWithin ==
    ASSUME DueInv, PeriodInv', \A s, t \in Sessions : s = t, NEW s \in Sessions, Handler(s)
    PROVE  DueInv'
<1> DEFINE c == call[s]
<1>1. /\ TypeOK /\ Filed /\ payments \in Books /\ payments.regular \in PerPeriod
      /\ c \in Calls /\ ChecksHold /\ Sessions = {s}
    BY DEF DueInv, PeriodInv, TypeOK, Books
<1>2. \A e \in Employees : /\ payments.regular[e] \in [Filable -> Nat]
                           /\ due[e] \in [Months -> Nat]
    <2>1. due \in [Employees -> [Months -> Dues]]
        BY <1>1 DEF TypeOK
    <2>2. \A e \in Employees : due[e] \in [Months -> Nat]
        BY <2>1, PayrollAssumption
    <2>3. QED
        BY <1>1, <2>2 DEF PerPeriod, Filable
<1>3. \A e \in Employees : RowWithin(payments.regular[e], due[e])
    BY PaidWithinRows DEF DueInv
<1>4. due' = due
    BY DEF Handler, SavePayment, SaveAdjustment, PayEmployee, SkipEmployee, FinishRun,
           SaveClosed, SaveClosedAgain, RemovePeriod, Abort
<1>5. ASSUME \A e \in Employees : RowWithin(payments'.regular[e], due[e]) PROVE PaidWithinDue'
    BY <1>4, <1>5 DEF PaidWithinDue, RowWithin, Filable
<1>6. ASSUME call'[s].op = "idle" PROVE ChecksHold'
    BY <1>1, <1>6 DEF ChecksHold
<1>7. End(s) => call'[s].op = "idle"
    BY <1>1, EndEffect DEF Idle
<1>8. CASE SavePayment(s)
    <2>1. PICK e \in c.employees :
            payments' = [payments EXCEPT !.regular[e][c.month] = @ + c.amount]
        BY <1>8 DEF SavePayment
    <2>2. e \in Employees /\ c.amount \in Nat /\ c.month \in Months /\ c.op = "paying"
        BY <1>1, <1>8, <2>1 DEF Calls, Filed, SavePayment
    <2>3. payments'.regular = [payments.regular EXCEPT ![e][c.month] = @ + c.amount]
        BY <1>1, <2>1 DEF Books
    <2>4. payments'.regular[e] = [payments.regular[e] EXCEPT ![c.month] = @ + c.amount]
        BY <1>1, <2>2, <2>3 DEF PerPeriod
    <2>5. c.amount > 0 =>
            Sum(payments.regular[e], Filable) + c.amount <= Sum(due[e], 1 .. c.month)
        BY <1>1, <2>1, <2>2 DEF ChecksHold
    <2>6. RowWithin(payments'.regular[e], due[e])
        <3> DEFINE f == payments.regular[e]
                   g == payments'.regular[e]
                   d == due[e]
                   p == c.month
                   a == c.amount
        <3>1. /\ f \in [Filable -> Nat] /\ d \in [Months -> Nat] /\ RowWithin(f, d)
              /\ p \in Months /\ a \in Nat /\ g = [f EXCEPT ![p] = @ + a]
              /\ a > 0 => Sum(f, Filable) + a <= Sum(d, 1 .. p)
            BY <1>2, <1>3, <2>2, <2>4, <2>5
        <3> HIDE DEF f, g, d, p, a
        <3>2. RowWithin(g, d)
            BY <3>1, AddKeepsWithin
        <3>3. QED
            BY <3>2 DEF g, d
    <2>7. \A x \in Employees \ {e} : payments'.regular[x] = payments.regular[x]
        BY <1>1, <2>3 DEF PerPeriod
    <2>8. \A x \in Employees : RowWithin(payments'.regular[x], due[x])
        BY <1>3, <2>6, <2>7
    <2>9. End(s)
        BY <1>8 DEF SavePayment
    <2>10. QED
        BY <1>5, <1>6, <1>7, <2>8, <2>9 DEF DueInv
<1>9. CASE FinishRun(s)
    <2>1. ASSUME NEW e \in Employees PROVE RowWithin(payments'.regular[e], due[e])
        <3>1. /\ c.month \in Months /\ c.wage[e] \in Nat
              /\ payments'.regular[e] = [payments.regular[e] EXCEPT ![c.month] = @ + c.wage[e]]
            BY <1>9, FinishEffect DEF DueInv
        <3>2. c.wage[e] > 0 =>
                Sum(payments.regular[e], Filable) + c.wage[e] <= Sum(due[e], 1 .. c.month)
            BY <1>1, <1>9 DEF ChecksHold, FinishRun
        <3> DEFINE f == payments.regular[e]
                   g == payments'.regular[e]
                   d == due[e]
                   p == c.month
                   a == c.wage[e]
        <3>3. /\ f \in [Filable -> Nat] /\ d \in [Months -> Nat] /\ RowWithin(f, d)
              /\ p \in Months /\ a \in Nat /\ g = [f EXCEPT ![p] = @ + a]
              /\ a > 0 => Sum(f, Filable) + a <= Sum(d, 1 .. p)
            BY <1>2, <1>3, <3>1, <3>2
        <3> HIDE DEF f, g, d, p, a
        <3>4. RowWithin(g, d)
            BY <3>3, AddKeepsWithin
        <3>5. QED
            BY <3>4 DEF g, d
    <2>2. End(s)
        BY <1>9 DEF FinishRun
    <2>3. QED
        BY <1>5, <1>6, <1>7, <2>1, <2>2 DEF DueInv
<1>10. CASE RemovePeriod(s)
    <2>1. c.op = "deleting" /\ c.month \in Months
        BY <1>1, <1>10 DEF RemovePeriod, Filed
    <2>2. \A e \in Employees : payments.regular[e][c.month] = 0
        BY <1>1, <2>1 DEF ChecksHold
    <2>3. payments'.regular = Unfile(payments.regular, c.month)
        BY <1>1, <1>10 DEF RemovePeriod, UnfileBooks, Books
    <2>4. payments'.regular = payments.regular
        BY <1>1, <2>1, <2>2, <2>3, UnfileNothing
    <2>5. call'[s] = Idle
        BY <1>10 DEF RemovePeriod
    <2>6. QED
        BY <1>1, <1>4, <2>4, <2>5, DueStays DEF Idle
<1>11. CASE SaveAdjustment(s) \/ SaveClosed(s) \/ Abort(s)
    <2>1. End(s) /\ payments'.regular = payments.regular
        BY <1>1, <1>11 DEF SaveAdjustment, SaveClosed, Abort, Books
    <2>2. QED
        BY <1>1, <1>4, <1>7, <2>1, DueStays
<1>12. CASE SaveClosedAgain(s)
    <2>1. call'[s] = Idle /\ payments' = payments
        BY <1>12 DEF SaveClosedAgain
    <2>2. QED
        BY <1>1, <1>4, <2>1, DueStays DEF Idle
<1>13. ASSUME NEW e \in Employees, PayEmployee(s, e) PROVE DueInv'
    <2> DEFINE w == NetDue(c.seen, e, c.month)
    <2>1. /\ payments' = payments /\ c.op = "running" /\ w \in Nat \ {0}
          /\ c.month \in Months /\ c.seen \in Books
        BY <1>1, <1>13 DEF PayEmployee, Filed, Calls
    <2>2. /\ call'[s].op = c.op /\ call'[s].month = c.month /\ call'[s].seen = c.seen
          /\ call'[s].wage[e] = w
          /\ \A x \in Employees \ {e} : call'[s].wage[x] = c.wage[x]
        BY <1>1, <1>13 DEF PayEmployee, TypeOK, Calls
    <2>3. c.seen.regular = payments.regular
        BY <1>1, <2>1 DEF ChecksHold
    <2>4. Sum(payments.regular[e], Filable) + w <= Sum(due[e], 1 .. c.month)
        <3>1. w \in Nat /\ 0 < w /\ w <= NetDue(c.seen, e, c.month)
            BY <2>1
        <3> HIDE DEF w
        <3>2. QED
            BY <1>1, <2>1, <2>3, <3>1, NetDueCovers DEF Filable
    <2> HIDE DEF w
    <2>5. PaidWithinDue'
        BY <1>3, <1>5, <2>1
    <2>6. \A x \in Employees : call'[s].wage[x] > 0 =>
            Sum(payments.regular[x], Filable) + call'[s].wage[x] <= Sum(due[x], 1 .. c.month)
        BY <1>1, <2>1, <2>2, <2>4 DEF ChecksHold
    <2>7. ChecksHold'
        BY <1>1, <1>4, <2>1, <2>2, <2>3, <2>6 DEF ChecksHold
    <2>8. QED
        BY <2>5, <2>7 DEF DueInv
<1>14. ASSUME NEW e \in Employees, SkipEmployee(s, e) PROVE DueInv'
    <2>1. /\ payments' = payments /\ c.op = "running"
          /\ call'[s].op = c.op /\ call'[s].month = c.month /\ call'[s].seen = c.seen
          /\ call'[s].wage = c.wage
        BY <1>1, <1>14 DEF SkipEmployee, TypeOK, Calls
    <2>2. PaidWithinDue'
        BY <1>3, <1>5, <2>1
    <2>3. ChecksHold'
        BY <1>1, <1>4, <2>1 DEF ChecksHold
    <2>4. QED
        BY <2>2, <2>3 DEF DueInv
<1>15. QED
    BY <1>8, <1>9, <1>10, <1>11, <1>12, <1>13, <1>14 DEF Handler

\* If requests are served one at a time and recorded attendance is not
\* rewritten, salaries never exceed what was earned up to the last month paid.
THEOREM SalariesStayWithinDue ==
    ASSUME \A s, t \in Sessions : s = t, "attendance" \notin Operations
    PROVE  Spec => []PaidWithinDue
<1>1. Init => DueInv
    <2> SUFFICES ASSUME Init PROVE DueInv
        OBVIOUS
    <2>1. PeriodInv
        BY PeriodInductive
    <2>2. \A e \in Employees, m \in Months : payments.regular[e][m] = 0
        BY DEF Init, NoPayments
    <2>3. \A s \in Sessions : call[s].op = "idle"
        BY DEF Init, Idle
    <2>4. QED
        BY <2>1, <2>2, <2>3 DEF DueInv, PaidWithinDue, ChecksHold
<1>2. DueInv /\ [Next]_vars => DueInv'
    <2> SUFFICES ASSUME DueInv, [Next]_vars PROVE DueInv'
        OBVIOUS
    <2>1. PeriodInv /\ PeriodInv' /\ TypeOK
        BY PeriodInductive DEF DueInv, PeriodInv
    <2>2. CASE UNCHANGED vars
        BY <2>1, <2>2, DueStays DEF vars
    <2>3. CASE Office
        <3>1. payments'.regular = payments.regular /\ due' = due /\ call' = call
            BY <2>1, <2>3 DEF Office, Tick, CreatePeriod, RecordAttendance, PayAdvance,
                              RemoveAdvance, TypeOK, Books
        <3>2. QED
            BY <2>1, <3>1, DueStays
    <2>4. QED
        BY <2>1, <2>2, <2>3, RequestStaysWithin, HandlerStaysWithin DEF Next
<1>3. DueInv => PaidWithinDue
    BY DEF DueInv
<1>4. QED
    BY <1>1, <1>2, <1>3, PTL DEF Spec
=============================================================================
