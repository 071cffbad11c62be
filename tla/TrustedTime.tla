---------------------------- MODULE TrustedTime ----------------------------
(* The clock payroll relies on, and the job that opens the pay period of    *)
(* each month by it. The API asks a network source for the time, carries it *)
(* on by the monotonic clock, and refuses payroll while the wall clock      *)
(* disagrees, or the last answer is too old. Time is counted in ticks, each *)
(* longer than the tolerated skew; the monotonic clock of the process may   *)
(* stand still while the machine sleeps.                                    *)
EXTENDS Integers, FiniteSets, FiniteSetsExt

CONSTANTS
    Grace,        \* OFFLINE_GRACE_MS
    Warning,      \* WARNING_WINDOW_MS
    MonthLength,
    LastTick,     \* bound on time
    Offsets,      \* what the wall clock may be off by
    MaxSettings,  \* bound on changes of the wall clock
    MaxSleep,     \* bound on what the monotonic clock misses
    MaxRemoved,   \* bound on the months whose period is deleted
    MaxRestarts,  \* bound on restarts of the API
    None

\* What is assumed of the parameters.
Parameters ==
    /\ Grace \in Nat \ {0} /\ Warning \in Nat /\ MonthLength \in Nat \ {0}
    /\ Offsets \subseteq Int
    /\ None \notin [utc : Int, monotonic : Int]

VARIABLES
    real,         \* time the network source tells
    offset,       \* wall clock less real time
    slept,        \* time the monotonic clock has missed
    running,      \* the API is up
    asking,       \* checkTimeSource waits for an answer (checking)
    trusted,      \* trustedUtcMs and trustedMonotonicMs of the last answer
    flagged,      \* clockSkewDetected
    online,       \* sourceOnline
    seen,         \* what the last reader was told, "VERIFIED" after an answer
    periods,      \* months with a pay period
    removed,      \* months whose pay period a manager has deleted
    caughtUp,     \* catchUpComplete
    job,          \* the scheduled check at work (checking)
    settings, restarts

clockVars == <<real, offset, slept, settings>>
trustVars == <<asking, trusted, flagged, online, seen>>
periodVars == <<periods, removed, caughtUp, job>>
vars == <<clockVars, trustVars, periodVars, running, restarts>>

Month(t) == t \div MonthLength
Months == 0 .. Month(LastTick)

Wall == real + offset
Monotonic == real - slept

-----------------------------------------------------------------------------
(* TimeTrustService.                                                        *)

\* getTrustedUtcNow: the last answer carried on by the monotonic clock.
TrustedUtcNow ==
    IF trusted = None THEN None ELSE trusted.utc + Monotonic - trusted.monotonic

OfflineDuration == Max({0, Monotonic - trusted.monotonic})

\* Variant with a mistake: a skew counts only while it lasts.
SkewNow == trusted # None /\ Wall # TrustedUtcNow

\* A skew that a status has shown, or an answer, is kept until the next answer.
SkewDetected == flagged \/ (trusted # None /\ Wall # TrustedUtcNow)

\* getStatus.
State ==
    CASE SkewDetected -> "CLOCK_SKEW"
      [] ~SkewDetected /\ trusted = None -> "SYNCING"
      [] OTHER ->
           LET remaining == Max({0, Grace - OfflineDuration})
           IN  CASE remaining = 0 -> "LOCKED"
                 [] remaining \in 1 .. Warning -> "OFFLINE_WARNING"
                 [] OTHER -> IF online THEN "ONLINE" ELSE "OFFLINE"

Allowing == {"ONLINE", "OFFLINE", "OFFLINE_WARNING"}
Allowed == running /\ State \in Allowing

\* Every reader of the status leaves the skew it was shown.
GetStatus ==
    /\ flagged' = SkewDetected
    /\ seen' = IF State \in Allowing THEN "ALLOWED" ELSE "REFUSED"

\* The interval of checkTimeSource; one request at a time.
Ask ==
    /\ running /\ ~asking
    /\ asking' = TRUE
    /\ UNCHANGED <<clockVars, trusted, flagged, online, seen, periodVars, running, restarts>>

Answer ==
    /\ running /\ asking
    /\ asking' = FALSE
    /\ trusted' = [utc |-> real, monotonic |-> Monotonic]
    /\ flagged' = (Wall # real)
    /\ online' = TRUE
    /\ seen' = "VERIFIED"
    /\ UNCHANGED <<clockVars, periodVars, running, restarts>>

\* No network, a timeout, or an answer without a date.
NoAnswer ==
    /\ running /\ asking
    /\ asking' = FALSE
    /\ online' = FALSE
    /\ UNCHANGED <<clockVars, trusted, flagged, seen, periodVars, running, restarts>>

\* TimeTrustGuard, or the status endpoint the payroll pages poll.
ReadStatus ==
    /\ running
    /\ GetStatus
    /\ UNCHANGED <<clockVars, asking, trusted, online, periodVars, running, restarts>>

-----------------------------------------------------------------------------
(* AutomaticPayPeriodService.                                               *)

\* ensureMissingPeriodsThrough starts at the earliest period, if one is not
\* after the month; otherwise at the month itself.
StartingPeriod(month) == Min({month} \cup {m \in periods : m <= month})

Work(from, month, catching) ==
    [from |-> from, cursor |-> from, month |-> month, catching |-> catching]

\* Variant with a mistake: the timer sees to the current month only.
ScheduledCheckOfMonth ==
    /\ running /\ job = None
    /\ GetStatus
    /\ State \in Allowing
    /\ job' = Work(Month(TrustedUtcNow), Month(TrustedUtcNow), FALSE)
    /\ UNCHANGED <<clockVars, asking, trusted, online, periods, removed, caughtUp, running, restarts>>

\* scheduledCheck, and onModuleInit where the time is verified by then.
ScheduledCheck ==
    /\ running /\ job = None
    /\ GetStatus
    /\ State \in Allowing
    /\ LET month == Month(TrustedUtcNow)
       IN  job' = IF caughtUp THEN Work(month, month, FALSE)
                  ELSE Work(StartingPeriod(month), month, TRUE)
    /\ UNCHANGED <<clockVars, asking, trusted, online, periods, removed, caughtUp, running, restarts>>

\* ensurePeriodExists for the month at the cursor; after the catch-up follows
\* the month itself.
Ensure ==
    /\ running /\ job # None
    /\ periods' = periods \cup {job.cursor}
    /\ caughtUp' = (caughtUp \/ (job.catching /\ job.cursor = job.month))
    /\ job' = CASE ~job.catching -> None
                [] job.catching /\ job.cursor = job.month -> [job EXCEPT !.catching = FALSE]
                [] OTHER -> [job EXCEPT !.cursor = @ + 1]
    /\ UNCHANGED <<clockVars, trustVars, removed, running, restarts>>

\* Variant with a mistake: a catch-up that failed counts as complete.
GiveUp ==
    /\ running /\ job # None
    /\ caughtUp' = TRUE
    /\ job' = IF job.catching THEN [job EXCEPT !.catching = FALSE, !.cursor = job.month]
              ELSE None
    /\ UNCHANGED <<clockVars, trustVars, periods, removed, running, restarts>>

\* The database refuses: the catch-up will be tried again, the current month
\* is tried at once.
EnsureFails ==
    /\ running /\ job # None
    /\ job' = IF job.catching THEN [job EXCEPT !.catching = FALSE, !.cursor = job.month]
              ELSE None
    /\ UNCHANGED <<clockVars, trustVars, periods, removed, caughtUp, running, restarts>>

\* A manager creates or deletes the period of some month, past the guard.
ManagePeriods ==
    /\ Allowed
    /\ GetStatus
    /\ \E m \in Months :
         \/ m \notin periods /\ m <= Month(TrustedUtcNow) + 1
            /\ periods' = periods \cup {m} /\ UNCHANGED removed
         \/ m \in periods /\ Cardinality(removed) < MaxRemoved
            /\ periods' = periods \ {m} /\ removed' = removed \cup {m}
    /\ UNCHANGED <<clockVars, asking, trusted, online, caughtUp, job, running, restarts>>

-----------------------------------------------------------------------------
(* The machine.                                                             *)

Tick ==
    /\ real < LastTick
    /\ real' = real + 1
    /\ UNCHANGED <<offset, slept, settings, trustVars, periodVars, running, restarts>>

Sleep ==
    /\ real < LastTick /\ slept < MaxSleep
    /\ real' = real + 1 /\ slept' = slept + 1
    /\ UNCHANGED <<offset, settings, trustVars, periodVars, running, restarts>>

SetClock ==
    /\ settings < MaxSettings
    /\ settings' = settings + 1
    /\ offset' \in Offsets \ {offset}
    /\ UNCHANGED <<real, slept, trustVars, periodVars, running, restarts>>

\* The process ends and starts again: what it knew of time is gone.
Stop ==
    /\ running /\ restarts < MaxRestarts
    /\ restarts' = restarts + 1
    /\ running' = FALSE
    /\ UNCHANGED <<clockVars, trustVars, periodVars>>

Start ==
    /\ ~running
    /\ running' = TRUE
    /\ asking' = TRUE /\ trusted' = None /\ flagged' = FALSE /\ online' = FALSE
    /\ seen' = "REFUSED"
    /\ caughtUp' = FALSE /\ job' = None
    /\ UNCHANGED <<clockVars, periods, removed, restarts>>

Init ==
    /\ real = 0 /\ offset \in Offsets /\ slept = 0 /\ settings = 0
    /\ running = FALSE /\ restarts = 0
    /\ asking = FALSE /\ trusted = None /\ flagged = FALSE /\ online = FALSE
    /\ seen = "REFUSED"
    /\ periods \in {{}, {0}} /\ removed = {} /\ caughtUp = FALSE /\ job = None

Next ==
    \/ Ask \/ Answer \/ NoAnswer \/ ReadStatus
    \/ ScheduledCheck \/ Ensure \/ EnsureFails \/ ManagePeriods
    \/ Tick \/ Sleep \/ SetClock \/ Stop \/ Start

Spec == Init /\ [][Next]_vars

\* The timer of the job fires, and the database does not refuse a month for ever.
CatchUp(m) == Ensure /\ job.catching /\ job.cursor = m
EnsureCurrent == Ensure /\ ~job.catching
FairSpec ==
    /\ Spec
    /\ WF_vars(ScheduledCheck) /\ SF_vars(EnsureCurrent)
    /\ \A m \in Months : SF_vars(CatchUp(m))

-----------------------------------------------------------------------------
(* Properties.                                                              *)

\* The variables keep their types, and time is never trusted ahead of itself.
TypeOK ==
    /\ real \in 0 .. LastTick /\ slept \in 0 .. real /\ offset \in Offsets
    /\ trusted # None => trusted.utc \in 0 .. real /\ trusted.monotonic \in 0 .. Monotonic
    /\ seen \in {"ALLOWED", "REFUSED", "VERIFIED"}
    /\ periods \cup removed \subseteq Months
    /\ job # None => job.from <= job.cursor /\ job.cursor <= job.month

\* "Payroll is locked until time is corrected and re-verified online": once a
\* request has been refused, none passes before the source has answered again,
\* however clocks are set, the machine sleeps or the API restarts.
StaysRefused == seen = "REFUSED" => seen' # "ALLOWED"
RefusedUntilVerified == [][StaysRefused]_vars

\* The job opens no period of a month that has not begun.
NoPeriodAhead == job # None => job.month <= Month(real)

\* When a catch-up ends, every month from the period it started at to the
\* month of trusted time has a period, unless a manager deleted it, whatever
\* attempts failed and processes ended before.
NoGapAfter == ~caughtUp /\ caughtUp' => job.from .. job.month \subseteq periods' \cup removed
CatchUpLeavesNoGap == [][NoGapAfter]_vars

\* If payroll stays allowed from some time on, the months are caught up and the
\* month of trusted time has its period for good, or a manager deleted it.
Ready == caughtUp /\ Month(TrustedUtcNow) \in periods \cup removed
CurrentMonthReady == <>[]Allowed => <>[]Ready
=============================================================================
