------------------------------ MODULE MCMachine ------------------------------
(* Small instances of the parts whose progress matters: migrations, the     *)
(* desktop application and the pay periods opened by the clock, and the     *)
(* requests of a sale from beginning to end. As in MCShop they share no     *)
(* variable, and focus says which one a behaviour follows.                  *)
EXTENDS Integers

CONSTANTS c1, s1, s2, None

VARIABLES focus
VARIABLES schema, lines, executed, shipped, mode, at, used, crashes, reverts, damage
VARIABLES settings, customer, redeemed, issued, today, tx
VARIABLES real, offset, slept, clockSettings, asking, trusted, flagged, online, seen,
    periods, removed, caughtUp, job, running, restarts
VARIABLES file, data, root, granted, users, app, known, mysqld, api, stop, acknowledged, starts

-----------------------------------------------------------------------------
(* Migrations: from an empty database or the first release, with a crash     *)
(* and a revert.                                                             *)

M == INSTANCE Migrations WITH
    Releases <- {29, 45}, MaxCrashes <- 1, MaxReverts <- 1

(* Sales: one customer, two requests of any kind, and a pool in which the     *)
(* second connection is never refused for good.                              *)
Tier(minimum, redeem, discount) ==
    [minimum |-> minimum, redeem |-> redeem, discount |-> discount]

S == INSTANCE Sales WITH
    Customers <- {c1}, Names <- {1, 2}, Sessions <- {s1, s2},
    Operations <- {"sale", "rename"}, Bills <- {1},
    Versions <- {[spend |-> 1, points |-> 1, tiers |-> <<Tier(0, 0, 0)>>]},
    Pool <- 3, MaxSequence <- 2, LastDay <- 1, SpendLimit <- 2,
    MayOverlap <- TRUE

(* TrustedTime: months of one tick, a manager who deletes a period, a source *)
(* and a database that may fail.                                             *)

N == INSTANCE TrustedTime WITH
    Grace <- 3, Warning <- 1, MonthLength <- 1, LastTick <- 1, Offsets <- {0},
    MaxSettings <- 0, MaxSleep <- 0, MaxRemoved <- 1, MaxRestarts <- 0,
    settings <- clockSettings

(* Desktop: three starts.                                                    *)

D == INSTANCE Desktop WITH MaxStarts <- 3, settings <- known

ASSUME ParametersHold == S!Parameters /\ N!Parameters /\ D!Parameters

-----------------------------------------------------------------------------
machineVars == <<schema, lines, executed, shipped, mode, at, used, crashes, reverts, damage>>
salesVars == <<settings, customer, redeemed, issued, today, tx>>
timeVars ==
    <<real, offset, slept, clockSettings, asking, trusted, flagged, online, seen, periods,
      removed, caughtUp, job, running, restarts>>
desktopVars ==
    <<file, data, root, granted, users, app, known, mysqld, api, stop, acknowledged, starts>>
vars == <<focus, machineVars, salesVars, timeVars, desktopVars>>

MachineOff ==
    /\ schema = None /\ lines = None /\ executed = None /\ shipped = None /\ mode = None
    /\ at = None /\ used = None /\ crashes = None /\ reverts = None /\ damage = None
SalesOff ==
    settings = None /\ customer = None /\ redeemed = None /\ issued = None /\ today = None /\ tx = None
TimeOff ==
    /\ real = None /\ offset = None /\ slept = None /\ clockSettings = None /\ asking = None
    /\ trusted = None /\ flagged = None /\ online = None /\ seen = None /\ periods = None
    /\ removed = None /\ caughtUp = None /\ job = None /\ running = None /\ restarts = None
DesktopOff ==
    /\ file = None /\ data = None /\ root = None /\ granted = None /\ users = None
    /\ app = None /\ known = None /\ mysqld = None /\ api = None /\ stop = None
    /\ acknowledged = None /\ starts = None

Migrating(A) ==
    focus = "migrations" /\ A /\ UNCHANGED <<focus, salesVars, timeVars, desktopVars>>
Selling(A) ==
    focus = "sales" /\ A /\ UNCHANGED <<focus, machineVars, timeVars, desktopVars>>
Opening(A) ==
    focus = "months" /\ A /\ UNCHANGED <<focus, machineVars, salesVars, desktopVars>>
Starting(A) ==
    focus = "desktop" /\ A /\ UNCHANGED <<focus, machineVars, salesVars, timeVars>>

Init ==
    \/ focus = "migrations" /\ M!Init /\ SalesOff /\ TimeOff /\ DesktopOff
    \/ focus = "sales" /\ S!Init /\ MachineOff /\ TimeOff /\ DesktopOff
    \/ focus = "months" /\ N!Init /\ MachineOff /\ SalesOff /\ DesktopOff
    \/ focus = "desktop" /\ D!Init /\ MachineOff /\ SalesOff /\ TimeOff

Next ==
    \/ Migrating(M!Next)
    \/ Selling(S!Next)
    \/ Opening(N!Next)
    \/ Starting(D!Next)

Spec == Init /\ [][Next]_vars

\* The fairness of each component, as its module states it.
Fairness ==
    /\ WF_vars(Migrating(M!Progress))
    /\ \A s \in {s1, s2} : SF_vars(Selling(S!Handler(s)))
    /\ WF_vars(Selling(\E s \in {s1, s2} : S!DeadlockVictim(s)))
    /\ WF_vars(Opening(N!ScheduledCheck)) /\ SF_vars(Opening(N!EnsureCurrent))
    /\ \A m \in N!Months : SF_vars(Opening(N!CatchUp(m)))
    /\ WF_vars(Starting(D!Starting))
FairSpec == Spec /\ Fairness

-----------------------------------------------------------------------------
(* The properties of each component, on the behaviours that follow it; each  *)
(* is stated, in words too, in the module of the component.                  *)

\* Every component keeps its types.
TypeOK ==
    CASE focus = "migrations" -> M!TypeOK
      [] focus = "sales" -> S!TypeOK
      [] focus = "months" -> N!TypeOK
      [] focus = "desktop" -> D!TypeOK

\* Migrations: the API serves only on a whole schema, only what a crash cut
\* short can fail, and the history of the shop is posted once.
ServesWholeSchema ==
    focus = "migrations" =>
        M!ServesWholeSchema /\ M!FailsOnlyAfterCut /\ M!LinesPostedOnce
\* Migrations: a revert restores the schema before, and guarded migrations
\* recover from a crash.
RevertsAndRecovers ==
    /\ [][focus = "migrations" => M!RevertedSchema]_vars
    /\ \A m \in M!Guarded :
        focus = "migrations" /\ damage = {<<"up", m>>} ~>
            (focus = "migrations" => executed >= m \/ damage # {<<"up", m>>})
\* Sales and desktop: every request ends, and every start ends at the window
\* or at the error.
RequestsAndStartsEnd ==
    /\ \A s \in {s1, s2} : focus = "sales" /\ S!Busy(s) ~> focus = "sales" /\ ~S!Busy(s)
    /\ focus = "desktop" /\ app = "settings" ~> focus = "desktop" /\ app \in {"window", "off"}
\* TrustedTime: if payroll stays allowed, the current month gets its period.
CurrentMonthReady ==
    <>[](focus = "months" /\ N!Allowed) => <>[](focus = "months" => N!Ready)
=============================================================================
