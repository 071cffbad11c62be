---------------------------- MODULE Migrations ----------------------------
(* The schema migrations the API runs when it starts (migrationsRun) and   *)
(* the command that reverts the last one. MySQL commits every DDL          *)
(* statement by itself and thereby ends the transaction TypeORM opened, so *)
(* each statement is durable as soon as it has run, and a migration is     *)
(* recorded as executed only after its last one: a crash in between leaves *)
(* a part of it, and the next start runs the whole migration again.        *)
EXTENDS MigrationScripts

CONSTANTS
    Releases,      \* how many migrations each release of the program ships
    MaxCrashes,    \* bound on the crashes of a behaviour
    MaxReverts     \* bound on the reverts of a behaviour

VARIABLES
    schema,        \* objects of the database
    lines,         \* how often each migration posted its lines of the journal
    executed,      \* number of migrations recorded as executed
    shipped,       \* number of migrations of the installed release
    mode,          \* "off", "up" and "down" while migrating, "failed", "serving"
    at,            \* next statement of the running migration
    used,          \* the shop has sales, purchases and payments on record
    crashes, reverts,
    damage         \* what was cut short or lost: <<"up" or "down" or "lost", migration>>

vars == <<schema, lines, executed, shipped, mode, at, used, crashes, reverts, damage>>

-----------------------------------------------------------------------------
TypeOK ==
    /\ executed \in 0 .. shipped /\ shipped \in Releases
    /\ mode \in {"off", "up", "down", "failed", "serving"}
    /\ at \in 1 .. 14
    /\ used \in BOOLEAN
    /\ damage \subseteq {"up", "down", "lost"} \X (1 .. N)

Init ==
    /\ schema = {} /\ lines = [p \in Posts |-> 0]
    /\ executed = 0 /\ shipped \in Releases
    /\ mode = "off" /\ at = 1 /\ used = FALSE
    /\ crashes = 0 /\ reverts = 0 /\ damage = {}

Script == IF mode = "up" THEN migrations[executed + 1].up ELSE migrations[executed].down

Fails(st) ==
    \/ st.op = "refuse"
    \/ ~(st.needs \subseteq schema)
    \/ st.op = "make" /\ st.makes \cap schema # {}
    \/ st.op = "copy" /\ used /\ st.makes \cap schema # {}

Effect(st) ==
    CASE st.op = "drop" -> schema \ st.needs
      [] st.op = "dropPresent" -> schema \ st.makes
      [] st.op = "copy" /\ ~used -> schema
      [] OTHER -> schema \cup st.makes

Posted(st) ==
    LET p == <<executed + 1, at>>
    IN  CASE st.op = "post" /\ used -> [lines EXCEPT ![p] = Min({@ + 1, 2})]
          [] st.op = "postMissing" /\ used -> [lines EXCEPT ![p] = 1]
          [] OTHER -> lines

\* Variant with a mistake: pending are all migrations of the source tree, not
\* those the installed release ships.
StartWithAll ==
    /\ mode \in {"off", "failed"}
    /\ mode' = IF executed < N THEN "up" ELSE "serving"
    /\ at' = 1
    /\ UNCHANGED <<schema, lines, executed, shipped, used, crashes, reverts, damage>>

\* The program starts: pending migrations first, then it serves.
Start ==
    /\ mode \in {"off", "failed"}
    /\ mode' = IF executed < shipped THEN "up" ELSE "serving"
    /\ at' = 1
    /\ UNCHANGED <<schema, lines, executed, shipped, used, crashes, reverts, damage>>

\* npm run migration:revert takes back the migration executed last.
Revert ==
    /\ mode \in {"off", "failed"} /\ executed > 0 /\ reverts < MaxReverts
    /\ mode' = "down" /\ at' = 1 /\ reverts' = reverts + 1
    /\ UNCHANGED <<schema, lines, executed, shipped, used, crashes, damage>>

Migrating == mode \in {"up", "down"}
Cut == IF mode = "up" THEN <<"up", executed + 1>> ELSE <<"down", executed>>

\* One statement; its failure ends the program and leaves what was done.
Run ==
    /\ Migrating /\ at \in DOMAIN Script
    /\ LET st == Script[at]
       IN  IF Fails(st)
           THEN /\ mode' = "failed" /\ at' = 1
                /\ damage' = IF at = 1 \/ mode = "up" THEN damage ELSE damage \cup {Cut}
                /\ UNCHANGED <<schema, lines>>
           ELSE /\ schema' = Effect(st)
                /\ lines' = IF mode = "up" THEN Posted(st) ELSE lines
                /\ at' = at + 1
                /\ UNCHANGED <<mode, damage>>
    /\ UNCHANGED <<executed, shipped, used, crashes, reverts>>

\* The record of the migration is inserted or deleted. Going up, the next one
\* follows; the command reverts a single one.
Record ==
    /\ Migrating /\ at = Len(Script) + 1
    /\ IF mode = "up"
       THEN /\ executed' = executed + 1
            /\ mode' = IF executed' < shipped THEN "up" ELSE "serving"
            /\ UNCHANGED lines
       ELSE /\ executed' = executed - 1
            /\ mode' = "off"
            /\ lines' = [p \in Posts |-> IF p[1] = executed THEN 0 ELSE lines[p]]
    /\ at' = 1
    /\ UNCHANGED <<schema, shipped, used, crashes, reverts, damage>>

\* Power cut or kill, of the program or of MySQL.
Crash ==
    /\ Migrating /\ crashes < MaxCrashes
    /\ crashes' = crashes + 1
    /\ mode' = "off" /\ at' = 1
    /\ damage' = IF at = 1 THEN damage ELSE damage \cup {Cut}
    /\ UNCHANGED <<schema, lines, executed, shipped, used, reverts>>

\* The shop works; later it is switched off, and a new release is installed.
Use ==
    /\ mode = "serving" /\ ~used /\ used' = TRUE
    /\ UNCHANGED <<schema, lines, executed, shipped, mode, at, crashes, reverts, damage>>
Install ==
    /\ mode = "serving"
    /\ mode' = "off"
    /\ shipped' \in {r \in Releases : r >= shipped}
    /\ UNCHANGED <<schema, lines, executed, at, used, crashes, reverts, damage>>

\* What the repair migration is for: tables and keys of the sales returns
\* that are gone although the migration that made them is recorded.
LoseReturns ==
    /\ mode = "off" /\ executed \in ReturnTables /\ damage = {}
    /\ \E gone \in {{"sales_return_lines"}, {"return:fk", "return:uq"},
                     {"sales_return_lines", "sales_returns", "returnSource", "return:uq", "return:fk"}} :
          schema' = schema \ gone
    /\ damage' = {<<"lost", executed>>}
    /\ UNCHANGED <<lines, executed, shipped, mode, at, used, crashes, reverts>>

Next ==
    \/ Start \/ Revert \/ Run \/ Record \/ Crash \/ Use \/ Install \/ LoseReturns

Spec == Init /\ [][Next]_vars
\* Whoever runs the shop starts the program again, and MySQL answers.
Progress == Start \/ Run \/ Record
FairSpec == Spec /\ WF_vars(Progress)

-----------------------------------------------------------------------------
(* Properties.                                                             *)

Reverted == \E d \in damage : d[1] = "down"
Lost == \E d \in damage : d[1] = "lost" /\ executed < Repair

\* The API never serves on a schema that lacks something its migrations make:
\* an interrupted migration either completes or keeps the API from starting,
\* and the repair restores lost tables and keys of the sales returns. Only an
\* interrupted revert escapes this: its migration stays recorded.
ServesWholeSchema ==
    mode = "serving" /\ ~Reverted /\ ~Lost => schema \ Copied = After(executed)

\* A start fails only in a migration a crash had cut short: references exist
\* when they are needed, whatever the releases and the rows of the shop.
FailsOnlyAfterCut ==
    mode = "failed" /\ ~Reverted =>
        \/ <<"up", executed + 1>> \in damage
        \/ executed > 0 /\ migrations[executed].down = Refused

\* No sequence of crashes and restarts posts the history of the shop to the
\* journal twice.
LinesPostedOnce == \A p \in Posts : lines[p] <= 1

\* A revert that completes leaves the schema of the migrations before it.
RevertedSchema ==
    executed' < executed /\ damage = {} => schema' \ Copied = After(executed')
RevertRestores == [][RevertedSchema]_vars

\* Migrations written to look first recover from a crash at any statement.
GuardedRecovers ==
    \A m \in Guarded :
        damage = {<<"up", m>>} ~> (executed >= m \/ damage # {<<"up", m>>})
=============================================================================
