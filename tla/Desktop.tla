------------------------------ MODULE Desktop ------------------------------
(* Starting and stopping the packaged application: its settings file, the    *)
(* bundled MySQL with its root password, the API that seeds the first users, *)
(* and the dialogue that shows their passwords once. The computer can go off *)
(* between any two steps; the next start has to take up what it finds.       *)
EXTENDS Integers, Sequences

CONSTANTS
    MaxStarts,       \* bound: times the application is started
    None

Parameters == MaxStarts \in Nat /\ None \notin {"blank", "default"}

VARIABLES
    file,            \* database-settings.json: <<>> or <<settings>>
    data,            \* directory of the database: "empty", "cut" or "ready"
    root,            \* password of MySQL's root: "blank" or "secret"
    granted,         \* statements of prepareDatabase that took effect
    users,           \* passwords of the users in the database, None if absent
    app,             \* what index.ts is doing
    settings,        \* settings in memory
    mysqld, api,     \* the child processes: running?
    stop,            \* stopLocalServices is set
    acknowledged,    \* somebody pressed Continue on the credentials
    starts

disk == <<file, data, root, granted, users>>
vars == <<disk, app, settings, mysqld, api, stop, acknowledged, starts>>

Logins == <<"admin", "staff">>
\* CREATE DATABASE, and CREATE USER, ALTER USER, GRANT for two hosts.
Statements == 7

Init ==
    /\ file = <<>> /\ data = "empty" /\ root = "blank" /\ granted = 0
    /\ users = [n \in {"admin", "staff"} |-> None]
    /\ app = "off" /\ settings = None
    /\ mysqld = FALSE /\ api = FALSE /\ stop = FALSE
    /\ acknowledged = FALSE /\ starts = 0

-----------------------------------------------------------------------------
\* The single instance lock is taken; folders are made.
Launch ==
    /\ app = "off" /\ starts < MaxStarts
    /\ app' = "settings" /\ starts' = starts + 1
    /\ UNCHANGED <<disk, settings, mysqld, api, stop, acknowledged>>

\* writeSettings replaces the file in one rename.
ReadOrCreateSettings ==
    /\ app = "settings"
    /\ settings' = IF file = <<>>
                   THEN [initialized |-> FALSE, pending |-> TRUE, password |-> "default"]
                   ELSE IF file[1].pending THEN [file[1] EXCEPT !.password = "default"]
                   ELSE file[1]
    /\ file' = <<settings'>>
    /\ app' = "mysql"
    /\ UNCHANGED <<data, root, granted, users, mysqld, api, stop, acknowledged, starts>>

\* --initialize-insecure fills an empty directory, in more than one step.
InitializeData ==
    /\ app = "mysql" /\ data = "empty"
    /\ data' = "cut" /\ app' = "initializing"
    /\ UNCHANGED <<file, root, granted, users, settings, mysqld, api, stop, acknowledged, starts>>
DataInitialized ==
    /\ app = "initializing"
    /\ data' = "ready" /\ app' = "mysql"
    /\ UNCHANGED <<file, root, granted, users, settings, mysqld, api, stop, acknowledged, starts>>
\* mysqld does not come up on a directory left half initialized.
StartMySql ==
    /\ app = "mysql" /\ data # "empty"
    /\ mysqld' = (data = "ready") /\ app' = "waiting"
    /\ UNCHANGED <<disk, settings, api, stop, acknowledged, starts>>

\* Variant with a mistake: the password of the settings is the only one tried.
TriedFromSettings == {"secret"}
Tried == {"secret"} \cup (IF settings.initialized THEN {} ELSE {"blank"})
WaitForDatabase ==
    /\ app = "waiting"
    /\ app' = IF mysqld /\ root \in Tried THEN "preparing" ELSE "failed"
    /\ UNCHANGED <<disk, settings, mysqld, api, stop, acknowledged, starts>>

\* Every statement can be repeated; each start runs all of them again.
Prepare ==
    /\ app = "preparing"
    /\ \/ /\ granted < Statements /\ granted' = granted + 1
          /\ UNCHANGED <<root, app>>
       \/ /\ granted = Statements /\ root' = "secret" /\ app' = "prepared"
          /\ UNCHANGED granted
    /\ UNCHANGED <<file, data, users, settings, mysqld, api, stop, acknowledged, starts>>
SaveInitialized ==
    /\ app = "prepared"
    /\ settings' = [settings EXCEPT !.initialized = TRUE]
    /\ file' = <<settings'>>
    /\ app' = "seeding"
    /\ UNCHANGED <<data, root, granted, users, mysqld, api, stop, acknowledged, starts>>

\* The API seeds a user that is missing, one after the other, then listens.
SeedInitialUsers ==
    /\ app = "seeding"
    /\ \/ \E i \in 1 .. Len(Logins) :
              /\ users[Logins[i]] = None /\ \A j \in 1 .. i - 1 : users[Logins[j]] # None
              /\ users' = [users EXCEPT ![Logins[i]] = settings.password]
              /\ UNCHANGED <<app, api>>
       \/ /\ \A i \in 1 .. Len(Logins) : users[Logins[i]] # None
          /\ api' = TRUE /\ app' = "credentials" /\ UNCHANGED users
    /\ UNCHANGED <<file, data, root, granted, settings, mysqld, stop, acknowledged, starts>>

\* The dialogue waits for Continue; only then are the passwords forgotten.
Acknowledge ==
    /\ app = "credentials" /\ settings.pending
    /\ acknowledged' = TRUE /\ app' = "forgetting"
    /\ UNCHANGED <<disk, settings, mysqld, api, stop, starts>>
ForgetCredentials ==
    /\ app = "forgetting"
    /\ settings' = [settings EXCEPT !.pending = FALSE, !.password = "blank"]
    /\ file' = <<settings'>>
    /\ app' = "started"
    /\ UNCHANGED <<data, root, granted, users, mysqld, api, stop, acknowledged, starts>>
NothingToShow ==
    /\ app = "credentials" /\ ~settings.pending
    /\ app' = "started"
    /\ UNCHANGED <<disk, settings, mysqld, api, stop, acknowledged, starts>>

-----------------------------------------------------------------------------
\* startLocalServices has returned; then the renderer's port may be taken.
StartRenderer ==
    /\ app = "started"
    /\ stop' = TRUE
    /\ app' \in {"window", "quitting"}
    /\ UNCHANGED <<disk, settings, mysqld, api, acknowledged, starts>>

\* The catch of startLocalServices ends the children; the error box, quit.
StartFailed ==
    /\ app = "failed"
    /\ mysqld' = FALSE /\ api' = FALSE /\ app' = "quitting"
    /\ UNCHANGED <<disk, settings, stop, acknowledged, starts>>

\* The last window is closed.
Close ==
    /\ app = "window" /\ app' = "quitting"
    /\ UNCHANGED <<disk, settings, mysqld, api, stop, acknowledged, starts>>

\* before-quit: the API first, then the database, then quit again.
BeforeQuit ==
    /\ app = "quitting"
    /\ \/ stop /\ api /\ api' = FALSE /\ UNCHANGED <<mysqld, app, settings, stop>>
       \/ stop /\ ~api /\ mysqld /\ mysqld' = FALSE /\ UNCHANGED <<api, app, settings, stop>>
       \/ /\ stop => ~api /\ ~mysqld
          /\ app' = "off" /\ settings' = None /\ stop' = FALSE /\ UNCHANGED <<api, mysqld>>
    /\ UNCHANGED <<disk, acknowledged, starts>>

\* The computer, or the application with its children, goes off.
Crash ==
    /\ app # "off" /\ starts < MaxStarts
    /\ app' = "off" /\ settings' = None
    /\ mysqld' = FALSE /\ api' = FALSE /\ stop' = FALSE
    /\ UNCHANGED <<disk, acknowledged, starts>>

-----------------------------------------------------------------------------
Starting ==
    \/ ReadOrCreateSettings \/ InitializeData \/ DataInitialized \/ StartMySql
    \/ WaitForDatabase \/ Prepare \/ SaveInitialized \/ SeedInitialUsers
    \/ Acknowledge \/ ForgetCredentials \/ NothingToShow \/ StartRenderer
    \/ StartFailed \/ BeforeQuit
Next == Launch \/ Starting \/ Close \/ Crash

\* Programs go on by themselves, and the person presses Continue.
Spec == Init /\ [][Next]_vars
FairSpec == Spec /\ WF_vars(Starting)

-----------------------------------------------------------------------------
\* Types of the variables.
TypeOK ==
    /\ file = <<>> \/ {file[1].initialized, file[1].pending} \subseteq BOOLEAN
    /\ data \in {"empty", "cut", "ready"} /\ root \in {"blank", "secret"}
    /\ granted \in 0 .. Statements
    /\ \A n \in DOMAIN users : users[n] \in {None, "blank", "default"}
    /\ {mysqld, api, stop, acknowledged} \subseteq BOOLEAN
    /\ starts \in 0 .. MaxStarts

(* Wherever earlier starts were interrupted, a start gets through: the root  *)
(* password it tries is the one MySQL has, before and after it was changed   *)
(* and noted. The one exception is an interrupted initialization.            *)
StartsUnlessCut == app = "failed" => data = "cut"

(* The passwords in the dialogue let both users in, and they are forgotten   *)
(* only when somebody has read them: nobody meets a login without knowing    *)
(* one (readOrCreateSettings, seedInitialUsers, startLocalServices).         *)
CredentialsKnown ==
    /\ (app = "window" \/ (file # <<>> /\ ~file[1].pending)) => acknowledged
    /\ (app = "credentials" /\ settings.pending) =>
           \A n \in DOMAIN users : users[n] = "default"

(* The application does not end before the API and the database it started   *)
(* have been stopped (startLocalServices, before-quit).                      *)
NothingLeftRunning == app = "off" => ~mysqld /\ ~api

(* A start ends at the window or at the error box (index.ts).                *)
StartEnds == app = "settings" ~> app \in {"window", "off"}
=============================================================================
