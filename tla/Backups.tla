------------------------------ MODULE Backups ------------------------------
(* Download and restore of a backup: the database, and the two directories   *)
(* of uploaded files that its rows name (photos of employees, icons of       *)
(* categories). Rows and files change in separate steps, and a restore       *)
(* replaces all three one after the other, any of which can fail.            *)
EXTENDS Integers, Sequences, FiniteSets

CONSTANTS
    Requests,        \* requests the API may be serving at once
    Names,           \* names of files (numbers): random, so each is new; the next is taken
    OldArchives,     \* archives kept from earlier, whole or damaged
    Level,           \* number of migrations of this release
    MaxFailures,     \* bound: steps of a restore that fail
    MaxDownloads     \* bound: archives downloaded

VARIABLES
    db,              \* <<>> while cleared or half loaded, else <<content>>
    disk,            \* the files in each directory of uploads
    archives,        \* archives an admin has at hand
    used,            \* names of files given out
    op,              \* what each request is doing
    failures,        \* steps that failed so far
    broken           \* a rollback failed

vars == <<db, disk, archives, used, op, failures, broken>>

Stores == {"photos", "icons"}
\* What a database says: the migrations applied, and the files its rows name.
Contents == [level : 1 .. Level, names : [Stores -> SUBSET Names]]
\* A ZIP file: whether it passes extraction, manifest and SHA-256.
Archives == [whole : BOOLEAN, db : Contents, files : [Stores -> SUBSET Names]]
Complete(a) == \A s \in Stores : a.db.names[s] \subseteq a.files[s]

\* What is assumed of the parameters: archives that are whole were downloaded
\* by some release, and so hold the files that their rows name.
Parameters ==
    /\ Names \subseteq Nat /\ Level \in Nat \ {0} /\ MaxFailures \in Nat
    /\ OldArchives \subseteq Archives
    /\ \A a \in OldArchives : a.whole => Complete(a)

Idle == [kind |-> "idle"]
\* The steps of restore, in order; from "clear" on the rollback takes them too.
Stages == <<"extract", "dump", "copyPhotos", "copyIcons", "clear", "load", "migrate",
            "emptyPhotos", "fillPhotos", "emptyIcons", "fillIcons", "done">>
\* Variant with a mistake: importStarted is set when the import has returned.
ImportReturned(o) == o.at >= 7
ImportStarted(o) == o.at >= 5
Source(o) == IF o.undo THEN o.saved ELSE o.archive
Migrated(content) == [content EXCEPT !.level = Level]

Init ==
    /\ db = <<[level |-> Level, names |-> [s \in Stores |-> {}]]>>
    /\ disk = [s \in Stores |-> {}]
    /\ archives = OldArchives
    /\ used = UNION {a.files[s] : a \in OldArchives, s \in Stores}
    /\ op = [r \in Requests |-> Idle]
    /\ failures = 0
    /\ broken = FALSE

-----------------------------------------------------------------------------
(* A restore is begun while nothing else runs, and nothing else is begun     *)
(* before it ends: the API does not enforce this, the person who restores    *)
(* does. Everything else overlaps freely. Nothing is followed further once a *)
(* rollback has failed: its copies are deleted with the working directory.   *)

Begin(r, o) ==
    /\ op[r] = Idle /\ ~broken
    /\ \A q \in Requests : op[q].kind # "restore"
    /\ o.kind = "restore" => \A q \in Requests : op[q] = Idle
    /\ op' = [op EXCEPT ![r] = o]

\* Confirmed in the dialogue and by confirmReplace.
BeginRestore(r) ==
    \E a \in archives :
        /\ Begin(r, [kind |-> "restore", at |-> 1, undo |-> FALSE, archive |-> a,
                     saved |-> [a EXCEPT !.files = disk], before |-> <<db, disk>>])
        /\ UNCHANGED <<db, disk, archives, used, failures, broken>>

\* What the step of a restore does to the copies, the database and the files.
Saved(o) ==
    CASE Stages[o.at] = "dump" -> [o.saved EXCEPT !.db = db[1]]
      [] Stages[o.at] = "copyPhotos" -> [o.saved EXCEPT !.files["photos"] = disk["photos"]]
      [] Stages[o.at] = "copyIcons" -> [o.saved EXCEPT !.files["icons"] = disk["icons"]]
      [] OTHER -> o.saved
Database(o) ==
    CASE Stages[o.at] = "clear" -> <<>>
      [] Stages[o.at] = "load" -> <<Source(o).db>>
      [] Stages[o.at] = "migrate" -> <<Migrated(db[1])>>
      [] OTHER -> db
Disk(o) ==
    CASE Stages[o.at] = "emptyPhotos" -> [disk EXCEPT !["photos"] = {}]
      [] Stages[o.at] = "fillPhotos" -> [disk EXCEPT !["photos"] = Source(o).files["photos"]]
      [] Stages[o.at] = "emptyIcons" -> [disk EXCEPT !["icons"] = {}]
      [] Stages[o.at] = "fillIcons" -> [disk EXCEPT !["icons"] = Source(o).files["icons"]]
      [] OTHER -> disk

RestoreStep(r) ==
    LET o == op[r] IN
    /\ o.kind = "restore" /\ o.at < Len(Stages)
    /\ o.at = 1 => o.archive.whole
    /\ op' = [op EXCEPT ![r].at = o.at + 1, ![r].saved = Saved(o)]
    /\ db' = Database(o)
    /\ disk' = Disk(o)
    /\ UNCHANGED <<archives, used, failures, broken>>

\* A damaged archive is refused before anything is touched.
Refuse(r) ==
    /\ op[r].kind = "restore" /\ op[r].at = 1 /\ ~op[r].archive.whole
    /\ op' = [op EXCEPT ![r].at = Len(Stages), ![r].undo = TRUE]
    /\ UNCHANGED <<db, disk, archives, used, failures, broken>>

\* A step fails, having done its work or not: the catch blocks.
StepFails(r) ==
    LET o == op[r] IN
    /\ o.kind = "restore" /\ o.at < Len(Stages)
    /\ failures < MaxFailures
    /\ failures' = failures + 1
    /\ db' \in IF ImportStarted(o) THEN {db, Database(o)} ELSE {db}
    /\ disk' \in {disk, Disk(o)}
    /\ IF o.undo \/ ~ImportStarted(o)
       THEN op' = [op EXCEPT ![r].at = Len(Stages), ![r].undo = TRUE]
       ELSE op' = [op EXCEPT ![r].at = 5, ![r].undo = TRUE]
    /\ broken' = (broken \/ o.undo)
    /\ UNCHANGED <<archives, used>>

\* The response; the working directory with both copies is removed.
EndRestore(r) ==
    /\ op[r].kind = "restore" /\ op[r].at = Len(Stages)
    /\ op' = [op EXCEPT ![r] = Idle]
    /\ UNCHANGED <<db, disk, archives, used, failures, broken>>

-----------------------------------------------------------------------------
(* Download: the dump is a snapshot, the files are read afterwards.          *)

BeginDownload(r) ==
    /\ Cardinality(archives \ OldArchives) < MaxDownloads
    /\ Begin(r, [kind |-> "download"])
    /\ UNCHANGED <<db, disk, archives, used, failures, broken>>
DumpDatabase(r) ==
    /\ op[r] = [kind |-> "download"] /\ db # <<>>
    /\ op' = [op EXCEPT ![r] = [kind |-> "sending", db |-> db[1]]]
    /\ UNCHANGED <<db, disk, archives, used, failures, broken>>
SendFiles(r) ==
    /\ op[r].kind = "sending"
    /\ archives' = archives \cup {[whole |-> TRUE, db |-> op[r].db, files |-> disk]}
    /\ op' = [op EXCEPT ![r] = Idle]
    /\ UNCHANGED <<db, disk, used, failures, broken>>

(* Uploads: the file is on disk before the request is handled, and the row   *)
(* names it afterwards. The photo of the employee is replaced, an icon comes *)
(* with a new category; no old file is removed.                              *)
BeginUpload(r, s) ==
    \E n \in Names \ used :
        /\ \A m \in Names \ used : n <= m
        /\ Begin(r, [kind |-> "upload", store |-> s, name |-> n])
        /\ disk' = [disk EXCEPT ![s] = @ \cup {n}]
        /\ used' = used \cup {n}
        /\ UNCHANGED <<db, archives, failures, broken>>
Named(s, n) == IF s = "photos" THEN {n} ELSE db[1].names[s] \cup {n}
SaveRow(r) ==
    LET o == op[r] IN
    /\ o.kind = "upload" /\ db # <<>>
    /\ db' = <<[db[1] EXCEPT !.names[o.store] = Named(o.store, o.name)]>>
    /\ op' = [op EXCEPT ![r] = Idle]
    /\ UNCHANGED <<disk, archives, used, failures, broken>>
\* No such employee, or a category of this name: only the icon is unlinked.
UploadRefused(r) ==
    LET o == op[r] IN
    /\ o.kind = "upload"
    /\ disk' = IF o.store = "icons" THEN [disk EXCEPT !["icons"] = @ \ {o.name}] ELSE disk
    /\ op' = [op EXCEPT ![r] = Idle]
    /\ UNCHANGED <<db, archives, used, failures, broken>>

-----------------------------------------------------------------------------
Next ==
    \E r \in Requests :
        \/ BeginRestore(r) \/ RestoreStep(r) \/ Refuse(r) \/ StepFails(r) \/ EndRestore(r)
        \/ BeginDownload(r) \/ DumpDatabase(r) \/ SendFiles(r)
        \/ \E s \in Stores : BeginUpload(r, s)
        \/ SaveRow(r) \/ UploadRefused(r)

Spec == Init /\ [][Next]_vars

-----------------------------------------------------------------------------
\* Types of the variables.
TypeOK ==
    /\ db = <<>> \/ db[1] \in Contents
    /\ disk \in [Stores -> SUBSET Names] /\ used \subseteq Names
    /\ archives \subseteq Archives
    /\ \A r \in Requests :
           op[r].kind \in {"idle", "restore", "download", "sending", "upload"}
    /\ failures \in 0 .. MaxFailures /\ broken \in BOOLEAN

(* A restore that ends has replaced everything or nothing: after success,    *)
(* database and files are those of the archive, migrated to this release;    *)
(* after a refusal or a failure anywhere they are what they were before,     *)
(* unless the rollback failed too (restore, database-backups.service.ts).    *)
AllOrNothing ==
    \A r \in Requests :
        op[r].kind = "restore" /\ op[r].at = Len(Stages) /\ ~broken =>
            IF op[r].undo
            THEN <<db, disk>> = op[r].before
            ELSE db = <<Migrated(op[r].archive.db)>> /\ disk = op[r].archive.files

(* Between restores every file a row names is on disk: uploads write the     *)
(* file first, and archives bring the files with the rows                    *)
(* (uploadPhoto, categories create, restore).                                *)
NamedFilesExist ==
    (\A r \in Requests : op[r].kind # "restore") /\ ~broken =>
        db # <<>> /\ \A s \in Stores : db[1].names[s] \subseteq disk[s]

(* An archive downloaded while files were being uploaded still holds every   *)
(* file its rows name, because the rows are read first (download).           *)
ArchivesComplete ==
    \A a \in archives \ OldArchives : broken \/ Complete(a)
=============================================================================
