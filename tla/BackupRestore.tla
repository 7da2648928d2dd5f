---------------------------- MODULE BackupRestore ----------------------------
(***************************************************************************)
(* scripts/backup.sh and scripts/restore.sh: both stop the app, work on    *)
(* the database and the media volume command by command, and start the app *)
(* again.  Every command may fail, which ends a script through its exit    *)
(* trap, and a script may be killed, which skips the trap.                 *)
(***************************************************************************)
EXTENDS Naturals, FiniteSets
CONSTANTS None, Mixed,
          MaxVersion,  \* bound: changes the app makes
          Overlap      \* whether the two scripts may run at one time

VARIABLES
  app,       \* "running" or "stopped"
  db,        \* databases by role: "current", "restored", "previous"
  media,     \* files by place: "active", "staged", "previous"
  archives,  \* the archives in the backup directory
  backup,    \* the backup script: its step, its flag, what it has staged
  restore    \* the restore script: its step, its flags, its archive

vars == <<app, db, media, archives, backup, restore>>

\* A content is the number of changes in it; Mixed: files of two contents.
Contents == 0 .. MaxVersion
Archive == [db : Contents, media : Contents]

NoBackup == [at |-> "off", stopped |-> FALSE, db |-> None, media |-> None]
NoRestore == [at |-> "off", stopped |-> FALSE, swapping |-> FALSE,
              swapped |-> FALSE, archive |-> None]

Init ==
  /\ app = "running"
  /\ db = [current |-> 0, restored |-> None, previous |-> None]
  /\ media = [active |-> 0, staged |-> None, previous |-> None]
  /\ archives = {}
  /\ backup = NoBackup /\ restore = NoRestore

Free == Overlap \/ (backup.at = "off" /\ restore.at = "off")

\* The app changes a row and the files that belong to it.
AppWrites ==
  /\ app = "running" /\ db.current \in 0 .. MaxVersion - 1
  /\ db' = [db EXCEPT !.current = @ + 1]
  /\ media' = [media EXCEPT !.active = IF @ = Mixed THEN Mixed ELSE db.current + 1]
  /\ UNCHANGED <<app, archives, backup, restore>>

--------------------------------------------------------------------------
\* backup.sh.

B(from, b) == backup.at = from /\ backup' = b

BackupBegins ==
  /\ Free /\ app = "running"
  /\ B("off", [NoBackup EXCEPT !.at = "stop"])
  /\ UNCHANGED <<app, db, media, archives, restore>>

\* The flag is set before the app is stopped.
BackupStops ==
  /\ B("stop", [backup EXCEPT !.at = "dump", !.stopped = TRUE])
  /\ app' = "stopped"
  /\ UNCHANGED <<db, media, archives, restore>>

Dump ==
  /\ db.current # None
  /\ B("dump", [backup EXCEPT !.at = "copy", !.db = db.current])
  /\ UNCHANGED <<app, db, media, archives, restore>>

\* Fault variant: a copy that failed goes unnoticed.
CopyUnchecked ==
  /\ B("copy", [backup EXCEPT !.at = "start"])
  /\ UNCHANGED <<app, db, media, archives, restore>>

\* docker cp, then only the active files are kept.
Copy ==
  /\ B("copy", [backup EXCEPT !.at = "start", !.media = media.active])
  /\ UNCHANGED <<app, db, media, archives, restore>>

BackupStarts ==
  /\ B("start", [backup EXCEPT !.at = "pack", !.stopped = FALSE])
  /\ app' = "running"
  /\ UNCHANGED <<db, media, archives, restore>>

\* tar, its validation, and the rename into place.
Pack ==
  /\ B("pack", NoBackup)
  /\ archives' = archives \union {[db |-> backup.db, media |-> backup.media]}
  /\ UNCHANGED <<app, db, media, restore>>

\* A command fails, or the script is interrupted: cleanup.  The stop may have
\* had its effect all the same, and the start may fail.
BackupFails ==
  /\ backup.at # "off" /\ backup' = NoBackup
  /\ \/ app' = IF backup.stopped \/ backup.at = "stop" THEN "running" ELSE app
     \/ app' = IF backup.at = "stop" THEN "stopped" ELSE app
  /\ UNCHANGED <<db, media, archives, restore>>

BackupKilled ==
  /\ backup.at # "off" /\ backup' = NoBackup
  /\ UNCHANGED <<app, db, media, archives, restore>>

--------------------------------------------------------------------------
\* restore.sh.

R(from, r) == restore.at = from /\ restore' = r

\* The archive is validated, the services are up, the media are staged.
StageMedia ==
  /\ Free /\ app = "running"
  /\ \E a \in archives :
       /\ R("off", [NoRestore EXCEPT !.at = "stop", !.archive = a])
       /\ media' = [media EXCEPT !.staged = a.media]
  /\ UNCHANGED <<app, db, archives, backup>>

\* The flag is set after the app was stopped.
RestoreStops ==
  /\ R("stop", [restore EXCEPT !.at = "load", !.stopped = TRUE])
  /\ app' = "stopped"
  /\ UNCHANGED <<db, media, archives, backup>>

\* createdb, pg_restore and a first query, on a database of its own.
Load ==
  /\ R("load", [restore EXCEPT !.at = "set aside", !.swapping = TRUE])
  /\ db' = [db EXCEPT !.restored = restore.archive.db]
  /\ UNCHANGED <<app, media, archives, backup>>

\* The two renames, each committed by itself.
SetAside ==
  /\ R("set aside", [restore EXCEPT !.at = "rename"])
  /\ db' = [db EXCEPT !.previous = db.current, !.current = None]
  /\ UNCHANGED <<app, media, archives, backup>>

RenameRestored ==
  /\ R("rename", [restore EXCEPT !.at = "clear"])
  /\ db' = [db EXCEPT !.current = db.restored, !.restored = None]
  /\ UNCHANGED <<app, media, archives, backup>>

\* The helper moves the old files away and then the staged ones in.
ClearMedia ==
  /\ R("clear", [restore EXCEPT !.at = "fill"])
  /\ media' = [media EXCEPT !.previous = media.active, !.active = Mixed]
  /\ UNCHANGED <<app, db, archives, backup>>

FillMedia ==
  /\ R("fill", [restore EXCEPT !.at = "start", !.swapped = TRUE])
  /\ media' = [media EXCEPT !.active = media.staged, !.staged = None]
  /\ UNCHANGED <<app, db, archives, backup>>

RestoreStarts ==
  /\ R("start", NoRestore)
  /\ app' = "running"
  /\ UNCHANGED <<db, media, archives, backup>>

\* Fault variant: it is started again whenever it was stopped.
AppAlways == restore.stopped

\* cleanup: the app is started again unless the databases may have been
\* switched and the media not.
AppComesBack == restore.stopped /\ ~(restore.swapping /\ ~restore.swapped)

\* A command that fails may have had part of its effect.
RestoreFails ==
  /\ restore.at # "off" /\ restore' = NoRestore
  /\ \/ app' = IF AppComesBack THEN "running" ELSE app
     \/ app' = IF restore.at = "stop" THEN "stopped" ELSE app
  /\ media' = IF restore.at = "clear" THEN [media EXCEPT !.active = Mixed] ELSE media
  /\ UNCHANGED <<db, archives, backup>>

RestoreKilled ==
  /\ restore.at # "off" /\ restore' = NoRestore
  /\ UNCHANGED <<app, db, media, archives, backup>>

Next ==
  \/ AppWrites
  \/ BackupBegins \/ BackupStops \/ Dump \/ Copy \/ BackupStarts \/ Pack
  \/ BackupFails \/ BackupKilled
  \/ StageMedia \/ RestoreStops \/ Load \/ SetAside \/ RenameRestored
  \/ ClearMedia \/ FillMedia \/ RestoreStarts \/ RestoreFails \/ RestoreKilled

Spec == Init /\ [][Next]_vars

--------------------------------------------------------------------------
\* Services, stores and scripts are well formed.
TypeOK ==
  /\ app \in {"running", "stopped"}
  /\ db \in [current : Contents \union {None}, restored : Contents \union {None},
            previous : Contents \union {None}]
  /\ media \in [active : Contents \union {Mixed}, staged : Contents \union {None},
               previous : Contents \union {None, Mixed}]
  /\ archives \subseteq Archive
  /\ backup \in [at : {"off", "stop", "dump", "copy", "start", "pack"}, stopped : BOOLEAN,
                db : Contents \union {None}, media : Contents \union {None}]
  /\ restore \in [at : {"off", "stop", "load", "set aside", "rename", "clear", "fill", "start"},
                 stopped : BOOLEAN, swapping : BOOLEAN, swapped : BOOLEAN,
                 archive : Archive \union {None}]

\* Whichever command fails or is cut short: the app is never up with a
\* database and files that do not belong together (README.md:257-259,
\* restore.sh:82-86).
ServedTogether == app = "running" => media.active = db.current

\* An archive holds the rows and the files of one moment, whatever the app
\* was writing when the backup began (backup.sh:92-94).
ArchivesAreConsistent == \A a \in archives : a.db = a.media

\* Until the new files are in their place, nothing of the old content is
\* gone: it is the current one, or set aside whole (restore.sh:17-18).
RollbackIsKept ==
  restore.at \in {"clear", "fill", "start"} =>
    /\ db.previous # None
    /\ (restore.at # "clear" => media.previous = db.previous)
=============================================================================
