--------------------------- MODULE OperationsProofs ---------------------------
(***************************************************************************)
(* The safety of the scripts around the site, each from an invariant of    *)
(* its own, and that site-configure changes nothing but its own entries,   *)
(* whatever the file holds.                                                *)
(***************************************************************************)
EXTENDS Operations, SequenceTheorems, WellFoundedInduction, TLAPS

(***************************************************************************)
(* The development command.                                                *)
(***************************************************************************)

\* Cleanup begins when nothing is started any more; behind it is only what was
\* told to stop.
CleanedBehind ==
  /\ cleanup # "none" => stopping \/ at \in {"leaving", "ended", "killed"}
  /\ cleanup \notin {"none", "web"} => (web = "running" => "web" \in asked)
  /\ cleanup \in {"dbWait", "dbTerm", "done"} =>
       (Development!DbAlive => Development!DbAsked)
  /\ at = "ended" => cleanup = "done"

\* PostgreSQL is spawned by start() alone, which is not called after a stop; a
\* run that is over has had its stop.
ServerIsFound ==
  /\ at \in {"read", "port"} => db = "none"
  /\ server = "up" => db \notin {"none", "checking", "initialising"}
  /\ db \in {"ended", "exited"} /\ server = "up" => shutdown # "none"
  /\ shutdown = "nothing" => server # "up" /\ (db = "starting" => server = "gone")
  /\ shutdown # "none" => db # "none"

DevelopmentInv == Development!TypeOK /\ CleanedBehind /\ ServerIsFound

LEMMA DevelopmentBegins == Development!Init => DevelopmentInv
BY DEF Development!Init, DevelopmentInv, CleanedBehind, ServerIsFound, Development!TypeOK,
       Development!DbAlive, Development!DbAsked

LEMMA RunKeepsCleaned == DevelopmentInv /\ Development!Run => DevelopmentInv'
<1> SUFFICES ASSUME DevelopmentInv, Development!Run PROVE DevelopmentInv'
  OBVIOUS
<1> USE DEF DevelopmentInv, CleanedBehind, ServerIsFound, Development!TypeOK,
            Development!DbAlive, Development!DbAsked, Development!dbVars
<1>1. CASE Development!ReadConfiguration
  BY <1>1 DEF Development!ReadConfiguration, Development!Leave, Development!Begun,
              Development!StartDatabase, Development!Prepared
<1>2. CASE Development!PortChecked
  BY <1>2 DEF Development!PortChecked, Development!Leave, Development!Begun,
              Development!StartDatabase, Development!Prepared
<1>3. CASE Development!AwaitConfiguration
  BY <1>3 DEF Development!AwaitConfiguration, Development!Leave, Development!Begun,
              Development!Prepared
<1>4. CASE Development!SqlReady
  BY <1>4 DEF Development!SqlReady, Development!Leave, Development!Begun
<1>5. CASE Development!SqlNotReady
  BY <1>5 DEF Development!SqlNotReady, Development!Leave, Development!Begun
<1>6. CASE Development!Watched
  BY <1>6 DEF Development!Watched, Development!Leave, Development!Begun
<1>7. CASE Development!End
  BY <1>7 DEF Development!End
<1> QED
  BY <1>1, <1>2, <1>3, <1>4, <1>5, <1>6, <1>7 DEF Development!Run

LEMMA CleanupKeepsCleaned == DevelopmentInv /\ Development!Cleanup => DevelopmentInv'
<1> SUFFICES ASSUME DevelopmentInv, Development!Cleanup PROVE DevelopmentInv'
  OBVIOUS
<1> USE DEF DevelopmentInv, CleanedBehind, ServerIsFound, Development!TypeOK,
            Development!DbAlive, Development!DbAsked, Development!dbVars,
            Development!Launcher
<1>1. CASE Development!StopWeb
  <2>0. asked' \in {asked, asked \union {"web"}}
    BY <1>1 DEF Development!StopWeb
  <2>1. Development!TypeOK'
    <3>1. asked' \subseteq {"db", "term", "web"}
      BY <2>0
    <3> QED
      BY <1>1, <3>1 DEF Development!StopWeb
  <2>2. CleanedBehind'
    BY <1>1 DEF Development!StopWeb
  <2>3. ServerIsFound'
    BY <1>1 DEF Development!StopWeb
  <2> QED
    BY <2>1, <2>2, <2>3
<1>2. CASE Development!WebStopped
  BY <1>2 DEF Development!WebStopped
<1>3. CASE Development!StopDatabase
  <2>0. asked' \in {asked, asked \union {"db"}, asked \union {"term"}}
    BY <1>3 DEF Development!StopDatabase
  <2>1. Development!TypeOK'
    <3>1. asked' \subseteq {"db", "term", "web"}
      BY <2>0
    <3> QED
      BY <1>3, <3>1 DEF Development!StopDatabase
  <2>2. CleanedBehind'
    BY <1>3 DEF Development!StopDatabase
  <2>3. ServerIsFound'
    BY <1>3 DEF Development!StopDatabase
  <2> QED
    BY <2>1, <2>2, <2>3
<1>4. CASE Development!DatabaseWaited
  <2>0. asked' \in {asked, asked \union {"term"}}
    BY <1>4 DEF Development!DatabaseWaited
  <2>1. Development!TypeOK'
    <3>1. asked' \subseteq {"db", "term", "web"}
      BY <2>0
    <3> QED
      BY <1>4, <3>1 DEF Development!DatabaseWaited
  <2>2. CleanedBehind'
    BY <1>4 DEF Development!DatabaseWaited
  <2>3. ServerIsFound'
    BY <1>4 DEF Development!DatabaseWaited
  <2> QED
    BY <2>1, <2>2, <2>3
<1>5. CASE Development!DatabaseStopped
  BY <1>5 DEF Development!DatabaseStopped
<1> QED
  BY <1>1, <1>2, <1>3, <1>4, <1>5 DEF Development!Cleanup

\* Signals, false alarms, and what the site and other databases do.
LEMMA OutsideKeepsCleaned == DevelopmentInv /\ Development!Outside => DevelopmentInv'
<1> SUFFICES ASSUME DevelopmentInv, Development!Outside PROVE DevelopmentInv'
  OBVIOUS
<1> USE DEF DevelopmentInv, CleanedBehind, ServerIsFound, Development!TypeOK,
            Development!DbAlive, Development!DbAsked, Development!dbVars
<1>1. CASE Development!FalseAlarm
  BY <1>1 DEF Development!FalseAlarm, Development!Leave, Development!Begun
<1>2. CASE Development!Signal
  <2>1. Development!TypeOK'
    <3>1. asked' \subseteq {"db", "term", "web"}
      BY <1>2 DEF Development!Signal
    <3> QED
      BY <1>2, <3>1 DEF Development!Signal, Development!Begun, Development!Launcher
  <2>2. CleanedBehind'
    BY <1>2 DEF Development!Signal, Development!Begun, Development!Launcher
  <2>3. ServerIsFound'
    BY <1>2 DEF Development!Signal, Development!Begun, Development!Launcher
  <2> QED
    BY <2>1, <2>2, <2>3
<1>3. CASE Development!Kill
  BY <1>3 DEF Development!Kill, Development!Launcher
<1>4. CASE Development!WebExits
  BY <1>4 DEF Development!WebExits
<1>5. CASE Development!OtherStops
  <2>1. other' \in BOOLEAN
    BY <1>5, Zenon DEF Development!OtherStops
  <2>2. UNCHANGED <<at, stopping, cleanup, config, db, web, asked, server, shutdown>>
    BY <1>5, Zenon DEF Development!OtherStops, Development!launcherVars
  <2> QED
    BY <2>1, <2>2
<1> QED
  BY <1>1, <1>2, <1>3, <1>4, <1>5 DEF Development!Outside

\* dev-db's own steps.
LEMMA DatabaseKeepsCleaned ==
  ASSUME DevelopmentInv,
         \/ Development!DatabaseProgress \/ Development!Fails \/ Development!HealthAlarm
         \/ Development!ExitHook \/ Development!ServerEnds
  PROVE  DevelopmentInv'
<1> USE DEF DevelopmentInv, CleanedBehind, ServerIsFound, Development!TypeOK,
            Development!DbAlive, Development!DbAsked, Development!launcherVars,
            Development!DbStep, Development!Found
<1>1. CASE Development!DatabaseAsked
  BY <1>1 DEF Development!DatabaseAsked
<1>2. CASE Development!LoadCredentials
  BY <1>2 DEF Development!LoadCredentials
<1>3. CASE Development!Initialised
  BY <1>3 DEF Development!Initialised
<1>4. CASE Development!Spawn
  BY <1>4 DEF Development!Spawn
<1>5. CASE Development!Started
  BY <1>5 DEF Development!Started
<1>6. CASE Development!EnsureDatabaseExists
  BY <1>6 DEF Development!EnsureDatabaseExists
<1>11. CASE Development!ForegroundDone
  BY <1>11 DEF Development!ForegroundDone
<1>7. CASE Development!Fails
  BY <1>7 DEF Development!Fails
<1>8. CASE Development!HealthAlarm
  BY <1>8 DEF Development!HealthAlarm
<1>9. CASE Development!DatabaseExits
  BY <1>9 DEF Development!DatabaseExits
<1>12. CASE Development!ExitHook
  BY <1>12 DEF Development!ExitHook
<1>10. CASE Development!ServerEnds
  BY <1>10 DEF Development!ServerEnds
<1> QED
  BY <1>1, <1>2, <1>3, <1>4, <1>5, <1>6, <1>7, <1>8, <1>9, <1>10, <1>11, <1>12
     DEF Development!DatabaseProgress, Development!FailsSurely

LEMMA DevelopmentStep ==
  DevelopmentInv /\ [Development!Next]_lifecycleVars => DevelopmentInv'
<1> SUFFICES ASSUME DevelopmentInv, [Development!Next]_lifecycleVars PROVE DevelopmentInv'
  OBVIOUS
<1>1. CASE UNCHANGED lifecycleVars
  BY <1>1 DEF lifecycleVars, launcherVars, DevelopmentInv, CleanedBehind, ServerIsFound,
              Development!TypeOK, Development!DbAlive, Development!DbAsked
<1> QED
  BY <1>1, RunKeepsCleaned, CleanupKeepsCleaned, OutsideKeepsCleaned,
     DatabaseKeepsCleaned DEF Development!Next

(***************************************************************************)
(* Backup and restore.                                                     *)
(***************************************************************************)

Served == app = "running" => media.active = databases.current

\* The app writes nothing between stop and start; what was copied belongs
\* together.
BackedUp ==
  /\ backup.at # "off" => restore.at = "off"
  /\ backup.at = "stop" => app = "running"
  /\ backup.at \in {"dump", "copy", "start"} =>
       app = "stopped" /\ media.active = databases.current
  /\ backup.at \in {"copy", "start"} => backup.db = databases.current /\ backup.db # None
  /\ backup.at = "start" => backup.media = media.active
  /\ backup.at = "pack" => backup.db = backup.media /\ backup.db # None
  /\ backup.stopped => backup.at \in {"dump", "copy", "start"}

\* What is restored is one archive, and the app is down until both parts of it
\* are in place.
Restored ==
  /\ restore.at # "off" => restore.archive \in archives
  /\ restore.at \in {"stop", "load", "set aside", "rename", "clear", "fill"} =>
       media.staged = restore.archive.media
  /\ restore.at = "stop" => app = "running"
  /\ restore.at \in {"load", "set aside", "rename", "clear", "fill", "start"} =>
       app = "stopped"
  /\ restore.at \in {"load", "set aside"} => media.active = databases.current
  /\ restore.at \in {"set aside", "rename"} => databases.restored = restore.archive.db
  /\ restore.at \in {"rename", "clear"} =>
       databases.previous = media.active /\ databases.previous # None
  /\ restore.at \in {"fill", "start"} =>
       databases.previous = media.previous /\ databases.previous # None
  /\ restore.at \in {"clear", "fill", "start"} => databases.current = restore.archive.db
  /\ restore.at = "start" => media.active = restore.archive.media

Flagged ==
  /\ restore.stopped => restore.at \notin {"off", "stop"}
  /\ restore.at \in {"set aside", "rename", "clear", "fill", "start"} => restore.swapping
  /\ restore.swapped => restore.at = "start"

ContentInv ==
  /\ Content!TypeOK /\ Content!ArchivesAreConsistent
  /\ Served /\ BackedUp /\ Restored /\ Flagged

LEMMA ContentBegins == Content!Init => ContentInv
BY ScriptAssumption
   DEF Content!Init, ContentInv, Served, BackedUp, Restored, Flagged, Content!TypeOK,
       Content!Contents, Content!NoBackup, Content!NoRestore, Content!Archive,
       Content!ArchivesAreConsistent

LEMMA NoneIsNoContent == None \notin 0 .. MaxVersion \union {Mixed}
BY ScriptAssumption

LEMMA AppWritesKept == ContentInv /\ Content!AppWrites => ContentInv'
<1> SUFFICES ASSUME ContentInv, Content!AppWrites PROVE ContentInv'
  OBVIOUS
<1> USE ScriptAssumption DEF Content!Contents, Content!Archive
<1>1. /\ app = "running" /\ databases.current \in 0 .. MaxVersion - 1
      /\ media.active = databases.current
      /\ databases' = [databases EXCEPT !.current = databases.current + 1]
      /\ media' = [media EXCEPT !.active = databases.current + 1]
      /\ UNCHANGED <<app, archives, backup, restore>>
  BY DEF Content!AppWrites, ContentInv, Served
<1>2. Content!TypeOK'
  <2>1. databases.current + 1 \in 0 .. MaxVersion
    BY <1>1
  <2>2. /\ databases' \in [current : 0 .. MaxVersion \union {None},
                          restored : 0 .. MaxVersion \union {None},
                          previous : 0 .. MaxVersion \union {None}]
        /\ media' \in [active : 0 .. MaxVersion \union {Mixed}, staged : 0 .. MaxVersion \union {None},
                      previous : 0 .. MaxVersion \union {None, Mixed}]
    BY <1>1, <2>1 DEF ContentInv, Content!TypeOK
  <2> QED
    BY <1>1, <2>2 DEF ContentInv, Content!TypeOK
<1>3. Served' /\ BackedUp' /\ Flagged'
  BY <1>1 DEF ContentInv, Content!TypeOK, Served, BackedUp, Flagged
<1>4. Restored'
  BY <1>1 DEF ContentInv, Content!TypeOK, Restored
<1> QED
  BY <1>1, <1>2, <1>3, <1>4 DEF ContentInv, Content!ArchivesAreConsistent

LEMMA BackupKept ==
  ASSUME ContentInv, ~Overlap,
         \/ Content!BackupBegins \/ Content!BackupStops \/ Content!Dump \/ Content!Copy
         \/ Content!BackupStarts \/ Content!Pack \/ Content!BackupFails
         \/ Content!BackupKilled
  PROVE  ContentInv'
<1> USE ScriptAssumption DEF Content!Contents, Content!Archive, ContentInv, Served, BackedUp,
        Restored, Flagged, Content!TypeOK, Content!ArchivesAreConsistent, Content!B,
        Content!NoBackup
<1>1. CASE Content!BackupBegins
  BY <1>1 DEF Content!BackupBegins, Content!Free
<1>2. CASE Content!BackupStops
  BY <1>2 DEF Content!BackupStops
<1>3. CASE Content!Dump
  BY <1>3 DEF Content!Dump
<1>4. CASE Content!Copy
  BY <1>4 DEF Content!Copy
<1>5. CASE Content!BackupStarts
  <2>0. /\ backup.at = "start" /\ backup' = [backup EXCEPT !.at = "pack", !.stopped = FALSE]
        /\ backup'.at = "pack" /\ ~backup'.stopped
        /\ backup'.db = backup.db /\ backup'.media = backup.media
        /\ UNCHANGED <<databases, media, archives, restore>>
    BY <1>5 DEF Content!BackupStarts
  <2>1. Content!TypeOK'
    BY <1>5 DEF Content!BackupStarts
  <2>2. Served' /\ Content!ArchivesAreConsistent'
    BY <1>5 DEF Content!BackupStarts
  <2>3. BackedUp'
    BY <2>0
  <2>4. Restored' /\ Flagged'
    BY <1>5 DEF Content!BackupStarts
  <2> QED
    BY <2>1, <2>2, <2>3, <2>4
<1>6. CASE Content!Pack
  <2>0. /\ backup.at = "pack" /\ backup.db = backup.media
        /\ [db |-> backup.db, media |-> backup.media] \in [db : 0 .. MaxVersion, media : 0 .. MaxVersion]
        /\ archives' = archives \union {[db |-> backup.db, media |-> backup.media]}
        /\ backup' = [at |-> "off", stopped |-> FALSE, db |-> None, media |-> None]
        /\ UNCHANGED <<app, databases, media, restore>>
    BY <1>6 DEF Content!Pack
  <2>1. Content!TypeOK'
    BY <2>0
  <2>2. Served' /\ Content!ArchivesAreConsistent'
    <3>1. \A a \in archives' : a.db = a.media
      <4> SUFFICES ASSUME NEW a \in archives' PROVE a.db = a.media
        OBVIOUS
      <4>1. CASE a \in archives
        BY <4>1, Zenon
      <4>2. CASE a = [db |-> backup.db, media |-> backup.media]
        BY <2>0, <4>2
      <4> QED
        BY <2>0, <4>1, <4>2, Zenon
    <3> QED
      BY <2>0, <3>1, Zenon
  <2>3. BackedUp'
    BY <1>6 DEF Content!Pack
  <2>4. Restored' /\ Flagged'
    BY <1>6 DEF Content!Pack
  <2> QED
    BY <2>1, <2>2, <2>3, <2>4
<1>7. CASE Content!BackupFails
  <2>1. Content!TypeOK'
    BY <1>7 DEF Content!BackupFails
  <2>2. Served' /\ Content!ArchivesAreConsistent'
    BY <1>7 DEF Content!BackupFails
  <2>3. BackedUp'
    BY <1>7 DEF Content!BackupFails
  <2>4. Restored' /\ Flagged'
    BY <1>7 DEF Content!BackupFails
  <2> QED
    BY <2>1, <2>2, <2>3, <2>4
<1>8. CASE Content!BackupKilled
  BY <1>8 DEF Content!BackupKilled
<1> QED
  BY <1>1, <1>2, <1>3, <1>4, <1>5, <1>6, <1>7, <1>8

LEMMA RestoreKept ==
  ASSUME ContentInv, ~Overlap,
         \/ Content!StageMedia \/ Content!RestoreStops \/ Content!Load \/ Content!SetAside
         \/ Content!RenameRestored \/ Content!ClearMedia \/ Content!FillMedia
         \/ Content!RestoreStarts \/ Content!RestoreFails \/ Content!RestoreKilled
  PROVE  ContentInv'
<1> USE ScriptAssumption DEF Content!Contents, Content!Archive, ContentInv, Served, BackedUp,
        Restored, Flagged, Content!TypeOK, Content!ArchivesAreConsistent, Content!R,
        Content!NoRestore
<1>1. CASE Content!StageMedia
  <2>a. PICK a \in archives :
          /\ restore' = [Content!NoRestore EXCEPT !.at = "stop", !.archive = a]
          /\ media' = [media EXCEPT !.staged = a.media]
    BY <1>1, Zenon DEF Content!StageMedia
  <2>b. /\ restore'.at = "stop" /\ restore'.archive = a
        /\ ~restore'.stopped /\ ~restore'.swapped /\ ~restore'.swapping
    BY <2>a
  <2>c. media'.staged = a.media
    BY <2>a
  <2>0. /\ app = "running" /\ restore'.at = "stop" /\ restore'.archive \in archives
        /\ ~restore'.stopped /\ ~restore'.swapped /\ ~restore'.swapping
        /\ media'.staged = restore'.archive.media
        /\ UNCHANGED <<app, databases, archives, backup>>
    BY <1>1, <2>b, <2>c DEF Content!StageMedia
  <2>1. Content!TypeOK'
    BY <1>1 DEF Content!StageMedia, Content!Free
  <2>2. Served' /\ Content!ArchivesAreConsistent'
    BY <1>1 DEF Content!StageMedia, Content!Free
  <2>3. BackedUp'
    BY <1>1 DEF Content!StageMedia, Content!Free
  <2>4. Restored' /\ Flagged'
    BY <2>0
  <2> QED
    BY <2>1, <2>2, <2>3, <2>4
<1>2. CASE Content!RestoreStops
  BY <1>2 DEF Content!RestoreStops
<1>3. CASE Content!Load
  BY <1>3 DEF Content!Load
<1>4. CASE Content!SetAside
  <2>a. /\ restore.at = "set aside" /\ restore' = [restore EXCEPT !.at = "rename"]
        /\ databases' = [databases EXCEPT !.previous = databases.current, !.current = None]
        /\ UNCHANGED <<app, media, archives, backup>>
    BY <1>4, Zenon DEF Content!SetAside
  <2>b. /\ restore'.at = "rename" /\ restore'.stopped = restore.stopped
        /\ restore'.swapping = restore.swapping /\ restore'.swapped = restore.swapped
        /\ restore'.archive = restore.archive
    BY <2>a
  <2>c. databases'.previous = databases.current /\ databases'.restored = databases.restored
    BY <2>a
  <2>d. databases.current # None /\ databases.current = media.active
    <3>1. databases.current = media.active
      BY <2>a
    <3>2. media.active \in 0 .. MaxVersion \union {Mixed}
      OBVIOUS
    <3> QED
      BY <3>1, <3>2, NoneIsNoContent, Zenon
  <2>0. /\ restore.at = "set aside" /\ restore'.at = "rename"
        /\ UNCHANGED <<app, media, archives, backup>>
    BY <2>a, <2>b
  <2>1. Content!TypeOK'
    BY <1>4 DEF Content!SetAside
  <2>2. Served' /\ Content!ArchivesAreConsistent'
    BY <1>4 DEF Content!SetAside
  <2>3. BackedUp'
    BY <1>4 DEF Content!SetAside
  <2>4. Restored' /\ Flagged'
    BY <2>0, <2>b, <2>c, <2>d
  <2> QED
    BY <2>1, <2>2, <2>3, <2>4
<1>5. CASE Content!RenameRestored
  BY <1>5 DEF Content!RenameRestored
<1>6. CASE Content!ClearMedia
  BY <1>6 DEF Content!ClearMedia
<1>7. CASE Content!FillMedia
  BY <1>7 DEF Content!FillMedia
<1>8. CASE Content!RestoreStarts
  BY <1>8 DEF Content!RestoreStarts
<1>9. CASE Content!RestoreFails
  BY <1>9 DEF Content!RestoreFails, Content!AppComesBack
<1>10. CASE Content!RestoreKilled
  BY <1>10 DEF Content!RestoreKilled
<1> QED
  BY <1>1, <1>2, <1>3, <1>4, <1>5, <1>6, <1>7, <1>8, <1>9, <1>10

LEMMA ContentStep ==
  ASSUME ContentInv, ~Overlap, [Content!Next]_contentVars
  PROVE  ContentInv'
<1>1. CASE UNCHANGED contentVars
  <2>1. UNCHANGED <<app, databases, media, archives, backup, restore>>
    BY <1>1 DEF contentVars
  <2>2. Content!TypeOK'
    <3> USE DEF Content!Contents, Content!Archive
    <3>1. Content!TypeOK
      BY DEF ContentInv
    <3>2. (app \in {"running", "stopped"})' /\ (archives \subseteq Content!Archive)'
      BY <2>1, <3>1 DEF Content!TypeOK
    <3>3. databases' = databases /\ media' = media /\ backup' = backup /\ restore' = restore
      BY <2>1
    <3>4. (databases \in [current : 0 .. MaxVersion \union {None},
                         restored : 0 .. MaxVersion \union {None},
                         previous : 0 .. MaxVersion \union {None}])'
      BY <3>1, <3>3, Zenon DEF Content!TypeOK
    <3>5. (media \in [active : 0 .. MaxVersion \union {Mixed},
                     staged : 0 .. MaxVersion \union {None},
                     previous : 0 .. MaxVersion \union {None, Mixed}])'
      BY <3>1, <3>3, Zenon DEF Content!TypeOK
    <3>6. (backup \in [at : {"off", "stop", "dump", "copy", "start", "pack"},
                      stopped : BOOLEAN, db : 0 .. MaxVersion \union {None},
                      media : 0 .. MaxVersion \union {None}])'
      BY <3>1, <3>3, Zenon DEF Content!TypeOK
    <3>7. (restore \in [at : {"off", "stop", "load", "set aside", "rename", "clear", "fill", "start"},
                       stopped : BOOLEAN, swapping : BOOLEAN, swapped : BOOLEAN,
                       archive : Content!Archive \union {None}])'
      BY <3>1, <3>3, Zenon DEF Content!TypeOK
    <3> QED
      BY <3>2, <3>4, <3>5, <3>6, <3>7, Zenon DEF Content!TypeOK
  <2>5. Served'
    BY <2>1 DEF ContentInv, Served
  <2>4. Content!ArchivesAreConsistent'
    BY <2>1, Zenon DEF ContentInv, Content!ArchivesAreConsistent
  <2>3. BackedUp' /\ Restored' /\ Flagged'
    BY <2>1 DEF ContentInv, BackedUp, Restored, Flagged
  <2> QED
    BY <2>2, <2>3, <2>4, <2>5 DEF ContentInv
<1>2. CASE Content!AppWrites
  BY <1>2, AppWritesKept
<1>3. CASE \/ Content!BackupBegins \/ Content!BackupStops \/ Content!Dump \/ Content!Copy
           \/ Content!BackupStarts \/ Content!Pack \/ Content!BackupFails
           \/ Content!BackupKilled
  BY <1>3, BackupKept
<1>4. CASE \/ Content!StageMedia \/ Content!RestoreStops \/ Content!Load \/ Content!SetAside
           \/ Content!RenameRestored \/ Content!ClearMedia \/ Content!FillMedia
           \/ Content!RestoreStarts \/ Content!RestoreFails \/ Content!RestoreKilled
  BY <1>4, RestoreKept
<1> QED
  BY <1>1, <1>2, <1>3, <1>4 DEF Content!Next

LEMMA ContentHolds ==
  ContentInv => Content!TypeOK /\ Content!ServedTogether /\ Content!ArchivesAreConsistent
                  /\ Content!RollbackIsKept
BY DEF ContentInv, Served, Restored, Content!ServedTogether, Content!RollbackIsKept

(***************************************************************************)
(* The environment file.                                                   *)
(***************************************************************************)

Plain(lines) == \A i \in DOMAIN lines : lines[i].part \notin {"opens", "hidden"}

\* What is about to be written is the update of what was read, and the file
\* was not refused.
Drafted(w) ==
  LET c == command[w] IN
  c.at \in {"edited", "writing", "written"} =>
    /\ w # "database" /\ c.value \in Values
    /\ ~Environment!Refuses(w, Environment!Lines(c.read))
    /\ c.draft = Environment!Update(w, Environment!Lines(c.read), c.value)

EnvironmentInv ==
  /\ Environment!TypeOK /\ Environment!NeverTorn
  /\ \A w \in Environment!Writers :
       /\ command[w].at = "read" /\ w # "database" => command[w].value \in Values
       /\ Drafted(w)

LEMMA NatOrder == IsWellFoundedOn({p \in Nat \X Nat : p[1] < p[2]}, Nat)
BY NatLessThanWellFounded DEF OpToRel

LEMMA LeastNatural ==
  ASSUME NEW T, T \subseteq Nat, T # {}
  PROVE  \E x \in T : \A y \in T : x <= y
<1> DEFINE R == {p \in Nat \X Nat : p[1] < p[2]}
<1>0. IsWellFoundedOn(R, Nat)
  BY NatOrder
<1> HIDE DEF R
<1>1. PICK x \in T : \A y \in T : <<y, x>> \notin R
  BY WFMin, <1>0
<1>2. \A y \in T : x <= y
  <2> SUFFICES ASSUME NEW y \in T, y < x PROVE FALSE
    OBVIOUS
  <2>1. <<y, x>> \in Nat \X Nat /\ <<y, x>>[1] = y /\ <<y, x>>[2] = x
    OBVIOUS
  <2>2. <<y, x>> \in R
    BY <2>1, Zenon DEF R
  <2> QED
    BY <2>2, <1>1
<1> QED
  BY <1>2

\* Where nothing opens a quoted value, nothing is inside one.
LEMMA NothingInside ==
  ASSUME NEW lines \in Seq(Environment!EnvLine), Plain(lines)
  PROVE  \A i \in 0 .. Len(lines) : ~Environment!Inside(lines)[i]
<1> DEFINE Body(f) ==
      [i \in 0 .. Len(lines) |->
         i > 0 /\ IF f[i - 1] THEN lines[i].part # "ends"
                    ELSE lines[i].part \in {"opens", "hidden"}]
    inside == Environment!Inside(lines)
    open == {i \in 0 .. Len(lines) : inside[i]}
<1>1. inside = CHOOSE f : f = Body(f)
  BY Zenon DEF Environment!Inside
<1>2. Len(lines) \in Nat /\ \A i \in 0 .. Len(lines) : i > 0 => lines[i].part \notin {"opens", "hidden"}
  BY LenProperties DEF Plain
<1>3. [i \in 0 .. Len(lines) |-> FALSE] = Body([i \in 0 .. Len(lines) |-> FALSE])
  BY <1>2
<1> HIDE DEF inside
<1>4. inside = Body(inside)
  <2> HIDE DEF Body
  <2> QED
    BY <1>1, <1>3, Zenon
<1>5. \A i \in 0 .. Len(lines) :
        inside[i] <=> (i > 0 /\ IF inside[i - 1] THEN lines[i].part # "ends"
                                ELSE lines[i].part \in {"opens", "hidden"})
  BY <1>4, Zenon
<1>6. open = {}
  <2> SUFFICES ASSUME open # {} PROVE FALSE
    OBVIOUS
  <2>1. open \subseteq Nat
    BY <1>2
  <2>2. PICK i \in open : \A j \in open : i <= j
    <3> HIDE DEF open
    <3> QED BY <2>1, LeastNatural
  <2>3. i \in 0 .. Len(lines) /\ inside[i] /\ i > 0
    BY <1>5, <2>2
  <2>4. i - 1 \in 0 .. Len(lines) /\ ~(i <= i - 1)
    BY <1>2, <2>3
  <2>5. ~inside[i - 1]
    BY <2>2, <2>4
  <2> QED
    BY <1>2, <1>5, <2>3, <2>5
<1> QED
  BY <1>6 DEF inside

\* Every entry of such a file is a line.
LEMMA EntriesAreLines ==
  ASSUME NEW lines \in Seq(Environment!EnvLine), Plain(lines)
  PROVE  /\ Environment!Starts(lines) = {i \in DOMAIN lines : lines[i].name # None}
         /\ \A i \in DOMAIN lines :
              Environment!EntryAt(lines, i) = [name |-> lines[i].name, text |-> <<lines[i]>>]
<1>1. \A i \in 0 .. Len(lines) : ~Environment!Inside(lines)[i]
  BY NothingInside
<1>2. Len(lines) \in Nat /\ DOMAIN lines = 1 .. Len(lines)
  BY LenProperties
<1>3. Environment!Starts(lines) = {i \in DOMAIN lines : lines[i].name # None}
  BY <1>1, <1>2 DEF Environment!Starts
<1>4. ASSUME NEW i \in DOMAIN lines
      PROVE  Environment!EntryAt(lines, i) = [name |-> lines[i].name, text |-> <<lines[i]>>]
  <2> DEFINE ends == {j \in i .. Len(lines) : ~Environment!Inside(lines)[j]}
             last == IF ends = {} THEN Len(lines)
                     ELSE CHOOSE j \in ends : \A k \in ends : j <= k
  <2>1. ends = i .. Len(lines) /\ i \in ends
    BY <1>1, <1>2
  <2>2. last = i
    BY <1>2, <2>1
  <2>3. SubSeq(lines, i, i) = <<lines[i]>>
    <3>1. i \in 1 .. Len(lines) + 1 /\ i \in 0 .. Len(lines) /\ lines \in Seq(Environment!EnvLine)
      BY <1>2
    <3>2. /\ SubSeq(lines, i, i) \in Seq(Environment!EnvLine)
          /\ Len(SubSeq(lines, i, i)) = 1 /\ SubSeq(lines, i, i)[1] = lines[i]
      BY <1>2, <3>1, SubSeqProperties
    <3>3. <<lines[i]>> \in Seq(Environment!EnvLine) /\ Len(<<lines[i]>>) = 1
      BY <1>2
    <3>4. <<lines[i]>>[1] = lines[i]
      OBVIOUS
    <3> DEFINE one == SubSeq(lines, i, i)
    <3>5. \A j \in 1 .. Len(one) : one[j] = <<lines[i]>>[j]
      BY <3>2, <3>4
    <3>6. one \in Seq(Environment!EnvLine) /\ Len(one) = Len(<<lines[i]>>)
      BY <3>2, <3>3
    <3> HIDE DEF one
    <3>7. one = <<lines[i]>>
      BY <3>3, <3>5, <3>6, SeqEqual
    <3> QED
      BY <3>7 DEF one
  <2>4. Environment!EntryAt(lines, i) = [name |-> lines[i].name, text |-> SubSeq(lines, i, last)]
    BY Zenon DEF Environment!EntryAt
  <2> QED
    BY <2>2, <2>3, <2>4, Zenon
<1> QED
  BY <1>3, <1>4

\* The entries of such a file, by the lines in it.
Entry(l) == [name |-> l.name, text |-> <<l>>]

LEMMA EntriesOfLines ==
  ASSUME NEW lines \in Seq(Environment!EnvLine), Plain(lines)
  PROVE  Environment!EntriesOf(lines)
           = {Entry(l) : l \in {m \in Range(lines) : m.name # None}}
<1>1. /\ Environment!Starts(lines) = {i \in DOMAIN lines : lines[i].name # None}
      /\ \A i \in DOMAIN lines : Environment!EntryAt(lines, i) = Entry(lines[i])
  BY EntriesAreLines DEF Entry
<1>2. Environment!EntriesOf(lines)
        = {Environment!EntryAt(lines, i) : i \in Environment!Starts(lines)}
  BY Zenon DEF Environment!EntriesOf
<1>3. ASSUME NEW e \in Environment!EntriesOf(lines)
      PROVE  \E l \in Range(lines) : l.name # None /\ e = Entry(l)
  <2>1. PICK i \in DOMAIN lines :
          lines[i].name # None /\ e = Environment!EntryAt(lines, i)
    BY <1>1, <1>2, <1>3, Zenon
  <2> QED
    BY <1>1, <2>1, Zenon DEF Range
<1>4. ASSUME NEW l \in Range(lines), l.name # None
      PROVE  Entry(l) \in Environment!EntriesOf(lines)
  <2>1. PICK i \in DOMAIN lines : l = lines[i]
    BY Zenon DEF Range
  <2> QED
    BY <1>1, <1>2, <1>4, <2>1, Zenon
<1> QED
  BY <1>3, <1>4, Zenon

\* What an update appends: the managed entries that no line has.
Added(w, lines, v) ==
  {Environment!Line(n, v, "whole") :
     n \in {m \in Environment!Managed(w) : \A i \in DOMAIN lines : lines[i].name # m}}

LEMMA ManagedAreNames ==
  /\ "CADDY_SITE" \in Names /\ "BETTER_AUTH_URL" \in Names /\ "SITE_URL" \in Names
  /\ "SITE_EDITION" \in Names /\ "DATABASE_URL" \in Names
  /\ Environment!Managed("site") = {"CADDY_SITE", "BETTER_AUTH_URL", "SITE_URL"}
  /\ Environment!Managed("edition") = {"SITE_EDITION"}
BY ScriptAssumption DEF Environment!Managed

LEMMA LineTyped ==
  ASSUME NEW n \in Names, NEW v \in Values
  PROVE  /\ Environment!Line(n, v, "whole") \in Environment!EnvLine
         /\ Environment!Line(n, v, "whole").name = n
         /\ Environment!Line(n, v, "whole").value = v
         /\ Environment!Line(n, v, "whole").part = "whole"
BY DEF Environment!Line, Environment!EnvLine

LEMMA IfMissingRange ==
  ASSUME NEW n \in Names, NEW v \in Values, NEW lines \in Seq(Environment!EnvLine)
  PROVE  /\ Environment!IfMissing(n, lines, v) \in Seq(Environment!EnvLine)
         /\ Range(Environment!IfMissing(n, lines, v))
              = {Environment!Line(m, v, "whole") :
                   m \in {k \in {n} : \A i \in DOMAIN lines : lines[i].name # k}}
<1> DEFINE line == Environment!Line(n, v, "whole")
<1>1. line \in Environment!EnvLine
  BY LineTyped
<1>2. CASE \E i \in DOMAIN lines : lines[i].name = n
  <2>1. Environment!IfMissing(n, lines, v) = <<>>
    BY <1>2, Zenon DEF Environment!IfMissing
  <2>2. Range(<<>>) = {} /\ <<>> \in Seq(Environment!EnvLine)
    BY DEF Range
  <2> QED
    BY <1>2, <2>1, <2>2, Zenon
<1>3. CASE \A i \in DOMAIN lines : lines[i].name # n
  <2>1. Environment!IfMissing(n, lines, v) = <<line>>
    BY <1>3, Zenon DEF Environment!IfMissing
  <2> HIDE DEF line
  <2>2. Range(<<line>>) = {line} /\ <<line>> \in Seq(Environment!EnvLine)
    BY <1>1 DEF Range
  <2> QED
    BY <1>3, <2>1, <2>2, Zenon DEF line
<1> QED
  BY <1>2, <1>3, Zenon

LEMMA MissingRange ==
  ASSUME NEW w \in {"site", "edition"}, NEW v \in Values,
         NEW lines \in Seq(Environment!EnvLine)
  PROVE  /\ Environment!Missing(w, lines, v) \in Seq(Environment!EnvLine)
         /\ Range(Environment!Missing(w, lines, v)) = Added(w, lines, v)
<1> DEFINE new(n) == Environment!IfMissing(n, lines, v)
           absent(n) == {Environment!Line(m, v, "whole") :
                           m \in {k \in {n} : \A i \in DOMAIN lines : lines[i].name # k}}
<1>0. \A n \in Names : new(n) \in Seq(Environment!EnvLine) /\ Range(new(n)) = absent(n)
  BY IfMissingRange
<1>1. CASE w = "site"
  <2> DEFINE caddy == new("CADDY_SITE")
             auth == new("BETTER_AUTH_URL")
             site == new("SITE_URL")
  <2>1. /\ caddy \in Seq(Environment!EnvLine) /\ auth \in Seq(Environment!EnvLine)
        /\ site \in Seq(Environment!EnvLine)
    BY <1>0, ManagedAreNames, Zenon
  <2>2. Environment!Missing(w, lines, v) = caddy \o auth \o site
    BY <1>1 DEF Environment!Missing
  <2>3. /\ Range(caddy) = absent("CADDY_SITE") /\ Range(auth) = absent("BETTER_AUTH_URL")
        /\ Range(site) = absent("SITE_URL")
    BY <1>0, ManagedAreNames, Zenon
  <2> HIDE DEF caddy, auth, site
  <2>6. /\ caddy \o auth \in Seq(Environment!EnvLine)
        /\ Range(caddy \o auth) = Range(caddy) \union Range(auth)
    BY <2>1, ConcatProperties, RangeConcatenation
  <2>7. /\ (caddy \o auth) \o site \in Seq(Environment!EnvLine)
        /\ Range((caddy \o auth) \o site) = Range(caddy \o auth) \union Range(site)
    <3> DEFINE first == caddy \o auth
    <3>1. first \in Seq(Environment!EnvLine)
      BY <2>6
    <3> HIDE DEF first
    <3>2. /\ first \o site \in Seq(Environment!EnvLine)
          /\ Range(first \o site) = Range(first) \union Range(site)
      BY <2>1, <3>1, ConcatProperties, RangeConcatenation
    <3> QED
      BY <3>2 DEF first
  <2>8. Environment!Managed(w) = {"CADDY_SITE"} \union {"BETTER_AUTH_URL"} \union {"SITE_URL"}
    BY <1>1, ManagedAreNames
  <2>9. Added(w, lines, v) = Range(caddy) \union Range(auth) \union Range(site)
    BY <2>3, <2>8, Zenon DEF Added
  <2> QED
    BY <2>2, <2>6, <2>7, <2>9
<1>2. CASE w = "edition"
  <2>1. Environment!Missing(w, lines, v) = new("SITE_EDITION")
    BY <1>2 DEF Environment!Missing
  <2>2. Environment!Managed(w) = {"SITE_EDITION"}
    BY <1>2, ManagedAreNames
  <2> QED
    BY <1>0, <2>1, <2>2, ManagedAreNames, Zenon DEF Added
<1> QED
  BY <1>1, <1>2

\* An update replaces lines and appends some; all are lines again.
LEMMA UpdateRange ==
  ASSUME NEW w \in {"site", "edition"}, NEW v \in Values,
         NEW lines \in Seq(Environment!EnvLine)
  PROVE  /\ Environment!Update(w, lines, v) \in Seq(Environment!EnvLine)
         /\ Range(Environment!Update(w, lines, v))
              = {Environment!Replace(w, l, v) : l \in Range(lines)} \union Added(w, lines, v)
<1> DEFINE kept == [i \in DOMAIN lines |-> Environment!Replace(w, lines[i], v)]
           more == Environment!Missing(w, lines, v)
<1>1. Environment!Managed(w) \subseteq Names
  BY ManagedAreNames, Zenon
<1>2. \A l \in Environment!EnvLine : Environment!Replace(w, l, v) \in Environment!EnvLine
  BY <1>1, LineTyped DEF Environment!Replace
<1>3. Len(lines) \in Nat /\ DOMAIN lines = 1 .. Len(lines)
      /\ \A i \in DOMAIN lines : lines[i] \in Environment!EnvLine
  BY LenProperties
<1>4. kept \in [1 .. Len(lines) -> Environment!EnvLine]
  BY <1>2, <1>3
<1>5. kept \in Seq(Environment!EnvLine)
  BY <1>3, <1>4, SeqDef
<1>6. Range(kept) = {Environment!Replace(w, l, v) : l \in Range(lines)}
  BY Zenon DEF Range
<1>7. more \in Seq(Environment!EnvLine) /\ Range(more) = Added(w, lines, v)
  BY MissingRange
<1>8. Environment!Update(w, lines, v) = kept \o more
  BY DEF Environment!Update
<1> HIDE DEF kept, more
<1>9. kept \o more \in Seq(Environment!EnvLine)
      /\ Range(kept \o more) = Range(kept) \union Range(more)
  BY <1>5, <1>7, ConcatProperties, RangeConcatenation
<1> QED
  BY <1>6, <1>7, <1>8, <1>9

LEMMA PlainByRange ==
  ASSUME NEW lines \in Seq(Environment!EnvLine)
  PROVE  Plain(lines) <=> \A l \in Range(lines) : l.part \notin {"opens", "hidden"}
BY DEF Plain, Range

\* A file that site-configure does not refuse and in which no value is hidden
\* from it: only its own entries change.
LEMMA SiteUpdates ==
  ASSUME NEW lines \in Seq(Environment!EnvLine), NEW v \in Values,
         ~Environment!Refuses("site", lines), ~Environment!Hidden(lines)
  PROVE  LET new == Environment!Update("site", lines, v)
             own == Environment!Managed("site")
         IN /\ Environment!Others(own, new) = Environment!Others(own, lines)
            /\ \A n \in own : {e \in Environment!EntriesOf(new) : e.name = n} # {}
            /\ \A e \in Environment!EntriesOf(new) :
                 e.name \in own => e.text[1].value = v
<1> DEFINE new == Environment!Update("site", lines, v)
           own == Environment!Managed("site")
           replaced == {Environment!Replace("site", l, v) : l \in Range(lines)}
<1>1. /\ new \in Seq(Environment!EnvLine)
      /\ Range(new) = replaced \union Added("site", lines, v)
  BY UpdateRange
<1>2. /\ None \notin own /\ own \subseteq Names
  BY ManagedAreNames, ScriptAssumption
<1>3. Range(lines) \subseteq Environment!EnvLine
  BY RangeOfSeq
<1>4. Plain(lines)
  <2>1. \A i \in DOMAIN lines : lines[i] \in Environment!EnvLine
    BY LenProperties
  <2> QED
    BY <2>1 DEF Plain, Environment!Refuses, Environment!Hidden, Environment!EnvLine
<1>5. \A l \in Range(lines) : l.part \notin {"opens", "hidden"}
  BY <1>4, PlainByRange
<1>6. \A l \in Range(lines) : l.name \notin own => Environment!Replace("site", l, v) = l
  BY Zenon DEF Environment!Replace
<1>7. \A l \in Range(lines) : l.name \in own =>
        Environment!Replace("site", l, v) = Environment!Line(l.name, v, "whole")
  BY Zenon DEF Environment!Replace
<1>8. \A n \in own : LET l == Environment!Line(n, v, "whole") IN
        l.name = n /\ l.value = v /\ l.part = "whole"
  BY <1>2, LineTyped
<1>9. \A l \in Added("site", lines, v) : \E n \in own : l = Environment!Line(n, v, "whole")
  BY Zenon DEF Added
<1>10. \A l \in Range(new) :
         \/ l \in Range(lines) /\ l.name \notin own
         \/ l.name \in own /\ l.value = v /\ l.part = "whole"
  <2> SUFFICES ASSUME NEW l \in Range(new)
               PROVE  \/ l \in Range(lines) /\ l.name \notin own
                      \/ l.name \in own /\ l.value = v /\ l.part = "whole"
    OBVIOUS
  <2>1. CASE l \in Added("site", lines, v)
    BY <1>8, <1>9, <2>1, Zenon
  <2>2. CASE l \in replaced
    <3>1. PICK m \in Range(lines) : l = Environment!Replace("site", m, v)
      BY <2>2, Zenon
    <3>2. CASE m.name \in own
      BY <1>7, <1>8, <3>1, <3>2
    <3>3. CASE m.name \notin own
      BY <1>6, <3>1, <3>3, Zenon
    <3> QED
      BY <3>2, <3>3
  <2> QED
    BY <1>1, <2>1, <2>2, Zenon
<1>11. \A l \in Range(lines) : l.name \notin own => l \in Range(new)
  BY <1>1, <1>6, Zenon
<1>12. \A n \in own : \E l \in Range(new) : l.name = n
  <2> SUFFICES ASSUME NEW n \in own PROVE \E l \in Range(new) : l.name = n
    OBVIOUS
  <2>1. CASE \E i \in DOMAIN lines : lines[i].name = n
    <3>1. PICK m \in Range(lines) : m.name = n
      BY <2>1, Zenon DEF Range
    <3>2. Environment!Replace("site", m, v) \in Range(new)
      BY <1>1, Zenon
    <3> QED
      BY <1>7, <1>8, <3>1, <3>2, Zenon
  <2>2. CASE \A i \in DOMAIN lines : lines[i].name # n
    <3>1. Environment!Line(n, v, "whole") \in Range(new)
      BY <1>1, <2>2, Zenon DEF Added
    <3> QED
      BY <1>8, <3>1, Zenon
  <2> QED
    BY <2>1, <2>2, Zenon
<1>13. \A l \in Range(new) : l.part \notin {"opens", "hidden"}
  BY <1>5, <1>10
<1> HIDE DEF new
<1>14. Plain(new)
  BY <1>1, <1>13, PlainByRange
<1>15. /\ Environment!EntriesOf(lines) = {Entry(l) : l \in {m \in Range(lines) : m.name # None}}
       /\ Environment!EntriesOf(new) = {Entry(l) : l \in {m \in Range(new) : m.name # None}}
  BY <1>1, <1>4, <1>14, EntriesOfLines
<1>16. \A l : Entry(l).name = l.name /\ Entry(l).text[1] = l
  BY DEF Entry
<1> HIDE DEF own
<1>17. \A e : e \in Environment!Others(own, new) <=> e \in Environment!Others(own, lines)
  <2> SUFFICES ASSUME NEW e
               PROVE  e \in Environment!Others(own, new)
                        <=> e \in Environment!Others(own, lines)
    OBVIOUS
  <2>1. e \in Environment!Others(own, new)
          <=> \E l \in Range(new) : l.name # None /\ e = Entry(l) /\ l.name \notin own
    BY <1>15, <1>16, Zenon DEF Environment!Others
  <2>2. e \in Environment!Others(own, lines)
          <=> \E l \in Range(lines) : l.name # None /\ e = Entry(l) /\ l.name \notin own
    BY <1>15, <1>16, Zenon DEF Environment!Others
  <2> QED
    BY <1>10, <1>11, <2>1, <2>2, Zenon
<1>18. Environment!Others(own, new) = Environment!Others(own, lines)
  BY <1>17, Zenon DEF Environment!Others
<1>19. \A n \in own : {e \in Environment!EntriesOf(new) : e.name = n} # {}
  <2> SUFFICES ASSUME NEW n \in own
               PROVE  \E e \in Environment!EntriesOf(new) : e.name = n
    OBVIOUS
  <2>1. PICK l \in Range(new) : l.name = n
    BY <1>12
  <2>2. Entry(l) \in Environment!EntriesOf(new)
    BY <1>2, <1>15, <2>1, Zenon DEF own
  <2> QED
    BY <1>16, <2>1, <2>2, Zenon
<1>20. \A e \in Environment!EntriesOf(new) : e.name \in own => e.text[1].value = v
  <2> SUFFICES ASSUME NEW e \in Environment!EntriesOf(new), e.name \in own
               PROVE  e.text[1].value = v
    OBVIOUS
  <2>1. PICK l \in Range(new) : e = Entry(l)
    BY <1>15, Zenon
  <2>2. e.name = l.name /\ e.text[1] = l
    BY <1>16, <2>1, Zenon
  <2> QED
    BY <1>10, <2>2
<1> QED
  BY <1>18, <1>19, <1>20 DEF new, own

Command ==
  [at : {"idle", "read", "edited", "writing", "written"}, read : Seq(Environment!EnvLine) \union {None},
   value : Values \union {None}, draft : Seq(Environment!EnvLine)]

\* A command goes on as c, the others stay.
LEMMA CommandGoesOn ==
  ASSUME EnvironmentInv, NEW w \in Environment!Writers, NEW c \in Command,
         Environment!Become(w, c),
         file' \in Seq(Environment!EnvLine) \union {None},
         c.at = "read" /\ w # "database" => c.value \in Values,
         c.at \in {"edited", "writing", "written"} =>
           /\ w # "database" /\ c.value \in Values
           /\ ~Environment!Refuses(w, Environment!Lines(c.read))
           /\ c.draft = Environment!Update(w, Environment!Lines(c.read), c.value)
  PROVE  EnvironmentInv'
<1>1. /\ command' \in [Environment!Writers -> Command] /\ command'[w] = c
      /\ \A x \in Environment!Writers : x # w => command'[x] = command[x]
  BY DEF EnvironmentInv, Environment!TypeOK, Environment!Become, Command
<1>2. Environment!TypeOK' /\ Environment!NeverTorn'
  <2>1. file' # Partial
    BY ScriptAssumption
  <2> QED
    BY <1>1, <2>1 DEF Environment!TypeOK, Environment!NeverTorn, Command
<1>3. ASSUME NEW x \in Environment!Writers
      PROVE  /\ command'[x].at = "read" /\ x # "database" => command'[x].value \in Values
             /\ Drafted(x)'
  <2>1. CASE x = w
    BY <1>1, <2>1 DEF Drafted
  <2>2. CASE x # w
    <3>1. command'[x] = command[x]
      BY <1>1, <2>2
    <3>2. /\ command[x].at = "read" /\ x # "database" => command[x].value \in Values
          /\ Drafted(x)
      BY DEF EnvironmentInv
    <3> QED
      BY <3>1, <3>2 DEF Drafted
  <2> QED
    BY <2>1, <2>2
<1> QED
  BY <1>2, <1>3 DEF EnvironmentInv

LEMMA IdleCommand ==
  Environment!Idle \in Command /\ Environment!Idle.at = "idle"
    /\ Environment!Idle.draft = <<>>
BY DEF Environment!Idle, Command

LEMMA EnvironmentBegins == Environment!Init => EnvironmentInv
<1> SUFFICES ASSUME Environment!Init PROVE EnvironmentInv
  OBVIOUS
<1>1. /\ file \in Seq(Environment!EnvLine) \union {None} /\ file # Partial
      /\ command \in [Environment!Writers -> Command]
      /\ \A w \in Environment!Writers : command[w].at = "idle"
  BY IdleCommand, ScriptAssumption DEF Environment!Init
<1> QED
  BY <1>1 DEF EnvironmentInv, Environment!TypeOK, Environment!NeverTorn, Drafted, Command

\* What is edited is the update of what was read.
LEMMA EditKept ==
  ASSUME EnvironmentInv, NEW w \in Environment!Writers, Environment!Edit(w)
  PROVE  EnvironmentInv'
<1> DEFINE c == command[w]
           lines == Environment!Lines(c.read)
           draft == Environment!Update(w, lines, c.value)
           edited == [c EXCEPT !.at = "edited", !.draft = draft]
<1>1. /\ c \in Command /\ c.at = "read" /\ w # "database" /\ c.value \in Values
      /\ file' = file /\ file \in Seq(Environment!EnvLine) \union {None}
  BY DEF EnvironmentInv, Environment!TypeOK, Environment!Edit, Command, Environment!NeverTorn
<1>2. \/ Environment!Become(w, Environment!Idle)
      \/ ~Environment!Refuses(w, lines) /\ Environment!Become(w, edited)
  BY Zenon DEF Environment!Edit
<1>3. lines \in Seq(Environment!EnvLine) /\ w \in {"site", "edition"}
  <2>1. c.read \in Seq(Environment!EnvLine) \union {None} /\ <<>> \in Seq(Environment!EnvLine)
    BY <1>1 DEF Command
  <2> QED
    BY <1>1, <2>1 DEF Environment!Lines, Environment!Writers
<1>4. draft \in Seq(Environment!EnvLine)
  BY <1>1, <1>3, UpdateRange
<1>5. CASE Environment!Become(w, Environment!Idle)
  BY <1>1, <1>5, IdleCommand, CommandGoesOn
<1>6. CASE ~Environment!Refuses(w, lines) /\ Environment!Become(w, edited)
  <2> HIDE DEF lines, draft
  <2>1. /\ edited \in Command /\ edited.at = "edited" /\ edited.value = c.value
        /\ edited.read = c.read /\ edited.draft = draft
    BY <1>1, <1>4 DEF Command
  <2>2. Environment!Become(w, edited)
    BY <1>6
  <2> HIDE DEF edited
  <2>3. /\ ~Environment!Refuses(w, Environment!Lines(edited.read))
        /\ edited.draft = Environment!Update(w, Environment!Lines(edited.read), edited.value)
    BY <1>6, <2>1, Zenon DEF lines, draft
  <2> QED
    BY <1>1, <2>1, <2>2, <2>3, CommandGoesOn
<1> QED
  BY <1>2, <1>5, <1>6

\* Writing and syncing the temporary file change nothing that is drafted.
LEMMA WriteKept ==
  ASSUME EnvironmentInv, NEW w \in Environment!Writers,
         Environment!Write(w) \/ Environment!Synced(w)
  PROVE  EnvironmentInv'
<1> DEFINE c == command[w]
<1>1. PICK how \in {"writing", "written"} :
        /\ c.at \in {"edited", "writing"} /\ file' = file
        /\ Environment!Become(w, [c EXCEPT !.at = how])
  BY DEF Environment!Write, Environment!Synced
<1> DEFINE written == [c EXCEPT !.at = how]
<1>2. /\ c \in Command /\ Drafted(w) /\ file \in Seq(Environment!EnvLine) \union {None}
  BY DEF EnvironmentInv, Environment!TypeOK, Command, Environment!NeverTorn
<1>3. /\ written \in Command /\ written.at = how /\ written.value = c.value
      /\ written.read = c.read /\ written.draft = c.draft
  BY <1>2 DEF Command
<1>4. /\ w # "database" /\ c.value \in Values
      /\ ~Environment!Refuses(w, Environment!Lines(c.read))
      /\ c.draft = Environment!Update(w, Environment!Lines(c.read), c.value)
  BY <1>1, <1>2 DEF Drafted
<1>5. Environment!Become(w, written)
  BY <1>1
<1> HIDE DEF written
<1>6. /\ ~Environment!Refuses(w, Environment!Lines(written.read))
      /\ written.draft = Environment!Update(w, Environment!Lines(written.read), written.value)
  BY <1>3, <1>4, Zenon
<1>7. file' \in Seq(Environment!EnvLine) \union {None} /\ written.at # "read"
  BY <1>1, <1>2, <1>3
<1>8. w # "database" /\ written.value \in Values
  BY <1>3, <1>4
<1> QED
  BY <1>3, <1>5, <1>6, <1>7, <1>8, CommandGoesOn

LEMMA EnvironmentStep ==
  EnvironmentInv /\ [Environment!Next]_fileVars => EnvironmentInv'
<1> SUFFICES ASSUME EnvironmentInv, [Environment!Next]_fileVars PROVE EnvironmentInv'
  OBVIOUS
<1>0. file \in Seq(Environment!EnvLine) \union {None} /\ file # Partial
      /\ \A w \in Environment!Writers : command[w] \in Command
  BY DEF EnvironmentInv, Environment!TypeOK, Environment!NeverTorn, Command
<1>1. CASE UNCHANGED fileVars
  <2>1. file' = file /\ command' = command
    BY <1>1 DEF fileVars
  <2>2. Environment!TypeOK' /\ Environment!NeverTorn'
    BY <2>1 DEF EnvironmentInv, Environment!TypeOK, Environment!NeverTorn
  <2> QED
    BY <2>1, <2>2 DEF EnvironmentInv, Drafted
<1>2. ASSUME NEW w \in Environment!Writers,
             Environment!Read(w) \/ Environment!Rename(w) \/ Environment!Die(w)
      PROVE  EnvironmentInv'
  <2>1. CASE Environment!Read(w)
    <3>1. PICK v \in NewValues :
            Environment!Become(w, [at |-> "read", read |-> file, value |-> v, draft |-> <<>>])
      BY <2>1, Zenon DEF Environment!Read
    <3> DEFINE c == [at |-> "read", read |-> file, value |-> v, draft |-> <<>>]
    <3>2. c \in Command /\ c.at = "read" /\ c.value \in Values
      BY <1>0, ScriptAssumption DEF Command
    <3>3. Environment!Become(w, c) /\ file' = file
      BY <2>1, <3>1 DEF Environment!Read
    <3> HIDE DEF c
    <3> QED
      BY <1>0, <3>2, <3>3, CommandGoesOn
  <2>2. CASE Environment!Rename(w)
    <3>1. /\ command[w].draft \in Seq(Environment!EnvLine) /\ file' = command[w].draft
          /\ Environment!Become(w, Environment!Idle)
      BY <1>0, <2>2 DEF Environment!Rename, Environment!DoneWriting, Environment!Temporary,
                        Command
    <3> QED
      BY <3>1, IdleCommand, CommandGoesOn
  <2>3. CASE Environment!Die(w)
    BY <1>0, <2>3, IdleCommand, CommandGoesOn DEF Environment!Die
  <2> QED
    BY <1>2, <2>1, <2>2, <2>3
<1>3. CASE Environment!LoadCredentials
  <2> DEFINE idle == Environment!Idle
             c == [idle EXCEPT !.at = "read", !.read = file]
  <2>2. Environment!Become("database", c) /\ file' = file
    BY <1>3, Zenon DEF Environment!LoadCredentials
  <2> HIDE DEF idle
  <2>1. c \in Command /\ c.at = "read"
    <3>1. idle \in Command
      BY IdleCommand DEF idle
    <3> QED
      BY <1>0, <3>1 DEF Command
  <2>3. "database" \in Environment!Writers
    BY DEF Environment!Writers
  <2> HIDE DEF c
  <2> QED
    BY <1>0, <2>1, <2>2, <2>3, CommandGoesOn
<1>4. CASE Environment!AppendEntry
  <2>1. PICK v \in NewValues :
          file' = Append(Environment!Lines(file), Environment!Line("DATABASE_URL", v, "whole"))
    BY <1>4, Zenon DEF Environment!AppendEntry
  <2>2. Environment!Line("DATABASE_URL", v, "whole") \in Environment!EnvLine
    BY LineTyped, ManagedAreNames, ScriptAssumption
  <2>3. Environment!Lines(file) \in Seq(Environment!EnvLine)
    BY <1>0 DEF Environment!Lines
  <2>4. file' \in Seq(Environment!EnvLine)
    BY <2>1, <2>2, <2>3, AppendProperties
  <2>5. "database" \in Environment!Writers /\ Environment!Become("database", Environment!Idle)
    BY <1>4 DEF Environment!AppendEntry, Environment!Writers
  <2> QED
    BY <2>4, <2>5, IdleCommand, CommandGoesOn
<1> QED
  BY <1>1, <1>2, <1>3, <1>4, EditKept, WriteKept DEF Environment!Next

\* The rename of a drafted file does what the update does.
LEMMA RenameChangesOnlyItself ==
  ASSUME EnvironmentInv, Environment!Rename("site"),
         ~Environment!Hidden(Environment!Lines(command["site"].read))
  PROVE  LET c == command["site"]
             own == Environment!Managed("site")
         IN /\ Environment!Others(own, file') = Environment!Others(own, Environment!Lines(c.read))
            /\ \A n \in own : {e \in Environment!EntriesOf(file') : e.name = n} # {}
            /\ \A e \in Environment!EntriesOf(file') :
                 e.name \in own => e.text[1].value = c.value
<1> DEFINE c == command["site"]
           lines == Environment!Lines(c.read)
<1>1. "site" \in Environment!Writers /\ c.at = "written" /\ file' = c.draft
  BY DEF Environment!Writers, Environment!Rename, Environment!DoneWriting,
         Environment!Temporary
<1>2. /\ ~Environment!Refuses("site", lines) /\ c.value \in Values
      /\ file' = Environment!Update("site", lines, c.value)
  BY <1>1 DEF EnvironmentInv, Drafted
<1>3. lines \in Seq(Environment!EnvLine)
  BY <1>1 DEF EnvironmentInv, Environment!TypeOK, Environment!Lines
<1> HIDE DEF lines
<1> QED
  BY <1>2, <1>3, SiteUpdates DEF lines

(***************************************************************************)
(* All of them.                                                            *)
(***************************************************************************)

LEMMA PartsBegin == OperationsInit => DevelopmentInv /\ EnvironmentInv /\ ContentInv
BY DevelopmentBegins, EnvironmentBegins, ContentBegins DEF OperationsInit

LEMMA PartsStep ==
  [OperationsNext]_operationVars =>
    /\ [Development!Next]_lifecycleVars /\ [Environment!Next]_fileVars
    /\ [Content!Next]_contentVars
BY DEF OperationsNext, operationVars, Developing

LEMMA CommandsInvariant == OperationsSpec => [](DevelopmentInv /\ EnvironmentInv)
<1>1. OperationsInit => DevelopmentInv /\ EnvironmentInv
  BY PartsBegin
<1>2. DevelopmentInv /\ EnvironmentInv /\ [OperationsNext]_operationVars
        => DevelopmentInv' /\ EnvironmentInv'
  BY PartsStep, DevelopmentStep, EnvironmentStep
<1> QED
  BY <1>1, <1>2, PTL DEF OperationsSpec

LEMMA ContentInvariant ==
  ASSUME ~Overlap
  PROVE  OperationsSpec => []ContentInv
<1>1. OperationsInit => ContentInv
  BY PartsBegin
<1>2. ContentInv /\ [OperationsNext]_operationVars => ContentInv'
  BY PartsStep, ContentStep
<1> QED
  BY <1>1, <1>2, PTL DEF OperationsSpec

\* Services, files, stores and scripts stay well formed, if backup and restore
\* are run one after the other.
THEOREM OperationsTyped ==
  ASSUME ~Overlap
  PROVE  OperationsSpec => []OperationsTypeOK
<1>1. DevelopmentInv /\ EnvironmentInv /\ ContentInv => OperationsTypeOK
  BY DEF DevelopmentInv, EnvironmentInv, ContentInv, OperationsTypeOK
<1> QED
  BY <1>1, CommandsInvariant, ContentInvariant, PTL

\* Whenever signals come and processes end, "pnpm dev" has told what it started
\* to stop before it is gone (dev.ts:241-304, 399-459).
THEOREM NothingStaysRunning == OperationsSpec => []Development!StartedIsStopped
<1>1. DevelopmentInv => Development!StartedIsStopped
  BY DEF DevelopmentInv, CleanedBehind, ServerIsFound, Development!TypeOK,
         Development!StartedIsStopped, Development!Forgotten
<1> QED
  BY <1>1, CommandsInvariant, PTL

\* Backup, restore and the commands that edit the environment file, failing or
\* killed at every step, leave no torn file, no mixed site, no archive of two
\* moments, and do not lose the old content (backup.sh:75-123,
\* restore.sh:75-236, site-configure.mjs:453-479); "pnpm dev" leaves nothing
\* running that it started.
THEOREM NothingStaysHalfDone ==
  ASSUME ~Overlap
  PROVE  OperationsSpec => []NothingIsHalfDone
<1>1. EnvironmentInv /\ ContentInv /\ Development!StartedIsStopped => NothingIsHalfDone
  BY ContentHolds DEF EnvironmentInv, NothingIsHalfDone
<1> QED
  BY <1>1, CommandsInvariant, ContentInvariant, NothingStaysRunning, PTL

\* Whatever lines the environment file has, if no value that spans lines is
\* hidden from site-configure: what it puts in its place keeps every other
\* entry of what it read and has its own
\* (site-configure.mjs:303-328, 379-423).
THEOREM SiteKeepsTheOthers == OperationsSpec => SiteChangesOnlyItself
<1>1. EnvironmentInv /\ [OperationsNext]_operationVars =>
        [(Environment!Rename("site")
            /\ ~Environment!Hidden(Environment!Lines(command["site"].read))) =>
           LET c == command["site"]
           IN /\ Environment!Others(Environment!Managed("site"), file')
                   = Environment!Others(Environment!Managed("site"), Environment!Lines(c.read))
              /\ \A n \in Environment!Managed("site") :
                   {e \in Environment!EntriesOf(file') : e.name = n} # {}
              /\ \A e \in Environment!EntriesOf(file') :
                   e.name \in Environment!Managed("site")
                     => e.text[1].value = c.value]_(Environment!vars)
  BY RenameChangesOnlyItself
<1> QED
  BY <1>1, CommandsInvariant, PTL
     DEF OperationsSpec, SiteChangesOnlyItself, Environment!SiteChangesOnlyItself
=============================================================================
