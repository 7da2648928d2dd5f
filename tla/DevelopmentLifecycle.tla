------------------------ MODULE DevelopmentLifecycle -------------------------
(***************************************************************************)
(* "pnpm dev" (scripts/dev.ts): it finds or starts a database, waits until *)
(* it answers, starts the site, watches both, and stops what it started    *)
(* when one of them ends or a signal arrives. The database process is      *)
(* scripts/dev-db.ts, which starts PostgreSQL through embedded-postgres    *)
(* and stops it at most once. An action is what runs between two awaits.   *)
(***************************************************************************)
VARIABLES
  at,        \* where run() waits
  stopping,  \* stop() has been called
  cleanup,   \* how far the only run of cleanup() has come
  config,    \* the kind of DATABASE_URL that is configured
  other,     \* a database this command did not start is up
  db, web,   \* the child processes; db: how far run() of dev-db has come
  asked,     \* the children that were told to stop; "term": db, by a signal
  server,    \* the PostgreSQL that db starts
  shutdown   \* what the only run of stopDatabase in db has found

launcherVars == <<at, stopping, cleanup, web>>
dbVars == <<config, other, db, asked, server, shutdown>>
vars == <<launcherVars, dbVars>>

TypeOK ==
  /\ at \in {"read", "port", "await", "sql", "watch", "leaving", "ended", "killed"}
  /\ stopping \in BOOLEAN /\ other \in BOOLEAN
  /\ cleanup \in {"none", "web", "webWait", "db", "dbWait", "dbTerm", "done"}
  /\ config \in {"missing", "local", "external", "invalid"}
  /\ db \in {"none", "checking", "initialising", "starting", "creating", "serving",
             "ended", "exited"}
  /\ web \in {"none", "running", "exited"}
  /\ asked \subseteq {"db", "term", "web"}
  /\ server \in {"none", "up", "gone"}
  /\ shutdown \in {"none", "nothing", "missed", "alarm", "stopping"}

Init ==
  /\ at = "read" /\ stopping = FALSE /\ cleanup = "none"
  /\ config \in {"missing", "local", "external", "invalid"}
  /\ other \in BOOLEAN
  /\ db = "none" /\ web = "none" /\ asked = {}
  /\ server = "none" /\ shutdown = "none"

\* The database of an earlier run answers before dev-db is done with it.
Serving == other \/ server = "up"
DbAlive == db \notin {"none", "exited"}
DbAsked == "db" \in asked \/ "term" \in asked
Launcher == at \notin {"ended", "killed"}

\* run() waits for cleanup(), which runs once, and main() ends after it.
Begun == IF cleanup = "none" THEN "web" ELSE cleanup
Leave == at' = "leaving" /\ cleanup' = Begun

--------------------------------------------------------------------------
\* prepareDatabase.

StartDatabase == db' = IF stopping THEN db ELSE "checking"

Prepared == IF stopping THEN Leave ELSE at' = "sql" /\ UNCHANGED cleanup

ReadConfiguration ==
  /\ at = "read"
  /\ CASE config = "invalid"  -> Leave /\ UNCHANGED db
       [] config = "missing"  -> StartDatabase /\ at' = "await" /\ UNCHANGED cleanup
       [] config = "local"    -> at' = "port" /\ UNCHANGED <<db, cleanup>>
       [] config = "external" -> Prepared /\ UNCHANGED db
  /\ UNCHANGED <<stopping, web, config, other, asked, server, shutdown>>

PortChecked ==
  /\ at = "port"
  /\ IF other THEN UNCHANGED db ELSE StartDatabase
  /\ Prepared
  /\ UNCHANGED <<stopping, web, config, other, asked, server, shutdown>>

\* The loop that waits for the database process to write DATABASE_URL: it is
\* there, or the process ended, or ten seconds have passed, or stop() aborted.
AwaitConfiguration ==
  /\ at = "await"
  /\ \/ ~stopping /\ config # "missing" /\ Prepared
     \/ Leave
  /\ UNCHANGED <<stopping, web, dbVars>>

--------------------------------------------------------------------------
\* The database answers: the site starts, and is watched.

\* Fault variant: stop() is not looked for after the wait.
SqlReadyUnchecked ==
  /\ at = "sql" /\ Serving
  /\ at' = "watch" /\ web' = "running"
  /\ UNCHANGED <<stopping, cleanup, dbVars>>

SqlReady ==
  /\ at = "sql" /\ Serving
  /\ IF stopping THEN Leave /\ UNCHANGED web
     ELSE at' = "watch" /\ web' = "running" /\ UNCHANGED cleanup
  /\ UNCHANGED <<stopping, dbVars>>

\* No answer within 30 seconds (a probe that takes a second counts as none),
\* the process ended, or stop() aborted the wait.
SqlNotReady ==
  /\ at = "sql"
  /\ Leave
  /\ UNCHANGED <<stopping, web, dbVars>>

\* Fault variant: the database is not watched.
WatchedSite ==
  /\ at = "watch" /\ web = "exited"
  /\ Leave
  /\ UNCHANGED <<stopping, web, dbVars>>

\* The site ended, a probe failed (it has a second to answer, so it may fail
\* for a database that is up), or the database process ended.
Watched ==
  /\ at = "watch"
  /\ web = "exited" \/ db = "exited" \/ ~Serving
  /\ Leave
  /\ UNCHANGED <<stopping, web, dbVars>>

FalseAlarm ==
  /\ at = "watch"
  /\ Leave
  /\ UNCHANGED <<stopping, web, dbVars>>

\* main() awaits stop(), which finds the cleanup done.
End ==
  /\ at = "leaving" /\ cleanup = "done"
  /\ at' = "ended" /\ stopping' = TRUE
  /\ UNCHANGED <<cleanup, web, dbVars>>

--------------------------------------------------------------------------
\* cleanup: the site first, then the database if this command started it.

StopWeb ==
  /\ Launcher /\ cleanup = "web"
  /\ IF web = "running" THEN cleanup' = "webWait" /\ asked' = asked \union {"web"}
     ELSE cleanup' = "db" /\ UNCHANGED asked
  /\ UNCHANGED <<at, stopping, web, config, other, db, server, shutdown>>

\* The child has ended, or five seconds have passed.
WebStopped ==
  /\ Launcher /\ cleanup = "webWait"
  /\ cleanup' = "db"
  /\ UNCHANGED <<at, stopping, web, dbVars>>

\* A message over the channel, or SIGTERM when dev-db has closed it.
StopDatabase ==
  /\ Launcher /\ cleanup = "db"
  /\ IF DbAlive
     THEN /\ cleanup' = "dbWait"
          /\ \E how \in {"db", "term"} :
               (how = "term" => db = "ended") /\ asked' = asked \union {how}
     ELSE cleanup' = "done" /\ UNCHANGED asked
  /\ UNCHANGED <<at, stopping, web, config, other, db, server, shutdown>>

\* It has ended, or is sent SIGTERM after five seconds ...
DatabaseWaited ==
  /\ Launcher /\ cleanup = "dbWait"
  /\ IF DbAlive THEN cleanup' = "dbTerm" /\ asked' = asked \union {"term"}
     ELSE cleanup' = "done" /\ UNCHANGED asked
  /\ UNCHANGED <<at, stopping, web, config, other, db, server, shutdown>>

\* ... and is waited for another five.
DatabaseStopped ==
  /\ Launcher /\ cleanup = "dbTerm"
  /\ cleanup' = "done"
  /\ UNCHANGED <<at, stopping, web, dbVars>>

\* A signal. From a terminal it reaches the children as well.
Signal ==
  /\ Launcher /\ ~stopping
  /\ stopping' = TRUE /\ cleanup' = Begun
  /\ \E terminal \in BOOLEAN :
       asked' = asked \union {c \in {"term", "web"} :
                  /\ terminal
                  /\ IF c = "term" THEN DbAlive ELSE web = "running"}
  /\ UNCHANGED <<at, web, config, other, db, server, shutdown>>

\* The handlers are gone after the first signal: a second one, or SIGKILL,
\* ends the launcher. dev-db sees its channel close, unless it is still being
\* loaded and does not listen yet.
Kill ==
  /\ Launcher
  /\ at' = "killed"
  /\ \E noticed \in BOOLEAN :
       /\ noticed \/ ~DbAlive \/ db = "checking"
       /\ asked' = IF noticed /\ DbAlive THEN asked \union {"db"} ELSE asked
  /\ UNCHANGED <<stopping, cleanup, web, config, other, db, server, shutdown>>

--------------------------------------------------------------------------
\* scripts/dev-db.ts.

DbStep == UNCHANGED <<launcherVars, other, asked>>

\* stopDatabase is run once; what it finds is never looked for again.
Found == IF server = "up" THEN "stopping" ELSE "nothing"

\* Told to stop: by a message, the closed channel or a signal. Inside start(),
\* before the server is spawned, there is none to stop, but start() goes on.
DatabaseAsked ==
  /\ DbAlive /\ DbAsked /\ shutdown = "none"
  /\ shutdown' = IF db = "starting" /\ server = "none" THEN "missed" ELSE Found
  /\ DbStep /\ UNCHANGED <<config, db, server>>

\* The data directory is unused and the port free, then the credentials: a
\* missing DATABASE_URL is appended to .env.local.
LoadCredentials ==
  /\ db = "checking" /\ ~other /\ config \in {"missing", "local"}
  /\ db' = "initialising" /\ config' = "local"
  /\ DbStep /\ UNCHANGED <<server, shutdown>>

\* Fault variant: a stop during initialise() is not looked for.
InitialisedUnchecked ==
  /\ db = "initialising" /\ db' = "starting"
  /\ DbStep /\ UNCHANGED <<config, server, shutdown>>

\* The cluster is there; PostgreSQL is started unless a stop was asked for.
Initialised ==
  /\ db = "initialising"
  /\ db' = IF shutdown = "none" THEN "starting" ELSE "ended"
  /\ DbStep /\ UNCHANGED <<config, server, shutdown>>

\* postgres.start() finds its binaries, then spawns the server ...
Spawn ==
  /\ db = "starting" /\ server = "none"
  /\ server' = "up"
  /\ DbStep /\ UNCHANGED <<config, db, shutdown>>

\* ... and returns when it is ready. A stop that was asked for is awaited.
Started ==
  /\ db = "starting" /\ server = "up"
  /\ db' = IF shutdown = "none" THEN "creating" ELSE "ended"
  /\ DbStep /\ UNCHANGED <<config, server, shutdown>>

EnsureDatabaseExists ==
  /\ db = "creating" /\ server = "up"
  /\ db' = "serving"
  /\ DbStep /\ UNCHANGED <<config, server, shutdown>>

\* foregroundDone, or a stop from before there was a foreground.
ForegroundDone ==
  /\ db = "serving" /\ shutdown # "none"
  /\ db' = "ended"
  /\ DbStep /\ UNCHANGED <<config, server, shutdown>>

\* A call before the foreground rejects; run()'s catch stops the database.
\* start() rejects only when there is no server.
Fails ==
  /\ db \in {"checking", "initialising", "starting", "creating"}
  /\ db = "starting" => server # "up"
  /\ db' = "ended"
  /\ shutdown' = IF shutdown = "none" THEN Found ELSE shutdown
  /\ DbStep /\ UNCHANGED <<config, server>>

\* Where a call has to reject: the port is taken, the server has gone.
FailsSurely == Fails /\ ((other /\ db = "checking") \/ server = "gone")

\* A health check fails: the server has gone, or did not answer. Either way
\* dev-db forgets it, and the stop of run()'s catch has nothing to stop.
HealthAlarm ==
  /\ db = "serving" /\ shutdown = "none"
  /\ db' = "ended" /\ shutdown' = "alarm"
  /\ DbStep /\ UNCHANGED <<config, server>>

\* The process ends when neither run() nor a server holds it.
DatabaseExits ==
  /\ db = "ended" /\ server # "up"
  /\ db' = "exited"
  /\ DbStep /\ UNCHANGED <<config, server, shutdown>>

\* embedded-postgres may see a signal itself: it stops its server and exits.
ExitHook ==
  /\ DbAlive /\ "term" \in asked
  /\ db' = "exited" /\ server' = IF server = "up" THEN "gone" ELSE server
  /\ DbStep /\ UNCHANGED <<config, shutdown>>

\* A server that was told to stop ends; any may fail.
ServerEnds ==
  /\ server = "up" /\ server' = "gone"
  /\ DbStep /\ UNCHANGED <<config, db, shutdown>>
ServerStops == shutdown = "stopping" /\ ServerEnds

WebExits ==
  /\ web = "running"
  /\ web' = "exited"
  /\ UNCHANGED <<at, stopping, cleanup, dbVars>>

OtherStops ==
  /\ other
  /\ other' = FALSE
  /\ UNCHANGED <<launcherVars, config, db, asked, server, shutdown>>

DatabaseProgress ==
  DatabaseAsked \/ LoadCredentials \/ Initialised \/ Spawn \/ Started
    \/ EnsureDatabaseExists \/ ForegroundDone \/ FailsSurely \/ DatabaseExits
Run == ReadConfiguration \/ PortChecked \/ AwaitConfiguration
         \/ SqlReady \/ SqlNotReady \/ Watched \/ End
Cleanup == StopWeb \/ WebStopped \/ StopDatabase \/ DatabaseWaited \/ DatabaseStopped
Outside == FalseAlarm \/ Signal \/ Kill \/ WebExits \/ OtherStops

Next ==
  \/ Run \/ Cleanup \/ Outside
  \/ DatabaseProgress \/ Fails \/ HealthAlarm \/ ExitHook \/ ServerEnds

Spec == Init /\ [][Next]_vars

--------------------------------------------------------------------------
\* What dev-db can no longer stop by itself: a server spawned after the stop
\* it asked for inside start(), and one its health check has given up on.
Forgotten == shutdown \in {"missed", "alarm"}

\* When the command has ended, nothing it started is left that was not told to
\* stop, whenever the signal came. When dev-db's run is over, or it has
\* handled a stop, its PostgreSQL is down or was told to stop, wherever the
\* stop or a failure met it; the two it forgets are the exceptions.
StartedIsStopped ==
  /\ at = "ended" => /\ DbAlive => DbAsked
                     /\ web = "running" => "web" \in asked
  /\ (db \in {"ended", "exited"} \/ shutdown # "none")
       => (server = "up" => shutdown = "stopping" \/ Forgotten)

\* A signal ends the command, the site and PostgreSQL, unless it is forgotten.
SignalEndsAll ==
  (stopping /\ at # "killed")
    ~> \/ at = "killed"
       \/ at = "ended" /\ web # "running" /\ (server = "up" => Forgotten)

\* A site does not go on without its database.
SiteNeedsDatabase ==
  (web = "running" /\ ~Serving) ~> (web # "running" \/ Serving \/ at = "killed")
=============================================================================
