------------------------------ MODULE Operations ------------------------------
(***************************************************************************)
(* The scripts around the site: the development command, the commands that *)
(* edit the environment file, backup and restore.  They run on their own   *)
(* machines or at their own time, so that each is explored by itself:      *)
(* "part" is the one at work, the others rest.                             *)
(***************************************************************************)
EXTENDS Naturals, Sequences
CONSTANTS
  None,
  Files, Names, Values, NewValues, Partial,               \* EnvironmentFiles
  Mixed, MaxVersion, Overlap                              \* BackupRestore

VARIABLES
  part,
  at, stopping, cleanup, config, other, db, web, asked, server, shutdown,
  file, command,
  app, databases, media, archives, backup, restore

launcherVars == <<at, stopping, cleanup, web>>
lifecycleVars == <<launcherVars, config, other, db, asked, server, shutdown>>
fileVars == <<file, command>>
contentVars == <<app, databases, media, archives, backup, restore>>
operationVars == <<part, lifecycleVars, fileVars, contentVars>>

Development == INSTANCE DevelopmentLifecycle
Environment == INSTANCE EnvironmentFiles WITH Contents <- Files
Content == INSTANCE BackupRestore WITH db <- databases

\* The lines of files, what is written, and the markers are kept apart.
ASSUME ScriptAssumption ==
  /\ {"CADDY_SITE", "BETTER_AUTH_URL", "SITE_URL", "SITE_EDITION", "DATABASE_URL"} \subseteq Names
  /\ NewValues \subseteq Values /\ Files \subseteq Seq(Environment!EnvLine)
  /\ Partial \notin Seq(Environment!EnvLine) \union {None}
  /\ None \notin Seq(Environment!EnvLine) \union Names
  /\ MaxVersion \in Nat /\ None \notin Nat /\ Mixed \notin Nat /\ Mixed # None

\* Parts that rest do so in any one of their initial states.
OperationsInit ==
  /\ part \in {"development", "environment", "content"}
  /\ Development!Init /\ Environment!Init /\ Content!Init
  /\ part # "development" => config = "local" /\ ~other
  /\ part # "environment" => file = None

Developing(A) == part = "development" /\ A /\ UNCHANGED <<part, fileVars, contentVars>>

OperationsNext ==
  \/ Developing(Development!Next)
  \/ /\ part = "environment" /\ Environment!Next
     /\ UNCHANGED <<part, lifecycleVars, contentVars>>
  \/ /\ part = "content" /\ Content!Next
     /\ UNCHANGED <<part, lifecycleVars, fileVars>>

\* Every wait of the development command has a timeout, its process runs on;
\* a database that may start or stop does; a site that is told to stop ends.
OperationsFairness ==
  /\ WF_operationVars(Developing(Development!Run))
  /\ WF_operationVars(Developing(Development!Cleanup))
  /\ WF_operationVars(Developing(Development!DatabaseProgress))
  /\ WF_operationVars(Developing(Development!ServerStops))
  /\ WF_operationVars(Developing("web" \in asked /\ Development!WebExits))

OperationsSpec ==
  OperationsInit /\ [][OperationsNext]_operationVars /\ OperationsFairness
-----------------------------------------------------------------------------
\* The processes, the environment file, the stores and scripts are well formed.
OperationsTypeOK == Development!TypeOK /\ Environment!TypeOK /\ Content!TypeOK

\* Whichever command fails or dies half way: the environment file is whole,
\* the site is never up with a database and files that do not belong together,
\* an archive holds one moment, what a restore replaces is kept until the new
\* content is in place, and "pnpm dev" leaves no database or site behind that
\* it started and did not tell to stop (site-configure.mjs:453,
\* backup.sh:75-123, restore.sh:75-236, dev.ts:241-304, 399-459).
NothingIsHalfDone ==
  /\ Environment!NeverTorn
  /\ Content!ServedTogether /\ Content!ArchivesAreConsistent /\ Content!RollbackIsKept
  /\ Development!StartedIsStopped

\* When site-configure has replaced the environment file, the entries it does
\* not manage are in it as they were, and its own have the new value
\* (site-configure.mjs:303-328, 379-423).
SiteChangesOnlyItself == Environment!SiteChangesOnlyItself

\* A signal ends "pnpm dev" and what it started, and its site does not go on
\* without a database (dev.ts:241-304, 399-459).
CommandEnds == Development!SignalEndsAll /\ Development!SiteNeedsDatabase
=============================================================================
