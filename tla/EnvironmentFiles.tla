-------------------------- MODULE EnvironmentFiles ---------------------------
(***************************************************************************)
(* The environment file and the commands that change entries of it:        *)
(* site-configure.mjs (the addresses), set-site-edition.mjs (the edition)  *)
(* and dev-db.ts (appends the local database).  The first two read the     *)
(* file, edit it line by line and put the result in its place by renaming  *)
(* a temporary file.  A value in quotes may span lines, and the lines in   *)
(* it may look like assignments.                                           *)
(***************************************************************************)
EXTENDS Naturals, Sequences
CONSTANTS Contents,   \* the files the commands may find
          Names,      \* of entries
          Values,     \* of entries
          NewValues,  \* the values the commands write
          None, Partial

Writers == {"site", "edition", "database"}

VARIABLES
  file,     \* the file's lines; None: there is no file
  command   \* each command: how far it is, what it has read and written

vars == <<file, command>>

\* A line: the name left of "=" (None: a comment, or text) and the value.
\* part: "whole", or it "opens" a quoted value that a later line "ends";
\* "hidden": it opens one that site-configure does not recognise, with a
\* backtick or for a name with a dot or a dash, although the readers do.
Line(name, value, part) == [name |-> name, value |-> value, part |-> part]

\* What is not an assignment opens no value.
EnvLine ==
  {l \in [name : Names \union {None}, value : Values, part : {"whole", "opens", "hidden", "ends"}] :
     l.part \in {"opens", "hidden"} => l.name # None}

Idle == [at |-> "idle", read |-> None, value |-> None, draft |-> <<>>]

Init == /\ file \in Contents \union {None}
        /\ command = [w \in Writers |-> Idle]

--------------------------------------------------------------------------
\* What a file means: the reader of the entries knows which lines are inside
\* a quoted value.

Inside(lines) ==
  LET after[i \in 0 .. Len(lines)] ==
        i > 0 /\ IF after[i - 1] THEN lines[i].part # "ends"
                                 ELSE lines[i].part \in {"opens", "hidden"}
  IN after

Starts(lines) == {i \in DOMAIN lines : ~Inside(lines)[i - 1] /\ lines[i].name # None}

\* The entry that starts at line i: its name and its lines.
EntryAt(lines, i) ==
  LET ends == {j \in i .. Len(lines) : ~Inside(lines)[j]}
      last == IF ends = {} THEN Len(lines)
              ELSE CHOOSE j \in ends : \A k \in ends : j <= k
  IN [name |-> lines[i].name, text |-> SubSeq(lines, i, last)]

EntriesOf(lines) == {EntryAt(lines, i) : i \in Starts(lines)}
Others(names, lines) == {e \in EntriesOf(lines) : e.name \notin names}

--------------------------------------------------------------------------
\* updateEnvironmentContents of the two commands.

Managed(w) == CASE w = "site" -> {"CADDY_SITE", "BETTER_AUTH_URL", "SITE_URL"}
                [] w = "edition" -> {"SITE_EDITION"}
                [] w = "database" -> {"DATABASE_URL"}

\* replacementValue: up to the closing quote, or up to a comment.
Replace(w, line, value) ==
  IF line.name \in Managed(w) THEN Line(line.name, value, "whole") ELSE line

\* The entry that no line has is appended.
IfMissing(name, lines, value) ==
  IF \E i \in DOMAIN lines : lines[i].name = name THEN <<>>
  ELSE <<Line(name, value, "whole")>>

Missing(w, lines, value) ==
  IF w = "site"
  THEN IfMissing("CADDY_SITE", lines, value)
         \o IfMissing("BETTER_AUTH_URL", lines, value)
         \o IfMissing("SITE_URL", lines, value)
  ELSE IfMissing("SITE_EDITION", lines, value)

Update(w, lines, value) ==
  [i \in DOMAIN lines |-> Replace(w, lines[i], value)] \o Missing(w, lines, value)

\* Whether the command refuses the file: site-configure when it sees any value
\* that spans lines, set-site-edition when the edition's own does.
OwnSpans(w, lines) ==
  \E i \in DOMAIN lines : lines[i].part = "opens" /\ lines[i].name \in Managed(w)
Refuses(w, lines) ==
  IF w = "site" THEN \E i \in DOMAIN lines : lines[i].part = "opens" /\ lines[i].name # None
  ELSE OwnSpans(w, lines)

Lines(contents) == IF contents = None THEN <<>> ELSE contents

--------------------------------------------------------------------------
\* The commands.

Become(w, c) == command' = [command EXCEPT ![w] = c]

\* readRegularEnvironmentFile.
Read(w) ==
  /\ w # "database" /\ command[w].at = "idle" /\ file # Partial
  /\ \E v \in NewValues : Become(w, [at |-> "read", read |-> file, value |-> v,
                                  draft |-> <<>>])
  /\ UNCHANGED file

\* A refused file, or an unchanged one, is left as it is.
Edit(w) ==
  /\ command[w].at = "read" /\ w # "database"
  /\ LET lines == Lines(command[w].read)
         draft == Update(w, lines, command[w].value)
     IN Become(w, IF Refuses(w, lines) \/ draft = command[w].read
                  THEN Idle ELSE [command[w] EXCEPT !.at = "edited", !.draft = draft])
  /\ UNCHANGED file

\* writeEnvironmentFileAtomically: a temporary file is written and synced ...
Write(w) ==
  /\ command[w].at = "edited"
  /\ Become(w, [command[w] EXCEPT !.at = "writing"])
  /\ UNCHANGED file

Synced(w) ==
  /\ command[w].at = "writing"
  /\ Become(w, [command[w] EXCEPT !.at = "written"])
  /\ UNCHANGED file

Temporary(w) == IF command[w].at = "written" THEN command[w].draft ELSE Partial

\* Fault variant: the write is not awaited.
BegunWriting(w) == command[w].at \in {"writing", "written"}

\* ... and then takes the place of the file.
DoneWriting(w) == command[w].at = "written"
Rename(w) ==
  /\ DoneWriting(w)
  /\ file' = Temporary(w)
  /\ Become(w, Idle)

\* dev-db's loadCredentials: append an entry, unless a line looks like one.
LoadCredentials ==
  /\ command["database"].at = "idle" /\ file # Partial
  /\ \A i \in DOMAIN Lines(file) : Lines(file)[i].name # "DATABASE_URL"
  /\ Become("database", [Idle EXCEPT !.at = "read", !.read = file])
  /\ UNCHANGED file

AppendEntry ==
  /\ command["database"].at = "read" /\ file # Partial
  /\ \E v \in NewValues : file' = Append(Lines(file), Line("DATABASE_URL", v, "whole"))
  /\ Become("database", Idle)

\* A command is killed, or one of its calls fails: the temporary file is all
\* it leaves behind.
Die(w) == command[w].at # "idle" /\ Become(w, Idle) /\ UNCHANGED file

Next == \/ \E w \in Writers : Read(w) \/ Edit(w) \/ Write(w) \/ Synced(w) \/ Rename(w) \/ Die(w)
        \/ LoadCredentials \/ AppendEntry

Spec == Init /\ [][Next]_vars

--------------------------------------------------------------------------
\* The file and the commands are well formed.
TypeOK ==
  /\ file \in Seq(EnvLine) \union {None, Partial}
  /\ command \in [Writers -> [at : {"idle", "read", "edited", "writing", "written"},
                              read : Seq(EnvLine) \union {None},
                              value : Values \union {None},
                              draft : Seq(EnvLine)]]

\* Whoever reads the file, and wherever a command died: it is a whole file
\* (site-configure.mjs:453, docs/域名配置与部署.md:27).
NeverTorn == file # Partial

\* When site-configure has replaced the file it read, every entry but its
\* own is in it as it was, values that span lines and look like its own
\* entries included, and each of its own has the new value
\* (site-configure.mjs:303-305, 379-382). It does not see that a value spans
\* lines in the hidden cases, and promises nothing for a file with one.
Hidden(lines) == \E i \in DOMAIN lines : lines[i].part = "hidden"

SiteChangesOnlyItself ==
  [][(Rename("site") /\ ~Hidden(Lines(command["site"].read))) =>
       LET c == command["site"]
       IN /\ Others(Managed("site"), file') = Others(Managed("site"), Lines(c.read))
          /\ \A n \in Managed("site") :
               {e \in EntriesOf(file') : e.name = n} # {}
          /\ \A e \in EntriesOf(file') :
               e.name \in Managed("site") => e.text[1].value = c.value]_vars

\* The same of set-site-edition: "Changes only SITE_EDITION assignments ...
\* every other environment entry remain intact" (set-site-edition.mjs:133).
EditionChangesOnlyItself ==
  [][Rename("edition") =>
       Others({"SITE_EDITION"}, file')
         = Others({"SITE_EDITION"}, Lines(command["edition"].read))]_vars
=============================================================================
