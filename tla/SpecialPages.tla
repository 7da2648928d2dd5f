---------------------------- MODULE SpecialPages -----------------------------
(***************************************************************************)
(* The two fixed pages, privacy and about: one row of settings holds both  *)
(* (src/lib/special-pages/store.ts), an advisory lock orders its writers,  *)
(* and editors save and publish from a page of their own                   *)
(* (components/admin/SpecialPageEditor.tsx).                               *)
(***************************************************************************)
EXTENDS Naturals
CONSTANTS Pages, Editors, Texts, Default, None, Malformed,
          MaxVersion  \* bound: version a page reaches

VARIABLES
  row,     \* the settings row: None, Malformed, or a record of each page
  holder,  \* the transaction that holds the advisory lock, None if none does
  editor,  \* what each editor's page shows
  call     \* the call each editor's page waits for

vars == <<row, holder, editor, call>>

Record == [draft : Texts, published : Texts \union {None}, version : 0 .. MaxVersion]
Rows == [Pages -> Record]
Stages == {"none", "sent", "locked", "read", "done", "refused"}

TypeOK ==
  /\ row \in Rows \union {None, Malformed}
  /\ holder \in Editors \union {None}
  /\ editor \in [Editors -> [page : Pages, version : 0 .. MaxVersion,
                             draft : Texts, dirty : BOOLEAN]]
  /\ call \in [Editors -> [at : Stages, publish : BOOLEAN, op : {"save", "publish"},
                           snapshot : Rows \union {None}]]

Absent == [k \in Pages |-> [draft |-> Default, published |-> None, version |-> 0]]

\* What administrators and visitors are shown of a row.
Displayed == IF row \in {None, Malformed} THEN Absent ELSE row
Public(k) == IF Displayed[k].published = None THEN Default ELSE Displayed[k].published

Opened(k) == [page |-> k, version |-> Displayed[k].version,
              draft |-> Displayed[k].draft, dirty |-> FALSE]
NoCall == [at |-> "none", publish |-> FALSE, op |-> "save", snapshot |-> None]

Init ==
  /\ row \in {None, Malformed}
  /\ holder = None
  /\ editor \in [Editors -> {Opened(k) : k \in Pages}]
  /\ call = [e \in Editors |-> NoCall]

Idle(e) == call[e].at = "none"

--------------------------------------------------------------------------
\* The editor's page.

Open(e) ==
  /\ Idle(e)
  /\ \E k \in Pages : editor' = [editor EXCEPT ![e] = Opened(k)]
  /\ UNCHANGED <<row, holder, call>>

\* The fields are disabled, and the rich editor inert, while a call runs.
Type(e) ==
  /\ Idle(e)
  /\ \E t \in Texts :
       editor' = [editor EXCEPT ![e].draft = t, ![e].dirty = TRUE]
  /\ UNCHANGED <<row, holder, call>>

Save(e, publish) ==
  /\ Idle(e)
  /\ call' = [call EXCEPT ![e] = [NoCall EXCEPT !.at = "sent", !.publish = publish]]
  /\ UNCHANGED <<row, holder, editor>>

\* The answer to the save; "publish" goes on with the version it returned.
Saved(e) ==
  /\ call[e].at = "done" /\ call[e].op = "save"
  /\ editor' = [editor EXCEPT ![e].version = @ + 1, ![e].dirty = FALSE]
  /\ call' = [call EXCEPT ![e] = IF call[e].publish
                                   THEN [NoCall EXCEPT !.at = "sent", !.op = "publish"]
                                   ELSE NoCall]
  /\ UNCHANGED <<row, holder>>

Published(e) ==
  /\ call[e].at = "done" /\ call[e].op = "publish"
  /\ editor' = [editor EXCEPT ![e].version = @ + 1]
  /\ call' = [call EXCEPT ![e] = NoCall]
  /\ UNCHANGED <<row, holder>>

\* A refusal, or an answer lost after the transaction ended: only a message.
Failed(e) ==
  /\ call[e].at \in {"done", "refused"}
  /\ call' = [call EXCEPT ![e] = NoCall]
  /\ UNCHANGED <<row, holder, editor>>

--------------------------------------------------------------------------
\* saveStoredSpecialPage and publishStoredSpecialPage, statement by statement.

\* Fault variant: no lock.
SkipLock(e) ==
  /\ call[e].at = "sent"
  /\ call' = [call EXCEPT ![e].at = "locked"]
  /\ UNCHANGED <<row, holder, editor>>

LockSpecialPages(e) ==
  /\ call[e].at = "sent" /\ holder = None
  /\ holder' = e
  /\ call' = [call EXCEPT ![e].at = "locked"]
  /\ UNCHANGED <<row, editor>>

\* A record that cannot be read is not overwritten.
ReadForWrite(e) ==
  /\ call[e].at = "locked"
  /\ IF row = Malformed
       THEN /\ call' = [call EXCEPT ![e].at = "refused"]
            /\ holder' = None
       ELSE /\ call' = [call EXCEPT ![e].at = "read", ![e].snapshot = Displayed]
            /\ UNCHANGED holder
  /\ UNCHANGED <<row, editor>>

\* The next record of the page. Each call leaves the version one higher.
NextDraft(e, current) ==
  [current EXCEPT !.draft = editor[e].draft, !.version = @ + 1]
NextRecord(e, current) ==
  IF call[e].op = "save"
    THEN NextDraft(e, current)
    ELSE [current EXCEPT !.published = current.draft, !.version = @ + 1]

\* Both pages are written back; the audit row commits with them.
Persist(e) ==
  /\ call[e].at = "read"
  /\ LET k == editor[e].page
         pages == call[e].snapshot IN
       \/ /\ pages[k].version = editor[e].version
          /\ pages[k].version < MaxVersion
          /\ row' = [pages EXCEPT ![k] = NextRecord(e, pages[k])]
          /\ call' = [call EXCEPT ![e].at = "done", ![e].snapshot = None]
       \/ /\ pages[k].version # editor[e].version
          /\ call' = [call EXCEPT ![e].at = "refused", ![e].snapshot = None]
          /\ UNCHANGED row
  /\ holder' = None
  /\ UNCHANGED editor

\* The transaction fails in the database and rolls back.
RollBack(e) ==
  /\ call[e].at \in {"locked", "read"}
  /\ holder' = None
  /\ call' = [call EXCEPT ![e].at = "refused", ![e].snapshot = None]
  /\ UNCHANGED <<row, editor>>

Next ==
  \E e \in Editors :
    \/ Open(e) \/ Type(e) \/ \E publish \in BOOLEAN : Save(e, publish)
    \/ Saved(e) \/ Published(e) \/ Failed(e)
    \/ LockSpecialPages(e) \/ ReadForWrite(e) \/ Persist(e) \/ RollBack(e)

Spec == Init /\ [][Next]_vars

--------------------------------------------------------------------------
\* No change of a page is lost: whatever is stored of either page changes only
\* to one version more than the one that was stored, for the editor of that
\* page who had seen it. The first two saves race for a row not there yet.
NoChangeLost ==
  [][\A k \in Pages :
       Displayed'[k] # Displayed[k] =>
         /\ Displayed'[k].version = Displayed[k].version + 1
         /\ \E e \in Editors : /\ editor[e].page = k
                               /\ editor[e].version = Displayed[k].version
                               /\ call[e].at = "read" /\ call'[e].at = "done"]_vars

\* Visitors are shown what an editor who asked to publish had on the screen
\* when the call was made, and saving a draft changes nothing for them.
PublishedAsShown ==
  [][\A k \in Pages :
       Public(k)' # Public(k) =>
         \E e \in Editors : /\ editor[e].page = k /\ call[e].op = "publish"
                            /\ Public(k)' = editor[e].draft]_vars

\* An editor told that nothing is unsaved, on the version that is stored, has
\* the stored draft on the screen.
CleanIsStored ==
  \A e \in Editors :
    (/\ ~editor[e].dirty
     /\ row # Malformed
     /\ editor[e].version = Displayed[editor[e].page].version)
      => editor[e].draft = Displayed[editor[e].page].draft
=============================================================================
