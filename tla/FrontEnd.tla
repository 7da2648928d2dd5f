------------------------------- MODULE FrontEnd -------------------------------
(***************************************************************************)
(* The administration's pages in the browser: a user works on one of them, *)
(* "open", at a time, and each has its own part of the server's data.  The *)
(* pages that are not open rest in an initial state.                       *)
(***************************************************************************)
EXTENDS Naturals, FiniteSets

CONSTANTS
  None, Items, Inputs,                         \* the managers
  Untitled, MaxSerial, MaxVersion,             \* the document editor
  Posts, Subscribers, MaxSnapshot,             \* the community page
  FixedPages, Editors, Bodies, Default, Malformed, MaxPageVersion  \* special pages

VARIABLES
  open,
  page, stored, shown, editing, removing, form, request, upload, error, typed,
  overlap, unsure,
  docs, role, record, data, dirty, serial, busy, failed, confirm, seen, timer,
  saving, restoring, uploading, wanted, excused, lostFirst,
  public, published, confirmed, application, jobs, editorRole, selected,
  preview, removal, push, accepted,
  row, holder, editor, call

managerVars == <<page, stored, shown, editing, removing, form, request, upload,
                 error, typed, overlap, unsure>>
editorVars == <<docs, role, record, data, dirty, serial, busy, failed, confirm,
                seen, timer, saving, restoring, uploading, wanted, excused,
                lostFirst>>
communityVars == <<public, published, confirmed, application, jobs, editorRole,
                   selected, preview, removal, push, accepted>>
specialVars == <<row, holder, editor, call>>
frontEndVars == <<open, managerVars, editorVars, communityVars, specialVars>>

Managers == INSTANCE ManagementPanels WITH Texts <- Inputs
Editor == INSTANCE DocumentEditor WITH error <- failed, call <- saving
Community == INSTANCE CommunityPanel WITH role <- editorRole, call <- push
Special == INSTANCE SpecialPages WITH
  Pages <- FixedPages, Texts <- Bodies, MaxVersion <- MaxPageVersion

\* Bounds, and a value that stands for nothing.
ASSUME BoundsAssumption ==
  /\ MaxSerial \in Nat /\ MaxVersion \in Nat \ {0}
  /\ MaxSnapshot \in Nat /\ MaxPageVersion \in Nat

ASSUME NoneAssumption ==
  /\ None \notin Managers!Entry /\ None \notin Managers!Request
  /\ None \notin Editor!Record /\ None \notin Editor!Call
  /\ None \notin Editors /\ None \notin Bodies
  /\ None \notin Special!Rows /\ Malformed \notin Special!Rows

\* The database holds finitely many rows; a page without one has a text.
ASSUME RowsAssumption == IsFiniteSet(Subscribers) /\ Default \in Bodies

\* A page that is not opened: any one of its initial states will do.
Resting ==
  /\ open # "managers" => /\ page = "taxonomy" /\ form = CHOOSE t \in Inputs : TRUE
                          /\ stored = [i \in Items |-> None]
  /\ open # "editor" => docs = <<>> /\ role = "author"
  /\ open # "community" => editorRole = "editor"
  /\ open # "special" => /\ row = None
                         /\ \A d, e \in Editors : editor[d] = editor[e]
                         /\ \A e \in Editors : editor[e].page = CHOOSE k \in FixedPages : TRUE

FrontEndInit ==
  /\ open \in {"managers", "editor", "community", "special"}
  /\ Managers!Init /\ Editor!Init /\ Community!Init /\ Special!Init
  /\ Resting

FrontEndNext ==
  /\ UNCHANGED open
  /\ \/ /\ open = "managers" /\ Managers!Next
        /\ UNCHANGED <<editorVars, communityVars, specialVars>>
     \/ /\ open = "editor" /\ Editor!Next
        /\ UNCHANGED <<managerVars, communityVars, specialVars>>
     \/ /\ open = "community" /\ Community!Next
        /\ UNCHANGED <<managerVars, editorVars, specialVars>>
     \/ /\ open = "special" /\ Special!Next
        /\ UNCHANGED <<managerVars, editorVars, communityVars>>

FrontEndSpec == FrontEndInit /\ [][FrontEndNext]_frontEndVars
-----------------------------------------------------------------------------
\* The pages and what the server stores for them are well formed.
FrontEndTypeOK ==
  Managers!TypeOK /\ Editor!TypeOK /\ Community!TypeOK /\ Special!TypeOK

\* What a user has typed stays on the page through failures and late answers,
\* and the document editor forgets no change: it is saved, or about to be, or
\* the page says that something failed (Management.tsx:98-130,
\* DocumentEditor.tsx:104-159).
WorkIsKept ==
  Managers!InputIsKept /\ Editor!InputIsKept /\ Editor!ChangesAreWatched

\* What a page shows as stored is what the server stores: the lists once
\* every call was answered, a document without unsaved changes, a special
\* page on its latest version (Management.tsx:113-146, DocumentEditor.tsx:127,
\* SpecialPageEditor.tsx:39-56).
ScreenIsStored ==
  Managers!ShownIsStored /\ Editor!CleanIsStored /\ Special!CleanIsStored

\* A call that is repeated or late does not act twice, or on something else
\* than was confirmed: one page makes one document (unless an answer was
\* lost), and a push queues the snapshot the dialog showed, once for each
\* subscriber (DocumentEditor.tsx:104-122, community/admin.ts:301-361).
DoneOnceAsConfirmed == Editor!OneDocument /\ Community!PushedAsConfirmed

\* Two editors of the special pages lose no change, not even with the first
\* saves of all, and visitors get what was on the screen of the editor who
\* published (special-pages/store.ts:131-217).
SpecialPagesFollowTheScreen == Special!NoChangeLost /\ Special!PublishedAsShown
=============================================================================
