-------------------------- MODULE ManagementPanels ---------------------------
(***************************************************************************)
(* The administrator's pages for taxonomy, members, accounts, media and    *)
(* site settings (src/src/components/admin/Management.tsx): a list of what *)
(* the server stores, a dialog that edits, removes or resets one entry,    *)
(* one request at a time, and answers that arrive after the user has gone  *)
(* on to something else.                                                   *)
(***************************************************************************)
CONSTANTS Items, Texts, None

VARIABLES
  page,       \* the manager that is mounted
  stored,     \* what the server stores of each entry, None if it has no row
  shown,      \* the list the page shows
  editing,    \* the open form: its entry (None for a new one) and its text
  removing,   \* the entry a dialog asks to remove or to reset
  form,       \* the text of a form that is always open
  request,    \* the call that runs: the page is "busy" while there is one
  upload,     \* the avatar upload that runs, with the form it was started in
  error,      \* a failure is shown
  typed,      \* history: what the user typed, and has neither saved nor left
  overlap,    \* history: he opened or typed it while a call was running
  unsure      \* history: the answer of some call was lost

vars == <<page, stored, shown, editing, removing, form, request, upload,
          error, typed, overlap, unsure>>

Pages == {"taxonomy", "members", "users", "media", "settings"}
Entry == [item : Items \union {None}, text : Texts]
Request == [op : {"save", "remove", "reset", "upload", "form"},
            item : Items \union {None}, text : Texts \union {None},
            files : SUBSET Items, at : {"sent", "done", "refused"}]

TypeOK ==
  /\ page \in Pages
  /\ stored \in [Items -> Texts \union {None}]
  /\ shown \in [Items -> Texts \union {None}]
  /\ editing \in Entry \union {None}
  /\ removing \in Items \union {None}
  /\ form \in Texts
  /\ request \in Request \union {None}
  /\ upload \in Entry \union {None}
  /\ error \in BOOLEAN /\ overlap \in BOOLEAN /\ unsure \in BOOLEAN
  /\ typed \in Texts \union {None}

\* A page is rendered with what the server stores at that time.
Init ==
  /\ page \in Pages
  /\ stored \in [Items -> Texts \union {None}]
  /\ shown = stored
  /\ editing = None /\ removing = None
  /\ form \in Texts
  /\ request = None /\ upload = None
  /\ error = FALSE
  /\ typed = None /\ overlap = FALSE /\ unsure = FALSE

Busy == request # None
Running == Busy \/ upload # None
NoDialog == editing = None /\ removing = None

--------------------------------------------------------------------------
\* What the user does.  A dialog covers the page behind it.

OpenForm(i, t) ==
  /\ NoDialog
  /\ editing' = [item |-> i, text |-> t]
  /\ error' = FALSE
  /\ typed' = None /\ overlap' = Running
  /\ UNCHANGED <<page, stored, shown, removing, form, request, upload, unsure>>

NewTaxonomy == page = "taxonomy" /\ \E t \in Texts : OpenForm(None, t)
EditTaxonomy(i) == page = "taxonomy" /\ shown[i] # None /\ OpenForm(i, shown[i])
NewMember == page = "members" /\ \E t \in Texts : OpenForm(None, t)
EditMember(i) == page = "members" /\ shown[i] # None /\ OpenForm(i, shown[i])
NewUser == page = "users" /\ \E t \in Texts : OpenForm(None, t)
EditUser(i) == page = "users" /\ shown[i] # None /\ OpenForm(i, shown[i])

OpenRemoval(i) ==
  /\ NoDialog /\ shown[i] # None
  /\ removing' = i
  /\ error' = FALSE
  /\ UNCHANGED <<page, stored, shown, editing, form, request, upload, typed,
                 overlap, unsure>>

AskTaxonomy(i) == page = "taxonomy" /\ OpenRemoval(i)
AskMember(i) == page = "members" /\ OpenRemoval(i)
AskMedia(i) == page = "media" /\ OpenRemoval(i)
AskReset(i) == page = "users" /\ OpenRemoval(i)

\* The button of the dialog or the Escape key, also while a call runs.
CloseDialog ==
  /\ ~NoDialog
  /\ editing' = None /\ removing' = None
  /\ typed' = None /\ overlap' = FALSE
  /\ UNCHANGED <<page, stored, shown, form, request, upload, error, unsure>>

Type(t) ==
  /\ editing # None /\ removing = None
  /\ editing' = [editing EXCEPT !.text = t]
  /\ typed' = t
  /\ overlap' = (overlap \/ Running)
  /\ UNCHANGED <<page, stored, shown, removing, form, request, upload, error,
                 unsure>>

TypeTaxonomy(t) == page = "taxonomy" /\ Type(t)
TypeMember(t) == page = "members" /\ Type(t)
TypeUser(t) == page = "users" /\ Type(t)

\* The fields and the navigation of the site settings.
TypeInSettings(t) ==
  /\ page = "settings"
  /\ form' = t
  /\ typed' = t
  /\ overlap' = Running
  /\ UNCHANGED <<page, stored, shown, editing, removing, request, upload,
                 error, unsure>>

\* The members' introduction: no answer touches it.
TypeIntro(t) ==
  /\ page = "members" /\ NoDialog
  /\ form' = t
  /\ UNCHANGED <<page, stored, shown, editing, removing, request, upload,
                 error, typed, overlap, unsure>>

\* Every button that starts a call is disabled while one runs.
Send(op, i, t, files) ==
  /\ ~Busy
  /\ request' = [op |-> op, item |-> i, text |-> t, files |-> files,
                 at |-> "sent"]
  /\ UNCHANGED <<page, stored, shown, editing, removing, form, upload, typed,
                 overlap, unsure>>

SaveTaxonomy ==
  /\ page = "taxonomy" /\ editing # None
  /\ error' = FALSE
  /\ Send("save", editing.item, editing.text, {})

RemoveTaxonomy ==
  /\ page = "taxonomy" /\ removing # None
  /\ error' = FALSE
  /\ Send("remove", removing, None, {})

SaveMember ==
  /\ page = "members" /\ editing # None
  /\ error' = FALSE
  /\ Send("save", editing.item, editing.text, {})

\* This one leaves an earlier failure in place.
RemoveMember ==
  /\ page = "members" /\ removing # None
  /\ Send("remove", removing, None, {})
  /\ UNCHANGED error

SaveIntro ==
  /\ page = "members" /\ NoDialog
  /\ error' = FALSE
  /\ Send("form", None, form, {})

SubmitSettings ==
  /\ page = "settings"
  /\ error' = FALSE
  /\ Send("form", None, form, {})

SaveUser ==
  /\ page = "users" /\ editing # None
  /\ error' = FALSE
  /\ Send("save", editing.item, editing.text, {})

ResetPassword ==
  /\ page = "users" /\ removing # None
  /\ error' = FALSE
  /\ Send("reset", removing, None, {})

RemoveMedia ==
  /\ page = "media" /\ removing # None
  /\ error' = FALSE
  /\ Send("remove", removing, None, {})

\* Several files, one after the other in one loop.
UploadMedia(files) ==
  /\ page = "media" /\ NoDialog
  /\ files # {}
  /\ error' = FALSE
  /\ Send("upload", None, None, files)

\* Not under "busy": the form stays usable, and may be closed, meanwhile.
UploadAvatar ==
  /\ page = "members" /\ editing # None
  /\ upload = None  \* bound: one upload at a time
  /\ upload' = editing
  /\ UNCHANGED <<page, stored, shown, editing, removing, form, request, error,
                 typed, overlap, unsure>>

--------------------------------------------------------------------------
\* The server.

Handled(at) == request' = [request EXCEPT !.at = at]

\* A new entry gets an identifier; one that is gone is refused.
ServeSave ==
  /\ Busy /\ request.at = "sent" /\ request.op = "save"
  /\ \E i \in Items :
       /\ IF request.item = None
            THEN stored[i] = None
            ELSE i = request.item /\ stored[i] # None
       /\ stored' = [stored EXCEPT ![i] = request.text]
       /\ request' = [request EXCEPT !.at = "done", !.item = i]

ServeRemoval ==
  /\ Busy /\ request.at = "sent" /\ request.op = "remove"
  /\ stored[request.item] # None
  /\ stored' = [stored EXCEPT ![request.item] = None]
  /\ Handled("done")

ServeUpload ==
  /\ Busy /\ request.at = "sent" /\ request.op = "upload"
  /\ \E i \in request.files :
       /\ stored[i] = None
       /\ \E t \in Texts :
            /\ stored' = [stored EXCEPT ![i] = t]
            /\ request' = [request EXCEPT !.at = "done", !.item = i, !.text = t,
                                          !.files = request.files \ {i}]

\* The form's values and a password: nothing the lists show.
ServeOther ==
  /\ Busy /\ request.at = "sent" /\ request.op \in {"form", "reset"}
  /\ Handled("done")
  /\ UNCHANGED stored

\* A validation, a duplicate, a reference that is left, a row that is gone.
Refuse ==
  /\ Busy /\ request.at = "sent"
  /\ Handled("refused")
  /\ UNCHANGED stored

Serve ==
  /\ ServeSave \/ ServeRemoval \/ ServeUpload \/ ServeOther \/ Refuse
  /\ UNCHANGED <<page, shown, editing, removing, form, upload, error, typed,
                 overlap, unsure>>

--------------------------------------------------------------------------
\* What the page does with an answer.

Done(p, op) == page = p /\ Busy /\ request.op = op /\ request.at = "done"

\* What was typed is saved if the call carried it.
Saved == typed' = IF request.text = typed THEN None ELSE typed

\* Fault variant: the answer changes the entry of the form that is open.
PutInForm == shown' = [shown EXCEPT ![IF editing # None /\ editing.item # None
                                        THEN editing.item ELSE request.item] = request.text]

\* The answer names the entry: the dialog may show another one by now.
PutEntry == shown' = [shown EXCEPT ![request.item] = request.text]
DropEntry == shown' = [shown EXCEPT ![request.item] = None]

CloseForm ==
  /\ PutEntry
  /\ editing' = None
  /\ Saved
  /\ request' = None
  /\ UNCHANGED <<page, stored, removing, form, upload, error, overlap, unsure>>

CloseRemoval ==
  /\ removing' = None
  /\ request' = None
  /\ UNCHANGED <<page, stored, editing, form, upload, error, typed, overlap,
                 unsure>>

TaxonomySaved == Done("taxonomy", "save") /\ CloseForm
MemberSaved == Done("members", "save") /\ CloseForm
UserSaved == Done("users", "save") /\ CloseForm
TaxonomyRemoved == Done("taxonomy", "remove") /\ DropEntry /\ CloseRemoval
MemberRemoved == Done("members", "remove") /\ DropEntry /\ CloseRemoval
MediaRemoved == Done("media", "remove") /\ DropEntry /\ CloseRemoval
PasswordReset == Done("users", "reset") /\ CloseRemoval /\ UNCHANGED shown

IntroSaved ==
  /\ Done("members", "form")
  /\ request' = None
  /\ UNCHANGED <<page, stored, shown, editing, removing, form, upload, error,
                 typed, overlap, unsure>>

\* The page takes over what the server answers, whatever was typed since.
SettingsSaved ==
  /\ Done("settings", "form")
  /\ form' = request.text
  /\ Saved
  /\ request' = None
  /\ UNCHANGED <<page, stored, shown, editing, removing, upload, error,
                 overlap, unsure>>

MediaUploaded ==
  /\ Done("media", "upload")
  /\ PutEntry
  /\ request' = IF request.files = {} THEN None
                ELSE [request EXCEPT !.at = "sent", !.item = None, !.text = None]
  /\ UNCHANGED <<page, stored, editing, removing, form, upload, error, typed,
                 overlap, unsure>>

\* A refusal: the dialog and its text stay; an upload loop stops.
ShowError ==
  /\ Busy /\ request.at = "refused"
  /\ error' = TRUE
  /\ request' = None
  /\ UNCHANGED <<page, stored, shown, editing, removing, form, upload, typed,
                 overlap, unsure>>

\* No answer, whether the server handled the call or not.
LoseAnswer ==
  /\ Busy
  /\ error' = TRUE
  /\ unsure' = (unsure \/ request.at = "done")
  /\ request' = None
  /\ UNCHANGED <<page, stored, shown, editing, removing, form, upload, typed,
                 overlap>>

\* The form becomes what it was when the upload began, with the new avatar.
AvatarUploaded ==
  /\ upload # None
  /\ editing' = upload
  /\ upload' = None
  /\ UNCHANGED <<page, stored, shown, removing, form, request, error, typed,
                 overlap, unsure>>

AvatarFailed ==
  /\ upload # None
  /\ error' = TRUE
  /\ upload' = None
  /\ UNCHANGED <<page, stored, shown, editing, removing, form, request, typed,
                 overlap, unsure>>

--------------------------------------------------------------------------
Answer ==
  \/ TaxonomySaved \/ TaxonomyRemoved
  \/ MemberSaved \/ MemberRemoved \/ IntroSaved
  \/ UserSaved \/ PasswordReset
  \/ MediaUploaded \/ MediaRemoved
  \/ SettingsSaved
  \/ ShowError \/ LoseAnswer
  \/ AvatarUploaded \/ AvatarFailed

Next ==
  \/ NewTaxonomy \/ NewMember \/ NewUser
  \/ \E i \in Items : EditTaxonomy(i) \/ EditMember(i) \/ EditUser(i)
  \/ \E i \in Items : AskTaxonomy(i) \/ AskMember(i) \/ AskMedia(i) \/ AskReset(i)
  \/ CloseDialog
  \/ \E t \in Texts : TypeTaxonomy(t) \/ TypeMember(t) \/ TypeUser(t)
  \/ \E t \in Texts : TypeInSettings(t) \/ TypeIntro(t)
  \/ SaveTaxonomy \/ RemoveTaxonomy
  \/ SaveMember \/ RemoveMember \/ SaveIntro \/ UploadAvatar
  \/ SubmitSettings
  \/ SaveUser \/ ResetPassword
  \/ RemoveMedia \/ \E files \in SUBSET Items : UploadMedia(files)
  \/ Serve
  \/ Answer

Spec == Init /\ [][Next]_vars

--------------------------------------------------------------------------
\* When no call runs and no answer was lost, the list shows what the server
\* stores: an answer changes the entry the call was about, whichever dialog
\* is open when it arrives.
ShownIsStored == (~Busy /\ ~unsure) => shown = stored

\* A failed save never costs the user what he typed: only an answer to a call
\* that was running while he typed can replace it.
InputIsKept ==
  (typed # None /\ ~overlap) =>
     IF page = "settings" THEN form = typed
     ELSE editing # None /\ editing.text = typed
=============================================================================
