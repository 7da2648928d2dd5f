--------------------------- MODULE DocumentEditor ----------------------------
(***************************************************************************)
(* The editor page of one document (components/admin/DocumentEditor.tsx)   *)
(* in the browser: typing, the autosave timer, saving, the workflow's      *)
(* buttons, restoring a revision and uploading a cover overlap, answers    *)
(* come late or never, and somebody else changes the document meanwhile.   *)
(*                                                                         *)
(* A text stands for everything the form holds.  Each change of it makes a *)
(* new text, numbered by the page's serial.                                *)
(***************************************************************************)
EXTENDS Naturals, Sequences
CONSTANTS None,
  Untitled,    \* the texts without a title
  MaxSerial,   \* bound: changes of the text
  MaxVersion   \* bound: versions of a document

VARIABLES
  docs,        \* the server's documents, the page's own and its duplicates
  role, record, data, dirty, serial, busy, error, confirm,  \* React's state
  seen,        \* the text of the last rendering, which the callbacks hold
  timer,       \* the autosave timer is running
  call,        \* the save or transition that runs (busyRef)
  restoring,   \* the restoration that runs
  uploading,   \* a cover upload runs
  wanted,      \* history: the text the user has put in last
  excused,     \* history: a restoration came after it, or a save before its
               \* rendering
  lostFirst    \* history: the answer of a first save was lost

vars == <<docs, role, record, data, dirty, serial, busy, error, confirm, seen,
          timer, call, restoring, uploading, wanted, excused, lostFirst>>
server == <<docs, role, lostFirst>>
form == <<data, seen, dirty, serial, wanted, excused>>

Texts == 0 .. MaxSerial
Actions == {"publish", "submit", "return", "unpublish", "trash", "restore",
            "delete"}
Confirmed == {"unpublish", "trash", "delete"}

\* history: the text of each version; public: the published text.
Doc == [history : Seq(Texts), status : {"draft", "review", "published",
        "archived", "deleted"}, public : Texts \union {None}]
\* What the page knows of its document.
Record == [id : 1 .. 2, version : 1 .. MaxVersion, status : {"draft", "review",
           "published", "archived"}, public : Texts \union {None}]
Call == [op : Actions \union {"save"}, id : 0 .. 2, version : 0 .. MaxVersion,
         text : Texts, serial : Texts, next : Actions \union {None},
         at : {"sent", "done", "refused"}, result : Record \union {None}]
Restoration == [id : 1 .. 2, version : 1 .. MaxVersion, text : Texts,
                serial : Texts, at : {"sent", "done", "refused"},
                result : Record \union {None}]

TypeOK ==
  /\ docs \in Seq(Doc)
  /\ role \in {"author", "editor", "admin"}
  /\ record \in Record \union {None}
  /\ data \in Texts /\ seen \in Texts /\ serial \in Texts /\ wanted \in Texts
  /\ dirty \in BOOLEAN /\ busy \in BOOLEAN /\ error \in BOOLEAN
  /\ timer \in BOOLEAN /\ uploading \in BOOLEAN
  /\ excused \in BOOLEAN /\ lostFirst \in BOOLEAN
  /\ confirm \in Confirmed \union {None}
  /\ call \in Call \union {None}
  /\ restoring \in Restoration \union {None}

RecordOf(d, i) == [id |-> i, version |-> Len(d.history), status |-> d.status,
                   public |-> d.public]

\* A new document, or one that has been saved once.
Init ==
  /\ docs \in {<<>>, <<[history |-> <<0>>, status |-> "draft", public |-> None]>>}
  /\ role \in {"author", "editor", "admin"}
  /\ record = IF docs = <<>> THEN None ELSE RecordOf(docs[1], 1)
  /\ data = 0 /\ seen = 0 /\ serial = 0 /\ wanted = 0
  /\ dirty = FALSE /\ busy = FALSE /\ error = FALSE /\ timer = FALSE
  /\ uploading = FALSE /\ excused = FALSE /\ lostFirst = FALSE
  /\ confirm = None /\ call = None /\ restoring = None

--------------------------------------------------------------------------
\* Typing.

\* update(), after which the page is rendered with the new text.
Update ==
  /\ serial < MaxSerial
  /\ confirm = None
  /\ data' = serial + 1 /\ seen' = serial + 1 /\ wanted' = serial + 1
  /\ serial' = serial + 1
  /\ dirty' = TRUE
  /\ timer' = TRUE
  /\ excused' = FALSE
  /\ UNCHANGED <<server, record, busy, error, confirm, call, restoring,
                 uploading>>

\* Title, excerpt and body; address, category, tags; cover and its caption.
EditContent == Update
EditSettings == Update
EditCover == Update

CoverUpload ==
  /\ ~uploading  \* bound: one upload at a time
  /\ confirm = None
  /\ uploading' = TRUE
  /\ error' = FALSE
  /\ UNCHANGED <<server, form, record, busy, confirm, timer, call, restoring>>

\* The answer changes the text outside of an event: it is rendered later.
CoverUploaded ==
  /\ uploading /\ serial < MaxSerial
  /\ uploading' = FALSE
  /\ data' = serial + 1 /\ wanted' = serial + 1
  /\ serial' = serial + 1
  /\ excused' = FALSE
  /\ UNCHANGED <<server, seen, dirty, record, busy, error, confirm, timer,
                 call, restoring>>

CoverFailed ==
  /\ uploading
  /\ uploading' = FALSE
  /\ error' = TRUE
  /\ UNCHANGED <<server, form, record, busy, confirm, timer, call, restoring>>

\* A rendering with another text restarts the timer.
Render ==
  /\ seen # data
  /\ seen' = data
  /\ dirty' = TRUE
  /\ timer' = TRUE
  /\ UNCHANGED <<server, data, serial, wanted, excused, record, busy, error,
                 confirm, call, restoring, uploading>>

Rendered == seen = data

--------------------------------------------------------------------------
\* Saving.

RecordId == IF record = None THEN 0 ELSE record.id
RecordVersion == IF record = None THEN 0 ELSE record.version

\* save(): what it sends is what the page last rendered.
StartSave(next) ==
  /\ call = None
  /\ call' = [op |-> "save", id |-> RecordId, version |-> RecordVersion,
              text |-> seen, serial |-> serial, next |-> next,
              at |-> "sent", result |-> None]
  /\ busy' = TRUE
  /\ error' = FALSE

Status == IF record = None THEN "new" ELSE record.status
Deleted == Status = "archived"

ClickSave ==
  /\ ~busy /\ ~Deleted /\ confirm = None
  /\ StartSave(None) /\ excused' = (excused \/ ~Rendered)
  /\ UNCHANGED <<server, data, seen, dirty, serial, wanted, record, confirm, timer,
                 restoring, uploading>>

\* The timer fires once: a save that is refused by busyRef or for want of a
\* title is not repeated.
Autosave ==
  /\ timer
  /\ timer' = FALSE
  /\ IF call = None /\ seen \notin Untitled
       THEN StartSave(None) /\ excused' = (excused \/ ~Rendered)
       ELSE UNCHANGED <<call, busy, error, excused>>
  /\ UNCHANGED <<server, data, seen, dirty, serial, wanted, record, confirm,
                 restoring, uploading>>

\* The page continues with a new record: the timer restarts if it is dirty.
StartTransition(a, r) ==
  /\ call' = [op |-> a, id |-> r.id, version |-> r.version, text |-> data,
              serial |-> serial, next |-> None, at |-> "sent", result |-> None]
  /\ busy' = TRUE
  /\ error' = FALSE

\* Fault variant: the answer is taken over whatever was typed meanwhile.
SavedUnchecked ==
  /\ call # None /\ call.op = "save" /\ call.at = "done"
  /\ record' = call.result
  /\ data' = call.text /\ seen' = call.text
  /\ dirty' = FALSE /\ timer' = FALSE
  /\ call' = None /\ busy' = FALSE
  /\ UNCHANGED <<server, serial, wanted, excused, error, confirm, restoring,
                 uploading>>

\* The answer says what was saved; what was typed since stays dirty.
Saved ==
  /\ call # None /\ call.op = "save" /\ call.at = "done"
  /\ record' = call.result
  /\ IF serial = call.serial
       THEN /\ data' = call.text /\ seen' = call.text
            /\ dirty' = FALSE /\ timer' = FALSE
       ELSE /\ timer' = dirty
            /\ UNCHANGED <<data, seen, dirty>>
  /\ IF call.next = None
       THEN call' = None /\ busy' = FALSE /\ UNCHANGED error
       ELSE StartTransition(call.next, call.result)
  /\ UNCHANGED <<server, serial, wanted, excused, confirm, restoring,
                 uploading>>

--------------------------------------------------------------------------
\* The workflow's buttons.

CanPublish == role # "author"

Offered(a) ==
  CASE a = "publish"   -> CanPublish /\ ~Deleted
    [] a = "submit"    -> ~CanPublish /\ Status \notin {"review", "archived"}
    [] a = "return"    -> CanPublish /\ Status = "review"
    [] a = "unpublish" -> CanPublish /\ record # None /\ record.public # None
    [] a = "trash"     -> record # None /\ ~Deleted
    [] a = "restore"   -> Deleted
    [] a = "delete"    -> Deleted /\ role = "admin"

\* transition(): a dirty page is saved first, and the answer's version used.
Transition(a) ==
  /\ call = None
  /\ confirm' = None
  /\ IF dirty \/ record = None
       THEN StartSave(a) /\ excused' = (excused \/ ~Rendered)
       ELSE StartTransition(a, record) /\ UNCHANGED excused
  /\ UNCHANGED <<server, data, seen, dirty, serial, wanted, record, timer, restoring,
                 uploading>>

ClickTransition(a) ==
  /\ a \notin Confirmed /\ ~busy /\ confirm = None /\ Offered(a)
  /\ Transition(a)

\* Fault variant: every button of the workflow asks.
AskAlways(a) ==
  /\ ~busy /\ confirm = None /\ Offered(a)
  /\ confirm' = a
  /\ UNCHANGED <<server, form, record, busy, error, timer, call, restoring,
                 uploading>>

\* "Delete" alone stays enabled while a call runs.
AskConfirmation(a) ==
  /\ a \in Confirmed /\ (~busy \/ a = "delete") /\ confirm = None /\ Offered(a)
  /\ confirm' = a
  /\ UNCHANGED <<server, form, record, busy, error, timer, call, restoring,
                 uploading>>

Confirm == confirm # None /\ Transition(confirm)

Cancel ==
  /\ confirm # None
  /\ confirm' = None
  /\ UNCHANGED <<server, form, record, busy, error, timer, call, restoring,
                 uploading>>

\* Trash and delete leave the page, which the model follows no further.
Transitioned ==
  /\ call # None /\ call.op # "save" /\ call.at = "done"
  /\ call.op \notin {"trash", "delete"}
  /\ record' = call.result
  /\ timer' = dirty
  /\ call' = None /\ busy' = FALSE
  /\ UNCHANGED <<server, form, error, confirm, restoring, uploading>>

--------------------------------------------------------------------------
\* Failures.

\* A refusal: nothing the user has typed is touched.
Refused ==
  /\ call # None /\ call.at = "refused"
  /\ error' = TRUE
  /\ call' = None /\ busy' = FALSE
  /\ UNCHANGED <<server, form, record, confirm, timer, restoring, uploading>>

\* No answer, whether the server has handled the call or not.
Lost ==
  /\ call # None
  /\ error' = TRUE
  /\ call' = None /\ busy' = FALSE
  /\ lostFirst' = (lostFirst \/ (call.id = 0 /\ call.at = "done"))
  /\ UNCHANGED <<docs, role, form, record, confirm, timer, restoring,
                 uploading>>

--------------------------------------------------------------------------
\* Restoring a revision of the list.

Restore(v) ==
  /\ record # None /\ ~busy /\ ~dirty /\ confirm = None
  /\ restoring = None  \* bound: one restoration at a time
  /\ v <= record.version
  /\ restoring' = [id |-> record.id, version |-> record.version,
                   text |-> docs[record.id].history[v], serial |-> serial,
                   at |-> "sent", result |-> None]
  /\ busy' = TRUE
  /\ UNCHANGED <<server, form, record, error, confirm, timer, call, uploading>>

\* The page shows the revision, whatever was typed since the click.
Restored ==
  /\ restoring # None /\ restoring.at = "done"
  /\ record' = restoring.result
  /\ data' = restoring.text /\ seen' = restoring.text
  /\ dirty' = FALSE /\ timer' = FALSE
  /\ wanted' = IF serial = restoring.serial THEN restoring.text ELSE wanted
  /\ excused' = (serial # restoring.serial)
  /\ restoring' = None /\ busy' = FALSE
  /\ UNCHANGED <<server, serial, error, confirm, call, uploading>>

RestoreFailed ==
  /\ restoring # None
  /\ error' = TRUE
  /\ restoring' = None /\ busy' = FALSE
  /\ UNCHANGED <<server, form, record, confirm, timer, call, uploading>>

--------------------------------------------------------------------------
\* The server: every change of an existing document needs its version.

Current(c) == c.id # 0 /\ Len(docs[c.id].history) = c.version
              /\ docs[c.id].status # "deleted"

Store(i, d) ==
  /\ Len(d.history) <= MaxVersion
  /\ docs' = [docs EXCEPT ![i] = d]

Append1(d, t) == [d EXCEPT !.history = Append(@, t)]
Draft(d) == d.history[Len(d.history)]

ServeFirstSave ==
  /\ call # None /\ call.op = "save" /\ call.id = 0 /\ call.at = "sent"
  /\ call.text \notin Untitled
  /\ Len(docs) < 2
  /\ LET d == [history |-> <<call.text>>, status |-> "draft", public |-> None] IN
       /\ docs' = Append(docs, d)
       /\ call' = [call EXCEPT !.at = "done",
                               !.result = RecordOf(d, Len(docs) + 1)]

ServeSave ==
  /\ call # None /\ call.op = "save" /\ call.at = "sent" /\ Current(call)
  /\ call.text \notin Untitled /\ docs[call.id].status # "archived"
  /\ LET d == Append1(docs[call.id], call.text) IN
       /\ Store(call.id, d)
       /\ call' = [call EXCEPT !.at = "done", !.result = RecordOf(d, call.id)]

\* The workflow in short: the Documents module has it in full.
After(a, d) ==
  CASE a = "submit"    -> [d EXCEPT !.status = "review"]
    [] a = "return"    -> [d EXCEPT !.status = "draft"]
    [] a = "publish"   -> [d EXCEPT !.status = "published", !.public = Draft(d)]
    [] a = "unpublish" -> [d EXCEPT !.status = "draft", !.public = None]
    [] a = "trash"     -> [d EXCEPT !.status = "archived"]
    [] a = "restore"   -> [d EXCEPT !.status = IF d.public = None THEN "draft"
                                               ELSE "published"]
    [] a = "delete"    -> [d EXCEPT !.status = "deleted"]

ServeTransition ==
  /\ call # None /\ call.op # "save" /\ call.at = "sent" /\ Current(call)
  /\ (docs[call.id].status = "archived") = (call.op \in {"restore", "delete"})
  /\ LET old == docs[call.id]
         new == Append1(After(call.op, old), Draft(old)) IN
       /\ Store(call.id, new)
       /\ call' = [call EXCEPT !.at = "done",
            !.result = IF call.op = "delete" THEN None ELSE RecordOf(new, call.id)]

ServeRestoration ==
  /\ restoring # None /\ restoring.at = "sent" /\ Current(restoring)
  /\ docs[restoring.id].status # "archived"
  /\ LET d == Append1(docs[restoring.id], restoring.text) IN
       /\ Store(restoring.id, d)
       /\ restoring' = [restoring EXCEPT !.at = "done",
                                         !.result = RecordOf(d, restoring.id)]

\* A conflict, a validation or a permission.
ServeRefusal ==
  /\ call # None /\ call.at = "sent"
  /\ call' = [call EXCEPT !.at = "refused"]

Serve ==
  /\ \/ (ServeFirstSave \/ ServeSave \/ ServeTransition) /\ UNCHANGED restoring
     \/ ServeRestoration /\ UNCHANGED call
     \/ ServeRefusal /\ UNCHANGED <<docs, restoring>>
  /\ UNCHANGED <<form, role, record, busy, error, confirm, timer, uploading,
                 lostFirst>>

\* Another editor saves (text 0), or publishes what is stored.
SomebodyElse ==
  /\ \E i \in 1 .. Len(docs), publish \in BOOLEAN :
       /\ docs[i].status \notin {"archived", "deleted"}
       /\ Store(i, IF publish THEN Append1(After("publish", docs[i]), Draft(docs[i]))
                   ELSE Append1(docs[i], 0))
  /\ UNCHANGED <<form, role, record, busy, error, confirm, timer, call,
                 restoring, uploading, lostFirst>>

--------------------------------------------------------------------------
Next ==
  \/ EditContent \/ EditSettings \/ EditCover
  \/ CoverUpload \/ CoverUploaded \/ CoverFailed \/ Render
  \/ ClickSave \/ Autosave \/ Saved
  \/ \E a \in Actions : ClickTransition(a) \/ AskConfirmation(a)
  \/ Confirm \/ Cancel \/ Transitioned
  \/ Refused \/ Lost
  \/ \E v \in 1 .. MaxVersion : Restore(v)
  \/ Restored \/ RestoreFailed
  \/ Serve \/ SomebodyElse

Spec == Init /\ [][Next]_vars

--------------------------------------------------------------------------
\* The text the user put in last stays on the page, through late and lost
\* answers, refusals and autosaves of older texts.
InputIsKept == excused \/ data = wanted

\* A page that says it has no unsaved change shows a text the server stores:
\* under the version the page knows.
CleanIsStored ==
  (record # None /\ ~dirty /\ Rendered) =>
     docs[record.id].history[record.version] = data

\* No change is forgotten: an autosave is due, a call runs whose answer will
\* restart the timer, or the page shows that something failed.
ChangesAreWatched ==
  (dirty /\ Rendered /\ data \notin Untitled) =>
     timer \/ call # None \/ uploading \/ error

\* One page makes one document, unless the answer of a first save was lost.
OneDocument == Len(docs) > 1 => lostFirst
=============================================================================
