----------------------------- MODULE References ------------------------------
(***************************************************************************)
(* What documents, revisions, members and the special pages refer to, and  *)
(* what may be deleted: a category or tag (src/lib/cms/taxonomy.ts), a     *)
(* member (members.ts), an uploaded image and its file (media.ts). One     *)
(* item of each kind; calls interleave statement by statement, each        *)
(* deletion being checks, then a delete, outside any transaction.          *)
(***************************************************************************)
CONSTANTS Editors

VARIABLES
  exists,     \* the items whose row is stored
  file,       \* the image's file: "absent" before the upload, "stored", "removed"
  reported,   \* the upload was reported to have succeeded
  content,    \* the items a document's draft, its published snapshot and its
              \* revisions refer to; whether the member's portrait (avatar) and
              \* a special page show the image
  call        \* the call each editor waits for

vars == <<exists, file, reported, content, call>>

Items == {"category", "member", "image"}
Ops == {"none", "save", "publish", "delete", "upload"}
Stages == {"start", "read", "delete", "audit", "unlink", "insert"}

\* Where a reference to an item is looked for before it is deleted.
Sources(i) ==
  CASE i = "category" -> {"links", "documents"}
    [] i = "member"   -> {"documents"}
    [] i = "image"    -> {"documents", "revisions", "members", "pages"}
AllSources == UNION {Sources(i) : i \in Items}

TypeOK ==
  /\ exists \subseteq Items /\ file \in {"absent", "stored", "removed"} /\ reported \in BOOLEAN
  /\ content \in [draft : SUBSET Items, published : SUBSET Items,
                  revisions : SUBSET Items, avatar : BOOLEAN, pages : BOOLEAN]
  /\ call \in [Editors -> [op : Ops, at : Stages, refs : SUBSET Items,
                           item : Items, unread : SUBSET AllSources,
                           stable : SUBSET AllSources, fresh : BOOLEAN]]

NoCall == [op |-> "none", at |-> "start", refs |-> {}, item |-> "image",
           unread |-> {}, stable |-> {}, fresh |-> TRUE]

\* The image has not been uploaded yet.
Init ==
  /\ exists = {"category", "member"} /\ file = "absent" /\ reported = FALSE
  /\ content = [draft |-> {}, published |-> {}, revisions |-> {},
                avatar |-> FALSE, pages |-> FALSE]
  /\ call = [e \in Editors |-> NoCall]

\* The join rows of the draft are the links.
Refers(c, s, i) ==
  CASE s = "links"     -> i = "category" /\ i \in c.draft
    [] s = "documents" -> i \in c.draft \union c.published
    [] s = "revisions" -> i \in c.revisions
    [] s = "members"   -> i = "image" /\ c.avatar
    [] s = "pages"     -> i = "image" /\ c.pages
References(i) == {s \in Sources(i) : Refers(content, s, i)}

Idle(e) == call[e].op = "none"
Ended(e, c) == [c EXCEPT ![e] = NoCall]
End(e) == call' = Ended(e, call)

\* New content: a running deletion's sources that have referred to its item
\* ever since it started (stable, a history field).
Change(new, calls) ==
  /\ content' = new
  /\ call' = [e \in Editors |->
       [calls[e] EXCEPT !.stable = {s \in @ : Refers(new, s, calls[e].item)}]]

\* The document has a new version: the others' calls about it will conflict.
Outdate(calls) ==
  [e \in Editors |-> [calls[e] EXCEPT !.fresh = calls[e].op \notin {"save", "publish"}]]

--------------------------------------------------------------------------
\* saveDocument and restoreRevision: what the draft refers to (bound: one item)
\* is picked from the lists, or was referred to before; the category must exist
\* when it is looked up, and, by the foreign key of its join row, when the
\* transaction commits.

StartSave(e) ==
  /\ Idle(e)
  /\ \E refs \in {{}} \union {{i} : i \in exists \union content.revisions} :
       /\ "category" \in refs => "category" \in exists
       /\ call' = [call EXCEPT ![e] = [NoCall EXCEPT !.op = "save", !.refs = refs]]
  /\ UNCHANGED <<exists, file, reported, content>>

CommitSave(e) ==
  /\ call[e].op = "save" /\ call[e].fresh
  /\ "category" \in call[e].refs => "category" \in exists
  /\ Change([content EXCEPT !.draft = call[e].refs,
                            !.revisions = @ \union call[e].refs],
            Outdate(Ended(e, call)))
  /\ UNCHANGED <<exists, file, reported>>

\* Publishing looks the draft's category up and takes the draft as it is.
StartPublish(e) ==
  /\ Idle(e)
  /\ "category" \in content.draft => "category" \in exists
  /\ call' = [call EXCEPT ![e] = [NoCall EXCEPT !.op = "publish"]]
  /\ UNCHANGED <<exists, file, reported, content>>

CommitPublish(e) ==
  /\ call[e].op = "publish" /\ call[e].fresh
  /\ Change([content EXCEPT !.published = content.draft,
                            !.revisions = @ \union content.draft],
            Outdate(Ended(e, call)))
  /\ UNCHANGED <<exists, file, reported>>

Unpublish(e) ==
  /\ Idle(e) /\ content.published # {}
  /\ Change([content EXCEPT !.published = {},
                            !.revisions = @ \union content.draft],
            Outdate(call))
  /\ UNCHANGED <<exists, file, reported>>

\* saveMember and the special pages' actions; the image is picked from a list.
SaveMember(e) ==
  /\ Idle(e) /\ "member" \in exists
  /\ \E shown \in BOOLEAN :
       /\ shown => "image" \in exists \/ content.avatar
       /\ Change([content EXCEPT !.avatar = shown], call)
  /\ UNCHANGED <<exists, file, reported>>

SavePages(e) ==
  /\ Idle(e)
  /\ \E shown \in BOOLEAN :
       /\ shown => "image" \in exists \/ content.pages
       /\ Change([content EXCEPT !.pages = shown], call)
  /\ UNCHANGED <<exists, file, reported>>

--------------------------------------------------------------------------
\* deleteTaxonomy, deleteMember, deleteMedia.

StartDelete(e) ==
  /\ Idle(e)
  /\ \E i \in exists :
       call' = [call EXCEPT ![e] =
         [NoCall EXCEPT !.op = "delete", !.at = "read", !.item = i,
                        !.unread = Sources(i),
                        !.stable = References(i)]]
  /\ UNCHANGED <<exists, file, reported, content>>

\* Fault variant: only what is current counts.
IgnoreRevisions(e) ==
  /\ call[e].at = "read"
  /\ \E s \in call[e].unread :
       IF s # "revisions" /\ Refers(content, s, call[e].item) THEN End(e)
       ELSE call' = [call EXCEPT ![e].unread = @ \ {s},
                                 ![e].at = IF call[e].unread = {s} THEN "delete" ELSE @]
  /\ UNCHANGED <<exists, file, reported, content>>

\* The sources are read side by side; one reference refuses the deletion.
ReadSource(e) ==
  /\ call[e].at = "read"
  /\ \E s \in call[e].unread :
       IF Refers(content, s, call[e].item) THEN End(e)
       ELSE call' = [call EXCEPT ![e].unread = @ \ {s},
                                 ![e].at = IF call[e].unread = {s} THEN "delete" ELSE @]
  /\ UNCHANGED <<exists, file, reported, content>>

\* A join row keeps its category; a member takes the portrait along.
DeleteRow(e) ==
  LET i == call[e].item IN
  /\ call[e].at = "delete"
  /\ IF i \notin exists \/ (i = "category" /\ Refers(content, "links", i))
       THEN End(e) /\ UNCHANGED <<exists, content>>
       ELSE /\ exists' = exists \ {i}
            /\ Change([content EXCEPT !.avatar = @ /\ i # "member"],
                      [call EXCEPT ![e].at = "audit"])
  /\ UNCHANGED <<file, reported>>

DeleteAudit(e) ==
  /\ call[e].op = "delete" /\ call[e].at = "audit"
  /\ IF call[e].item = "image" THEN call' = [call EXCEPT ![e].at = "unlink"]
     ELSE End(e)
  /\ UNCHANGED <<exists, file, reported, content>>

Unlink(e) ==
  /\ call[e].at = "unlink"
  /\ file' = "removed"
  /\ End(e)
  /\ UNCHANGED <<exists, reported, content>>

--------------------------------------------------------------------------
\* uploadMedia: the file, the row, the audit row; a failure removes the file.

WriteUpload(e) ==
  /\ Idle(e) /\ file = "absent"
  /\ file' = "stored"
  /\ call' = [call EXCEPT ![e] = [NoCall EXCEPT !.op = "upload", !.at = "insert"]]
  /\ UNCHANGED <<exists, reported, content>>

InsertMedia(e) ==
  /\ call[e].at = "insert"
  /\ exists' = exists \union {"image"}
  /\ call' = [call EXCEPT ![e].at = "audit"]
  /\ UNCHANGED <<file, reported, content>>

UploadAudit(e) ==
  /\ call[e].op = "upload" /\ call[e].at = "audit"
  /\ reported' = TRUE
  /\ End(e)
  /\ UNCHANGED <<exists, file, content>>

\* A statement fails, or a save finds another version of its document, and
\* the call answers with an error. What a deletion did stays done; an upload
\* removes its file unless that fails too, a row that was committed stays.
Fail(e) ==
  /\ ~Idle(e)
  /\ file' \in {file, IF call[e].op = "upload" THEN "removed" ELSE file}
  /\ End(e)
  /\ UNCHANGED <<exists, reported, content>>

Next ==
  \E e \in Editors :
    \/ StartSave(e) \/ CommitSave(e) \/ StartPublish(e) \/ CommitPublish(e)
    \/ Unpublish(e) \/ SaveMember(e) \/ SavePages(e)
    \/ StartDelete(e) \/ ReadSource(e) \/ DeleteRow(e) \/ DeleteAudit(e) \/ Unlink(e)
    \/ WriteUpload(e) \/ InsertMedia(e) \/ UploadAudit(e) \/ Fail(e)

Spec == Init /\ [][Next]_vars

--------------------------------------------------------------------------
\* A draft's category is there, whoever deletes it and whoever saves.
DraftCategoryExists == "category" \in content.draft => "category" \in exists

\* No deletion overlooks a reference: what referred to the item from before
\* the check until the delete makes the deletion stop.
CheckSeesReferences ==
  \A e \in Editors :
    (call[e].op = "delete" /\ call[e].at = "delete") => call[e].stable = {}

\* An image whose upload was reported to have succeeded can be read until its
\* row is gone.
UploadedIsReadable == (reported /\ "image" \in exists) => file = "stored"
=============================================================================
