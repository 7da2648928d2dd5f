----------------------------- MODULE Documents ------------------------------
(***************************************************************************)
(* One post of the CMS and everybody who works on it                       *)
(* (src/src/lib/cms/documents.ts): authors and editors save, submit,       *)
(* publish and withdraw it from pages loaded some time ago; publishing and *)
(* manual pushes queue mail about it (src/src/lib/community).              *)
(*                                                                         *)
(* An action of a client is a request in three steps: it is asked for on a *)
(* page that shows one version, its transaction reads the row without a    *)
(* lock, and an UPDATE guarded by the version the page showed applies it.  *)
(* What follows the UPDATE in the transaction sees the row locked, so it   *)
(* is one step with it; a retry of the mail job in between is as good as   *)
(* one after it.  Any transaction may fail: a taken slug, a deleted        *)
(* category, a lost connection.  Mail settings are not tracked: a read of  *)
(* them may find anything.                                                 *)
(***************************************************************************)
EXTENDS Naturals, Sequences

CONSTANTS
  Users,       \* who may work on the post: its author, editors, admins
  Editors,     \* those with canEditAll, admins among them
  Admins,
  Nobody,
  Contents, NoContent,
  MaxVersion   \* bound on the versions of the post

ASSUME UsersAssumption ==
  Admins \subseteq Editors /\ Editors \subseteq Users /\ Nobody \notin Users

ASSUME ContentsAssumption == NoContent \notin Contents

ASSUME MaxVersionAssumption == MaxVersion \in Nat

VARIABLES
  doc,        \* the row of documents
  revisions,  \* the rows of revisions: version -> data
  marker,     \* TRUE: the row of community_publications exists
  notice,     \* the mail job about the post for one confirmed subscriber
  lock,       \* who holds the row of documents with SELECT ... FOR UPDATE
  client,     \* the page and the request of each user
  approved,   \* history: drafts shown to the editors who asked to publish
  automatic,  \* history: automatic mailings to the subscribers, 2 for "more"
  retried     \* history: TRUE once an administrator retried the mail job

vars == <<doc, revisions, marker, notice, lock, client, approved, automatic,
          retried>>

Drafts == Contents \union {NoContent}
Statuses == {"absent", "draft", "review", "published", "archived", "deleted"}

Document == [status : Statuses, version : Nat, draft : Drafts,
             published : Drafts, trashed : BOOLEAN]
NoDocument == [status |-> "absent", version |-> 0, draft |-> NoContent,
               published |-> NoContent, trashed |-> FALSE]

Edits == {"save", "revert"}
Transitions == {"submit", "return", "publish", "unpublish", "trash",
                "restore", "delete"}

\* page: the user looks at the version "seen"; asked: a server action runs;
\* tx: its transaction has read "current"; preview, locked: a manual push.
Phases == {"away", "page", "asked", "tx", "preview", "locked"}
Client == [phase : Phases, seen : Document, request : Edits \union Transitions,
           data : Drafts, delivery : BOOLEAN, current : Document]
NoClient == [phase |-> "away", seen |-> NoDocument, request |-> "save",
             data |-> NoContent, delivery |-> FALSE, current |-> NoDocument]

Notice == [status : {"none", "open", "failed", "closed"}, content : Drafts]

TypeOK ==
  /\ doc \in Document
  /\ doc.trashed <=> doc.status = "archived"
  /\ DOMAIN revisions \subseteq Nat
  /\ \A n \in DOMAIN revisions : revisions[n] \in Drafts
  /\ marker \in BOOLEAN
  /\ notice \in Notice
  /\ lock \in Users \union {Nobody}
  /\ client \in [Users -> Client]
  /\ approved \subseteq Drafts
  /\ automatic \in 0..2
  /\ retried \in BOOLEAN

Init ==
  /\ doc = NoDocument
  /\ revisions = <<>>
  /\ marker = FALSE
  /\ notice = [status |-> "none", content |-> NoContent]
  /\ lock = Nobody
  /\ client = [u \in Users |-> NoClient]
  /\ approved = {}
  /\ automatic = 0
  /\ retried = FALSE

Exists(row) == row.status \notin {"absent", "deleted"}

\* publicSnapshotConditions, and the same conditions of a worker and a push.
Public(row) ==
  /\ Exists(row)
  /\ row.published # NoContent
  /\ ~row.trashed
  /\ row.status # "archived"

mail == <<marker, notice, automatic>>

Idle(u) == client' = [client EXCEPT ![u] = NoClient]
-----------------------------------------------------------------------------
(* Requests. *)

\* saveDocument without an id.
Create(u, x) ==
  /\ client[u].phase = "away"
  /\ doc.status = "absent"
  /\ doc' = [NoDocument EXCEPT !.status = "draft", !.version = 1, !.draft = x]
  /\ revisions' = [n \in {1} |-> x]
  /\ client' = [client EXCEPT ![u] =
                  [NoClient EXCEPT !.phase = "page", !.seen = doc']]
  /\ UNCHANGED <<mail, lock, approved, retried>>

\* getAdminDocument, on any visit; or the page is left.
Load(u) ==
  /\ client[u].phase \in {"away", "page"}
  /\ Exists(doc)
  /\ client' = [client EXCEPT ![u] =
                  [NoClient EXCEPT !.phase = "page", !.seen = doc]]
  /\ UNCHANGED <<doc, revisions, mail, lock, approved, retried>>

\* The server action starts.  It carries the version of the page; publishing
\* reads the mail settings before its transaction begins.  The user stays
\* able to ask again from the same page, whatever becomes of the request.
Ask(u, request, x, delivery) ==
  /\ client[u].phase = "page"
  /\ request = "save" => x \in Contents
  /\ request = "revert" => \E n \in DOMAIN revisions : x = revisions[n]
  /\ request \in Transitions => x = NoContent
  /\ delivery => request = "publish"
  /\ client' = [client EXCEPT ![u].phase = "asked", ![u].request = request,
                              ![u].data = x, ![u].delivery = delivery]
  /\ approved' = IF request = "publish" /\ u \in Editors
                 THEN approved \union {client[u].seen.draft} ELSE approved
  /\ UNCHANGED <<doc, revisions, mail, lock, retried>>

\* What the code checks on the row it has read, for each request.
MayEdit(row) == row.status # "archived"

MayMove(u, row, request) ==
  \/ request = "submit" /\ row.status \in {"draft", "published"}
  \/ request = "return" /\ row.status = "review" /\ u \in Editors
  \/ /\ request = "publish" /\ u \in Editors
     /\ row.status \in {"draft", "review", "published"}
  \/ /\ request = "unpublish" /\ u \in Editors
     /\ row.published # NoContent /\ row.status # "archived"
  \/ /\ request = "trash" /\ row.status # "archived"
     /\ row.published # NoContent => u \in Editors
  \/ /\ request = "restore" /\ row.status = "archived"
     /\ row.published # NoContent => u \in Editors
  \/ request = "delete" /\ u \in Admins

Allowed(u, row, request) ==
  /\ Exists(row)
  /\ request \in Edits => MayEdit(row)
  /\ request \in Transitions => MayMove(u, row, request)

\* The transaction begins and reads the row.
Begin(u) ==
  /\ client[u].phase = "asked"
  /\ client' = [client EXCEPT ![u].phase = "tx", ![u].current = doc]
  /\ UNCHANGED <<doc, revisions, mail, lock, approved, retried>>

\* The request is refused on what was read, or fails.
Refuse(u) ==
  /\ client[u].phase \in {"asked", "tx"}
  /\ client' = [client EXCEPT ![u] =
                  [NoClient EXCEPT !.phase = "page", !.seen = client[u].seen]]
  /\ UNCHANGED <<doc, revisions, mail, lock, approved, retried>>

\* The status a request leads to, decided on the row that was read.
NextStatus(row, request) ==
  CASE request = "submit" -> "review"
    [] request \in {"return", "unpublish"} -> "draft"
    [] request = "publish" -> "published"
    [] request = "trash" -> "archived"
    [] request = "delete" -> "deleted"
    [] request = "restore" ->
         IF row.published # NoContent THEN "published" ELSE "draft"

\* Fault variant: restoring forgets deletedAt.
UpdatedKeepsTrashed(row, read, request, x) ==
  [status |-> IF request \in Edits THEN row.status
              ELSE NextStatus(read, request),
   version |-> row.version + 1,
   draft |-> IF request \in Edits THEN x ELSE row.draft,
   published |-> IF request = "publish" THEN read.draft
                 ELSE IF request = "unpublish" THEN NoContent
                 ELSE row.published,
   trashed |-> row.trashed \/ request = "trash"]

\* SET draft = ..., or SET status, published, deletedAt: of the row that is
\* updated, to values computed from the row that was read.
Updated(row, read, request, x) ==
  [status |-> IF request \in Edits THEN row.status
              ELSE NextStatus(read, request),
   version |-> row.version + 1,
   draft |-> IF request \in Edits THEN x ELSE row.draft,
   published |-> IF request = "publish" THEN read.draft
                 ELSE IF request = "unpublish" THEN NoContent
                 ELSE row.published,
   trashed |-> \/ request = "trash"
               \/ row.trashed /\ request \notin {"publish", "restore"}]

\* INSERT INTO revisions; a version that has one fails the transaction.
Record(version, data) ==
  /\ version \notin DOMAIN revisions
  /\ revisions' = [n \in DOMAIN revisions \union {version} |->
                     IF n = version THEN data ELSE revisions[n]]

\* suppressPostMailJobs, and the insert of enqueueMail for a dedupe key.
Suppressed(job) ==
  IF job.status = "open" THEN [job EXCEPT !.status = "closed"] ELSE job

Queued(job, content) ==
  IF job.status = "none" THEN [status |-> "open", content |-> content] ELSE job

\* Fault variant: moving a post to the trash leaves its mail alone.
WithdrawalsWithoutTrash == {"unpublish", "delete"}

Withdrawals == {"unpublish", "trash", "delete"}

\* Fault variant: a republication counts as a first one.
AnyPublication(read, request) ==
  request = "publish" /\ read.published = NoContent

\* recordInitialPublishedPost inserts the marker unless there is one.
FirstPublication(read, request) ==
  request = "publish" /\ read.published = NoContent /\ ~marker

\* What the transaction of a transition does about mail.
UpdateMail(read, request, delivery) ==
  \/ /\ request \in Withdrawals
     /\ notice' = Suppressed(notice)
     /\ marker' = (marker /\ request # "delete")
     /\ UNCHANGED automatic
  \/ /\ FirstPublication(read, request)
     /\ marker' = TRUE
     /\ \/ UNCHANGED <<notice, automatic>>
        \/ /\ delivery
           /\ notice' \in {notice, Queued(notice, read.draft)}
           /\ automatic' = IF automatic < 2 THEN automatic + 1 ELSE 2
  \/ /\ request \notin Withdrawals
     /\ ~FirstPublication(read, request)
     /\ UNCHANGED mail

\* Fault variant: no version in the WHERE clause.
AnyRow(u) == Exists(doc)

\* Fault variant: the version is compared with the row just read.
SameAsRead(u) == Exists(doc) /\ doc.version = client[u].current.version

\* WHERE id = ... AND version = expectedVersion.
SameVersion(u) == Exists(doc) /\ doc.version = client[u].seen.version

CanUpdate(u) ==
  /\ client[u].phase = "tx"
  /\ Allowed(u, client[u].current, client[u].request)
  /\ SameVersion(u)
  /\ lock = Nobody

\* UPDATE and commit.  The page shows the new row, or its answer is lost.
Update(u) ==
  LET read == client[u].current
      request == client[u].request
      x == client[u].data
  IN /\ CanUpdate(u)
     /\ request # "delete"
     /\ doc.version < MaxVersion
     /\ doc' = Updated(doc, read, request, x)
     /\ Record(doc'.version, IF request \in Edits THEN x ELSE read.draft)
     /\ UpdateMail(read, request, client[u].delivery)
     /\ \E shown \in {doc', client[u].seen} :
          client' = [client EXCEPT ![u] =
                       [NoClient EXCEPT !.phase = "page", !.seen = shown]]
     /\ UNCHANGED <<lock, approved, retried>>

\* DELETE and commit: revisions and marker go with the row, mail jobs stay.
Delete(u) ==
  /\ CanUpdate(u)
  /\ client[u].request = "delete"
  /\ doc' = [NoDocument EXCEPT !.status = "deleted"]
  /\ revisions' = <<>>
  /\ UpdateMail(client[u].current, "delete", FALSE)
  /\ Idle(u)
  /\ UNCHANGED <<lock, approved, retried>>
-----------------------------------------------------------------------------
(* Manual pushes and the mail job they share with the automatic notice. *)

\* previewManualPush.
Preview(u) ==
  /\ client[u].phase \in {"away", "page"}
  /\ u \in Editors
  /\ Public(doc)
  /\ client' = [client EXCEPT ![u] =
                  [NoClient EXCEPT !.phase = "preview", !.seen = doc]]
  /\ UNCHANGED <<doc, revisions, mail, lock, approved, retried>>

\* Fault variant: the row is read without FOR UPDATE.
PushUnlocked(u) ==
  /\ client[u].phase = "preview"
  /\ lock = Nobody
  /\ Public(doc)
  /\ doc.published = client[u].seen.published
  /\ client' = [client EXCEPT ![u].phase = "locked", ![u].current = doc]
  /\ UNCHANGED <<doc, revisions, mail, lock, approved, retried>>

\* sendManualPush: SELECT ... FOR UPDATE finds the previewed snapshot.
PushLock(u) ==
  /\ client[u].phase = "preview"
  /\ lock = Nobody
  /\ Public(doc)
  /\ doc.published = client[u].seen.published
  /\ lock' = u
  /\ client' = [client EXCEPT ![u].phase = "locked", ![u].current = doc]
  /\ UNCHANGED <<doc, revisions, mail, approved, retried>>

\* queuePostSnapshot and commit.
PushQueue(u) ==
  /\ client[u].phase = "locked"
  /\ notice' = Queued(notice, client[u].current.published)
  /\ lock' = Nobody
  /\ Idle(u)
  /\ UNCHANGED <<doc, revisions, marker, automatic, approved, retried>>

\* The preview is closed, the snapshot has changed, or the push fails.
PushFails(u) ==
  /\ client[u].phase \in {"preview", "locked"}
  /\ lock' = IF client[u].phase = "locked" THEN Nobody ELSE lock
  /\ Idle(u)
  /\ UNCHANGED <<doc, revisions, mail, approved, retried>>

\* The outbox sends, suppresses or gives up the job.
MailSettles ==
  /\ notice.status = "open"
  /\ \E status \in {"closed", "failed"} :
       notice' = [notice EXCEPT !.status = status]
  /\ UNCHANGED <<doc, revisions, marker, automatic, lock, client, approved,
                 retried>>

\* retryMailJob, whatever has become of the post.
MailRetried ==
  /\ notice.status = "failed"
  /\ notice' = [notice EXCEPT !.status = "open"]
  /\ retried' = TRUE
  /\ UNCHANGED <<doc, revisions, marker, automatic, lock, client, approved>>

Next ==
  \/ \E u \in Users :
       \/ Load(u) \/ Begin(u) \/ Refuse(u) \/ Update(u) \/ Delete(u)
       \/ Preview(u) \/ PushLock(u) \/ PushQueue(u) \/ PushFails(u)
       \/ \E x \in Contents : Create(u, x)
       \/ \E request \in Edits \union Transitions, x \in Drafts,
             delivery \in BOOLEAN : Ask(u, request, x, delivery)
  \/ MailSettles \/ MailRetried

Spec == Init /\ [][Next]_vars
-----------------------------------------------------------------------------
(* Properties. *)

\* Whatever a request decided on the row it had read was right for the row it
\* changed: with any number of clients the document lives as if each of them
\* had worked alone, and every step leaves one revision, the draft it left.
Workflow == INSTANCE DocumentWorkflow WITH
  status <- doc.status, draft <- doc.draft, published <- doc.published,
  history <- revisions

ImplementsWorkflow == Workflow!WorkflowSpec

\* Visitors read only what an editor had in front of him when he asked for
\* its publication, even if the author saved in the meantime.
PublishedWasApproved ==
  doc.published # NoContent => doc.published \in approved

\* Nobody overwrites a draft he was not shown (documents.ts:297, 403, 469).
NothingUnseenIsOverwritten ==
  [][\A u \in Users :
       doc.draft # NoContent /\ doc'.draft # doc.draft /\ client'[u] # client[u]
         => client[u].seen.draft = doc.draft]_vars

\* What visitors see, and whether they see anything.
Visible(row) == IF Public(row) THEN row.published ELSE NoContent

\* An author never changes what visitors see, not even when an editor
\* publishes while the author's request is under way (internal.ts:60-62).
OnlyEditorsChangeThePublicView ==
  [][Visible(doc)' # Visible(doc) =>
       \E u \in Editors : client[u].phase = "tx" /\ client'[u].phase # "tx"]_vars

\* A republication never starts another automatic mailing, not even to those
\* who subscribed since and have no mail job about the post yet
\* (publication.ts:142-145).
AutomaticNoticeOnce == automatic <= 1

\* Withdrawing a post takes its open mail with it, which is what lets a worker
\* rely on its lease (MailOutbox!Revoke); only a retry can overtake it.
WithdrawalReachesMail ==
  [][Public(doc) /\ ~Public(doc)' => notice'.status # "open"]_vars

\* So mail is open only about a public post, unless it was retried by hand.
OpenMailIsPublic == notice.status = "open" => Public(doc) \/ retried

\* What is queued is what visitors read at that moment, also by a manual push
\* that was previewed earlier.
QueuedIsPublished ==
  [][notice.status = "none" /\ notice'.status = "open" =>
       Public(doc)' /\ notice'.content = doc'.published]_vars
=============================================================================
